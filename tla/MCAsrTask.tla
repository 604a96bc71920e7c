------------------------------ MODULE MCAsrTask ------------------------------
(* AsrTask for TLC: at most three turns of two speakers, anywhere around a    *)
(* segment of four frames, and one of an index AST v3 has no role for.         *)
EXTENDS AsrTask
MCTurns == {t \in [from : {-1, 1, 2}, to : {1, 3, 5}, who : {0, 1}] : t.from < t.to}
             \cup {[from |-> 0, to |-> 4, who |-> MaxSpeakers]}
MCTurnSets == {{x, y, z} : x \in MCTurns, y \in MCTurns, z \in MCTurns} \cup {{}}
==============================================================================
