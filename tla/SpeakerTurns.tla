---------------------------- MODULE SpeakerTurns -----------------------------
(***************************************************************************)
(* How a segment is cut by the speaker turns the sidecar reports            *)
(* (diarization/turns.py).  Times are relative to the start of the segment, *)
(* which is [0, length); turns may overlap, leave gaps and reach beyond it. *)
(***************************************************************************)
EXTENDS Integers, Sequences, SequencesExt, FiniteSets, FiniteSetsExt

CONSTANT MaxSpeakers        \* MAX_SPEAKERS: the roles AST v3 can name

ASSUME SpeakersAssumption == MaxSpeakers \in Nat

\* sorted() of a set of numbers: the k-th has k - 1 smaller ones.
Ascending(S) ==
    [k \in 1..Cardinality(S) |-> CHOOSE x \in S : Cardinality({y \in S : y < x}) = k - 1]

Larger(a, b) == IF a < b THEN b ELSE a
Smaller(a, b) == IF a < b THEN a ELSE b
Abs(a) == IF a < 0 THEN -a ELSE a

\* The turns that reach into the segment, and what of them lies in it.
Inside(turns, length) ==
    {t \in turns : t.who \in 0..MaxSpeakers - 1 /\ t.to > 0 /\ t.from < length}

Clipped(turns, length) ==
    {[t EXCEPT !.from = Larger(0, @), !.to = Smaller(length, @)] : t \in Inside(turns, length)}

Overlap(t, from, to) == Larger(0, Smaller(to, t.to) - Larger(from, t.from))

\* How long a speaker is heard in [from, to), overlapping turns counted twice:
\* once for each turn and unit of time.
Heard(inside, who, from, to) ==
    Cardinality({h \in inside \X (from..to - 1) :
                    h[1].who = who /\ h[1].from <= h[2] /\ h[2] < h[1].to})

\* _dominant_turn(): the most heard in the interval, then in the segment, then
\* the lowest index.
Dominates(inside, length, from, to, w, v) ==
    LET here(x)  == Heard(inside, x, from, to)
        total(x) == Heard(inside, x, 0, length)
    IN  \/ here(w) > here(v)
        \/ here(w) = here(v) /\ total(w) > total(v)
        \/ here(w) = here(v) /\ total(w) = total(v) /\ w <= v

\* A gap goes to the turn whose edge is nearest to its middle.
Distance(t, from, to) == Smaller(Abs(from + to - 2 * t.from), Abs(from + to - 2 * t.to))

NearestSpeaker(clipped, from, to) ==
    LET nearest == Min({Distance(t, from, to) : t \in clipped})
    IN  Min({t.who : t \in {t \in clipped : Distance(t, from, to) = nearest}})

SpeakerOf(turns, length, from, to) ==
    LET inside == Inside(turns, length)
        active == {t.who : t \in {t \in inside : Overlap(t, from, to) > 0}}
    IN  IF active = {} THEN NearestSpeaker(Clipped(turns, length), from, to)
        ELSE CHOOSE w \in active :
                \A v \in active : Dominates(inside, length, from, to, w, v)

\* _merge_adjacent(): a run of one speaker becomes one interval.
Merged(intervals) ==
    LET starts  == Ascending({i \in DOMAIN intervals :
                                 i = 1 \/ intervals[i].who # intervals[i - 1].who})
        last(k) == IF k = Len(starts) THEN Len(intervals) ELSE starts[k + 1] - 1
    IN  [k \in DOMAIN starts |-> [from |-> intervals[starts[k]].from,
                                  to   |-> intervals[last(k)].to,
                                  who  |-> intervals[starts[k]].who]]

Length(t) == t.to - t.from
Short(intervals, minimum) == {i \in DOMAIN intervals : Length(intervals[i]) < minimum}

\* A short interval goes to its longer neighbour, the left one when they tie.
Target(intervals, i) ==
    IF i = 1 THEN 2
    ELSE IF i = Len(intervals) \/ Length(intervals[i - 1]) >= Length(intervals[i + 1])
         THEN i - 1
         ELSE i + 1

AbsorbFirst_Discards(intervals, minimum) ==
    IF Len(intervals) <= 1 \/ Short(intervals, minimum) = {} THEN intervals
    ELSE Merged(RemoveAt(intervals, Min(Short(intervals, minimum))))
AbsorbFirst(intervals, minimum) ==
    IF Len(intervals) <= 1 \/ Short(intervals, minimum) = {} THEN intervals
    ELSE LET i == Min(Short(intervals, minimum))
             low == Smaller(i, Target(intervals, i))
             both == [from |-> intervals[low].from, to |-> intervals[low + 1].to,
                      who |-> intervals[Target(intervals, i)].who]
         IN  Merged(SubSeq(intervals, 1, low - 1) \o <<both>>
                      \o SubSeq(intervals, low + 2, Len(intervals)))

\* The loop of _normalize_turns(): every round shortens the list.
Absorbed(intervals, minimum) ==
    LET after[n \in Nat] == IF n = 0 THEN intervals ELSE AbsorbFirst(after[n - 1], minimum)
    IN  after[Len(intervals)]

\* _normalize_turns()
Normalized(turns, length, minimum) ==
    LET clipped == Clipped(turns, length)
        edges   == {0, length} \cup {t.from : t \in clipped} \cup {t.to : t \in clipped}
        ordered == Ascending(edges)
        raw     == [k \in 1..Len(ordered) - 1 |->
                      [from |-> ordered[k], to |-> ordered[k + 1],
                       who  |-> SpeakerOf(turns, length, ordered[k], ordered[k + 1])]]
    IN  IF clipped = {} THEN <<>> ELSE Absorbed(Merged(raw), minimum)

Nobody == -1

\* split_segment_by_speaker(); without usable turns the segment stays whole.
Split(turns, length, minimum) ==
    LET parts == Normalized(turns, length, minimum)
    IN  IF parts = <<>> THEN <<[from |-> 0, to |-> length, who |-> Nobody]>> ELSE parts
==============================================================================
