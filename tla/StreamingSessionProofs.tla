----------------------- MODULE StreamingSessionProofs -----------------------
(***************************************************************************)
(* Order, draining and answers of a streaming session, for any queue size, *)
(* any number of utterances, updates and partials: proofs over             *)
(* StreamingSession.                                                       *)
(*                                                                         *)
(* The argument: finals on the wire, the segment in the work loop's hands, *)
(* the queue and the open utterance of the VAD form one increasing chain.  *)
(***************************************************************************)
EXTENDS StreamingSession, TLAPS

\* An utterance that has been cut: not the open one.
Cut(u) == u <= utt /\ (speaking => u < utt)

\* The queue holds cut utterances in increasing order, then perhaps the sentinel.
QueueInv ==
  /\ speaking => utt # 0
  /\ \A i \in DOMAIN queue :
       /\ Cut(queue[i].utt)
       /\ queue[i].utt = 0 => recv \in {"done", "failed"}
       /\ queue[i].utt # 0 => queue[i].hot = cutHot[queue[i].utt]
  /\ \A i, k \in DOMAIN queue : i < k =>
       queue[i].utt # 0 /\ (queue[k].utt # 0 => queue[i].utt < queue[k].utt)

\* The segment being answered comes before those in the queue.
ItemInv ==
  work = "inferring" =>
    /\ item.utt # 0 /\ Cut(item.utt)
    /\ item.hot = cutHot[item.utt]
    /\ \A i \in DOMAIN queue : queue[i].utt # 0 => item.utt < queue[i].utt

\* The finals on the wire come before it.
FinalInv ==
  /\ FinalsInOrder
  /\ HotwordsOfTheCut
  /\ \A i \in Sent("final") :
       /\ Cut(wire[i].utt)
       /\ work \in {"idle", "inferring"} =>
            /\ wire[i].utt # 0
            /\ \A k \in DOMAIN queue : queue[k].utt # 0 => wire[i].utt < queue[k].utt
       /\ work = "inferring" => wire[i].utt < item.utt
  /\ work # "done" /\ ~sentAny => Sent("final") = {}

\* At most one partial is in flight, and none behind the last one sent.
PartialInv ==
  /\ PartialsInOrder
  /\ \A p, q \in partials : p = q
  /\ \A p \in partials : p <= utt
  /\ \A i \in Sent("partial") :
       wire[i].utt <= utt /\ \A p \in partials : wire[i].utt <= p

\* The work loop stops early only when a send has failed.
DrainInv ==
  /\ work \in {"stopping", "done"} /\ ~wsClosed => queue = <<>> /\ recv \in {"done", "failed"}
  /\ main # "running" => LoopsReturned

AnswerInv ==
  /\ sentAny => Sent("final") # {}
  /\ work = "done" /\ ~wsClosed /\ stopped /\ endpoint = "transcribe"
       => Sent("final") \cup Sent("error") # {}

TerminalInv ==
  /\ Sent("terminal") # {} => main # "running"
  /\ FinalsBeforeTerminal

SessionInv ==
  /\ TypeOK /\ QueueInv /\ ItemInv /\ FinalInv /\ PartialInv
  /\ DrainInv /\ AnswerInv /\ TerminalInv
-----------------------------------------------------------------------------
(* Sequences, queue and wire. *)

\* t is s followed by x.
Extended(s, t, x) ==
  /\ DOMAIN s = 1..Len(s) /\ DOMAIN t = 1..(Len(s) + 1)
  /\ Len(s) \in Nat /\ Len(t) = Len(s) + 1
  /\ t[Len(s) + 1] = x
  /\ \A i \in 1..Len(s) : t[i] = s[i]

\* Append adds one element at the end and keeps the others where they are.
LEMMA AppendExtends ==
  ASSUME NEW S, NEW s \in Seq(S), NEW x \in S
  PROVE  Append(s, x) \in Seq(S) /\ Extended(s, Append(s, x), x)
  BY DEF Extended

Items == Segments \cup {SENTINEL}

\* Only the sentinel has utterance 0.
LEMMA ItemTypes ==
  /\ \A x \in Items : x.utt \in Nat /\ (x.utt = 0 <=> x = SENTINEL)
  /\ \A x \in Items : x.utt \in 0..MaxUtterances /\ x.hot \in 0..MaxUpdates
  /\ \A x \in Items : x.utt # 0 => x.utt \in Utterances
  /\ SENTINEL \in Items /\ SENTINEL.utt = 0
  BY SessionAssumption DEF Items, Segments, SENTINEL, Utterances

\* Positions and utterances of the frames on the wire are numbers.
LEMMA WireTyped ==
  ASSUME TypeOK
  PROVE  \A i \in DOMAIN wire : i \in Nat /\ wire[i] \in Frames /\ wire[i].utt \in 0..MaxUtterances
<1>1. wire \in Seq(Frames)
  BY DEF TypeOK, WireTypes
<1>2. \A i \in DOMAIN wire : i \in Nat /\ wire[i] \in Frames
  BY <1>1
<1>3. \A f \in Frames : f.utt \in 0..MaxUtterances
  BY DEF Frames
<1> QED
  BY <1>2, <1>3

\* A cut utterance enters the queue with the live hotwords, or is dropped.
LEMMA EnqueueEffect ==
  ASSUME TypeOK, NEW u \in Utterances, EnqueueSegment(u)
  PROVE  /\ queue' \in Seq(Items) /\ Len(queue') <= QueueMax
         /\ cutHot' \in [Utterances -> 0..MaxUpdates]
         /\ \/ UNCHANGED <<queue, cutHot>>
            \/ /\ Extended(queue, queue', [utt |-> u, hot |-> hot])
               /\ cutHot' = [cutHot EXCEPT ![u] = hot]
<1>1. queue \in Seq(Items) /\ [utt |-> u, hot |-> hot] \in Items /\ Len(queue) \in Nat
  BY DEF TypeOK, StreamTypes, QueueTypes, WireTypes, Items, Segments
<1>2. CASE Len(queue) < QueueMax
  <2>1. queue' \in Seq(Items) /\ Extended(queue, queue', [utt |-> u, hot |-> hot])
    <3>1. queue' = Append(queue, [utt |-> u, hot |-> hot])
      BY <1>2 DEF EnqueueSegment
    <3>2. /\ Append(queue, [utt |-> u, hot |-> hot]) \in Seq(Items)
          /\ Extended(queue, Append(queue, [utt |-> u, hot |-> hot]), [utt |-> u, hot |-> hot])
      BY <1>1, AppendExtends, Zenon
    <3> QED
      BY <3>1, <3>2
  <2>2. Len(queue') <= QueueMax
    BY <1>1, <1>2, <2>1, SessionAssumption DEF Extended
  <2>3. /\ cutHot' = [cutHot EXCEPT ![u] = hot]
        /\ cutHot' \in [Utterances -> 0..MaxUpdates]
    BY <1>2 DEF EnqueueSegment, TypeOK, StreamTypes, QueueTypes, WireTypes
  <2> QED
    BY <2>1, <2>2, <2>3
<1>3. CASE ~(Len(queue) < QueueMax)
  BY <1>1, <1>3 DEF EnqueueSegment, TypeOK, StreamTypes, QueueTypes, WireTypes
<1> QED
  BY <1>2, <1>3

\* A send puts its frame at the end of the wire, or marks the socket closed.
LEMMA SendEffect ==
  ASSUME TypeOK, NEW f \in Frames, SendWire(f)
  PROVE  /\ wire' \in Seq(Frames) /\ wsClosed' \in BOOLEAN
         /\ \/ ~SendSucceeds /\ wire' = wire /\ wsClosed' = TRUE
            \/ SendSucceeds /\ Extended(wire, wire', f) /\ wsClosed' = wsClosed
<1>1. wire \in Seq(Frames)
  BY DEF TypeOK, StreamTypes, QueueTypes, WireTypes
<1> QED
  BY <1>1, AppendExtends DEF SendWire, TypeOK, StreamTypes, QueueTypes, WireTypes

\* How a frame changes the positions of the frames of each kind.
LEMMA SentExtended ==
  ASSUME TypeOK, NEW f \in Frames, Extended(wire, wire', f), NEW k
  PROVE  /\ \A i \in Sent(k) : i \in Sent(k)' /\ wire'[i] = wire[i] /\ i < Len(wire')
         /\ \A i \in Sent(k)' : i \in Sent(k) \/ (i = Len(wire') /\ f.kind = k)
         /\ f.kind = k => Len(wire') \in Sent(k)'
         /\ wire'[Len(wire')] = f
         /\ Len(wire') \in Nat
  BY DEF Extended, Sent, TypeOK, StreamTypes, QueueTypes, WireTypes
\* flush(force=True) cuts the open utterance, if there is one.
LEMMA FlushEffect ==
  ASSUME TypeOK, QueueInv, FlushStream
  PROVE  /\ speaking' = FALSE
         /\ queue' \in Seq(Items) /\ Len(queue') <= QueueMax
         /\ cutHot' \in [Utterances -> 0..MaxUpdates]
         /\ \/ UNCHANGED <<queue, cutHot>>
            \/ /\ speaking /\ utt \in Utterances
               /\ Extended(queue, queue', [utt |-> utt, hot |-> hot])
               /\ cutHot' = [cutHot EXCEPT ![utt] = hot]
<1>1. CASE speaking
  <2>1. utt \in Utterances
    BY <1>1, SessionAssumption DEF QueueInv, TypeOK, StreamTypes, QueueTypes, WireTypes, Utterances
  <2> QED
    BY <1>1, <2>1, EnqueueEffect DEF FlushStream
<1>2. CASE ~speaking
  <2>1. speaking' = FALSE /\ UNCHANGED <<queue, cutHot>>
    BY <1>2 DEF FlushStream, history
  <2> QED
    BY <2>1 DEF TypeOK, QueueTypes, Items
<1> QED
  BY <1>1, <1>2 DEF TypeOK, StreamTypes, QueueTypes, WireTypes

-----------------------------------------------------------------------------
(* The initial state. *)

\* A new connection satisfies the invariant: nothing queued, nothing sent.
LEMMA SessionInit == Init => SessionInv
<1> SUFFICES ASSUME Init PROVE SessionInv
  OBVIOUS
<1>1. TypeOK
  <2>1. ClientTypes
    <3>1. rejects \in 0..MaxRejects
      BY SessionAssumption DEF Init
    <3>2. /\ endpoint \in Endpoints
          /\ connected \in BOOLEAN /\ started \in BOOLEAN /\ stopped \in BOOLEAN /\ suppressed \in BOOLEAN
      BY Zenon DEF Init
    <3> QED
      BY <3>1, <3>2 DEF ClientTypes
  <2>2. TaskTypes
    BY DEF Init, TaskTypes
  <2>3. StreamTypes
    <3>1. utt \in 0..MaxUtterances /\ hot \in 0..MaxUpdates /\ launched \in 0..MaxPartials
      BY SessionAssumption DEF Init
    <3>2. speaking \in BOOLEAN /\ partials \subseteq Utterances
      BY Zenon DEF Init
    <3> QED
      BY <3>1, <3>2 DEF StreamTypes
  <2>4. QueueTypes
    <3>1. queue \in Seq(Segments \cup {SENTINEL}) /\ Len(queue) <= QueueMax
      BY SessionAssumption DEF Init
    <3>2. cutHot \in [Utterances -> 0..MaxUpdates]
      BY SessionAssumption DEF Init
    <3> QED
      BY <3>1, <3>2 DEF Init, QueueTypes
  <2>5. WireTypes
    <3>1. wire \in Seq(Frames)
      BY DEF Init
    <3>2. wsClosed \in BOOLEAN
      BY Zenon DEF Init
    <3> QED
      BY <3>1, <3>2 DEF WireTypes
  <2> QED
    BY <2>1, <2>2, <2>3, <2>4, <2>5 DEF TypeOK
<1>2. Sent("final") = {} /\ Sent("partial") = {} /\ Sent("terminal") = {} /\ DOMAIN queue = {}
  BY DEF Init, Sent
<1>3. QueueInv /\ ItemInv /\ FinalInv /\ PartialInv /\ DrainInv /\ AnswerInv /\ TerminalInv
  BY <1>2
  DEF Init, QueueInv, ItemInv, FinalInv, FinalsInOrder, HotwordsOfTheCut, PartialInv, PartialsInOrder,
      DrainInv, AnswerInv, TerminalInv, FinalsBeforeTerminal
<1> QED
  BY <1>1, <1>3 DEF SessionInv

\* Every frame an action builds is a frame.
LEMMA FrameTypes ==
  ASSUME TypeOK, NEW k \in {"final", "error", "partial", "terminal"}
  PROVE  /\ Frame(k, 0, 0) \in Frames
         /\ Frame(k, item.utt, item.hot) \in Frames /\ Frame(k, item.utt, 0) \in Frames
         /\ \A u \in Utterances : Frame(k, u, 0) \in Frames
<1>1. item.utt \in 0..MaxUtterances /\ item.hot \in 0..MaxUpdates
  BY ItemTypes DEF TypeOK, StreamTypes, QueueTypes, WireTypes, Items
<1> QED
  BY <1>1, SessionAssumption DEF Frame, Frames, Utterances

\* The work loop takes the head of the queue; the rest moves up.
LEMMA TakeItemEffect ==
  ASSUME TypeOK, TakeItem
  PROVE  /\ item' = queue[1] /\ item' \in Items /\ 1 \in DOMAIN queue
         /\ queue' \in Seq(Items) /\ Len(queue') <= QueueMax /\ Len(queue') = Len(queue) - 1
         /\ \A i \in DOMAIN queue' : i + 1 \in DOMAIN queue /\ queue'[i] = queue[i + 1] /\ i \in Nat \ {0}
         /\ work' = IF item'.utt = 0 THEN "stopping" ELSE "inferring"
<1>1. queue \in Seq(Items) /\ queue # <<>> /\ queue' = Tail(queue) /\ item' = Head(queue)
  BY DEF TakeItem, TypeOK, StreamTypes, QueueTypes, WireTypes, Items
<1>2. Len(queue) \in Nat \ {0} /\ Len(queue) <= QueueMax /\ DOMAIN queue = 1..Len(queue)
  BY <1>1 DEF TypeOK, StreamTypes, QueueTypes, WireTypes
<1>3. item' = queue[1] /\ queue[1] \in Items
  BY <1>1, <1>2
<1>4. queue' \in Seq(Items) /\ Len(queue') = Len(queue) - 1
  BY <1>1, <1>2
<1>5. \A i \in DOMAIN queue' : i + 1 \in DOMAIN queue /\ queue'[i] = queue[i + 1] /\ i \in Nat \ {0}
  BY <1>1, <1>2, <1>4
<1>6. work' = IF item'.utt = 0 THEN "stopping" ELSE "inferring"
  BY <1>1, <1>3, ItemTypes DEF TakeItem
<1> QED
  BY <1>2, <1>3, <1>4, <1>5, <1>6, SessionAssumption

\* Which actions touch the queue.
LEMMA QueueUnchanged ==
  ASSUME Next
  PROVE  \/ ReceiveStop \/ ReceiveDisconnect \/ ReceiveRaises \/ SpeechEnds \/ PutSentinel \/ TakeItem
         \/ UNCHANGED <<queue, item, cutHot>>
<1>1. CASE Receive
  BY <1>1
  DEF Receive, ReceiveStart, ReceiveBadStart, ReceiveErrorControl, ReceiveUpdateHotwords,
      SpeechBegins, LaunchPartial, history
<1>2. CASE Work
  BY <1>2 DEF Work, Answer, AnswerFinal, AnswerNothing, AnswerError, OnStop, history
<1>3. CASE (\E u \in Utterances : PartialReturns(u)) \/ EmitTerminal \/ Cleanup \/ ClientLeaves
  BY <1>3 DEF PartialReturns, EmitTerminal, Cleanup, ClientLeaves, history
<1> QED
  BY <1>1, <1>2, <1>3 DEF Next

\* Which actions send, and what.
LEMMA WireEffect ==
  ASSUME TypeOK, Next
  PROVE  \/ UNCHANGED <<wire, wsClosed>>
         \/ \E f \in Frames :
              /\ SendWire(f)
              /\ \/ f.kind = "error"
                 \/ f.kind = "final" /\ (AnswerFinal \/ OnStop)
                 \/ f.kind = "partial" /\ (\E u \in Utterances : f.utt = u /\ PartialReturns(u))
                 \/ f.kind = "terminal" /\ EmitTerminal
<1>1. CASE ReceiveBadStart \/ ReceiveErrorControl \/ AnswerError
  <2>1. PICK f \in {Frame("error", 0, 0), Frame("error", item.utt, 0)} : SendWire(f)
    BY <1>1 DEF ReceiveBadStart, ReceiveErrorControl, AnswerError
  <2> QED
    BY <2>1, FrameTypes DEF Frame
<1>2. CASE AnswerFinal
  BY <1>2, FrameTypes DEF AnswerFinal, Frame
<1>3. CASE OnStop
  BY <1>3, FrameTypes DEF OnStop, SendNothing, Frame
<1>4. ASSUME NEW u \in Utterances, PartialReturns(u)
      PROVE  \/ UNCHANGED <<wire, wsClosed>>
             \/ \E f \in Frames : SendWire(f) /\ f.kind = "partial" /\ f.utt = u
  BY <1>4, FrameTypes DEF PartialReturns, SendNothing, Frame
<1>5. CASE EmitTerminal
  BY <1>5, FrameTypes DEF EmitTerminal, SendNothing, Frame
<1>6. CASE Receive /\ ~ReceiveBadStart /\ ~ReceiveErrorControl
  BY <1>6
  DEF Receive, ReceiveStart, ReceiveUpdateHotwords, SpeechBegins, LaunchPartial, SpeechEnds,
      ReceiveStop, ReceiveDisconnect, ReceiveRaises, PutSentinel
<1>7. CASE TakeItem \/ AnswerNothing \/ Cleanup \/ ClientLeaves
  BY <1>7 DEF TakeItem, AnswerNothing, Cleanup, ClientLeaves
<1> QED
  BY <1>1, <1>2, <1>3, <1>4, <1>5, <1>6, <1>7 DEF Next, Work, Answer

-----------------------------------------------------------------------------
(* Types. *)

\* Every step keeps the client's state well-typed.
LEMMA ClientTypesStep == ASSUME TypeOK, Next PROVE ClientTypes'
<1>1. wire \in Seq(Frames) /\ Len(wire) \in Nat
  BY DEF TypeOK, WireTypes
<1>2. CASE Receive
  <2>1. CASE ReceiveStart \/ ReceiveErrorControl
    BY <2>1 DEF TypeOK, ClientTypes, ReceiveStart, ReceiveErrorControl
  <2>2. CASE ReceiveBadStart
    BY <2>2, SessionAssumption DEF TypeOK, ClientTypes, ReceiveBadStart
  <2>3. CASE ReceiveStop
    BY <1>1, <2>3 DEF TypeOK, ClientTypes, ReceiveStop
  <2>4. CASE UNCHANGED client
    BY <2>4 DEF TypeOK, ClientTypes, client
  <2> QED
    BY <1>2, <2>1, <2>2, <2>3, <2>4
    DEF Receive, ReceiveUpdateHotwords, SpeechBegins, LaunchPartial, SpeechEnds,
        ReceiveDisconnect, ReceiveRaises, PutSentinel
<1>3. CASE Work
  BY <1>3
  DEF TypeOK, ClientTypes, Work, TakeItem, Answer, AnswerFinal, AnswerNothing, AnswerError,
      OnStop, client
<1>4. CASE (\E u \in Utterances : PartialReturns(u)) \/ EmitTerminal \/ Cleanup \/ ClientLeaves
  BY <1>4 DEF TypeOK, ClientTypes, PartialReturns, EmitTerminal, Cleanup, ClientLeaves, client
<1> QED
  BY <1>2, <1>3, <1>4 DEF Next

\* Every step keeps the tasks well-typed.
LEMMA TaskTypesStep == ASSUME TypeOK, Next PROVE TaskTypes'
<1>1. CASE Receive
  BY <1>1
  DEF TypeOK, TaskTypes, Receive, ReceiveStart, ReceiveBadStart, ReceiveErrorControl,
      ReceiveUpdateHotwords, SpeechBegins, LaunchPartial, SpeechEnds, ReceiveStop,
      ReceiveDisconnect, ReceiveRaises, PutSentinel
<1>2. CASE Work
  <2>1. recv' = recv /\ main' = main /\ work' \in {"idle", "inferring", "stopping", "done"}
    BY <1>2 DEF Work, TakeItem, Answer, AnswerFinal, AnswerNothing, AnswerError, OnStop
  <2>2. sentAny' \in BOOLEAN
    BY <1>2
    DEF TypeOK, TaskTypes, Work, TakeItem, Answer, AnswerFinal, AnswerNothing, AnswerError, OnStop,
        SendSucceeds
  <2> QED
    BY <2>1, <2>2 DEF TypeOK, TaskTypes
<1>3. CASE (\E u \in Utterances : PartialReturns(u)) \/ EmitTerminal \/ Cleanup \/ ClientLeaves
  BY <1>3 DEF TypeOK, TaskTypes, PartialReturns, EmitTerminal, Cleanup, ClientLeaves
<1> QED
  BY <1>1, <1>2, <1>3 DEF Next

\* Every step keeps the audio stream well-typed.
LEMMA StreamTypesStep == ASSUME TypeOK, QueueInv, Next PROVE StreamTypes'
<1>1. CASE Receive
  <2>1. CASE ReceiveUpdateHotwords
    BY <2>1, SessionAssumption DEF TypeOK, StreamTypes, ReceiveUpdateHotwords
  <2>2. CASE SpeechBegins
    BY <2>2, SessionAssumption DEF TypeOK, StreamTypes, SpeechBegins
  <2>3. CASE LaunchPartial
    <3>1. utt \in Utterances
      BY <2>3, SessionAssumption DEF LaunchPartial, QueueInv, TypeOK, StreamTypes, Utterances
    <3>2. launched' \in 0..MaxPartials /\ partials' \subseteq Utterances
      BY <2>3, <3>1, SessionAssumption DEF LaunchPartial, TypeOK, StreamTypes
    <3> QED
      BY <2>3, <3>2 DEF TypeOK, StreamTypes, LaunchPartial
  <2>4. CASE UNCHANGED <<utt, hot, launched, partials>> /\ speaking' = FALSE
    BY <2>4 DEF TypeOK, StreamTypes
  <2>5. CASE UNCHANGED <<utt, hot, launched, partials, speaking>>
    BY <2>5 DEF TypeOK, StreamTypes
  <2> QED
    BY <1>1, <2>1, <2>2, <2>3, <2>4, <2>5
    DEF Receive, ReceiveStart, ReceiveBadStart, ReceiveErrorControl, SpeechEnds, ReceiveStop,
        ReceiveDisconnect, ReceiveRaises, PutSentinel, FlushStream, stream
<1>2. CASE Work
  BY <1>2
  DEF TypeOK, StreamTypes, Work, TakeItem, Answer, AnswerFinal, AnswerNothing, AnswerError,
      OnStop, stream
<1>3. CASE (\E u \in Utterances : PartialReturns(u)) \/ EmitTerminal \/ Cleanup \/ ClientLeaves
  BY <1>3 DEF TypeOK, StreamTypes, PartialReturns, EmitTerminal, Cleanup, ClientLeaves, stream
<1> QED
  BY <1>1, <1>2, <1>3 DEF Next

\* Every step keeps the queue well-typed and within its bound.
LEMMA QueueTypesStep == ASSUME TypeOK, QueueInv, Next PROVE QueueTypes'
<1>1. QueueTypes
  BY DEF TypeOK
<1>2. CASE ReceiveStop \/ ReceiveDisconnect \/ ReceiveRaises
  <2>1. FlushStream /\ item' = item
    BY <1>2 DEF ReceiveStop, ReceiveDisconnect, ReceiveRaises
  <2> QED
    BY <1>1, <2>1, FlushEffect DEF QueueTypes, Items
<1>3. CASE SpeechEnds
  <2>1. utt \in Utterances
    BY <1>3, SessionAssumption DEF SpeechEnds, QueueInv, TypeOK, StreamTypes, Utterances
  <2>2. EnqueueSegment(utt) \/ UNCHANGED <<queue, cutHot>>
    BY <1>3 DEF SpeechEnds, history
  <2>3. item' = item
    BY <1>3 DEF SpeechEnds
  <2> QED
    BY <1>1, <2>1, <2>2, <2>3, EnqueueEffect DEF QueueTypes, Items
<1>4. CASE PutSentinel
  <2>1. queue' \in Seq(Items) /\ Extended(queue, queue', SENTINEL)
    BY <1>1, <1>4, AppendExtends, ItemTypes DEF PutSentinel, QueueTypes, Items
  <2>2. Len(queue') <= QueueMax
    BY <1>4, <2>1, SessionAssumption DEF PutSentinel, Extended
  <2> QED
    BY <1>1, <1>4, <2>1, <2>2 DEF QueueTypes, PutSentinel, Items, history
<1>5. CASE TakeItem
  BY <1>1, <1>5, TakeItemEffect DEF QueueTypes, TakeItem, Items, history
<1>6. CASE UNCHANGED <<queue, item, cutHot>>
  BY <1>1, <1>6 DEF QueueTypes
<1> QED
  BY <1>2, <1>3, <1>4, <1>5, <1>6, QueueUnchanged

\* Every step keeps the wire well-typed.
LEMMA WireTypesStep == ASSUME TypeOK, Next PROVE WireTypes'
  BY WireEffect, SendEffect DEF TypeOK, WireTypes

\* Every step preserves the type invariant.
LEMMA TypeStep == ASSUME TypeOK, QueueInv, Next PROVE TypeOK'
  BY ClientTypesStep, TaskTypesStep, StreamTypesStep, QueueTypesStep, WireTypesStep DEF TypeOK
-----------------------------------------------------------------------------
(* The chain of finals, segment in hand, queue and open utterance. *)

chain == <<queue, utt, speaking, work, item, sentAny, cutHot>>

\* An utterance is cut: queued, or dropped.
CutStep ==
  /\ recv = "receiving" /\ recv' \in {"receiving", "closing", "failing"}
  /\ utt' = utt /\ speaking' = FALSE
  /\ UNCHANGED <<work, item, sentAny, wire, wsClosed, partials, main, hot>>
  /\ \/ UNCHANGED <<queue, cutHot>>
     \/ /\ speaking /\ utt \in Utterances
        /\ Extended(queue, queue', [utt |-> utt, hot |-> hot])
        /\ cutHot' = [cutHot EXCEPT ![utt] = hot]

\* The finals of the wire stay as they are.
FinalsKept ==
  /\ Sent("final")' = Sent("final")
  /\ \A i \in Sent("final") : wire'[i] = wire[i]

\* A frame of another kind leaves the finals as they are.
LEMMA KeepsFinals ==
  ASSUME TypeOK,
         \/ UNCHANGED wire
         \/ \E f \in Frames : f.kind # "final" /\ SendWire(f)
  PROVE  FinalsKept
<1>1. CASE UNCHANGED wire
  BY <1>1 DEF FinalsKept, Sent
<1>2. ASSUME NEW f \in Frames, f.kind # "final", SendWire(f) PROVE FinalsKept
  <2>1. CASE wire' = wire
    BY <2>1 DEF FinalsKept, Sent
  <2>2. CASE Extended(wire, wire', f)
    BY <1>2, <2>2, SentExtended DEF FinalsKept
  <2> QED
    BY <1>2, <2>1, <2>2, SendEffect
<1> QED
  BY <1>1, <1>2

\* What a step does to the chain.
LEMMA ChainCases ==
  ASSUME TypeOK, QueueInv, Next
  PROVE  \/ CutStep
         \/ SpeechBegins
         \/ PutSentinel
         \/ TakeItem
         \/ Answer \/ OnStop
         \/ UNCHANGED chain /\ FinalsKept /\ (recv' = recv \/ (recv = "receiving" /\ recv' = "closing"))
<1>1. CASE ReceiveStop \/ ReceiveDisconnect \/ ReceiveRaises
  BY <1>1, FlushEffect DEF CutStep, ReceiveStop, ReceiveDisconnect, ReceiveRaises, client
<1>2. CASE SpeechEnds
  <2>1. utt \in Utterances
    BY <1>2, SessionAssumption DEF SpeechEnds, QueueInv, TypeOK, StreamTypes, Utterances
  <2>2. \/ UNCHANGED <<queue, cutHot>>
        \/ /\ Extended(queue, queue', [utt |-> utt, hot |-> hot])
           /\ cutHot' = [cutHot EXCEPT ![utt] = hot]
    BY <1>2, <2>1, EnqueueEffect DEF SpeechEnds, history
  <2> QED
    BY <1>2, <2>1, <2>2 DEF CutStep, SpeechEnds, AcceptsPcm
<1>3. CASE ReceiveStart \/ ReceiveUpdateHotwords \/ LaunchPartial \/ Cleanup \/ ClientLeaves
  BY <1>3, KeepsFinals
  DEF ReceiveStart, ReceiveUpdateHotwords, LaunchPartial, Cleanup, ClientLeaves, chain, stream, history
<1>4. CASE ReceiveBadStart \/ ReceiveErrorControl
  <2>1. SendWire(Frame("error", 0, 0)) /\ Frame("error", 0, 0).kind # "final"
    BY <1>4 DEF ReceiveBadStart, ReceiveErrorControl, Frame
  <2> QED
    BY <1>4, <2>1, KeepsFinals, FrameTypes DEF ReceiveBadStart, ReceiveErrorControl, chain, stream, history
<1>5. ASSUME NEW u \in Utterances, PartialReturns(u)
      PROVE  UNCHANGED chain /\ FinalsKept /\ recv' = recv
  <2>1. Frame("partial", u, 0) \in Frames /\ Frame("partial", u, 0).kind # "final"
    BY FrameTypes DEF Frame
  <2>2. FinalsKept
    BY <1>5, <2>1, KeepsFinals DEF PartialReturns, SendNothing
  <2> QED
    BY <1>5, <2>2 DEF PartialReturns, chain, stream, history
<1>6. CASE EmitTerminal
  <2>1. Frame("terminal", 0, 0) \in Frames /\ Frame("terminal", 0, 0).kind # "final"
    BY FrameTypes DEF Frame
  <2>2. FinalsKept
    BY <1>6, <2>1, KeepsFinals DEF EmitTerminal, SendNothing
  <2> QED
    BY <1>6, <2>2 DEF EmitTerminal, chain, stream, history
<1> QED
  BY <1>1, <1>2, <1>3, <1>4, <1>5, <1>6 DEF Next, Receive, Work

\* Every step keeps the queue in the order of speech, with its sentinel last.
LEMMA QueueInvStep == ASSUME TypeOK, QueueInv, Next PROVE QueueInv'
<1>0. /\ utt \in Nat /\ DOMAIN queue = 1..Len(queue) /\ Len(queue) \in Nat
      /\ \A i \in DOMAIN queue : queue[i] \in Items
      /\ cutHot \in [Utterances -> 0..MaxUpdates]
  BY DEF TypeOK, StreamTypes, QueueTypes, Items
<1>1. CASE CutStep /\ UNCHANGED <<queue, cutHot>>
  BY <1>0, <1>1 DEF CutStep, QueueInv, Cut
<1>2. CASE CutStep /\ ~UNCHANGED <<queue, cutHot>>
  <2>1. /\ speaking /\ utt \in Utterances /\ speaking' = FALSE /\ utt' = utt
        /\ Extended(queue, queue', [utt |-> utt, hot |-> hot])
        /\ cutHot' = [cutHot EXCEPT ![utt] = hot]
        /\ \A i \in DOMAIN queue : queue[i].utt # 0 /\ queue[i].utt < utt
    BY <1>2 DEF CutStep, QueueInv, Cut
  <2>2. utt # 0 /\ cutHot'[utt] = hot
    BY <1>0, <2>1 DEF Utterances
  <2>3. \A i \in DOMAIN queue' : i \in DOMAIN queue \/ i = Len(queue) + 1
    BY <2>1 DEF Extended
  <2>4. \A i \in DOMAIN queue : queue'[i] = queue[i] /\ i < Len(queue) + 1
    BY <2>1 DEF Extended
  <2>5. queue'[Len(queue) + 1] = [utt |-> utt, hot |-> hot]
    BY <2>1 DEF Extended
  <2>6. \A i \in DOMAIN queue : cutHot'[queue[i].utt] = cutHot[queue[i].utt]
    BY <1>0, <2>1, ItemTypes
  <2>7. ASSUME NEW i \in DOMAIN queue'
        PROVE  queue'[i].utt # 0 /\ queue'[i].utt <= utt /\ queue'[i].hot = cutHot'[queue'[i].utt]
    <3>1. CASE i \in DOMAIN queue
      <4>1. queue'[i] = queue[i] /\ queue[i].utt \in Nat
        BY <1>0, <2>4, <3>1, ItemTypes
      <4>2. queue[i].utt # 0 /\ queue[i].utt < utt /\ queue[i].hot = cutHot[queue[i].utt]
        BY <2>1, <3>1 DEF QueueInv
      <4> QED
        BY <1>0, <2>6, <3>1, <4>1, <4>2
    <3>2. CASE i = Len(queue) + 1
      BY <1>0, <2>2, <2>5, <3>2
    <3> QED
      BY <2>3, <3>1, <3>2
  <2>8. \A i, k \in DOMAIN queue' : i < k => queue'[i].utt < queue'[k].utt
    BY <1>0, <2>1, <2>3, <2>4, <2>5 DEF QueueInv
  <2> QED
    BY <2>1, <2>7, <2>8 DEF QueueInv, Cut
<1>3. CASE SpeechBegins
  BY <1>0, <1>3, ItemTypes DEF SpeechBegins, QueueInv, Cut, history
<1>4. CASE PutSentinel
  <2>1. Extended(queue, queue', SENTINEL)
    BY <1>4, AppendExtends, ItemTypes DEF PutSentinel, TypeOK, QueueTypes, Items
  <2>2. UNCHANGED <<utt, speaking, cutHot>> /\ recv' \in {"done", "failed"} /\ recv \notin {"done", "failed"}
    BY <1>4 DEF PutSentinel, stream, history
  <2>3. \A i \in DOMAIN queue' : i \in DOMAIN queue \/ i = Len(queue) + 1
    BY <2>1 DEF Extended
  <2>4. \A i \in DOMAIN queue : queue'[i] = queue[i] /\ i < Len(queue) + 1 /\ queue[i].utt # 0
    BY <2>1, <2>2 DEF Extended, QueueInv
  <2>5. queue'[Len(queue) + 1].utt = 0
    BY <2>1, ItemTypes DEF Extended
  <2> QED
    BY <1>0, <2>2, <2>3, <2>4, <2>5 DEF QueueInv, Cut
<1>5. CASE TakeItem
  <2>1. UNCHANGED <<utt, speaking, cutHot, recv>>
    BY <1>5 DEF TakeItem, stream, history
  <2>2. /\ DOMAIN queue' \subseteq Nat
        /\ \A i \in DOMAIN queue' : i + 1 \in DOMAIN queue /\ queue'[i] = queue[i + 1]
    BY <1>5, TakeItemEffect
  <2>3. \A i, k \in DOMAIN queue' : i < k => i + 1 < k + 1
    BY <2>2
  <2> QED
    BY <2>1, <2>2, <2>3 DEF QueueInv, Cut
<1>6. CASE UNCHANGED <<queue, utt, speaking, cutHot>> /\ (recv' = recv \/ (recv = "receiving" /\ recv' = "closing"))
  BY <1>6 DEF QueueInv, Cut
<1> QED
  <2>1. Answer \/ OnStop => UNCHANGED <<queue, utt, speaking, cutHot, recv>>
    BY DEF Answer, AnswerFinal, AnswerNothing, AnswerError, OnStop, stream, history
  <2> QED
    BY <1>1, <1>2, <1>3, <1>4, <1>5, <1>6, <2>1, ChainCases DEF chain
\* Every step keeps the segment in hand before those in the queue.
LEMMA ItemInvStep == ASSUME TypeOK, QueueInv, ItemInv, Next PROVE ItemInv'
<1>0. /\ utt \in Nat /\ item \in Items /\ DOMAIN queue = 1..Len(queue) /\ Len(queue) \in Nat
      /\ \A i \in DOMAIN queue : queue[i] \in Items
      /\ cutHot \in [Utterances -> 0..MaxUpdates]
  BY DEF TypeOK, StreamTypes, QueueTypes, Items
<1>1. CASE CutStep /\ UNCHANGED <<queue, cutHot>>
  BY <1>0, <1>1 DEF CutStep, ItemInv, Cut
<1>2. CASE CutStep /\ ~UNCHANGED <<queue, cutHot>>
  <2>1. /\ speaking /\ utt \in Utterances /\ speaking' = FALSE
        /\ UNCHANGED <<utt, work, item>>
        /\ Extended(queue, queue', [utt |-> utt, hot |-> hot])
        /\ cutHot' = [cutHot EXCEPT ![utt] = hot]
    BY <1>2 DEF CutStep
  <2>2. SUFFICES ASSUME work = "inferring" PROVE ItemInv'
    BY <2>1 DEF ItemInv
  <2>3. item.utt # 0 /\ item.utt \in Nat /\ item.utt < utt /\ item.hot = cutHot[item.utt]
    BY <1>0, <2>1, <2>2, ItemTypes DEF ItemInv, Cut
  <2>4. cutHot'[item.utt] = cutHot[item.utt]
    BY <1>0, <2>1, <2>3, ItemTypes
  <2>5. ASSUME NEW i \in DOMAIN queue', queue'[i].utt # 0 PROVE item.utt < queue'[i].utt
    <3>1. CASE i \in 1..Len(queue)
      BY <1>0, <2>1, <2>2, <2>5, <3>1 DEF Extended, ItemInv
    <3>2. CASE i = Len(queue) + 1
      BY <2>1, <2>3, <3>2 DEF Extended
    <3> QED
      BY <2>1, <3>1, <3>2 DEF Extended
  <2> QED
    BY <2>1, <2>3, <2>4, <2>5 DEF ItemInv, Cut
<1>3. CASE SpeechBegins
  BY <1>0, <1>3, ItemTypes DEF SpeechBegins, ItemInv, Cut, history
<1>4. CASE PutSentinel
  <2>1. Extended(queue, queue', SENTINEL)
    BY <1>4, AppendExtends, ItemTypes DEF PutSentinel, TypeOK, QueueTypes, Items
  <2>2. UNCHANGED <<utt, speaking, cutHot, work, item>>
    BY <1>4 DEF PutSentinel, stream, history
  <2>3. \A i \in DOMAIN queue' : queue'[i].utt # 0 => i \in DOMAIN queue /\ queue'[i] = queue[i]
    BY <2>1, ItemTypes DEF Extended
  <2> QED
    BY <2>2, <2>3 DEF ItemInv, Cut
<1>5. CASE TakeItem
  <2>1. UNCHANGED <<utt, speaking, cutHot>> /\ work' = IF item'.utt = 0 THEN "stopping" ELSE "inferring"
    BY <1>5, TakeItemEffect DEF TakeItem, stream, history
  <2>2. /\ item' = queue[1] /\ 1 \in DOMAIN queue
        /\ \A i \in DOMAIN queue' : i + 1 \in DOMAIN queue /\ queue'[i] = queue[i + 1] /\ 1 < i + 1
    BY <1>5, TakeItemEffect
  <2> QED
    BY <2>1, <2>2 DEF QueueInv, ItemInv, Cut
<1>6. CASE Answer \/ OnStop
  <2>1. work' # "inferring"
    BY <1>6 DEF Answer, AnswerFinal, AnswerNothing, AnswerError, OnStop
  <2> QED
    BY <2>1 DEF ItemInv
<1>7. CASE UNCHANGED chain
  BY <1>7 DEF ItemInv, Cut, chain
<1> QED
  BY <1>1, <1>2, <1>3, <1>4, <1>5, <1>6, <1>7, ChainCases

\* A step that neither sends a final nor moves the segment in hand.
LEMMA FinalInvKept ==
  ASSUME TypeOK, FinalInv, FinalsKept,
         UNCHANGED sentAny,
         work' = work \/ (work = "inferring" /\ work' \in {"idle", "stopping"}),
         work = "inferring" => item' = item,
         \A i \in Sent("final") :
           /\ wire[i].utt <= utt' /\ (speaking' => wire[i].utt < utt')
           /\ wire[i].utt # 0 => cutHot'[wire[i].utt] = cutHot[wire[i].utt]
           /\ work \in {"idle", "inferring"} =>
                \A k \in DOMAIN queue' : queue'[k].utt # 0 => wire[i].utt < queue'[k].utt
  PROVE  FinalInv'
<1>1. FinalsInOrder'
  BY DEF FinalInv, FinalsKept, FinalsInOrder
<1>2. HotwordsOfTheCut'
  BY DEF FinalInv, FinalsKept, HotwordsOfTheCut
<1>3. ASSUME NEW i \in Sent("final")'
      PROVE  /\ wire'[i].utt <= utt' /\ (speaking' => wire'[i].utt < utt')
             /\ work' \in {"idle", "inferring"} =>
                  /\ wire'[i].utt # 0
                  /\ \A k \in DOMAIN queue' : queue'[k].utt # 0 => wire'[i].utt < queue'[k].utt
             /\ work' = "inferring" => wire'[i].utt < item'.utt
  <2>1. i \in Sent("final") /\ wire'[i] = wire[i]
    BY <1>3 DEF FinalsKept
  <2>2. work' \in {"idle", "inferring"} => work \in {"idle", "inferring"}
    OBVIOUS
  <2>3. work' = "inferring" => work = "inferring"
    OBVIOUS
  <2>4. work \in {"idle", "inferring"} => wire[i].utt # 0
    BY <2>1 DEF FinalInv
  <2>5. work = "inferring" => wire[i].utt < item.utt
    BY <2>1 DEF FinalInv
  <2> QED
    BY <2>1, <2>2, <2>3, <2>4, <2>5
<1>4. (work # "done" /\ ~sentAny => Sent("final") = {})'
  BY DEF FinalInv, FinalsKept
<1> QED
  BY <1>1, <1>2, <1>3, <1>4 DEF FinalInv, Cut

\* Every step keeps the finals before the segment in hand and the queue.
LEMMA FinalInvStep == ASSUME TypeOK, QueueInv, ItemInv, FinalInv, Next PROVE FinalInv'
<1>0. /\ utt \in Nat /\ item \in Items /\ DOMAIN queue = 1..Len(queue) /\ Len(queue) \in Nat
      /\ \A i \in DOMAIN queue : queue[i] \in Items
      /\ cutHot \in [Utterances -> 0..MaxUpdates]
      /\ \A i \in Sent("final") : wire[i].utt \in 0..MaxUtterances
  <2>1. \A i \in Sent("final") : wire[i].utt \in 0..MaxUtterances
    BY WireTyped DEF Sent
  <2> QED
    BY <2>1 DEF TypeOK, StreamTypes, QueueTypes, Items
<1>1. CASE CutStep
  <2>1. UNCHANGED <<work, item, sentAny, wire, utt>> /\ speaking' = FALSE
    BY <1>1 DEF CutStep
  <2>2. FinalsKept
    BY <2>1, KeepsFinals
  <2>3. CASE UNCHANGED <<queue, cutHot>>
    BY <2>1, <2>2, <2>3, FinalInvKept DEF FinalInv, Cut
  <2>4. CASE ~UNCHANGED <<queue, cutHot>>
    <3>1. /\ speaking /\ utt \in Utterances
          /\ Extended(queue, queue', [utt |-> utt, hot |-> hot])
          /\ cutHot' = [cutHot EXCEPT ![utt] = hot]
      BY <1>1, <2>4 DEF CutStep
    <3>2. ASSUME NEW i \in Sent("final")
          PROVE  /\ wire[i].utt < utt
                 /\ wire[i].utt # 0 => cutHot'[wire[i].utt] = cutHot[wire[i].utt]
      <4>1. wire[i].utt < utt
        BY <3>1 DEF FinalInv, Cut
      <4> QED
        BY <1>0, <3>1, <4>1, SessionAssumption
    <3>3. ASSUME NEW i \in Sent("final"), work \in {"idle", "inferring"},
                 NEW k \in DOMAIN queue', queue'[k].utt # 0
          PROVE  wire[i].utt < queue'[k].utt
      <4>1. CASE k \in 1..Len(queue)
        <5>1. queue'[k] = queue[k] /\ k \in DOMAIN queue
          BY <1>0, <3>1, <4>1 DEF Extended
        <5> QED
          BY <3>3, <5>1 DEF FinalInv
      <4>2. CASE k = Len(queue) + 1
        BY <3>1, <3>2, <4>2 DEF Extended
      <4> QED
        BY <3>1, <4>1, <4>2 DEF Extended
    <3> QED
      BY <1>0, <2>1, <2>2, <3>2, <3>3, FinalInvKept
  <2> QED
    BY <2>3, <2>4
<1>2. CASE SpeechBegins
  <2>1. UNCHANGED <<work, item, sentAny, wire, queue, cutHot>> /\ utt' = utt + 1
    BY <1>2 DEF SpeechBegins, history
  <2>2. FinalsKept
    BY <2>1, KeepsFinals
  <2>3. \A i \in Sent("final") : wire[i].utt <= utt' /\ wire[i].utt < utt'
    BY <1>0, <2>1 DEF FinalInv, Cut
  <2> QED
    BY <2>1, <2>2, <2>3, FinalInvKept DEF FinalInv
<1>3. CASE PutSentinel
  <2>1. Extended(queue, queue', SENTINEL)
    BY <1>3, AppendExtends, ItemTypes DEF PutSentinel, TypeOK, QueueTypes, Items
  <2>2. UNCHANGED <<utt, speaking, cutHot, work, item, sentAny, wire>>
    BY <1>3 DEF PutSentinel, stream, history
  <2>3. \A i \in DOMAIN queue' : queue'[i].utt # 0 => i \in DOMAIN queue /\ queue'[i] = queue[i]
    BY <2>1, ItemTypes DEF Extended
  <2>4. FinalsKept
    BY <2>2, KeepsFinals
  <2> QED
    BY <2>2, <2>3, <2>4, FinalInvKept DEF FinalInv, Cut
<1>4. CASE TakeItem
  <2>1. /\ work = "idle" /\ work' \in {"inferring", "stopping"}
        /\ UNCHANGED <<utt, speaking, cutHot, sentAny, wire>>
    BY <1>4 DEF TakeItem, stream, history
  <2>2. /\ item' = queue[1] /\ 1 \in DOMAIN queue
        /\ work' = "inferring" => queue[1].utt # 0
        /\ \A i \in DOMAIN queue' : i + 1 \in DOMAIN queue /\ queue'[i] = queue[i + 1]
    BY <1>4, TakeItemEffect
  <2>3. \A i \in Sent("final") :
          /\ Cut(wire[i].utt) /\ wire[i].utt # 0
          /\ \A k \in DOMAIN queue : queue[k].utt # 0 => wire[i].utt < queue[k].utt
    BY <2>1 DEF FinalInv
  <2>4. ASSUME NEW i \in Sent("final")
        PROVE  /\ \A k \in DOMAIN queue' : queue'[k].utt # 0 => wire[i].utt < queue'[k].utt
               /\ work' = "inferring" => wire[i].utt < item'.utt
    BY <2>2, <2>3
  <2>5. Sent("final")' = Sent("final")
    BY <2>1 DEF Sent
  <2>6. FinalsInOrder' /\ HotwordsOfTheCut' /\ (work' # "done" /\ ~sentAny' => Sent("final")' = {})
    BY <2>1, <2>5 DEF FinalInv, FinalsInOrder, HotwordsOfTheCut
  <2> QED
    BY <2>1, <2>3, <2>4, <2>5, <2>6 DEF FinalInv, Cut
<1>5. CASE AnswerFinal
  <2> DEFINE f == Frame("final", item.utt, item.hot)
  <2>1. /\ work = "inferring" /\ work' = "idle" /\ SendWire(f) /\ f \in Frames
        /\ UNCHANGED <<queue, utt, speaking, item, cutHot>>
        /\ f.kind = "final" /\ f.utt = item.utt /\ f.hot = item.hot
    BY <1>5, FrameTypes DEF AnswerFinal, Frame, stream, history
  <2>2. CASE wire' = wire /\ ~SendSucceeds
    <3>1. sentAny' = sentAny
      BY <1>5, <2>2 DEF AnswerFinal, TypeOK, TaskTypes
    <3>2. FinalsKept
      BY <2>2, KeepsFinals
    <3> QED
      BY <2>1, <3>1, <3>2, FinalInvKept DEF FinalInv, Cut
  <2>3. CASE Extended(wire, wire', f) /\ SendSucceeds
    <3>1. sentAny'
      BY <1>5, <2>3 DEF AnswerFinal
    <3>2. /\ \A i \in Sent("final") : wire'[i] = wire[i] /\ i < Len(wire')
          /\ \A i \in Sent("final")' : i \in Sent("final") \/ i = Len(wire')
          /\ wire'[Len(wire')] = f /\ Len(wire') \in Nat
      BY <2>1, <2>3, SentExtended
    <3>3. /\ item.utt # 0 /\ Cut(item.utt) /\ item.hot = cutHot[item.utt] /\ item.utt \in Nat
          /\ \A i \in DOMAIN queue : queue[i].utt # 0 => item.utt < queue[i].utt
      BY <1>0, <2>1, ItemTypes DEF ItemInv
    <3>4. \A i \in Sent("final") :
            /\ Cut(wire[i].utt) /\ wire[i].utt # 0 /\ wire[i].utt < item.utt
            /\ \A k \in DOMAIN queue : queue[k].utt # 0 => wire[i].utt < queue[k].utt
            /\ wire[i].utt \in Nat
      BY <1>0, <2>1 DEF FinalInv
    <3>5. ASSUME NEW i \in Sent("final")', NEW k \in Sent("final")', i < k
          PROVE  0 < wire'[i].utt /\ wire'[i].utt < wire'[k].utt
      <4>1. i \in Sent("final")
        BY <3>2, <3>5 DEF Sent
      <4>2. CASE k \in Sent("final")
        BY <3>2, <3>4, <3>5, <4>1, <4>2 DEF FinalInv, FinalsInOrder
      <4>3. CASE k = Len(wire')
        BY <2>1, <3>2, <3>4, <4>1, <4>3
      <4> QED
        BY <3>2, <4>2, <4>3
    <3>6. ASSUME NEW i \in Sent("final")'
          PROVE  /\ Cut(wire'[i].utt) /\ wire'[i].utt # 0 /\ wire'[i].hot = cutHot[wire'[i].utt]
                 /\ \A k \in DOMAIN queue : queue[k].utt # 0 => wire'[i].utt < queue[k].utt
      <4>1. CASE i \in Sent("final")
        BY <3>2, <3>4, <4>1 DEF FinalInv, HotwordsOfTheCut
      <4>2. CASE i = Len(wire')
        BY <2>1, <3>2, <3>3, <4>2
      <4> QED
        BY <3>2, <4>1, <4>2
    <3>7. FinalsInOrder' /\ HotwordsOfTheCut'
      BY <2>1, <3>5, <3>6 DEF FinalsInOrder, HotwordsOfTheCut
    <3> QED
      BY <2>1, <3>1, <3>6, <3>7 DEF FinalInv, Cut
  <2> QED
    BY <2>1, <2>2, <2>3, SendEffect
<1>6. CASE AnswerNothing
  <2>1. UNCHANGED <<wire, sentAny, item, queue, utt, speaking, cutHot>> /\ work = "inferring" /\ work' = "idle"
    BY <1>6 DEF AnswerNothing, stream, history
  <2>2. FinalsKept
    BY <2>1, KeepsFinals
  <2> QED
    BY <2>1, <2>2, FinalInvKept DEF FinalInv, Cut
<1>7. CASE AnswerError
  <2>1. /\ UNCHANGED <<sentAny, item, queue, utt, speaking, cutHot>>
        /\ work = "inferring" /\ work' \in {"idle", "stopping"}
        /\ SendWire(Frame("error", item.utt, 0)) /\ Frame("error", item.utt, 0).kind # "final"
    BY <1>7 DEF AnswerError, Frame, stream, history
  <2>2. FinalsKept
    BY <2>1, KeepsFinals, FrameTypes
  <2> QED
    BY <2>1, <2>2, FinalInvKept DEF FinalInv, Cut
<1>8. CASE OnStop
  <2>1. /\ work = "stopping" /\ work' = "done"
        /\ UNCHANGED <<queue, utt, speaking, item, cutHot, sentAny>>
    BY <1>8 DEF OnStop, stream, history
  <2>2. CASE SendNothing
    <3>1. FinalsKept
      BY <2>2, KeepsFinals DEF SendNothing
    <3>2. FinalsInOrder' /\ HotwordsOfTheCut'
      BY <2>1, <2>2 DEF FinalInv, FinalsInOrder, HotwordsOfTheCut, SendNothing, Sent
    <3> QED
      BY <2>1, <3>1, <3>2 DEF FinalInv, FinalsKept, Cut
  <2>3. CASE ~sentAny /\ SendWire(Frame("final", 0, 0))
    <3>1. Sent("final") = {}
      BY <2>1, <2>3 DEF FinalInv
    <3>2. Frame("final", 0, 0) \in Frames /\ Frame("final", 0, 0).utt = 0
      BY FrameTypes DEF Frame
    <3>3. \A i \in Sent("final")' : i = Len(wire') /\ wire'[i].utt = 0 /\ Len(wire') \in Nat
      <4>1. CASE wire' = wire
        BY <3>1, <4>1 DEF Sent
      <4>2. CASE Extended(wire, wire', Frame("final", 0, 0))
        BY <3>1, <3>2, <4>2, SentExtended
      <4> QED
        BY <2>3, <3>2, <4>1, <4>2, SendEffect
    <3>4. 0 <= utt /\ (speaking => 0 < utt)
      BY <1>0 DEF QueueInv
    <3>5. FinalsInOrder' /\ HotwordsOfTheCut'
      BY <3>3 DEF FinalsInOrder, HotwordsOfTheCut
    <3> QED
      BY <2>1, <3>3, <3>4, <3>5 DEF FinalInv, Cut
  <2> QED
    BY <1>8, <2>2, <2>3 DEF OnStop
<1>9. CASE UNCHANGED chain /\ FinalsKept
  BY <1>9, FinalInvKept DEF FinalInv, Cut, chain
<1> QED
  BY <1>1, <1>2, <1>3, <1>4, <1>5, <1>6, <1>7, <1>8, <1>9, ChainCases DEF Answer

-----------------------------------------------------------------------------
(* Partials, draining, answers and the terminal frame. *)

\* Every step keeps at most one partial in flight, ahead of those sent.
LEMMA PartialInvStep == ASSUME TypeOK, PartialInv, Next PROVE PartialInv'
<1>0. /\ utt \in Nat /\ partials \subseteq Utterances
      /\ \A i \in Sent("partial") : wire[i].utt \in Nat
  BY SessionAssumption, WireTyped DEF TypeOK, StreamTypes, Sent
<1>1. ASSUME NEW u \in Utterances, PartialReturns(u), wire' # wire PROVE PartialInv'
  <2>1. /\ u \in partials /\ partials' = partials \ {u} /\ utt' = utt
        /\ SendWire(Frame("partial", u, 0)) /\ Frame("partial", u, 0).utt = u
    BY <1>1 DEF PartialReturns, SendNothing, Frame, stream
  <2>2. partials' = {} /\ u \in Nat /\ u <= utt
    <3>1. \A q \in partials : q = u
      BY <2>1 DEF PartialInv
    <3>2. u \in Nat /\ u <= utt
      BY <2>1 DEF PartialInv, Utterances
    <3> QED
      BY <2>1, <3>1, <3>2
  <2>3. Extended(wire, wire', Frame("partial", u, 0))
    BY <1>1, <2>1, SendEffect, FrameTypes
  <2>4. /\ \A i \in Sent("partial") : wire'[i] = wire[i] /\ i < Len(wire') /\ wire[i].utt <= u
        /\ \A i \in Sent("partial")' : i \in Sent("partial") \/ i = Len(wire')
        /\ wire'[Len(wire')].utt = u /\ Len(wire') \in Nat
    BY <2>1, <2>3, SentExtended, FrameTypes DEF PartialInv
  <2>5. \A i \in Sent("partial") : i \in Nat
    BY DEF TypeOK, WireTypes, Sent
  <2>6. PartialsInOrder'
    BY <2>2, <2>4, <2>5 DEF PartialInv, PartialsInOrder
  <2>7. \A i \in Sent("partial")' : wire'[i].utt <= utt
    BY <2>2, <2>4 DEF PartialInv
  <2> QED
    BY <2>1, <2>2, <2>6, <2>7 DEF PartialInv
<1>2. CASE \/ UNCHANGED wire
           \/ \E f \in Frames : f.kind # "partial" /\ SendWire(f)
  <2>1. Sent("partial")' = Sent("partial") /\ \A i \in Sent("partial") : wire'[i] = wire[i]
    <3>1. CASE UNCHANGED wire
      BY <3>1 DEF Sent
    <3>2. ASSUME NEW f \in Frames, f.kind # "partial", SendWire(f)
          PROVE  Sent("partial")' = Sent("partial") /\ \A i \in Sent("partial") : wire'[i] = wire[i]
      <4>1. CASE wire' = wire
        BY <4>1 DEF Sent
      <4>2. CASE Extended(wire, wire', f)
        BY <3>2, <4>2, SentExtended
      <4> QED
        BY <3>2, <4>1, <4>2, SendEffect
    <3> QED
      BY <1>2, <3>1, <3>2
  <2>2. PartialsInOrder'
    BY <2>1 DEF PartialInv, PartialsInOrder
  <2>3. CASE LaunchPartial
    BY <1>0, <2>1, <2>2, <2>3 DEF PartialInv, LaunchPartial
  <2>4. CASE partials' \subseteq partials /\ utt' \in {utt, utt + 1}
    BY <1>0, <2>1, <2>2, <2>4 DEF PartialInv, Utterances
  <2>5. LaunchPartial \/ (partials' \subseteq partials /\ utt' \in {utt, utt + 1})
    BY DEF Next, Receive, Work, TakeItem, Answer, AnswerFinal, AnswerNothing, AnswerError, OnStop,
       PartialReturns, EmitTerminal, Cleanup, ClientLeaves, ReceiveStart, ReceiveBadStart,
       ReceiveErrorControl, ReceiveUpdateHotwords, SpeechBegins, SpeechEnds,
       ReceiveStop, ReceiveDisconnect, ReceiveRaises, PutSentinel, client, stream
  <2> QED
    BY <2>3, <2>4, <2>5
<1> QED
  BY <1>1, <1>2, WireEffect

\* What a step does to the tasks and to the socket.
LEMMA DrainInvStep == ASSUME TypeOK, QueueInv, DrainInv, Next PROVE DrainInv'
<1>1. wsClosed => wsClosed'
  BY WireEffect, SendEffect DEF SendWire
<1>2. (main # "running" => LoopsReturned)'
  BY DEF DrainInv, LoopsReturned, Next, Receive, Work, TakeItem, Answer, AnswerFinal, AnswerNothing,
     AnswerError, OnStop, PartialReturns, EmitTerminal, Cleanup, ClientLeaves, ReceiveStart,
     ReceiveBadStart, ReceiveErrorControl, ReceiveUpdateHotwords, SpeechBegins, LaunchPartial,
     SpeechEnds, ReceiveStop, ReceiveDisconnect, ReceiveRaises, PutSentinel, AcceptsPcm
<1>3. (work \in {"stopping", "done"} /\ ~wsClosed => queue = <<>> /\ recv \in {"done", "failed"})'
  <2>1. CASE CutStep \/ SpeechBegins \/ PutSentinel
    <3>1. work' = work /\ recv \notin {"done", "failed"}
      BY <2>1 DEF CutStep, SpeechBegins, AcceptsPcm, PutSentinel
    <3> QED
      BY <1>1, <3>1 DEF DrainInv
  <2>2. CASE TakeItem
    <3> SUFFICES ASSUME work' = "stopping" PROVE queue' = <<>> /\ recv' \in {"done", "failed"}
      BY <2>2 DEF TakeItem
    <3>1. 1 \in DOMAIN queue /\ queue[1].utt = 0 /\ recv' = recv
      BY <2>2, TakeItemEffect DEF TakeItem
    <3>2. \A k \in DOMAIN queue : ~(1 < k)
      BY <3>1 DEF QueueInv
    <3>3. DOMAIN queue = 1..Len(queue) /\ Len(queue) \in Nat
      BY DEF TypeOK, QueueTypes
    <3>4. Len(queue) = 1
      BY <3>1, <3>2, <3>3
    <3>5. queue' \in Seq(Items) /\ Len(queue') = 0
      BY <2>2, <3>4, TakeItemEffect
    <3> QED
      BY <3>1, <3>5 DEF QueueInv
  <2>3. CASE AnswerFinal \/ AnswerNothing
    BY <2>3 DEF AnswerFinal, AnswerNothing
  <2>4. CASE AnswerError
    <3>1. work' = "stopping" => wsClosed'
      BY <2>4 DEF AnswerError, SendWire
    <3> QED
      BY <2>4, <3>1 DEF AnswerError
  <2>5. CASE OnStop
    BY <1>1, <2>5 DEF OnStop, DrainInv
  <2>6. CASE UNCHANGED chain /\ (recv' = recv \/ (recv = "receiving" /\ recv' = "closing"))
    BY <1>1, <2>6 DEF DrainInv, chain
  <2> QED
    BY <2>1, <2>2, <2>3, <2>4, <2>5, <2>6, ChainCases DEF Answer
<1> QED
  BY <1>2, <1>3 DEF DrainInv

\* A frame once on the wire stays there, and new ones come after it.
LEMMA SentKept ==
  ASSUME TypeOK, Next, NEW k
  PROVE  \A i \in Sent(k) : i \in Sent(k)' /\ wire'[i] = wire[i]
<1>1. CASE UNCHANGED wire
  BY <1>1 DEF Sent
<1>2. ASSUME NEW f \in Frames, Extended(wire, wire', f)
      PROVE  \A i \in Sent(k) : i \in Sent(k)' /\ wire'[i] = wire[i]
  BY <1>2, SentExtended
<1> QED
  BY <1>1, <1>2, WireEffect, SendEffect

\* Every step keeps the account of what was answered.
LEMMA AnswerInvStep == ASSUME TypeOK, QueueInv, DrainInv, AnswerInv, Next PROVE AnswerInv'
<1>1. (sentAny => Sent("final") # {})'
  <2>1. CASE AnswerFinal /\ sentAny' # sentAny
    <3>1. SendWire(Frame("final", item.utt, item.hot)) /\ SendSucceeds
      BY <2>1 DEF AnswerFinal, TypeOK, TaskTypes
    <3>2. Extended(wire, wire', Frame("final", item.utt, item.hot))
      BY <3>1, SendEffect, FrameTypes
    <3> QED
      BY <3>2, SentExtended, FrameTypes DEF Frame
  <2>2. CASE sentAny' = sentAny
    BY <2>2, SentKept DEF AnswerInv
  <2>3. AnswerFinal \/ sentAny' = sentAny
    BY DEF Next, Receive, Work, TakeItem, Answer, AnswerNothing, AnswerError, OnStop,
       PartialReturns, EmitTerminal, Cleanup, ClientLeaves, ReceiveStart, ReceiveBadStart,
       ReceiveErrorControl, ReceiveUpdateHotwords, SpeechBegins, LaunchPartial, SpeechEnds,
       ReceiveStop, ReceiveDisconnect, ReceiveRaises, PutSentinel
  <2> QED
    BY <2>1, <2>2, <2>3
<1>2. (work = "done" /\ ~wsClosed /\ stopped /\ endpoint = "transcribe"
         => Sent("final") \cup Sent("error") # {})'
  <2> SUFFICES ASSUME work' = "done", ~wsClosed', stopped', endpoint' = "transcribe"
               PROVE  Sent("final")' \cup Sent("error")' # {}
    OBVIOUS
  <2>0. endpoint' = endpoint
    BY DEF Next, Receive, Work, TakeItem, Answer, AnswerFinal, AnswerNothing, AnswerError, OnStop,
       PartialReturns, EmitTerminal, Cleanup, ClientLeaves, ReceiveStart, ReceiveBadStart,
       ReceiveErrorControl, ReceiveUpdateHotwords, SpeechBegins, LaunchPartial, SpeechEnds,
       ReceiveStop, ReceiveDisconnect, ReceiveRaises, PutSentinel, client
  <2>1. ~wsClosed /\ endpoint = "transcribe"
    BY <2>0, WireEffect, SendEffect DEF SendWire
  <2>2. CASE OnStop
    <3>1. stopped' = stopped
      BY <2>2 DEF OnStop, client
    <3>2. CASE sentAny
      BY <3>2, SentKept DEF AnswerInv
    <3>3. CASE ~sentAny
      <4>1. SendWire(Frame("final", 0, 0)) /\ Frame("final", 0, 0).kind = "final"
        BY <2>1, <2>2, <3>1, <3>3 DEF OnStop, Frame
      <4>2. Extended(wire, wire', Frame("final", 0, 0))
        BY <4>1, SendEffect, FrameTypes
      <4> QED
        BY <4>1, <4>2, SentExtended, FrameTypes
    <3> QED
      BY <3>2, <3>3
  <2>3. CASE ~OnStop
    <3>1. work = "done"
      BY <2>3 DEF Next, Receive, Work, TakeItem, Answer, AnswerFinal, AnswerNothing, AnswerError,
         PartialReturns, EmitTerminal, Cleanup, ClientLeaves, ReceiveStart, ReceiveBadStart,
         ReceiveErrorControl, ReceiveUpdateHotwords, SpeechBegins, LaunchPartial, SpeechEnds,
         ReceiveStop, ReceiveDisconnect, ReceiveRaises, PutSentinel
    <3>2. recv \in {"done", "failed"}
      BY <2>1, <3>1 DEF DrainInv
    <3>3. stopped
      BY <3>2 DEF Next, Receive, Work, TakeItem, Answer, AnswerFinal, AnswerNothing, AnswerError,
         OnStop, PartialReturns, EmitTerminal, Cleanup, ClientLeaves, ReceiveStart, ReceiveBadStart,
         ReceiveErrorControl, ReceiveUpdateHotwords, SpeechBegins, LaunchPartial, SpeechEnds,
         ReceiveStop, ReceiveDisconnect, ReceiveRaises, PutSentinel, AcceptsPcm, client
    <3> QED
      BY <2>1, <3>1, <3>3, SentKept DEF AnswerInv
  <2> QED
    BY <2>2, <2>3
<1> QED
  BY <1>1, <1>2 DEF AnswerInv

\* Every step keeps the finals before the terminal frame.
LEMMA TerminalInvStep == ASSUME TypeOK, DrainInv, TerminalInv, Next PROVE TerminalInv'
<1>1. main' = "running" => main = "running" /\ ~EmitTerminal
  BY DEF Next, Receive, Work, TakeItem, Answer, AnswerFinal, AnswerNothing, AnswerError, OnStop,
     PartialReturns, EmitTerminal, Cleanup, ClientLeaves, ReceiveStart, ReceiveBadStart,
     ReceiveErrorControl, ReceiveUpdateHotwords, SpeechBegins, LaunchPartial, SpeechEnds,
     ReceiveStop, ReceiveDisconnect, ReceiveRaises, PutSentinel
<1>2. recv' \notin {"failing", "failed"} => recv \notin {"failing", "failed"}
  BY DEF Next, Receive, Work, TakeItem, Answer, AnswerFinal, AnswerNothing, AnswerError,
     OnStop, PartialReturns, EmitTerminal, Cleanup, ClientLeaves, ReceiveStart, ReceiveBadStart,
     ReceiveErrorControl, ReceiveUpdateHotwords, SpeechBegins, LaunchPartial, SpeechEnds,
     ReceiveStop, ReceiveDisconnect, ReceiveRaises, PutSentinel
<1>3. CASE UNCHANGED wire
  BY <1>1, <1>2, <1>3 DEF TerminalInv, FinalsBeforeTerminal, Sent
<1>4. ASSUME NEW f \in Frames, Extended(wire, wire', f), f.kind = "terminal" => EmitTerminal,
             f.kind = "final" => AnswerFinal \/ OnStop
      PROVE  TerminalInv'
  <2>1. Sent("terminal")' # {} => main' # "running"
    BY <1>1, <1>4, SentExtended DEF TerminalInv
  <2>2. ASSUME recv' \notin {"failing", "failed"}, NEW i \in Sent("final")', NEW k \in Sent("terminal")' PROVE i < k
    <3>1. CASE i \in Sent("final") /\ k \in Sent("terminal")
      BY <1>2, <2>2, <3>1 DEF TerminalInv, FinalsBeforeTerminal
    <3>2. CASE i \in Sent("final") /\ k = Len(wire')
      BY <1>4, <3>2, SentExtended
    <3>3. CASE i = Len(wire') /\ f.kind = "final"
      <4>1. work # "done" /\ main = "running"
        BY <1>2, <1>4, <2>2, <3>3
        DEF DrainInv, LoopsReturned, TerminalInv, AnswerFinal, OnStop
      <4>2. Sent("terminal") = {}
        BY <4>1 DEF TerminalInv
      <4>3. Sent("terminal")' = {}
        BY <1>4, <3>3, <4>2, SentExtended
      <4> QED
        BY <2>2, <4>3
    <3> QED
      BY <1>4, <2>2, <3>1, <3>2, <3>3, SentExtended
  <2> QED
    BY <1>2, <2>1, <2>2 DEF TerminalInv, FinalsBeforeTerminal
<1> QED
  BY <1>3, <1>4, WireEffect, SendEffect

-----------------------------------------------------------------------------
(* The theorems. *)

\* The invariant of the session is inductive.
LEMMA SessionStep == SessionInv /\ [Next]_vars => SessionInv'
<1> SUFFICES ASSUME SessionInv, [Next]_vars PROVE SessionInv'
  OBVIOUS
<1>1. CASE Next
  BY <1>1, TypeStep, QueueInvStep, ItemInvStep, FinalInvStep, PartialInvStep, DrainInvStep,
     AnswerInvStep, TerminalInvStep
  DEF SessionInv
<1>2. CASE UNCHANGED vars
  <2>1. UNCHANGED <<utt, speaking, queue, recv, work, main, item, wire, wsClosed, sentAny, cutHot,
                    partials, hot, launched, connected, started, stopped, suppressed, rejects,
                    endpoint>>
    BY <1>2 DEF vars, client, stream, history
  <2>2. TypeOK'
    BY <2>1 DEF SessionInv, TypeOK, ClientTypes, TaskTypes, StreamTypes, QueueTypes, WireTypes
  <2>3. QueueInv' /\ ItemInv'
    BY <2>1 DEF SessionInv, QueueInv, ItemInv, Cut
  <2>4. FinalInv' /\ PartialInv'
    BY <2>1
    DEF SessionInv, FinalInv, PartialInv, Cut, FinalsInOrder, HotwordsOfTheCut, PartialsInOrder, Sent
  <2>5. DrainInv' /\ AnswerInv' /\ TerminalInv'
    BY <2>1
    DEF SessionInv, DrainInv, AnswerInv, TerminalInv, LoopsReturned, FinalsBeforeTerminal, Sent
  <2> QED
    BY <2>2, <2>3, <2>4, <2>5 DEF SessionInv
<1> QED
  BY <1>1, <1>2

\* The invariant of the session holds in every reachable state.
LEMMA SessionAlways == Spec => []SessionInv
  BY SessionInit, SessionStep, PTL DEF Spec

\* Every state of a session is well-typed; its queue never exceeds its bound.
THEOREM SessionTypes == Spec => []TypeOK
<1>1. SessionInv => TypeOK
  BY DEF SessionInv
<1> QED
  BY <1>1, SessionAlways, PTL

\* Finals reach the client in the order of speech, at most once per utterance,
\* for any queue size and whatever fails or is dropped on the way.
THEOREM FinalsComeInOrder == Spec => []FinalsInOrder
<1>1. SessionInv => FinalsInOrder
  BY DEF SessionInv, FinalInv
<1> QED
  BY <1>1, SessionAlways, PTL

\* Every final is the answer to the hotwords in force when its audio was cut.
THEOREM FinalsUseTheirHotwords == Spec => []HotwordsOfTheCut
<1>1. SessionInv => HotwordsOfTheCut
  BY DEF SessionInv, FinalInv
<1> QED
  BY <1>1, SessionAlways, PTL

\* Partials never go back to an earlier utterance.
THEOREM PartialsComeInOrder == Spec => []PartialsInOrder
<1>1. SessionInv => PartialsInOrder
  BY DEF SessionInv, PartialInv
<1> QED
  BY <1>1, SessionAlways, PTL

\* With the client present and no failed loop, cleanup finds an empty queue and
\* an idle work loop.
THEOREM QueueIsDrained == Spec => []DrainedBeforeTerminal
<1>1. SessionInv => DrainedBeforeTerminal
  BY DEF SessionInv, DrainInv, DrainedBeforeTerminal, Clean, LoopsReturned
<1> QED
  BY <1>1, SessionAlways, PTL

\* A native client that stays is answered after its stop.
THEOREM StopsAreAnswered == Spec => []StopIsAnswered
<1>1. SessionInv => StopIsAnswered
  BY DEF SessionInv, DrainInv, AnswerInv, StopIsAnswered, Clean, LoopsReturned
<1> QED
  BY <1>1, SessionAlways, PTL

\* As long as no frame made the receive loop raise, no final follows the terminal
\* frame.
THEOREM TerminalFollowsFinals == Spec => []FinalsBeforeTerminal
<1>1. SessionInv => FinalsBeforeTerminal
  BY DEF SessionInv, TerminalInv
<1> QED
  BY <1>1, SessionAlways, PTL
=============================================================================
