------------------------ MODULE DictationStreamProofs ------------------------
(***************************************************************************)
(* Theorems about DictationStream, for any thresholds, backlog cap, number *)
(* of frames, configuration edits and cancellations, with one model or two.*)
(***************************************************************************)
EXTENDS DictationStream, SequenceTheorems, TLAPS

-----------------------------------------------------------------------------
(* Leases and slots.                                                       *)

\* A load nobody awaits any more releases its own lease.
Awaited == \A i \in Loads : load[i] = "running" => i \in handover

LeasesByPhase ==
  /\ phase \in Phases
  /\ load \in [Loads -> {"none", "running", "landed", "failed", "cancelled"}]
  /\ phase \in {"new", "accept", "first"} =>
       /\ load = [i \in Loads |-> "none"]
       /\ leased = {} /\ held = {} /\ handover = {}
  /\ phase = "load" =>
       /\ load[1] # "none"
       /\ handover = {}
       /\ leased = {i \in Loads : load[i] = "landed"}
       /\ held \subseteq leased
       /\ \A i \in Loads : load[i] # "cancelled"
       /\ \A i, j \in Loads : j < i /\ load[i] # "none" => j \in held
  /\ phase \in {"live", "drain", "cancelled", "close"} =>
       /\ leased = Loads /\ held = Loads
       /\ \A i \in Loads : load[i] = "landed"
  /\ phase = "teardown" => leased = held /\ Awaited
  /\ phase \in {"lastclose", "done"} =>
       leased = {} /\ held = {} /\ slots = {} /\ Awaited

LEMMA OneOrTwo == Loads = {1} \/ Loads = {1, 2}
<1>1. CASE Models = <<"final">>
  BY <1>1 DEF Loads
<1>2. CASE Models = <<"final", "partial">>
  BY <1>2 DEF Loads
<1>3. QED
  BY <1>1, <1>2, StreamAssumption

\* No step of the session itself moves the handler.
LEMMA LeasesStep == LeasesByPhase /\ [Next]_vars => LeasesByPhase'
<1> SUFFICES ASSUME LeasesByPhase, [Next]_vars PROVE LeasesByPhase'
  OBVIOUS
<1> USE OneOrTwo DEF LeasesByPhase, Awaited, Phases, loadVars, queueVars
<1>1. CASE Handshake
  BY <1>1 DEF Handshake
<1>2. CASE Accept
  BY <1>2 DEF Accept
<1>3. ASSUME NEW audio \in BOOLEAN, First(audio) PROVE LeasesByPhase'
  <2>1. phase = "first" /\ UNCHANGED <<leased, held, handover>>
    BY <1>3 DEF First
  <2>2. CASE load' = [load EXCEPT ![1] = "running"] /\ phase' = "load"
    <3>1. load' = [i \in Loads |-> IF i = 1 THEN "running" ELSE "none"]
      BY <2>1, <2>2
    <3>2. QED
      BY <2>1, <2>2, <3>1
  <2>3. CASE phase' = "teardown" /\ UNCHANGED load
    BY <2>1, <2>3
  <2>4. QED
    BY <1>3, <2>2, <2>3 DEF First
<1>4. ASSUME NEW i \in Loads, NEW ok \in BOOLEAN, LoadEnds(i, ok)
      PROVE  LeasesByPhase'
  BY <1>4 DEF LoadEnds
<1>5. ASSUME NEW i \in Loads, NEW ok \in BOOLEAN, LoadReturns(i, ok)
      PROVE  LeasesByPhase'
  BY <1>5 DEF LoadReturns, Loading
<1>6. ASSUME NEW i \in Loads, LoadRaises(i) PROVE LeasesByPhase'
  BY <1>6 DEF LoadRaises, Loading
<1>7. ASSUME NEW i \in Loads, CancelLoad(i) PROVE LeasesByPhase'
  BY <1>7 DEF CancelLoad, Loading
<1>8. CASE KeepaliveFails
  BY <1>8 DEF KeepaliveFails
<1>9. CASE ReceiveAudio
  BY <1>9 DEF ReceiveAudio
<1>10. CASE ReceiveFlush
  BY <1>10 DEF ReceiveFlush
<1>11. ASSUME NEW tail \in BOOLEAN, EndOfAudio(tail) PROVE LeasesByPhase'
  BY <1>11 DEF EndOfAudio
<1>12. CASE Take
  BY <1>12 DEF Take
<1>13. CASE PumpStep
  BY <1>13 DEF PumpStep
<1>14. CASE PumpRevoked
  BY <1>14 DEF PumpRevoked
<1>15. CASE Drained
  BY <1>15 DEF Drained
<1>16. CASE CloseStep
  BY <1>16 DEF CloseStep, handlerVars
<1>17. CASE Closed
  BY <1>17 DEF Closed
<1>18. CASE Teardown
  BY <1>18 DEF Teardown
<1>19. CASE StopPump
  BY <1>19 DEF StopPump
<1>20. CASE LastClose
  BY <1>20 DEF LastClose, handlerVars
<1>21. CASE Done
  BY <1>21 DEF Done
<1>22. CASE ClientVanishes
  BY <1>22 DEF ClientVanishes
<1>23. ASSUME NEW revokes \in BOOLEAN, Bump(revokes) PROVE LeasesByPhase'
  BY <1>23 DEF Bump, handlerVars
<1>24. CASE CancelHandler
  BY <1>24 DEF CancelHandler
<1>25. CASE UNCHANGED vars
  BY <1>25 DEF vars, handlerVars
<1>26. QED
  BY <1>1, <1>2, <1>3, <1>4, <1>5, <1>6, <1>7, <1>8, <1>9, <1>10, <1>11,
     <1>12, <1>13, <1>14, <1>15, <1>16, <1>17, <1>18, <1>19, <1>20, <1>21,
     <1>22, <1>23, <1>24, <1>25 DEF Next

-----------------------------------------------------------------------------
(* A stream that is cut off is silent.                                     *)

\* A session that was refused stands still until the socket is closed.
CutOff == revoked => pc = "aborted" \/ wire # "open"

SilentInv == CutOff /\ "doc" \in DOMAIN client

\* What a step does to it, and what it shows to a client that is cut off.
Quiet == SilentInv' /\ (revoked => client'.doc = client.doc)

LEMMA SessionIsQuiet ==
  ASSUME SilentInv, SessionStep
  PROVE  Quiet
<1> USE DEF SilentInv, CutOff, Quiet, outside, Send, Refresh, Refused
<1>1. ASSUME NEW quiet \in BOOLEAN, Finalize(quiet)
      PROVE  Quiet
  BY <1>1 DEF Finalize, Abort, EndUtterance, Dropped, Return
<1>2. ASSUME NEW raw, NEW l, FinalDecoded(raw, l)
      PROVE  Quiet
  BY <1>2 DEF FinalDecoded
<1>3. CASE FinalFailed
  BY <1>3 DEF FinalFailed, Fails, Dropped
<1>4. CASE EmitUtterance
  BY <1>4 DEF EmitUtterance, EmitFinal, Dropped
<1>5. CASE EmitFailed
  BY <1>5 DEF EmitFailed, Dropped, Fails, Unwind
<1>6. CASE ReportFinal
  BY <1>6 DEF ReportFinal, Abort, Return, Unwind
<1>7. ASSUME NEW l, PartialDecoded(l)
      PROVE  Quiet
  BY <1>7 DEF PartialDecoded
<1>8. CASE PartialFailed
  BY <1>8 DEF PartialFailed
<1>9. CASE Release
  BY <1>9 DEF Release, EmitFinal
<1>10. CASE ReleaseFailed
  BY <1>10 DEF ReleaseFailed
<1>11. CASE NothingHeld
  BY <1>11 DEF NothingHeld
<1>12. CASE Break
  BY <1>12 DEF Break
<1>13. CASE EmitLast
  BY <1>13 DEF EmitLast, EmitFinal
<1>14. CASE EmitLastFailed
  BY <1>14 DEF EmitLastFailed
<1> HIDE DEF SilentInv, CutOff, Quiet, outside, Send, Refresh, Refused
<1>15. QED
  BY <1>1, <1>2, <1>3, <1>4, <1>5, <1>6, <1>7, <1>8, <1>9, <1>10, <1>11,
     <1>12, <1>13, <1>14 DEF SessionStep

LEMMA SessionCtx == SessionStep => ctx' = ctx
BY DEF SessionStep, Finalize, FinalDecoded, FinalFailed, EmitUtterance, EmitFailed,
  ReportFinal, PartialDecoded, PartialFailed, Release, ReleaseFailed, NothingHeld,
  Break, EmitLast, EmitLastFailed

LEMMA PumpIsQuiet ==
  ASSUME SilentInv, CancelPump
  PROVE  (pc # "aborted" => SilentInv') /\ client'.doc = client.doc
BY DEF SilentInv, CutOff, CancelPump, EndUtterance, outside

LEMMA SilentStep == SilentInv /\ [Next]_vars => Quiet
<1> SUFFICES ASSUME SilentInv, [Next]_vars PROVE Quiet
  OBVIOUS
<1> DEFINE Same == UNCHANGED <<pc, client, wire, revoked>>
<1>0. Same => Quiet
  BY DEF SilentInv, CutOff, Quiet
<1> USE DEF sessionVars, outside
<1>1. CASE Handshake
  BY <1>0, <1>1 DEF Handshake
<1>2. CASE Accept
  BY <1>0, <1>2 DEF Accept
<1>3. ASSUME NEW audio \in BOOLEAN, First(audio) PROVE Quiet
  BY <1>0, <1>3 DEF First
<1>4. ASSUME NEW i \in Loads, NEW ok \in BOOLEAN,
             LoadEnds(i, ok) \/ LoadReturns(i, ok) \/ LoadRaises(i) \/ CancelLoad(i)
      PROVE  Quiet
  BY <1>0, <1>4 DEF LoadEnds, LoadReturns, LoadRaises, CancelLoad
<1>5. CASE KeepaliveFails
  BY <1>0, <1>5 DEF KeepaliveFails
<1>6. CASE ReceiveAudio \/ ReceiveFlush
  BY <1>0, <1>6 DEF ReceiveAudio, ReceiveFlush
<1>7. ASSUME NEW tail \in BOOLEAN, EndOfAudio(tail) PROVE Quiet
  BY <1>0, <1>7 DEF EndOfAudio
<1>8. CASE Take
  BY <1>8 DEF Take, StartFlush, SilentInv, CutOff, Quiet
<1>9. CASE PumpStep
  <2>1. CASE Speech(skip)
    BY <2>1 DEF Speech, StartPartial, Send, Refresh, Refused, SilentInv, CutOff, Quiet
  <2>2. CASE Silence
    BY <2>2 DEF Silence, SilentInv, CutOff, Quiet
  <2>3. QED
    BY <1>9, <2>1, <2>2, SessionIsQuiet DEF PumpStep
<1>10. CASE PumpRevoked
  BY <1>10 DEF PumpRevoked, SilentInv, CutOff, Quiet
<1>11. CASE Drained
  BY <1>11 DEF Drained, StartClose, SilentInv, CutOff, Quiet
<1>12. CASE CloseStep
  BY <1>12, SessionIsQuiet DEF CloseStep
<1>13. CASE Closed
  BY <1>13 DEF Closed, SilentInv, CutOff, Quiet
<1>14. CASE Teardown
  BY <1>0, <1>14 DEF Teardown
<1>15. CASE StopPump
  BY <1>15, PumpIsQuiet DEF StopPump, Quiet
<1>16. CASE LastClose
  BY <1>16 DEF LastClose, StartClose, SilentInv, CutOff, Quiet
<1>17. CASE Done
  BY <1>17 DEF Done, SilentInv, CutOff, Quiet
<1>18. CASE ClientVanishes
  BY <1>18 DEF ClientVanishes, SilentInv, CutOff, Quiet
<1>19. ASSUME NEW revokes \in BOOLEAN, Bump(revokes) PROVE Quiet
  BY <1>0, <1>19 DEF Bump
<1>20. CASE CancelHandler
  <2>1. CASE phase \in {"drain", "cancelled"} /\ pc # "aborted" /\ CancelPump
    BY <2>1, PumpIsQuiet DEF Quiet
  <2>2. CASE /\ pc \in {"final", "report"}
             /\ UNCHANGED <<client, outside, revoked>>
    BY <2>2 DEF SilentInv, CutOff, Quiet
  <2>3. QED
    BY <1>0, <1>20, <2>1, <2>2 DEF CancelHandler
<1>21. CASE UNCHANGED vars
  BY <1>0, <1>21 DEF vars
<1>22. QED
  BY <1>1, <1>2, <1>3, <1>4, <1>5, <1>6, <1>7, <1>8, <1>9, <1>10, <1>11,
     <1>12, <1>13, <1>14, <1>15, <1>16, <1>17, <1>18, <1>19, <1>20, <1>21
     DEF Next

-----------------------------------------------------------------------------
(* A flush that holds others back covers the audio before it.              *)

Items == {"pcm", "flush", "stop"}

\* A flush is queued and no audio behind it.
Covering(q) ==
  \E i \in 1..Len(q) : q[i] = "flush" /\ \A j \in i + 1..Len(q) : q[j] # "pcm"
NoAudio(q) == \A j \in 1..Len(q) : q[j] # "pcm"

FlushInv ==
  /\ queue \in Seq(Items)
  /\ pump = "none" => ~pending
  /\ phase \in {"new", "accept", "first", "load"} => pump = "none"
  /\ phase = "live" => pump # "none"
  /\ pending /\ pump = "running" =>
       Covering(queue) \/ (ctx = "flush" /\ pc # "idle" /\ NoAudio(queue))

LEMMA AppendKeeps ==
  ASSUME NEW q \in Seq(Items), NEW x \in Items \ {"pcm"}
  PROVE  /\ Append(q, x) \in Seq(Items)
         /\ Covering(q) => Covering(Append(q, x))
         /\ NoAudio(q) => NoAudio(Append(q, x))
         /\ x = "flush" => Covering(Append(q, x))
<1>1. /\ Append(q, x) \in Seq(Items)
      /\ Len(q) \in Nat
      /\ Len(Append(q, x)) = Len(q) + 1
      /\ Append(q, x)[Len(q) + 1] = x
      /\ \A i \in 1..Len(q) : Append(q, x)[i] = q[i]
  BY AppendProperties, LenProperties
<1>2. Covering(q) => Covering(Append(q, x))
  <2>1. ASSUME NEW i \in 1..Len(q), q[i] = "flush",
               \A j \in i + 1..Len(q) : q[j] # "pcm"
        PROVE  Covering(Append(q, x))
    <3>1. \A j \in i + 1..Len(Append(q, x)) : Append(q, x)[j] # "pcm"
      BY <1>1, <2>1
    <3>2. QED
      BY <1>1, <2>1, <3>1 DEF Covering
  <2>2. QED
    BY <2>1 DEF Covering
<1>3. NoAudio(q) => NoAudio(Append(q, x))
  BY <1>1 DEF NoAudio
<1>4. x = "flush" => Covering(Append(q, x))
  BY <1>1 DEF Covering
<1>5. QED
  BY <1>1, <1>2, <1>3, <1>4

LEMMA TailKeeps ==
  ASSUME NEW q \in Seq(Items), q # <<>>
  PROVE  /\ Head(q) \in Items
         /\ Tail(q) \in Seq(Items)
         /\ Covering(q) /\ Head(q) # "flush" => Covering(Tail(q))
         /\ Covering(q) => Covering(Tail(q)) \/ NoAudio(Tail(q))
<1>1. /\ Head(q) \in Items /\ Head(q) = q[1]
      /\ Tail(q) \in Seq(Items)
      /\ Len(q) \in Nat
      /\ Len(Tail(q)) = Len(q) - 1
      /\ \A i \in 1..Len(Tail(q)) : Tail(q)[i] = q[i + 1]
  BY HeadTailProperties, LenProperties
<1>2. ASSUME NEW i \in 1..Len(q), q[i] = "flush",
             \A j \in i + 1..Len(q) : q[j] # "pcm"
      PROVE  IF i = 1 THEN Head(q) = "flush" /\ NoAudio(Tail(q))
             ELSE Covering(Tail(q))
  <2>1. CASE i = 1
    BY <1>1, <1>2, <2>1 DEF NoAudio
  <2>2. CASE i # 1
    <3>1. i - 1 \in 1..Len(Tail(q)) /\ Tail(q)[i - 1] = "flush"
      BY <1>1, <1>2, <2>2
    <3>2. \A j \in i..Len(Tail(q)) : Tail(q)[j] # "pcm"
      BY <1>1, <1>2
    <3>3. QED
      BY <2>2, <3>1, <3>2 DEF Covering
  <2>3. QED
    BY <2>1, <2>2
<1>3. QED
  BY <1>1, <1>2 DEF Covering

LEMMA SinkKeepsItems == queue \in Seq(Items) /\ Sink => queue' \in Seq(Items)
<1> SUFFICES ASSUME queue \in Seq(Items), Sink PROVE queue' \in Seq(Items)
  OBVIOUS
<1> DEFINE m == Max({1, Len(queue) + 2 - QueueCap})
<1>1. Len(queue) \in Nat /\ QueueCap \in Nat
  BY LenProperties, StreamAssumption
<1>2. m \in Int /\ m >= 1
  <2>1. ASSUME NEW a \in Int
        PROVE  Max({1, a}) \in Int /\ Max({1, a}) >= 1
    BY DEF Max
  <2>2. QED
    BY <1>1, <2>1
<1>3. ASSUME NEW k \in Int, k >= 1
      PROVE  SubSeq(queue, k, Len(queue)) \in Seq(Items)
  <2>1. \A i \in k..Len(queue) : queue[i] \in Items
    BY <1>1, <1>3, ElementOfSeq
  <2> HIDE DEF Items
  <2>2. QED
    BY <1>1, <1>3, <2>1, SubSeqProperties
<1>4. QED
  BY <1>2, <1>3, AppendProperties DEF Sink, Items

\* The flush in force goes on, or is no more.
LEMMA FlushStep == FlushInv /\ [Next]_vars => FlushInv'
<1> SUFFICES ASSUME FlushInv, [Next]_vars PROVE FlushInv'
  OBVIOUS
<1> DEFINE Same == UNCHANGED <<pc, ctx, queue, pending, pump>>
<1> HIDE DEF Items
<1>0. "flush" \in Items \ {"pcm"} /\ "stop" \in Items \ {"pcm"}
  BY DEF Items
<1>a. /\ Same
      /\ phase' = phase
           \/ (phase' # "live" /\ pump = "none")
           \/ phase' \notin {"new", "accept", "first", "load", "live"}
      => FlushInv'
  BY DEF FlushInv
<1> USE DEF sessionVars, queueVars
<1>1. CASE Handshake
  BY <1>a, <1>1 DEF Handshake, FlushInv
<1>2. CASE Accept
  BY <1>a, <1>2 DEF Accept, FlushInv
<1>3. ASSUME NEW audio \in BOOLEAN, First(audio) PROVE FlushInv'
  <2>1. <<"pcm">> \in Seq(Items) /\ <<>> \in Seq(Items)
    BY DEF Items
  <2>2. QED
    BY <1>3, <2>1 DEF First, FlushInv
<1>4. ASSUME NEW i \in Loads, NEW ok \in BOOLEAN,
             LoadEnds(i, ok) \/ LoadReturns(i, ok) \/ LoadRaises(i) \/ CancelLoad(i)
      PROVE  FlushInv'
  BY <1>4 DEF LoadEnds, LoadReturns, LoadRaises, CancelLoad, Loading, FlushInv
<1>5. CASE KeepaliveFails
  BY <1>a, <1>5 DEF KeepaliveFails
<1>6. CASE ReceiveAudio
  BY <1>6, SinkKeepsItems DEF ReceiveAudio, FlushInv
<1>7. CASE ReceiveFlush
  <2>1. Append(queue, "flush") \in Seq(Items) /\ Covering(Append(queue, "flush"))
    BY <1>0, AppendKeeps DEF FlushInv
  <2>2. QED
    BY <1>7, <2>1 DEF ReceiveFlush, FlushInv
<1>8. ASSUME NEW tail \in BOOLEAN, EndOfAudio(tail) PROVE FlushInv'
  <2>1. CASE ~pending' /\ queue' = Append(queue, "pcm") \o <<"stop">>
    <3>1. Append(queue, "pcm") \in Seq(Items) /\ <<"stop">> \in Seq(Items)
      BY AppendProperties DEF FlushInv, Items
    <3>2. queue' \in Seq(Items)
      BY <2>1, <3>1, ConcatProperties
    <3>3. QED
      BY <1>8, <2>1, <3>2 DEF EndOfAudio, FlushInv
  <2>2. CASE pending' = pending /\ queue' = Append(queue, "stop")
    BY <1>0, <1>8, <2>2, AppendKeeps DEF EndOfAudio, FlushInv
  <2>3. QED
    BY <1>8, <2>1, <2>2 DEF EndOfAudio
<1>9. CASE Take
  <2>0. queue # <<>> /\ queue' = Tail(queue)
    BY <1>9 DEF Take
  <2>1. /\ Head(queue) \in Items
        /\ queue' \in Seq(Items)
        /\ Covering(queue) /\ Head(queue) # "flush" => Covering(queue')
        /\ Covering(queue) => Covering(queue') \/ NoAudio(queue')
    BY <2>0, TailKeeps DEF FlushInv
  <2>2. CASE Head(queue) = "stop"
    BY <1>9, <2>1, <2>2 DEF Take, Pumping, FlushInv
  <2>3. CASE Head(queue) = "pcm"
    BY <1>9, <2>1, <2>3 DEF Take, Pumping, FlushInv
  <2>4. CASE Head(queue) = "flush"
    BY <1>9, <2>1, <2>4 DEF Take, StartFlush, Pumping, FlushInv
  <2>5. QED
    BY <2>1, <2>2, <2>3, <2>4 DEF Items
<1>10. CASE PumpStep
  <2>1. ctx' = ctx
    BY <1>10, SessionCtx DEF PumpStep, Speech, Silence
  <2>2. QED
    BY <1>10, <2>1 DEF PumpStep, FlushInv
<1>11. CASE PumpRevoked
  BY <1>11 DEF PumpRevoked, Pumping, FlushInv
<1>12. CASE Drained
  BY <1>12 DEF Drained, StartClose, FlushInv
<1>13. CASE CloseStep
  BY <1>13 DEF CloseStep, handlerVars, FlushInv
<1>14. CASE Closed
  BY <1>14 DEF Closed, FlushInv
<1>15. CASE Teardown
  BY <1>a, <1>15 DEF Teardown
<1>16. CASE StopPump
  BY <1>16 DEF StopPump, CancelPump, FlushInv
<1>17. CASE LastClose
  BY <1>17 DEF LastClose, handlerVars, FlushInv
<1>18. CASE Done
  BY <1>a, <1>18 DEF Done
<1>19. CASE ClientVanishes
  BY <1>a, <1>19 DEF ClientVanishes
<1>20. ASSUME NEW revokes \in BOOLEAN, Bump(revokes) PROVE FlushInv'
  BY <1>a, <1>20 DEF Bump, handlerVars
<1>21. CASE CancelHandler
  <2>1. CASE phase = "live" /\ queue' = Append(queue, "stop")
    BY <1>0, <1>21, <2>1, AppendKeeps DEF CancelHandler, FlushInv
  <2>2. CASE Same
    BY <1>21, <2>2 DEF CancelHandler, FlushInv
  <2>3. CASE CancelPump /\ pump = "running"
    BY <1>21, <2>3 DEF CancelHandler, CancelPump, FlushInv
  <2>4. CASE phase = "close"
    BY <1>21, <2>4 DEF CancelHandler, FlushInv
  <2>5. QED
    BY <1>21, <2>1, <2>2, <2>3, <2>4 DEF CancelHandler
<1>22. CASE UNCHANGED vars
  BY <1>a, <1>22 DEF vars, handlerVars
<1>23. QED
  BY <1>1, <1>2, <1>3, <1>4, <1>5, <1>6, <1>7, <1>8, <1>9, <1>10, <1>11,
     <1>12, <1>13, <1>14, <1>15, <1>16, <1>17, <1>18, <1>19, <1>20, <1>21,
     <1>22 DEF Next

-----------------------------------------------------------------------------
IInv == LeasesByPhase /\ SilentInv /\ FlushInv

THEOREM Invariance == Spec => []IInv
<1>1. Init => IInv
  <2>1. Init => LeasesByPhase
    BY DEF Init, LeasesByPhase, Phases
  <2>2. Init => SilentInv
    BY DEF Init, SessionInit, SilentInv, CutOff
  <2>3. Init => FlushInv
    BY DEF Init, FlushInv
  <2>4. QED
    BY <2>1, <2>2, <2>3 DEF IInv
<1>2. IInv /\ [Next]_vars => IInv'
  BY LeasesStep, SilentStep, FlushStep DEF IInv, Quiet
<1>3. QED
  BY <1>1, <1>2, PTL DEF Spec

\* Every lease a stream takes is given back once, whatever ends it, and none
\* while it is served: the teardown's, the hand-over's of a cancelled load.
THEOREM LeasesAreReturned == Spec => []LeasesReturned
<1>1. IInv => LeasesReturned
  BY DEF IInv, LeasesByPhase, Phases, LeasesReturned
<1>2. QED
  BY <1>1, Invariance, PTL

\* A flush that makes others be ignored covers all the audio that came before
\* them (_flush_pending is cleared by every frame and by the flush's end).
THEOREM FlushCovers == Spec => []FlushCoversAudio
<1>1. IInv => FlushCoversAudio
  <2>1. ASSUME FlushInv PROVE DOMAIN queue = 1..Len(queue)
    BY <2>1, LenProperties DEF FlushInv
  <2>2. QED
    BY <2>1 DEF IInv, FlushInv, Covering, NoAudio, FlushCoversAudio
<1>2. QED
  BY <1>1, Invariance, PTL

\* Once its credential was refused nothing more reaches the client's document.
THEOREM CutOffStaysSilent == Spec => CutOffIsSilent
<1>1. IInv /\ [Next]_vars => [revoked => client'.doc = client.doc]_vars
  BY SilentStep DEF IInv, Quiet
<1>2. QED
  BY <1>1, Invariance, PTL DEF Spec, CutOffIsSilent
=============================================================================
