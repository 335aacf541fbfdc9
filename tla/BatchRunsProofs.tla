------------------------- MODULE BatchRunsProofs -------------------------
(***************************************************************************)
(* Theorems about BatchRuns, for any number of runs posted under the id    *)
(* and any number of mishaps.                                              *)
(***************************************************************************)
EXTENDS BatchRuns, TLAPS

Finally == {"cleaning", "finishing", "attaching"}
InFlight == {"fetching", "attaching", "retrying", "cutting"}

\* Of a run that was not posted, or was refused its progress, there is nothing.
Blank(r) ==
  /\ status[r] = "ok" /\ ~jobRow[r] /\ ~answer[r] /\ ~closeAfterAttach[r]
  /\ ~runFinished[r] /\ ~finishLanded[r]
  /\ video[r] = "none" /\ write[r] = "none" /\ attach[r] = "none"
  /\ tick[r] = "none"

Untouched(r) == handler[r] \in {"new", "done"} /\ Blank(r)

Unposted(r) == handler[r] = "new" =>
  Blank(r) /\ r \notin {entry, owner, flag, binding, row.run}

\* What a run's handler, its statements, its video task and its attach have done,
\* by where they are.
HandlerPlace(r) ==
  /\ handler[r] = "starting" =>
       ~jobRow[r] /\ write[r] \in {"insert", "inserted", "refused"}
  /\ Live(r) =>
       /\ status[r] = "ok" /\ ~answer[r] /\ ~closeAfterAttach[r]
       /\ ~runFinished[r] /\ attach[r] = "none"
       /\ video[r] \in {"none", "fetching", "ended"}
  /\ handler[r] \in {"starting", "loading"} =>
       video[r] = "none" /\ tick[r] = "none"
  /\ handler[r] \in {"loading", "decoding", "cleaning", "attaching"} =>
       write[r] = "none"
  /\ handler[r] = "finishing" =>
       jobRow[r] /\ write[r] \in {"finish", "finished"}
  /\ handler[r] = "attaching" => finishLanded[r] /\ video[r] = "ended"
  /\ handler[r] = "done" =>
       write[r] \in {"none", "insert", "inserted", "finish"}

WritePlace(r) ==
  /\ write[r] \in {"insert", "inserted"} /\ handler[r] = "done" =>
       ~jobRow[r] /\ video[r] = "none" /\ "droppedAtInsert" \in mishaps
  /\ write[r] = "finish" => jobRow[r] /\ ~finishLanded[r]
  /\ write[r] = "finish" /\ handler[r] = "done" => "droppedAtFinish" \in mishaps
  /\ finishLanded[r] => jobRow[r] /\ handler[r] \in {"attaching", "done"}
  /\ jobRow[r] /\ handler[r] = "done" =>
       finishLanded[r] \/ "droppedAtFinish" \in mishaps

VideoPlace(r) ==
  /\ ~Live(r) /\ video[r] \notin {"none", "ended"} => runFinished[r]
  /\ ~Live(r) /\ video[r] # "none" /\ jobRow[r] =>
       closeAfterAttach[r] \/ runFinished[r]
  /\ closeAfterAttach[r] => video[r] = "ended" /\ jobRow[r] /\ ~runFinished[r]
  /\ runFinished[r] => video[r] # "none"
  /\ video[r] \in {"attaching", "retrying"} => jobRow[r]
  /\ video[r] = "retrying" => finishLanded[r]
  /\ video[r] \in {"cutting", "cut"} => status[r] # "ok"
  /\ answer[r] => runFinished[r]

AttachPlace(r) ==
  /\ attach[r] # "none" => jobRow[r]
  /\ attach[r] # "none" =>
       \/ video[r] \in {"attaching", "retrying", "cutting", "cut"}
       \/ handler[r] = "attaching"
       \/ "droppedAtFinish" \in mishaps
  /\ video[r] \in {"attaching", "retrying"} \/ handler[r] = "attaching" =>
       attach[r] # "none"

\* What the row says of the run that wrote it, and while its video is pending.
RowPlace(r) ==
  /\ write[r] = "insert" => row.run # r
  /\ /\ row.run = r
     /\ \/ handler[r] \in {"starting", "loading", "decoding", "cleaning"}
        \/ write[r] = "finish"
     => row.state = "running"
  /\ /\ row.run = r /\ jobRow[r] /\ write[r] # "finish"
     /\ handler[r] \in {"finishing", "attaching", "done"}
     /\ "writeLost" \notin mishaps
     => row.state = IF status[r] = "ok" THEN "done" ELSE "failed"
  /\ row.run = r /\ attach[r] = "patched" =>
       row.state # "running" /\ ~row.pending

PendingPlace(r) == row.pending /\ row.run = r =>
  /\ row.state = "done" /\ answer[r] /\ jobRow[r] /\ status[r] = "ok"
  /\ handler[r] \in {"finishing", "attaching", "done"}
  /\ video[r] = "retrying" => attach[r] = "running"
  /\ video[r] = "ended" =>
       \/ handler[r] = "finishing"
       \/ handler[r] = "attaching" /\ attach[r] = "running"
       \/ "droppedAtFinish" \in mishaps

\* A run that has the id is at work, or its handler or video task will close.
CloseComes(r) == "droppedAtFinish" \notin mishaps /\ owner = r =>
  \/ Live(r)
  \/ handler[r] \in Finally /\ closeAfterAttach[r]
  \/ runFinished[r] /\ video[r] \in InFlight
  \/ handler[r] \in Finally /\ runFinished[r] /\ video[r] = "ended" /\ jobRow[r]

Place(r) ==
  /\ Unposted(r)
  /\ HandlerPlace(r) /\ WritePlace(r) /\ VideoPlace(r) /\ AttachPlace(r)

Places ==
  \A r \in Runs : Place(r) /\ RowPlace(r) /\ PendingPlace(r) /\ CloseComes(r)

\* Runs are posted in their order, and nobody claimed the id after its owner.
InOrder ==
  \A r \in Runs, q \in Runs :
    q < r /\ handler[q] = "new" => handler[r] = "new"

LastClaim ==
  owner \in Runs => \A q \in Runs : q > owner => Untouched(q)

\* Whose the entry, the flag and the ticks are.
Stamped == entry \in Runs => entry = owner

Unevicted == "evicted" \notin mishaps =>
  /\ entry = owner /\ flag \in {NoRun, owner}
  /\ \A r \in Runs : tick[r] # "creating"
  /\ entry = NoRun /\ ~tombstone => \A r \in Runs : handler[r] = "new"

\* A run that nobody but its own handler and video task closes: it works, they
\* have its end before them, or its result is still to be answered.
Holds(r) ==
  \/ Live(r)
  \/ runFinished[r] /\ video[r] \in InFlight
  \/ handler[r] \in Finally /\ closeAfterAttach[r]
  \/ /\ handler[r] \in Finally /\ runFinished[r] /\ jobRow[r]
     /\ video[r] = "ended" /\ row.run = r
     /\ row.state = "running" \/ row.pending

PlainHolds == \A r \in Runs : Holds(r) /\ NoVideoBefore(r) => owner = r

\* No insert of an earlier run comes after a run has its row.
HasRow(r) == jobRow[r] \/ write[r] = "inserted"

NewerRow == "droppedAtInsert" \notin mishaps =>
  \A r \in Runs : HasRow(r) /\ NoVideoBefore(r - 1) => row.run >= r

PendingIsSomeones == row.pending => row.run \in Runs

IInv ==
  /\ TypeOK /\ Places /\ InOrder /\ LastClaim /\ Stamped /\ Unevicted
  /\ PlainHolds /\ LiveRunIsBound /\ NewerRow /\ PendingIsSomeones

-----------------------------------------------------------------------------
(* What two statements do to the row: a finish lands, or is lost, and an     *)
(* attach answers a pending video.                                          *)

Finished(r) ==
  /\ write[r] = "finish"
  /\ write' = [write EXCEPT ![r] =
                 IF handler[r] = "done" THEN "none" ELSE "finished"]
  /\ UNCHANGED <<registryVars, handlerVars, sharedVars, attach, binding, video,
                 tick>>
  /\ \/ row' = row /\ mishaps' = mishaps \cup {"writeLost"}
     \/ row.run # r /\ row' = row /\ mishaps' = mishaps
     \/ /\ mishaps' = mishaps /\ row.run = r /\ row'.run = r
        /\ status[r] = "ok" => row'.state = "done" /\ row'.pending = answer[r]
        /\ status[r] # "ok" =>
             row'.state = "failed" /\ row'.pending = row.pending

LEMMA FinishEffect ==
  ASSUME row \in RowType, NEW r \in Runs, FinishLands(r)
  PROVE  Finished(r)
<1>1. CASE row.run = r /\ row' = FinishedRow(r) /\ UNCHANGED mishaps
  <2>1. CASE status[r] = "ok"
    BY <1>1, <2>1 DEF FinishedRow, RowType, FinishLands, Finished
  <2>2. CASE status[r] # "ok"
    BY <1>1, <2>2 DEF FinishedRow, RowType, FinishLands, Finished
  <2>. QED BY <2>1, <2>2
<1>2. CASE ~(row.run = r /\ row' = FinishedRow(r) /\ UNCHANGED mishaps)
  BY <1>2 DEF FinishLands, Finished, Mishap
<1>. QED BY <1>1, <1>2

Attached(r) ==
  /\ attach[r] = "running"
  /\ attach' = [attach EXCEPT ![r] =
                  IF row.state = "running" THEN "gaveUp" ELSE "patched"]
  /\ row'.run = row.run /\ row'.state = row.state
  /\ row'.pending => row.pending
  /\ row.state = "done" => ~row'.pending
  /\ UNCHANGED <<registryVars, handlerVars, sharedVars, write, binding, video,
                 tick, mishaps>>

LEMMA AttachEffect ==
  ASSUME row \in RowType, NEW r \in Runs, AttachLands(r)
  PROVE  Attached(r)
BY DEF AttachLands, RowType, Attached

LEMMA NobodyIsARun ==
  NoRun \notin Runs /\ Ownerless \notin Runs /\ Ownerless # NoRun
BY OwnerlessAssumption DEF Runs, NoRun

-----------------------------------------------------------------------------
(* The types.                                                               *)

LEMMA RegistryTypesStep ==
  ASSUME RegistryTypes, Next
  PROVE  RegistryTypes'
<1>. USE DEF RegistryTypes, registryVars, handlerVars, sharedVars, threadVars
<1>1. ASSUME NEW r \in Runs, Post(r) PROVE RegistryTypes'
  BY <1>1 DEF Post
<1>2. ASSUME NEW r \in Runs, PostRefused(r) PROVE RegistryTypes'
  BY <1>2 DEF PostRefused
<1>3. ASSUME NEW r \in Runs, DropAtInsert(r) PROVE RegistryTypes'
  BY <1>3 DEF DropAtInsert, Close
<1>4. ASSUME NEW r \in Runs, DropAtFinish(r) PROVE RegistryTypes'
  BY <1>4 DEF DropAtFinish, FinalClose, CloseIf, Close
<1>5. ASSUME NEW r \in Runs, StartVideo(r) \/ LoopTick(r) \/ StageEnds(r)
      PROVE  RegistryTypes'
  BY <1>5 DEF StartVideo, LoopTick, StageEnds, Recreated
<1>6. ASSUME NEW r \in Runs, Tick(r) PROVE RegistryTypes'
  BY <1>6 DEF Tick, TickStarts, TickSuppressed, TickLands, TickCreates,
    Recreated
<1>7. ASSUME NEW r \in Runs, Started(r) PROVE RegistryTypes'
  BY <1>7 DEF Started
<1>8. ASSUME NEW r \in Runs, StartDecoding(r) PROVE RegistryTypes'
  BY <1>8 DEF StartDecoding
<1>9. ASSUME NEW r \in Runs, FinishReturns(r) PROVE RegistryTypes'
  BY <1>9 DEF FinishReturns, FinalClose, CloseIf, Close
<1>10. ASSUME NEW r \in Runs, HandlerAttached(r) PROVE RegistryTypes'
  BY <1>10 DEF HandlerAttached, FinalClose, CloseIf, Close
<1>11. ASSUME NEW r \in Runs, NEW st \in {"ok", "error", "cancelled"},
             InnerEnds(r, st)
      PROVE  RegistryTypes'
  BY <1>11 DEF InnerEnds, CloseIf, Close
<1>12. ASSUME NEW r \in Runs, NEW st \in {"ok", "error", "cancelled"},
             OuterEnds(r, st)
      PROVE  RegistryTypes'
  BY <1>12 DEF OuterEnds, FinalClose, CloseIf, Close
<1>13. ASSUME NEW r \in Runs, NEW st \in {"error", "cancelled"},
             LoadFails(r, st)
      PROVE  RegistryTypes'
  BY <1>13 DEF LoadFails, Close
<1>14. ASSUME NEW r \in Runs, InsertLands(r) PROVE RegistryTypes'
  BY <1>14 DEF InsertLands
<1>15. ASSUME NEW r \in Runs, CloseAbortedRow(r) PROVE RegistryTypes'
  BY <1>15 DEF CloseAbortedRow
<1>16. ASSUME NEW r \in Runs, FinishLands(r) PROVE RegistryTypes'
  BY <1>16 DEF FinishLands
<1>17. ASSUME NEW r \in Runs, VideoEnds(r) PROVE RegistryTypes'
  BY <1>17 DEF VideoEnds, CloseIf, Close
<1>18. ASSUME NEW r \in Runs, VideoCut(r) PROVE RegistryTypes'
  BY <1>18 DEF VideoCut, Close
<1>19. ASSUME NEW r \in Runs, VideoAttached(r) PROVE RegistryTypes'
  BY <1>19 DEF VideoAttached, CloseIf, Close
<1>20. ASSUME NEW r \in Runs, AttachLands(r) PROVE RegistryTypes'
  BY <1>20 DEF AttachLands
<1>21. ASSUME Evict PROVE RegistryTypes'
  BY <1>21 DEF Evict, Mishap
<1>22. ASSUME Cancel PROVE RegistryTypes'
  BY <1>22 DEF Cancel
<1>. QED BY <1>1, <1>2, <1>3, <1>4, <1>5, <1>6, <1>7, <1>8, <1>9, <1>10, <1>11,
         <1>12, <1>13, <1>14, <1>15, <1>16, <1>17, <1>18, <1>19, <1>20, <1>21,
         <1>22
  DEF Next, Tick, Handle, Ledger, Fetch

LEMMA RunTypesStep ==
  ASSUME RunTypes, Next
  PROVE  RunTypes'
<1>. USE DEF RunTypes, registryVars, handlerVars, sharedVars, threadVars
<1>1. ASSUME NEW r \in Runs, Post(r) PROVE RunTypes'
  BY <1>1 DEF Post, Goes
<1>2. ASSUME NEW r \in Runs, PostRefused(r) PROVE RunTypes'
  BY <1>2 DEF PostRefused, Goes
<1>3. ASSUME NEW r \in Runs, DropAtInsert(r) PROVE RunTypes'
  BY <1>3 DEF DropAtInsert, Goes, Mishap
<1>4. ASSUME NEW r \in Runs, DropAtFinish(r) PROVE RunTypes'
  BY <1>4 DEF DropAtFinish, Goes, Mishap
<1>5. ASSUME NEW r \in Runs, StartVideo(r) \/ LoopTick(r) \/ StageEnds(r)
      PROVE  RunTypes'
  BY <1>5 DEF StartVideo, LoopTick, StageEnds
<1>6. ASSUME NEW r \in Runs, Tick(r) PROVE RunTypes'
  BY <1>6 DEF Tick, TickStarts, TickSuppressed, TickLands, TickCreates
<1>7. ASSUME NEW r \in Runs, Started(r) PROVE RunTypes'
  BY <1>7 DEF Started, Goes
<1>8. ASSUME NEW r \in Runs, StartDecoding(r) PROVE RunTypes'
  BY <1>8 DEF StartDecoding, Goes
<1>9. ASSUME NEW r \in Runs, FinishReturns(r) PROVE RunTypes'
  BY <1>9 DEF FinishReturns, Goes
<1>10. ASSUME NEW r \in Runs, HandlerAttached(r) PROVE RunTypes'
  BY <1>10 DEF HandlerAttached, Goes
<1>11. ASSUME NEW r \in Runs, NEW st \in {"ok", "error", "cancelled"},
             InnerEnds(r, st)
      PROVE  RunTypes'
  BY <1>11 DEF InnerEnds, Goes
<1>12. ASSUME NEW r \in Runs, NEW st \in {"ok", "error", "cancelled"},
             OuterEnds(r, st)
      PROVE  RunTypes'
  BY <1>12 DEF OuterEnds, Goes, BeginFinish, Ended
<1>13. ASSUME NEW r \in Runs, NEW st \in {"error", "cancelled"},
             LoadFails(r, st)
      PROVE  RunTypes'
  BY <1>13 DEF LoadFails, Goes, BeginFinish
<1>14. ASSUME NEW r \in Runs, InsertLands(r) PROVE RunTypes'
  BY <1>14 DEF InsertLands
<1>15. ASSUME NEW r \in Runs, CloseAbortedRow(r) PROVE RunTypes'
  BY <1>15 DEF CloseAbortedRow
<1>16. ASSUME NEW r \in Runs, FinishLands(r) PROVE RunTypes'
  BY <1>16 DEF FinishLands, Mishap
<1>17. ASSUME NEW r \in Runs, VideoEnds(r) PROVE RunTypes'
  BY <1>17 DEF VideoEnds, Ended
<1>18. ASSUME NEW r \in Runs, VideoCut(r) PROVE RunTypes'
  BY <1>18 DEF VideoCut, Ended
<1>19. ASSUME NEW r \in Runs, VideoAttached(r) PROVE RunTypes'
  BY <1>19 DEF VideoAttached, Ended
<1>20. ASSUME NEW r \in Runs, AttachLands(r) PROVE RunTypes'
  BY <1>20 DEF AttachLands
<1>21. ASSUME Evict PROVE RunTypes'
  BY <1>21 DEF Evict, Mishap
<1>22. ASSUME Cancel PROVE RunTypes'
  BY <1>22 DEF Cancel
<1>. QED BY <1>1, <1>2, <1>3, <1>4, <1>5, <1>6, <1>7, <1>8, <1>9, <1>10, <1>11,
         <1>12, <1>13, <1>14, <1>15, <1>16, <1>17, <1>18, <1>19, <1>20, <1>21,
         <1>22
  DEF Next, Tick, Handle, Ledger, Fetch

LEMMA RowTypeStep ==
  ASSUME RunTypes, row \in RowType, Next
  PROVE  row' \in RowType
<1>. USE DEF registryVars, handlerVars, sharedVars, threadVars
<1>1. ASSUME NEW r \in Runs, Post(r) PROVE row' \in RowType
  BY <1>1 DEF Post
<1>2. ASSUME NEW r \in Runs, PostRefused(r) PROVE row' \in RowType
  BY <1>2 DEF PostRefused
<1>3. ASSUME NEW r \in Runs, DropAtInsert(r) PROVE row' \in RowType
  BY <1>3 DEF DropAtInsert
<1>4. ASSUME NEW r \in Runs, DropAtFinish(r) PROVE row' \in RowType
  BY <1>4 DEF DropAtFinish
<1>5. ASSUME NEW r \in Runs, StartVideo(r) \/ LoopTick(r) \/ StageEnds(r)
      PROVE  row' \in RowType
  BY <1>5 DEF StartVideo, LoopTick, StageEnds
<1>6. ASSUME NEW r \in Runs, Tick(r) PROVE row' \in RowType
  BY <1>6 DEF Tick, TickStarts, TickSuppressed, TickLands, TickCreates
<1>7. ASSUME NEW r \in Runs, Started(r) PROVE row' \in RowType
  BY <1>7 DEF Started
<1>8. ASSUME NEW r \in Runs, StartDecoding(r) PROVE row' \in RowType
  BY <1>8 DEF StartDecoding
<1>9. ASSUME NEW r \in Runs, FinishReturns(r) PROVE row' \in RowType
  BY <1>9 DEF FinishReturns
<1>10. ASSUME NEW r \in Runs, HandlerAttached(r) PROVE row' \in RowType
  BY <1>10 DEF HandlerAttached
<1>11. ASSUME NEW r \in Runs, NEW st \in {"ok", "error", "cancelled"},
             InnerEnds(r, st)
      PROVE  row' \in RowType
  BY <1>11 DEF InnerEnds
<1>12. ASSUME NEW r \in Runs, NEW st \in {"ok", "error", "cancelled"},
             OuterEnds(r, st)
      PROVE  row' \in RowType
  BY <1>12 DEF OuterEnds
<1>13. ASSUME NEW r \in Runs, NEW st \in {"error", "cancelled"},
             LoadFails(r, st)
      PROVE  row' \in RowType
  BY <1>13 DEF LoadFails
<1>14. ASSUME NEW r \in Runs, InsertLands(r) PROVE row' \in RowType
  <2>1. [run |-> r, pending |-> FALSE, videoOf |-> NoRun, state |-> "running"]
          \in RowType
    BY DEF RowType
  <2>. QED BY <1>14, <2>1 DEF InsertLands
<1>15. ASSUME NEW r \in Runs, CloseAbortedRow(r) PROVE row' \in RowType
  BY <1>15 DEF CloseAbortedRow, RowType
<1>16. ASSUME NEW r \in Runs, FinishLands(r) PROVE row' \in RowType
  <2>1. row' = row \/ row' = FinishedRow(r)
    BY <1>16 DEF FinishLands
  <2>2. answer[r] \in BOOLEAN
    BY DEF RunTypes
  <2>. QED BY <2>1, <2>2 DEF FinishedRow, RowType
<1>17. ASSUME NEW r \in Runs, VideoEnds(r) PROVE row' \in RowType
  BY <1>17 DEF VideoEnds
<1>18. ASSUME NEW r \in Runs, VideoCut(r) PROVE row' \in RowType
  BY <1>18 DEF VideoCut
<1>19. ASSUME NEW r \in Runs, VideoAttached(r) PROVE row' \in RowType
  BY <1>19 DEF VideoAttached
<1>20. ASSUME NEW r \in Runs, AttachLands(r) PROVE row' \in RowType
  BY <1>20 DEF AttachLands, RowType
<1>21. ASSUME Evict PROVE row' \in RowType
  BY <1>21 DEF Evict, Mishap
<1>22. ASSUME Cancel PROVE row' \in RowType
  BY <1>22 DEF Cancel
<1>. QED BY <1>1, <1>2, <1>3, <1>4, <1>5, <1>6, <1>7, <1>8, <1>9, <1>10, <1>11,
         <1>12, <1>13, <1>14, <1>15, <1>16, <1>17, <1>18, <1>19, <1>20, <1>21,
         <1>22
  DEF Next, Tick, Handle, Ledger, Fetch

LEMMA BindingTypeStep ==
  ASSUME binding \in Runs \cup {NoRun}, Next
  PROVE  binding' \in Runs \cup {NoRun}
<1>. USE DEF registryVars, handlerVars, sharedVars, threadVars
<1>1. ASSUME NEW r \in Runs, Post(r) PROVE binding' \in Runs \cup {NoRun}
  BY <1>1 DEF Post
<1>2. ASSUME NEW r \in Runs, PostRefused(r)
      PROVE  binding' \in Runs \cup {NoRun}
  BY <1>2 DEF PostRefused
<1>3. ASSUME NEW r \in Runs, DropAtInsert(r)
      PROVE  binding' \in Runs \cup {NoRun}
  BY <1>3 DEF DropAtInsert, Unbind
<1>4. ASSUME NEW r \in Runs, DropAtFinish(r)
      PROVE  binding' \in Runs \cup {NoRun}
  BY <1>4 DEF DropAtFinish
<1>5. ASSUME NEW r \in Runs, StartVideo(r) \/ LoopTick(r) \/ StageEnds(r)
      PROVE  binding' \in Runs \cup {NoRun}
  BY <1>5 DEF StartVideo, LoopTick, StageEnds
<1>6. ASSUME NEW r \in Runs, Tick(r) PROVE binding' \in Runs \cup {NoRun}
  BY <1>6 DEF Tick, TickStarts, TickSuppressed, TickLands, TickCreates
<1>7. ASSUME NEW r \in Runs, Started(r) PROVE binding' \in Runs \cup {NoRun}
  BY <1>7 DEF Started
<1>8. ASSUME NEW r \in Runs, StartDecoding(r)
      PROVE  binding' \in Runs \cup {NoRun}
  BY <1>8 DEF StartDecoding
<1>9. ASSUME NEW r \in Runs, FinishReturns(r)
      PROVE  binding' \in Runs \cup {NoRun}
  BY <1>9 DEF FinishReturns
<1>10. ASSUME NEW r \in Runs, HandlerAttached(r)
      PROVE  binding' \in Runs \cup {NoRun}
  BY <1>10 DEF HandlerAttached
<1>11. ASSUME NEW r \in Runs, NEW st \in {"ok", "error", "cancelled"},
             InnerEnds(r, st)
      PROVE  binding' \in Runs \cup {NoRun}
  BY <1>11 DEF InnerEnds
<1>12. ASSUME NEW r \in Runs, NEW st \in {"ok", "error", "cancelled"},
             OuterEnds(r, st)
      PROVE  binding' \in Runs \cup {NoRun}
  BY <1>12 DEF OuterEnds, Unbind
<1>13. ASSUME NEW r \in Runs, NEW st \in {"error", "cancelled"},
             LoadFails(r, st)
      PROVE  binding' \in Runs \cup {NoRun}
  BY <1>13 DEF LoadFails, Unbind
<1>14. ASSUME NEW r \in Runs, InsertLands(r)
      PROVE  binding' \in Runs \cup {NoRun}
  BY <1>14 DEF InsertLands
<1>15. ASSUME NEW r \in Runs, CloseAbortedRow(r)
      PROVE  binding' \in Runs \cup {NoRun}
  BY <1>15 DEF CloseAbortedRow
<1>16. ASSUME NEW r \in Runs, FinishLands(r)
      PROVE  binding' \in Runs \cup {NoRun}
  BY <1>16 DEF FinishLands
<1>17. ASSUME NEW r \in Runs, VideoEnds(r) PROVE binding' \in Runs \cup {NoRun}
  BY <1>17 DEF VideoEnds
<1>18. ASSUME NEW r \in Runs, VideoCut(r) PROVE binding' \in Runs \cup {NoRun}
  BY <1>18 DEF VideoCut
<1>19. ASSUME NEW r \in Runs, VideoAttached(r)
      PROVE  binding' \in Runs \cup {NoRun}
  BY <1>19 DEF VideoAttached
<1>20. ASSUME NEW r \in Runs, AttachLands(r)
      PROVE  binding' \in Runs \cup {NoRun}
  BY <1>20 DEF AttachLands
<1>21. ASSUME Evict PROVE binding' \in Runs \cup {NoRun}
  BY <1>21 DEF Evict, Mishap
<1>22. ASSUME Cancel PROVE binding' \in Runs \cup {NoRun}
  BY <1>22 DEF Cancel
<1>. QED BY <1>1, <1>2, <1>3, <1>4, <1>5, <1>6, <1>7, <1>8, <1>9, <1>10, <1>11,
         <1>12, <1>13, <1>14, <1>15, <1>16, <1>17, <1>18, <1>19, <1>20, <1>21,
         <1>22
  DEF Next, Tick, Handle, Ledger, Fetch

LEMMA MishapsTypeStep ==
  ASSUME mishaps \subseteq Kinds, Next
  PROVE  mishaps' \subseteq Kinds
<1>. USE DEF registryVars, handlerVars, sharedVars, threadVars
<1>1. ASSUME NEW r \in Runs, Post(r) PROVE mishaps' \subseteq Kinds
  BY <1>1 DEF Post
<1>2. ASSUME NEW r \in Runs, PostRefused(r) PROVE mishaps' \subseteq Kinds
  BY <1>2 DEF PostRefused
<1>3. ASSUME NEW r \in Runs, DropAtInsert(r) PROVE mishaps' \subseteq Kinds
  <2>1. /\ mishaps' \in {mishaps, mishaps \cup {"droppedAtInsert"}}
        /\ "droppedAtInsert" \in Kinds
    BY <1>3 DEF DropAtInsert, Mishap, Kinds
  <2>. QED BY <2>1
<1>4. ASSUME NEW r \in Runs, DropAtFinish(r) PROVE mishaps' \subseteq Kinds
  <2>1. /\ mishaps' \in {mishaps, mishaps \cup {"droppedAtFinish"}}
        /\ "droppedAtFinish" \in Kinds
    BY <1>4 DEF DropAtFinish, Mishap, Kinds
  <2>. QED BY <2>1
<1>5. ASSUME NEW r \in Runs, StartVideo(r) \/ LoopTick(r) \/ StageEnds(r)
      PROVE  mishaps' \subseteq Kinds
  BY <1>5 DEF StartVideo, LoopTick, StageEnds
<1>6. ASSUME NEW r \in Runs, Tick(r) PROVE mishaps' \subseteq Kinds
  BY <1>6 DEF Tick, TickStarts, TickSuppressed, TickLands, TickCreates
<1>7. ASSUME NEW r \in Runs, Started(r) PROVE mishaps' \subseteq Kinds
  BY <1>7 DEF Started
<1>8. ASSUME NEW r \in Runs, StartDecoding(r) PROVE mishaps' \subseteq Kinds
  BY <1>8 DEF StartDecoding
<1>9. ASSUME NEW r \in Runs, FinishReturns(r) PROVE mishaps' \subseteq Kinds
  BY <1>9 DEF FinishReturns
<1>10. ASSUME NEW r \in Runs, HandlerAttached(r) PROVE mishaps' \subseteq Kinds
  BY <1>10 DEF HandlerAttached
<1>11. ASSUME NEW r \in Runs, NEW st \in {"ok", "error", "cancelled"},
             InnerEnds(r, st)
      PROVE  mishaps' \subseteq Kinds
  BY <1>11 DEF InnerEnds
<1>12. ASSUME NEW r \in Runs, NEW st \in {"ok", "error", "cancelled"},
             OuterEnds(r, st)
      PROVE  mishaps' \subseteq Kinds
  BY <1>12 DEF OuterEnds
<1>13. ASSUME NEW r \in Runs, NEW st \in {"error", "cancelled"},
             LoadFails(r, st)
      PROVE  mishaps' \subseteq Kinds
  BY <1>13 DEF LoadFails
<1>14. ASSUME NEW r \in Runs, InsertLands(r) PROVE mishaps' \subseteq Kinds
  BY <1>14 DEF InsertLands
<1>15. ASSUME NEW r \in Runs, CloseAbortedRow(r) PROVE mishaps' \subseteq Kinds
  BY <1>15 DEF CloseAbortedRow
<1>16. ASSUME NEW r \in Runs, FinishLands(r) PROVE mishaps' \subseteq Kinds
  <2>1. /\ mishaps' \in {mishaps, mishaps \cup {"writeLost"}}
        /\ "writeLost" \in Kinds
    BY <1>16 DEF FinishLands, Mishap, Kinds
  <2>. QED BY <2>1
<1>17. ASSUME NEW r \in Runs, VideoEnds(r) PROVE mishaps' \subseteq Kinds
  BY <1>17 DEF VideoEnds
<1>18. ASSUME NEW r \in Runs, VideoCut(r) PROVE mishaps' \subseteq Kinds
  BY <1>18 DEF VideoCut
<1>19. ASSUME NEW r \in Runs, VideoAttached(r) PROVE mishaps' \subseteq Kinds
  BY <1>19 DEF VideoAttached
<1>20. ASSUME NEW r \in Runs, AttachLands(r) PROVE mishaps' \subseteq Kinds
  BY <1>20 DEF AttachLands
<1>21. ASSUME Evict PROVE mishaps' \subseteq Kinds
  BY <1>21 DEF Evict, Mishap, Kinds
<1>22. ASSUME Cancel PROVE mishaps' \subseteq Kinds
  BY <1>22 DEF Cancel
<1>. QED BY <1>1, <1>2, <1>3, <1>4, <1>5, <1>6, <1>7, <1>8, <1>9, <1>10, <1>11,
         <1>12, <1>13, <1>14, <1>15, <1>16, <1>17, <1>18, <1>19, <1>20, <1>21,
         <1>22
  DEF Next, Tick, Handle, Ledger, Fetch

-----------------------------------------------------------------------------
(* The places.                                                              *)

\* Before its post there is nothing of a run.
LEMMA UnpostedStep ==
  ASSUME RunTypes, row \in RowType, NEW q \in Runs, Unposted(q), Next
  PROVE  Unposted(q)'
<1>. USE NobodyIsARun DEF RunTypes, RowType, Unposted, Blank, registryVars, handlerVars,
            sharedVars, threadVars
<1>1. ASSUME NEW r \in Runs, Post(r) PROVE Unposted(q)'
  BY <1>1 DEF Post, Goes, InTurn
<1>2. ASSUME NEW r \in Runs, PostRefused(r) PROVE Unposted(q)'
  BY <1>2 DEF PostRefused, Goes, InTurn
<1>3. ASSUME NEW r \in Runs, DropAtInsert(r) PROVE Unposted(q)'
  BY <1>3 DEF DropAtInsert, Goes, Mishap, Close, Unbind
<1>4. ASSUME NEW r \in Runs, DropAtFinish(r) PROVE Unposted(q)'
  BY <1>4 DEF DropAtFinish, Goes, Mishap, FinalClose, CloseIf, Close
<1>5. ASSUME NEW r \in Runs, StartVideo(r) \/ LoopTick(r) \/ StageEnds(r)
      PROVE  Unposted(q)'
  BY <1>5 DEF StartVideo, LoopTick, StageEnds, Recreated
<1>6. ASSUME NEW r \in Runs, Tick(r) PROVE Unposted(q)'
  BY <1>6 DEF Tick, TickStarts, TickSuppressed, TickLands, TickCreates,
    Recreated
<1>7. ASSUME NEW r \in Runs, Started(r) PROVE Unposted(q)'
  BY <1>7 DEF Started, Goes
<1>8. ASSUME NEW r \in Runs, StartDecoding(r) PROVE Unposted(q)'
  BY <1>8 DEF StartDecoding, Goes
<1>9. ASSUME NEW r \in Runs, FinishReturns(r) PROVE Unposted(q)'
  BY <1>9 DEF FinishReturns, Goes, FinalClose, CloseIf, Close
<1>10. ASSUME NEW r \in Runs, HandlerAttached(r) PROVE Unposted(q)'
  BY <1>10 DEF HandlerAttached, Goes, FinalClose, CloseIf, Close
<1>11. ASSUME NEW r \in Runs, NEW st \in {"ok", "error", "cancelled"},
             InnerEnds(r, st)
      PROVE  Unposted(q)'
  BY <1>11 DEF InnerEnds, Goes, CloseIf, Close
<1>12. ASSUME NEW r \in Runs, NEW st \in {"ok", "error", "cancelled"},
             OuterEnds(r, st)
      PROVE  Unposted(q)'
  BY <1>12 DEF OuterEnds, Goes, BeginFinish, Ended, FinalClose, CloseIf, Close,
    Unbind
<1>13. ASSUME NEW r \in Runs, NEW st \in {"error", "cancelled"},
             LoadFails(r, st)
      PROVE  Unposted(q)'
  BY <1>13 DEF LoadFails, Goes, BeginFinish, Close, Unbind
<1>14. ASSUME NEW r \in Runs, InsertLands(r) PROVE Unposted(q)'
  BY <1>14 DEF InsertLands
<1>15. ASSUME NEW r \in Runs, CloseAbortedRow(r) PROVE Unposted(q)'
  BY <1>15 DEF CloseAbortedRow
<1>16. ASSUME NEW r \in Runs, FinishLands(r) PROVE Unposted(q)'
  <2>1. Finished(r)
    BY <1>16, FinishEffect
  <2>. QED BY <2>1 DEF Finished
<1>17. ASSUME NEW r \in Runs, VideoEnds(r) PROVE Unposted(q)'
  BY <1>17 DEF VideoEnds, Ended, CloseIf, Close
<1>18. ASSUME NEW r \in Runs, VideoCut(r) PROVE Unposted(q)'
  BY <1>18 DEF VideoCut, Ended, Close
<1>19. ASSUME NEW r \in Runs, VideoAttached(r) PROVE Unposted(q)'
  BY <1>19 DEF VideoAttached, Ended, CloseIf, Close
<1>20. ASSUME NEW r \in Runs, AttachLands(r) PROVE Unposted(q)'
  <2>1. Attached(r)
    BY <1>20, AttachEffect
  <2>. QED BY <2>1 DEF Attached
<1>21. ASSUME Evict PROVE Unposted(q)'
  BY <1>21 DEF Evict, Mishap
<1>22. ASSUME Cancel PROVE Unposted(q)'
  BY <1>22 DEF Cancel
<1>. QED BY <1>1, <1>2, <1>3, <1>4, <1>5, <1>6, <1>7, <1>8, <1>9, <1>10, <1>11,
         <1>12, <1>13, <1>14, <1>15, <1>16, <1>17, <1>18, <1>19, <1>20, <1>21,
         <1>22
  DEF Next, Tick, Handle, Ledger, Fetch

\* Each of the four others, given that what was not posted is blank.
LEMMA PlaceStep ==
  ASSUME RunTypes, row \in RowType, NEW q \in Runs, Place(q), Next
  PROVE  /\ HandlerPlace(q)' /\ WritePlace(q)'
         /\ VideoPlace(q)' /\ AttachPlace(q)'
<1>. USE DEF RunTypes, Place, Unposted, Blank, HandlerPlace, WritePlace,
            VideoPlace, AttachPlace, Live, registryVars, handlerVars,
            sharedVars, threadVars
<1>. DEFINE Goal == /\ HandlerPlace(q)' /\ WritePlace(q)'
                             /\ VideoPlace(q)' /\ AttachPlace(q)'
<1>1. ASSUME NEW r \in Runs, Post(r) PROVE Goal
  BY <1>1 DEF Post, Goes, InTurn
<1>2. ASSUME NEW r \in Runs, PostRefused(r) PROVE Goal
  BY <1>2 DEF PostRefused, Goes, InTurn
<1>3. ASSUME NEW r \in Runs, DropAtInsert(r) PROVE Goal
  BY <1>3 DEF DropAtInsert, Goes, Mishap
<1>4. ASSUME NEW r \in Runs, DropAtFinish(r) PROVE Goal
  BY <1>4 DEF DropAtFinish, Goes, Mishap
<1>5. ASSUME NEW r \in Runs, StartVideo(r) \/ LoopTick(r) \/ StageEnds(r)
      PROVE  Goal
  BY <1>5 DEF StartVideo, LoopTick, StageEnds
<1>6. ASSUME NEW r \in Runs, Tick(r) PROVE Goal
  BY <1>6 DEF Tick, TickStarts, TickSuppressed, TickLands, TickCreates
<1>7. ASSUME NEW r \in Runs, Started(r) PROVE Goal
  BY <1>7 DEF Started, Goes
<1>8. ASSUME NEW r \in Runs, StartDecoding(r) PROVE Goal
  BY <1>8 DEF StartDecoding, Goes
<1>9. ASSUME NEW r \in Runs, FinishReturns(r) PROVE Goal
  BY <1>9 DEF FinishReturns, Goes
<1>10. ASSUME NEW r \in Runs, HandlerAttached(r) PROVE Goal
  BY <1>10 DEF HandlerAttached, Goes
<1>11. ASSUME NEW r \in Runs, NEW st \in {"ok", "error", "cancelled"},
             InnerEnds(r, st)
      PROVE  Goal
  BY ZenonT(40), <1>11 DEF InnerEnds, Goes
<1>12. ASSUME NEW r \in Runs, NEW st \in {"ok", "error", "cancelled"},
             OuterEnds(r, st)
      PROVE  Goal
  BY <1>12 DEF OuterEnds, Goes, BeginFinish, Ended
<1>13. ASSUME NEW r \in Runs, NEW st \in {"error", "cancelled"},
             LoadFails(r, st)
      PROVE  Goal
  BY <1>13 DEF LoadFails, Goes, BeginFinish
<1>14. ASSUME NEW r \in Runs, InsertLands(r) PROVE Goal
  BY <1>14 DEF InsertLands
<1>15. ASSUME NEW r \in Runs, CloseAbortedRow(r) PROVE Goal
  BY <1>15 DEF CloseAbortedRow
<1>16. ASSUME NEW r \in Runs, FinishLands(r) PROVE Goal
  BY <1>16 DEF FinishLands, Mishap
<1>17. ASSUME NEW r \in Runs, VideoEnds(r) PROVE Goal
  BY <1>17 DEF VideoEnds, Ended
<1>18. ASSUME NEW r \in Runs, VideoCut(r) PROVE Goal
  BY <1>18 DEF VideoCut, Ended
<1>19. ASSUME NEW r \in Runs, VideoAttached(r) PROVE Goal
  BY <1>19 DEF VideoAttached, Ended
<1>20. ASSUME NEW r \in Runs, AttachLands(r) PROVE Goal
  BY <1>20 DEF AttachLands
<1>21. ASSUME Evict PROVE Goal
  BY <1>21 DEF Evict, Mishap
<1>22. ASSUME Cancel PROVE Goal
  BY <1>22 DEF Cancel
<1>. QED BY <1>1, <1>2, <1>3, <1>4, <1>5, <1>6, <1>7, <1>8, <1>9, <1>10, <1>11,
         <1>12, <1>13, <1>14, <1>15, <1>16, <1>17, <1>18, <1>19, <1>20, <1>21,
         <1>22
  DEF Next, Tick, Handle, Ledger, Fetch

\* What the row says of its run, given that only a done row has a pending video.
LEMMA RowPlaceStep ==
  ASSUME RunTypes, row \in RowType, NEW q \in Runs, Place(q), PendingPlace(q), RowPlace(q), Next
  PROVE  RowPlace(q)'
<1>. USE DEF RunTypes, RowType, RowPlace, PendingPlace, Place, Unposted, Blank,
            HandlerPlace, WritePlace, VideoPlace, AttachPlace, Live,
            registryVars, handlerVars, sharedVars, threadVars
<1>1. ASSUME NEW r \in Runs, Post(r) PROVE RowPlace(q)'
  BY <1>1 DEF Post, Goes, InTurn
<1>2. ASSUME NEW r \in Runs, PostRefused(r) PROVE RowPlace(q)'
  BY <1>2 DEF PostRefused, Goes, InTurn
<1>3. ASSUME NEW r \in Runs, DropAtInsert(r) PROVE RowPlace(q)'
  BY <1>3 DEF DropAtInsert, Goes, Mishap
<1>4. ASSUME NEW r \in Runs, DropAtFinish(r) PROVE RowPlace(q)'
  BY <1>4 DEF DropAtFinish, Goes, Mishap
<1>5. ASSUME NEW r \in Runs, StartVideo(r) \/ LoopTick(r) \/ StageEnds(r)
      PROVE  RowPlace(q)'
  BY <1>5 DEF StartVideo, LoopTick, StageEnds
<1>6. ASSUME NEW r \in Runs, Tick(r) PROVE RowPlace(q)'
  BY <1>6 DEF Tick, TickStarts, TickSuppressed, TickLands, TickCreates
<1>7. ASSUME NEW r \in Runs, Started(r) PROVE RowPlace(q)'
  BY <1>7 DEF Started, Goes
<1>8. ASSUME NEW r \in Runs, StartDecoding(r) PROVE RowPlace(q)'
  BY <1>8 DEF StartDecoding, Goes
<1>9. ASSUME NEW r \in Runs, FinishReturns(r) PROVE RowPlace(q)'
  BY <1>9 DEF FinishReturns, Goes
<1>10. ASSUME NEW r \in Runs, HandlerAttached(r) PROVE RowPlace(q)'
  BY <1>10 DEF HandlerAttached, Goes
<1>11. ASSUME NEW r \in Runs, NEW st \in {"ok", "error", "cancelled"},
             InnerEnds(r, st)
      PROVE  RowPlace(q)'
  BY <1>11 DEF InnerEnds, Goes
<1>12. ASSUME NEW r \in Runs, NEW st \in {"ok", "error", "cancelled"},
             OuterEnds(r, st)
      PROVE  RowPlace(q)'
  BY <1>12 DEF OuterEnds, Goes, BeginFinish, Ended
<1>13. ASSUME NEW r \in Runs, NEW st \in {"error", "cancelled"},
             LoadFails(r, st)
      PROVE  RowPlace(q)'
  BY <1>13 DEF LoadFails, Goes, BeginFinish
<1>14. ASSUME NEW r \in Runs, InsertLands(r) PROVE RowPlace(q)'
  BY <1>14 DEF InsertLands
<1>15. ASSUME NEW r \in Runs, CloseAbortedRow(r) PROVE RowPlace(q)'
  BY <1>15 DEF CloseAbortedRow
<1>16. ASSUME NEW r \in Runs, FinishLands(r) PROVE RowPlace(q)'
  <2>1. Finished(r)
    BY <1>16, FinishEffect
  <2>. QED BY <2>1 DEF Finished
<1>17. ASSUME NEW r \in Runs, VideoEnds(r) PROVE RowPlace(q)'
  BY <1>17 DEF VideoEnds, Ended
<1>18. ASSUME NEW r \in Runs, VideoCut(r) PROVE RowPlace(q)'
  BY <1>18 DEF VideoCut, Ended
<1>19. ASSUME NEW r \in Runs, VideoAttached(r) PROVE RowPlace(q)'
  BY <1>19 DEF VideoAttached, Ended
<1>20. ASSUME NEW r \in Runs, AttachLands(r) PROVE RowPlace(q)'
  <2>1. Attached(r)
    BY <1>20, AttachEffect
  <2>. QED BY <2>1 DEF Attached
<1>21. ASSUME Evict PROVE RowPlace(q)'
  BY <1>21 DEF Evict, Mishap
<1>22. ASSUME Cancel PROVE RowPlace(q)'
  BY <1>22 DEF Cancel
<1>. QED BY <1>1, <1>2, <1>3, <1>4, <1>5, <1>6, <1>7, <1>8, <1>9, <1>10, <1>11,
         <1>12, <1>13, <1>14, <1>15, <1>16, <1>17, <1>18, <1>19, <1>20, <1>21,
         <1>22
  DEF Next, Tick, Handle, Ledger, Fetch

\* A pending video has somebody who will attach it.
LEMMA PendingPlaceStep ==
  ASSUME RunTypes, row \in RowType, NEW q \in Runs, Place(q), RowPlace(q), PendingPlace(q), Next
  PROVE  PendingPlace(q)'
<1>. USE DEF RunTypes, RowType, RowPlace, PendingPlace, Place, Unposted, Blank,
            HandlerPlace, WritePlace, VideoPlace, AttachPlace, Live,
            registryVars, handlerVars, sharedVars, threadVars
<1>1. ASSUME NEW r \in Runs, Post(r) PROVE PendingPlace(q)'
  BY <1>1 DEF Post, Goes, InTurn
<1>2. ASSUME NEW r \in Runs, PostRefused(r) PROVE PendingPlace(q)'
  BY <1>2 DEF PostRefused, Goes, InTurn
<1>3. ASSUME NEW r \in Runs, DropAtInsert(r) PROVE PendingPlace(q)'
  BY <1>3 DEF DropAtInsert, Goes, Mishap
<1>4. ASSUME NEW r \in Runs, DropAtFinish(r) PROVE PendingPlace(q)'
  BY <1>4 DEF DropAtFinish, Goes, Mishap
<1>5. ASSUME NEW r \in Runs, StartVideo(r) \/ LoopTick(r) \/ StageEnds(r)
      PROVE  PendingPlace(q)'
  BY <1>5 DEF StartVideo, LoopTick, StageEnds
<1>6. ASSUME NEW r \in Runs, Tick(r) PROVE PendingPlace(q)'
  BY <1>6 DEF Tick, TickStarts, TickSuppressed, TickLands, TickCreates
<1>7. ASSUME NEW r \in Runs, Started(r) PROVE PendingPlace(q)'
  BY <1>7 DEF Started, Goes
<1>8. ASSUME NEW r \in Runs, StartDecoding(r) PROVE PendingPlace(q)'
  BY <1>8 DEF StartDecoding, Goes
<1>9. ASSUME NEW r \in Runs, FinishReturns(r) PROVE PendingPlace(q)'
  BY <1>9 DEF FinishReturns, Goes
<1>10. ASSUME NEW r \in Runs, HandlerAttached(r) PROVE PendingPlace(q)'
  BY <1>10 DEF HandlerAttached, Goes
<1>11. ASSUME NEW r \in Runs, NEW st \in {"ok", "error", "cancelled"},
             InnerEnds(r, st)
      PROVE  PendingPlace(q)'
  BY <1>11 DEF InnerEnds, Goes
<1>12. ASSUME NEW r \in Runs, NEW st \in {"ok", "error", "cancelled"},
             OuterEnds(r, st)
      PROVE  PendingPlace(q)'
  BY <1>12 DEF OuterEnds, Goes, BeginFinish, Ended
<1>13. ASSUME NEW r \in Runs, NEW st \in {"error", "cancelled"},
             LoadFails(r, st)
      PROVE  PendingPlace(q)'
  BY <1>13 DEF LoadFails, Goes, BeginFinish
<1>14. ASSUME NEW r \in Runs, InsertLands(r) PROVE PendingPlace(q)'
  BY <1>14 DEF InsertLands
<1>15. ASSUME NEW r \in Runs, CloseAbortedRow(r) PROVE PendingPlace(q)'
  BY <1>15 DEF CloseAbortedRow
<1>16. ASSUME NEW r \in Runs, FinishLands(r) PROVE PendingPlace(q)'
  <2>1. Finished(r)
    BY <1>16, FinishEffect
  <2>2. CASE row' = row \/ q # r
    BY ZenonT(40), <2>1, <2>2 DEF Finished
  <2>3. CASE row' # row /\ q = r
    <3>1. row.state = "running" /\ row.run = r
      BY <2>1, <2>3 DEF Finished
    <3>2. \/ handler[r] = "finishing"
          \/ handler[r] = "done" /\ "droppedAtFinish" \in mishaps
      BY <2>1, <2>3 DEF Finished
    <3>. QED BY <3>1, <3>2, <2>1, <2>3 DEF Finished
  <2>. QED BY <2>2, <2>3
<1>17. ASSUME NEW r \in Runs, VideoEnds(r) PROVE PendingPlace(q)'
  BY <1>17 DEF VideoEnds, Ended
<1>18. ASSUME NEW r \in Runs, VideoCut(r) PROVE PendingPlace(q)'
  BY <1>18 DEF VideoCut, Ended
<1>19. ASSUME NEW r \in Runs, VideoAttached(r) PROVE PendingPlace(q)'
  BY <1>19 DEF VideoAttached, Ended
<1>20. ASSUME NEW r \in Runs, AttachLands(r) PROVE PendingPlace(q)'
  <2>1. Attached(r)
    BY <1>20, AttachEffect
  <2>. QED BY <2>1 DEF Attached
<1>21. ASSUME Evict PROVE PendingPlace(q)'
  BY <1>21 DEF Evict, Mishap
<1>22. ASSUME Cancel PROVE PendingPlace(q)'
  BY <1>22 DEF Cancel
<1>. QED BY <1>1, <1>2, <1>3, <1>4, <1>5, <1>6, <1>7, <1>8, <1>9, <1>10, <1>11,
         <1>12, <1>13, <1>14, <1>15, <1>16, <1>17, <1>18, <1>19, <1>20, <1>21,
         <1>22
  DEF Next, Tick, Handle, Ledger, Fetch

\* The last of handler and video task closes.
LEMMA CloseComesStep ==
  ASSUME RunTypes, NEW q \in Runs, Place(q), CloseComes(q), Next
  PROVE  CloseComes(q)'
<1>. USE NobodyIsARun DEF RunTypes, CloseComes, Finally, InFlight, Place, Unposted, Blank,
            HandlerPlace, WritePlace, VideoPlace, AttachPlace, Live,
            registryVars, handlerVars, sharedVars, threadVars
<1>1. ASSUME NEW r \in Runs, Post(r) PROVE CloseComes(q)'
  BY <1>1 DEF Post, Goes, InTurn
<1>2. ASSUME NEW r \in Runs, PostRefused(r) PROVE CloseComes(q)'
  BY <1>2 DEF PostRefused, Goes, InTurn
<1>3. ASSUME NEW r \in Runs, DropAtInsert(r) PROVE CloseComes(q)'
  BY <1>3 DEF DropAtInsert, Goes, Mishap, Close
<1>4. ASSUME NEW r \in Runs, DropAtFinish(r) PROVE CloseComes(q)'
  BY <1>4 DEF DropAtFinish, Goes, Mishap, FinalClose, CloseIf, Close
<1>5. ASSUME NEW r \in Runs, StartVideo(r) \/ LoopTick(r) \/ StageEnds(r)
      PROVE  CloseComes(q)'
  BY <1>5 DEF StartVideo, LoopTick, StageEnds, Recreated
<1>6. ASSUME NEW r \in Runs, Tick(r) PROVE CloseComes(q)'
  BY <1>6 DEF Tick, TickStarts, TickSuppressed, TickLands, TickCreates,
    Recreated
<1>7. ASSUME NEW r \in Runs, Started(r) PROVE CloseComes(q)'
  BY <1>7 DEF Started, Goes
<1>8. ASSUME NEW r \in Runs, StartDecoding(r) PROVE CloseComes(q)'
  BY <1>8 DEF StartDecoding, Goes
<1>9. ASSUME NEW r \in Runs, FinishReturns(r) PROVE CloseComes(q)'
  BY <1>9 DEF FinishReturns, Goes, FinalClose, CloseIf, Close
<1>10. ASSUME NEW r \in Runs, HandlerAttached(r) PROVE CloseComes(q)'
  BY <1>10 DEF HandlerAttached, Goes, FinalClose, CloseIf, Close
<1>11. ASSUME NEW r \in Runs, NEW st \in {"ok", "error", "cancelled"},
             InnerEnds(r, st)
      PROVE  CloseComes(q)'
  BY <1>11 DEF InnerEnds, Goes, CloseIf, Close
<1>12. ASSUME NEW r \in Runs, NEW st \in {"ok", "error", "cancelled"},
             OuterEnds(r, st)
      PROVE  CloseComes(q)'
  BY <1>12 DEF OuterEnds, Goes, BeginFinish, Ended, FinalClose, CloseIf, Close
<1>13. ASSUME NEW r \in Runs, NEW st \in {"error", "cancelled"},
             LoadFails(r, st)
      PROVE  CloseComes(q)'
  BY <1>13 DEF LoadFails, Goes, BeginFinish, Close
<1>14. ASSUME NEW r \in Runs, InsertLands(r) PROVE CloseComes(q)'
  BY <1>14 DEF InsertLands
<1>15. ASSUME NEW r \in Runs, CloseAbortedRow(r) PROVE CloseComes(q)'
  BY <1>15 DEF CloseAbortedRow
<1>16. ASSUME NEW r \in Runs, FinishLands(r) PROVE CloseComes(q)'
  BY <1>16 DEF FinishLands, Mishap
<1>17. ASSUME NEW r \in Runs, VideoEnds(r) PROVE CloseComes(q)'
  BY <1>17 DEF VideoEnds, Ended, CloseIf, Close
<1>18. ASSUME NEW r \in Runs, VideoCut(r) PROVE CloseComes(q)'
  BY <1>18 DEF VideoCut, Ended, Close
<1>19. ASSUME NEW r \in Runs, VideoAttached(r) PROVE CloseComes(q)'
  BY <1>19 DEF VideoAttached, Ended, CloseIf, Close
<1>20. ASSUME NEW r \in Runs, AttachLands(r) PROVE CloseComes(q)'
  BY <1>20 DEF AttachLands
<1>21. ASSUME Evict PROVE CloseComes(q)'
  BY <1>21 DEF Evict, Mishap
<1>22. ASSUME Cancel PROVE CloseComes(q)'
  BY <1>22 DEF Cancel
<1>. QED BY <1>1, <1>2, <1>3, <1>4, <1>5, <1>6, <1>7, <1>8, <1>9, <1>10, <1>11,
         <1>12, <1>13, <1>14, <1>15, <1>16, <1>17, <1>18, <1>19, <1>20, <1>21,
         <1>22
  DEF Next, Tick, Handle, Ledger, Fetch

-----------------------------------------------------------------------------
(* The registry.                                                            *)

\* Runs stay in their order.
LEMMA InOrderStep ==
  ASSUME RunTypes, InOrder, Next
  PROVE  InOrder'
<1>. USE NumRunsAssumption DEF RunTypes, InOrder, Runs, registryVars, handlerVars, sharedVars,
            threadVars
<1>1. ASSUME NEW r \in Runs, Post(r) PROVE InOrder'
  BY <1>1 DEF Post, Goes, InTurn
<1>2. ASSUME NEW r \in Runs, PostRefused(r) PROVE InOrder'
  BY <1>2 DEF PostRefused, Goes, InTurn
<1>3. ASSUME NEW r \in Runs, DropAtInsert(r) PROVE InOrder'
  BY <1>3 DEF DropAtInsert, Goes, Mishap
<1>4. ASSUME NEW r \in Runs, DropAtFinish(r) PROVE InOrder'
  BY <1>4 DEF DropAtFinish, Goes, Mishap
<1>5. ASSUME NEW r \in Runs, StartVideo(r) \/ LoopTick(r) \/ StageEnds(r)
      PROVE  InOrder'
  BY <1>5 DEF StartVideo, LoopTick, StageEnds
<1>6. ASSUME NEW r \in Runs, Tick(r) PROVE InOrder'
  BY <1>6 DEF Tick, TickStarts, TickSuppressed, TickLands, TickCreates
<1>7. ASSUME NEW r \in Runs, Started(r) PROVE InOrder'
  BY <1>7 DEF Started, Goes
<1>8. ASSUME NEW r \in Runs, StartDecoding(r) PROVE InOrder'
  BY <1>8 DEF StartDecoding, Goes
<1>9. ASSUME NEW r \in Runs, FinishReturns(r) PROVE InOrder'
  BY <1>9 DEF FinishReturns, Goes
<1>10. ASSUME NEW r \in Runs, HandlerAttached(r) PROVE InOrder'
  BY <1>10 DEF HandlerAttached, Goes
<1>11. ASSUME NEW r \in Runs, NEW st \in {"ok", "error", "cancelled"},
             InnerEnds(r, st)
      PROVE  InOrder'
  BY <1>11 DEF InnerEnds, Goes
<1>12. ASSUME NEW r \in Runs, NEW st \in {"ok", "error", "cancelled"},
             OuterEnds(r, st)
      PROVE  InOrder'
  <2>1. /\ handler[r] = "cleaning"
        /\ \/ handler' = [handler EXCEPT ![r] = "finishing"]
           \/ handler' = [handler EXCEPT ![r] = "done"]
    BY <1>12 DEF OuterEnds, BeginFinish, Goes
  <2>. QED BY <2>1
<1>13. ASSUME NEW r \in Runs, NEW st \in {"error", "cancelled"},
             LoadFails(r, st)
      PROVE  InOrder'
  BY <1>13 DEF LoadFails, Goes, BeginFinish
<1>14. ASSUME NEW r \in Runs, InsertLands(r) PROVE InOrder'
  BY <1>14 DEF InsertLands
<1>15. ASSUME NEW r \in Runs, CloseAbortedRow(r) PROVE InOrder'
  BY <1>15 DEF CloseAbortedRow
<1>16. ASSUME NEW r \in Runs, FinishLands(r) PROVE InOrder'
  BY <1>16 DEF FinishLands, Mishap
<1>17. ASSUME NEW r \in Runs, VideoEnds(r) PROVE InOrder'
  BY <1>17 DEF VideoEnds, Ended
<1>18. ASSUME NEW r \in Runs, VideoCut(r) PROVE InOrder'
  BY <1>18 DEF VideoCut, Ended
<1>19. ASSUME NEW r \in Runs, VideoAttached(r) PROVE InOrder'
  BY <1>19 DEF VideoAttached, Ended
<1>20. ASSUME NEW r \in Runs, AttachLands(r) PROVE InOrder'
  BY <1>20 DEF AttachLands
<1>21. ASSUME Evict PROVE InOrder'
  BY <1>21 DEF Evict, Mishap
<1>22. ASSUME Cancel PROVE InOrder'
  BY <1>22 DEF Cancel
<1>. QED BY <1>1, <1>2, <1>3, <1>4, <1>5, <1>6, <1>7, <1>8, <1>9, <1>10, <1>11,
         <1>12, <1>13, <1>14, <1>15, <1>16, <1>17, <1>18, <1>19, <1>20, <1>21,
         <1>22
  DEF Next, Tick, Handle, Ledger, Fetch

\* Only a post touches a run that nothing was done for.
LEMMA UntouchedStep ==
  ASSUME RunTypes, NEW q \in Runs, Untouched(q), ~Post(q), Next
  PROVE  Untouched(q)'
<1>. USE DEF RunTypes, Untouched, Blank, registryVars, handlerVars, sharedVars,
            threadVars
<1>1. ASSUME NEW r \in Runs, Post(r) PROVE Untouched(q)'
  BY <1>1 DEF Post, Goes
<1>2. ASSUME NEW r \in Runs, PostRefused(r) PROVE Untouched(q)'
  BY <1>2 DEF PostRefused, Goes
<1>3. ASSUME NEW r \in Runs, DropAtInsert(r) PROVE Untouched(q)'
  BY <1>3 DEF DropAtInsert, Goes, Mishap
<1>4. ASSUME NEW r \in Runs, DropAtFinish(r) PROVE Untouched(q)'
  BY <1>4 DEF DropAtFinish, Goes, Mishap
<1>5. ASSUME NEW r \in Runs, StartVideo(r) \/ LoopTick(r) \/ StageEnds(r)
      PROVE  Untouched(q)'
  BY <1>5 DEF StartVideo, LoopTick, StageEnds
<1>6. ASSUME NEW r \in Runs, Tick(r) PROVE Untouched(q)'
  BY <1>6 DEF Tick, TickStarts, TickSuppressed, TickLands, TickCreates
<1>7. ASSUME NEW r \in Runs, Started(r) PROVE Untouched(q)'
  BY <1>7 DEF Started, Goes
<1>8. ASSUME NEW r \in Runs, StartDecoding(r) PROVE Untouched(q)'
  BY <1>8 DEF StartDecoding, Goes
<1>9. ASSUME NEW r \in Runs, FinishReturns(r) PROVE Untouched(q)'
  BY <1>9 DEF FinishReturns, Goes
<1>10. ASSUME NEW r \in Runs, HandlerAttached(r) PROVE Untouched(q)'
  BY <1>10 DEF HandlerAttached, Goes
<1>11. ASSUME NEW r \in Runs, NEW st \in {"ok", "error", "cancelled"},
             InnerEnds(r, st)
      PROVE  Untouched(q)'
  BY <1>11 DEF InnerEnds, Goes
<1>12. ASSUME NEW r \in Runs, NEW st \in {"ok", "error", "cancelled"},
             OuterEnds(r, st)
      PROVE  Untouched(q)'
  BY <1>12 DEF OuterEnds, Goes, BeginFinish, Ended
<1>13. ASSUME NEW r \in Runs, NEW st \in {"error", "cancelled"},
             LoadFails(r, st)
      PROVE  Untouched(q)'
  BY <1>13 DEF LoadFails, Goes, BeginFinish
<1>14. ASSUME NEW r \in Runs, InsertLands(r) PROVE Untouched(q)'
  BY <1>14 DEF InsertLands
<1>15. ASSUME NEW r \in Runs, CloseAbortedRow(r) PROVE Untouched(q)'
  BY <1>15 DEF CloseAbortedRow
<1>16. ASSUME NEW r \in Runs, FinishLands(r) PROVE Untouched(q)'
  BY <1>16 DEF FinishLands, Mishap
<1>17. ASSUME NEW r \in Runs, VideoEnds(r) PROVE Untouched(q)'
  BY <1>17 DEF VideoEnds, Ended
<1>18. ASSUME NEW r \in Runs, VideoCut(r) PROVE Untouched(q)'
  BY <1>18 DEF VideoCut, Ended
<1>19. ASSUME NEW r \in Runs, VideoAttached(r) PROVE Untouched(q)'
  BY <1>19 DEF VideoAttached, Ended
<1>20. ASSUME NEW r \in Runs, AttachLands(r) PROVE Untouched(q)'
  BY <1>20 DEF AttachLands
<1>21. ASSUME Evict PROVE Untouched(q)'
  BY <1>21 DEF Evict, Mishap
<1>22. ASSUME Cancel PROVE Untouched(q)'
  BY <1>22 DEF Cancel
<1>. QED BY <1>1, <1>2, <1>3, <1>4, <1>5, <1>6, <1>7, <1>8, <1>9, <1>10, <1>11,
         <1>12, <1>13, <1>14, <1>15, <1>16, <1>17, <1>18, <1>19, <1>20, <1>21,
         <1>22
  DEF Next, Tick, Handle, Ledger, Fetch

\* The owner is the run that claimed the id last, or nobody's.
LEMMA OwnerStep ==
  ASSUME TRUE, Next
  PROVE  \/ owner' \in {owner, NoRun}
         \/ \E p \in Runs : Post(p) /\ owner' = p
<1>. USE DEF registryVars, handlerVars, sharedVars, threadVars
<1>. DEFINE Goal == \/ owner' \in {owner, NoRun}
                             \/ \E p \in Runs : Post(p) /\ owner' = p
<1>1. ASSUME NEW r \in Runs, Post(r) PROVE Goal
  BY <1>1 DEF Post
<1>2. ASSUME NEW r \in Runs, PostRefused(r) PROVE Goal
  BY <1>2 DEF PostRefused
<1>3. ASSUME NEW r \in Runs, DropAtInsert(r) PROVE Goal
  BY <1>3 DEF DropAtInsert, Close
<1>4. ASSUME NEW r \in Runs, DropAtFinish(r) PROVE Goal
  BY <1>4 DEF DropAtFinish, FinalClose, CloseIf, Close
<1>5. ASSUME NEW r \in Runs, StartVideo(r) \/ LoopTick(r) \/ StageEnds(r)
      PROVE  Goal
  BY <1>5 DEF StartVideo, LoopTick, StageEnds, Recreated
<1>6. ASSUME NEW r \in Runs, Tick(r) PROVE Goal
  BY <1>6 DEF Tick, TickStarts, TickSuppressed, TickLands, TickCreates,
    Recreated
<1>7. ASSUME NEW r \in Runs, Started(r) PROVE Goal
  BY <1>7 DEF Started
<1>8. ASSUME NEW r \in Runs, StartDecoding(r) PROVE Goal
  BY <1>8 DEF StartDecoding
<1>9. ASSUME NEW r \in Runs, FinishReturns(r) PROVE Goal
  BY <1>9 DEF FinishReturns, FinalClose, CloseIf, Close
<1>10. ASSUME NEW r \in Runs, HandlerAttached(r) PROVE Goal
  BY <1>10 DEF HandlerAttached, FinalClose, CloseIf, Close
<1>11. ASSUME NEW r \in Runs, NEW st \in {"ok", "error", "cancelled"},
             InnerEnds(r, st)
      PROVE  Goal
  BY <1>11 DEF InnerEnds, CloseIf, Close
<1>12. ASSUME NEW r \in Runs, NEW st \in {"ok", "error", "cancelled"},
             OuterEnds(r, st)
      PROVE  Goal
  BY <1>12 DEF OuterEnds, FinalClose, CloseIf, Close
<1>13. ASSUME NEW r \in Runs, NEW st \in {"error", "cancelled"},
             LoadFails(r, st)
      PROVE  Goal
  BY <1>13 DEF LoadFails, Close
<1>14. ASSUME NEW r \in Runs, InsertLands(r) PROVE Goal
  BY <1>14 DEF InsertLands
<1>15. ASSUME NEW r \in Runs, CloseAbortedRow(r) PROVE Goal
  BY <1>15 DEF CloseAbortedRow
<1>16. ASSUME NEW r \in Runs, FinishLands(r) PROVE Goal
  BY <1>16 DEF FinishLands
<1>17. ASSUME NEW r \in Runs, VideoEnds(r) PROVE Goal
  BY <1>17 DEF VideoEnds, CloseIf, Close
<1>18. ASSUME NEW r \in Runs, VideoCut(r) PROVE Goal
  BY <1>18 DEF VideoCut, Close
<1>19. ASSUME NEW r \in Runs, VideoAttached(r) PROVE Goal
  BY <1>19 DEF VideoAttached, CloseIf, Close
<1>20. ASSUME NEW r \in Runs, AttachLands(r) PROVE Goal
  BY <1>20 DEF AttachLands
<1>21. ASSUME Evict PROVE Goal
  BY <1>21 DEF Evict, Mishap
<1>22. ASSUME Cancel PROVE Goal
  BY <1>22 DEF Cancel
<1>. QED BY <1>1, <1>2, <1>3, <1>4, <1>5, <1>6, <1>7, <1>8, <1>9, <1>10, <1>11,
         <1>12, <1>13, <1>14, <1>15, <1>16, <1>17, <1>18, <1>19, <1>20, <1>21,
         <1>22
  DEF Next, Tick, Handle, Ledger, Fetch

\* An entry carries the stamp of the owner.
LEMMA StampedStep ==
  ASSUME RegistryTypes, Stamped, Next
  PROVE  Stamped'
<1>. USE NobodyIsARun DEF RegistryTypes, Stamped, registryVars, handlerVars, sharedVars,
            threadVars
<1>1. ASSUME NEW r \in Runs, Post(r) PROVE Stamped'
  BY <1>1 DEF Post
<1>2. ASSUME NEW r \in Runs, PostRefused(r) PROVE Stamped'
  BY <1>2 DEF PostRefused
<1>3. ASSUME NEW r \in Runs, DropAtInsert(r) PROVE Stamped'
  BY <1>3 DEF DropAtInsert, Close
<1>4. ASSUME NEW r \in Runs, DropAtFinish(r) PROVE Stamped'
  BY <1>4 DEF DropAtFinish, FinalClose, CloseIf, Close
<1>5. ASSUME NEW r \in Runs, StartVideo(r) \/ LoopTick(r) \/ StageEnds(r)
      PROVE  Stamped'
  BY <1>5 DEF StartVideo, LoopTick, StageEnds, Recreated
<1>6. ASSUME NEW r \in Runs, Tick(r) PROVE Stamped'
  BY <1>6 DEF Tick, TickStarts, TickSuppressed, TickLands, TickCreates,
    Recreated
<1>7. ASSUME NEW r \in Runs, Started(r) PROVE Stamped'
  BY <1>7 DEF Started
<1>8. ASSUME NEW r \in Runs, StartDecoding(r) PROVE Stamped'
  BY <1>8 DEF StartDecoding
<1>9. ASSUME NEW r \in Runs, FinishReturns(r) PROVE Stamped'
  BY <1>9 DEF FinishReturns, FinalClose, CloseIf, Close
<1>10. ASSUME NEW r \in Runs, HandlerAttached(r) PROVE Stamped'
  BY <1>10 DEF HandlerAttached, FinalClose, CloseIf, Close
<1>11. ASSUME NEW r \in Runs, NEW st \in {"ok", "error", "cancelled"},
             InnerEnds(r, st)
      PROVE  Stamped'
  BY <1>11 DEF InnerEnds, CloseIf, Close
<1>12. ASSUME NEW r \in Runs, NEW st \in {"ok", "error", "cancelled"},
             OuterEnds(r, st)
      PROVE  Stamped'
  BY <1>12 DEF OuterEnds, FinalClose, CloseIf, Close
<1>13. ASSUME NEW r \in Runs, NEW st \in {"error", "cancelled"},
             LoadFails(r, st)
      PROVE  Stamped'
  BY <1>13 DEF LoadFails, Close
<1>14. ASSUME NEW r \in Runs, InsertLands(r) PROVE Stamped'
  BY <1>14 DEF InsertLands
<1>15. ASSUME NEW r \in Runs, CloseAbortedRow(r) PROVE Stamped'
  BY <1>15 DEF CloseAbortedRow
<1>16. ASSUME NEW r \in Runs, FinishLands(r) PROVE Stamped'
  BY <1>16 DEF FinishLands
<1>17. ASSUME NEW r \in Runs, VideoEnds(r) PROVE Stamped'
  BY <1>17 DEF VideoEnds, CloseIf, Close
<1>18. ASSUME NEW r \in Runs, VideoCut(r) PROVE Stamped'
  BY <1>18 DEF VideoCut, Close
<1>19. ASSUME NEW r \in Runs, VideoAttached(r) PROVE Stamped'
  BY <1>19 DEF VideoAttached, CloseIf, Close
<1>20. ASSUME NEW r \in Runs, AttachLands(r) PROVE Stamped'
  BY <1>20 DEF AttachLands
<1>21. ASSUME Evict PROVE Stamped'
  BY <1>21 DEF Evict, Mishap
<1>22. ASSUME Cancel PROVE Stamped'
  BY <1>22 DEF Cancel
<1>. QED BY <1>1, <1>2, <1>3, <1>4, <1>5, <1>6, <1>7, <1>8, <1>9, <1>10, <1>11,
         <1>12, <1>13, <1>14, <1>15, <1>16, <1>17, <1>18, <1>19, <1>20, <1>21,
         <1>22
  DEF Next, Tick, Handle, Ledger, Fetch

\* What an eviction would break.
LEMMA UnevictedStep ==
  ASSUME RegistryTypes, RunTypes, Places, Unevicted, Next
  PROVE  Unevicted'
<1>. USE NobodyIsARun DEF RegistryTypes, RunTypes, Unevicted, Places, Place, Unposted,
            Blank, registryVars, handlerVars, sharedVars, threadVars
<1>1. ASSUME NEW r \in Runs, Post(r) PROVE Unevicted'
  BY <1>1 DEF Post, Goes, InTurn
<1>2. ASSUME NEW r \in Runs, PostRefused(r) PROVE Unevicted'
  BY <1>2 DEF PostRefused, Goes, InTurn
<1>3. ASSUME NEW r \in Runs, DropAtInsert(r) PROVE Unevicted'
  BY <1>3 DEF DropAtInsert, Goes, Mishap, Close
<1>4. ASSUME NEW r \in Runs, DropAtFinish(r) PROVE Unevicted'
  BY <1>4 DEF DropAtFinish, Goes, Mishap, FinalClose, CloseIf, Close
<1>5. ASSUME NEW r \in Runs, StartVideo(r) \/ LoopTick(r) \/ StageEnds(r)
      PROVE  Unevicted'
  BY <1>5 DEF StartVideo, LoopTick, StageEnds, Recreated
<1>6. ASSUME NEW r \in Runs, Tick(r) PROVE Unevicted'
  BY <1>6 DEF Tick, TickStarts, TickSuppressed, TickLands, TickCreates,
    Recreated
<1>7. ASSUME NEW r \in Runs, Started(r) PROVE Unevicted'
  BY <1>7 DEF Started, Goes
<1>8. ASSUME NEW r \in Runs, StartDecoding(r) PROVE Unevicted'
  BY <1>8 DEF StartDecoding, Goes
<1>9. ASSUME NEW r \in Runs, FinishReturns(r) PROVE Unevicted'
  BY <1>9 DEF FinishReturns, Goes, FinalClose, CloseIf, Close
<1>10. ASSUME NEW r \in Runs, HandlerAttached(r) PROVE Unevicted'
  BY <1>10 DEF HandlerAttached, Goes, FinalClose, CloseIf, Close
<1>11. ASSUME NEW r \in Runs, NEW st \in {"ok", "error", "cancelled"},
             InnerEnds(r, st)
      PROVE  Unevicted'
  BY <1>11 DEF InnerEnds, Goes, CloseIf, Close
<1>12. ASSUME NEW r \in Runs, NEW st \in {"ok", "error", "cancelled"},
             OuterEnds(r, st)
      PROVE  Unevicted'
  BY <1>12 DEF OuterEnds, Goes, BeginFinish, Ended, FinalClose, CloseIf, Close
<1>13. ASSUME NEW r \in Runs, NEW st \in {"error", "cancelled"},
             LoadFails(r, st)
      PROVE  Unevicted'
  BY <1>13 DEF LoadFails, Goes, BeginFinish, Close
<1>14. ASSUME NEW r \in Runs, InsertLands(r) PROVE Unevicted'
  BY <1>14 DEF InsertLands
<1>15. ASSUME NEW r \in Runs, CloseAbortedRow(r) PROVE Unevicted'
  BY <1>15 DEF CloseAbortedRow
<1>16. ASSUME NEW r \in Runs, FinishLands(r) PROVE Unevicted'
  BY <1>16 DEF FinishLands, Mishap
<1>17. ASSUME NEW r \in Runs, VideoEnds(r) PROVE Unevicted'
  BY <1>17 DEF VideoEnds, Ended, CloseIf, Close
<1>18. ASSUME NEW r \in Runs, VideoCut(r) PROVE Unevicted'
  BY <1>18 DEF VideoCut, Ended, Close
<1>19. ASSUME NEW r \in Runs, VideoAttached(r) PROVE Unevicted'
  BY <1>19 DEF VideoAttached, Ended, CloseIf, Close
<1>20. ASSUME NEW r \in Runs, AttachLands(r) PROVE Unevicted'
  BY <1>20 DEF AttachLands
<1>21. ASSUME Evict PROVE Unevicted'
  BY <1>21 DEF Evict, Mishap
<1>22. ASSUME Cancel PROVE Unevicted'
  BY <1>22 DEF Cancel
<1>. QED BY <1>1, <1>2, <1>3, <1>4, <1>5, <1>6, <1>7, <1>8, <1>9, <1>10, <1>11,
         <1>12, <1>13, <1>14, <1>15, <1>16, <1>17, <1>18, <1>19, <1>20, <1>21,
         <1>22
  DEF Next, Tick, Handle, Ledger, Fetch

\* A video that was begun is never unbegun.
LEMMA VideoStays ==
  ASSUME RunTypes, NEW q \in Runs, video[q] # "none", Next
  PROVE  video[q]' # "none"
<1>. USE DEF RunTypes, registryVars, handlerVars, sharedVars, threadVars
<1>1. ASSUME NEW r \in Runs, Post(r) PROVE video[q]' # "none"
  BY <1>1 DEF Post
<1>2. ASSUME NEW r \in Runs, PostRefused(r) PROVE video[q]' # "none"
  BY <1>2 DEF PostRefused
<1>3. ASSUME NEW r \in Runs, DropAtInsert(r) PROVE video[q]' # "none"
  BY <1>3 DEF DropAtInsert
<1>4. ASSUME NEW r \in Runs, DropAtFinish(r) PROVE video[q]' # "none"
  BY <1>4 DEF DropAtFinish
<1>5. ASSUME NEW r \in Runs, StartVideo(r) \/ LoopTick(r) \/ StageEnds(r)
      PROVE  video[q]' # "none"
  BY <1>5 DEF StartVideo, LoopTick, StageEnds
<1>6. ASSUME NEW r \in Runs, Tick(r) PROVE video[q]' # "none"
  BY <1>6 DEF Tick, TickStarts, TickSuppressed, TickLands, TickCreates
<1>7. ASSUME NEW r \in Runs, Started(r) PROVE video[q]' # "none"
  BY <1>7 DEF Started
<1>8. ASSUME NEW r \in Runs, StartDecoding(r) PROVE video[q]' # "none"
  BY <1>8 DEF StartDecoding
<1>9. ASSUME NEW r \in Runs, FinishReturns(r) PROVE video[q]' # "none"
  BY <1>9 DEF FinishReturns
<1>10. ASSUME NEW r \in Runs, HandlerAttached(r) PROVE video[q]' # "none"
  BY <1>10 DEF HandlerAttached
<1>11. ASSUME NEW r \in Runs, NEW st \in {"ok", "error", "cancelled"},
             InnerEnds(r, st)
      PROVE  video[q]' # "none"
  BY <1>11 DEF InnerEnds
<1>12. ASSUME NEW r \in Runs, NEW st \in {"ok", "error", "cancelled"},
             OuterEnds(r, st)
      PROVE  video[q]' # "none"
  BY <1>12 DEF OuterEnds
<1>13. ASSUME NEW r \in Runs, NEW st \in {"error", "cancelled"},
             LoadFails(r, st)
      PROVE  video[q]' # "none"
  BY <1>13 DEF LoadFails
<1>14. ASSUME NEW r \in Runs, InsertLands(r) PROVE video[q]' # "none"
  BY <1>14 DEF InsertLands
<1>15. ASSUME NEW r \in Runs, CloseAbortedRow(r) PROVE video[q]' # "none"
  BY <1>15 DEF CloseAbortedRow
<1>16. ASSUME NEW r \in Runs, FinishLands(r) PROVE video[q]' # "none"
  BY <1>16 DEF FinishLands
<1>17. ASSUME NEW r \in Runs, VideoEnds(r) PROVE video[q]' # "none"
  BY <1>17 DEF VideoEnds
<1>18. ASSUME NEW r \in Runs, VideoCut(r) PROVE video[q]' # "none"
  BY <1>18 DEF VideoCut
<1>19. ASSUME NEW r \in Runs, VideoAttached(r) PROVE video[q]' # "none"
  BY <1>19 DEF VideoAttached
<1>20. ASSUME NEW r \in Runs, AttachLands(r) PROVE video[q]' # "none"
  BY <1>20 DEF AttachLands
<1>21. ASSUME Evict PROVE video[q]' # "none"
  BY <1>21 DEF Evict, Mishap
<1>22. ASSUME Cancel PROVE video[q]' # "none"
  BY <1>22 DEF Cancel
<1>. QED BY <1>1, <1>2, <1>3, <1>4, <1>5, <1>6, <1>7, <1>8, <1>9, <1>10, <1>11,
         <1>12, <1>13, <1>14, <1>15, <1>16, <1>17, <1>18, <1>19, <1>20, <1>21,
         <1>22
  DEF Next, Tick, Handle, Ledger, Fetch

\* Only a post makes a run hold the id.
LEMMA HoldsStep ==
  ASSUME RunTypes, row \in RowType, NEW q \in Runs, Place(q), RowPlace(q), ~Holds(q), ~Post(q), Next
  PROVE  ~Holds(q)'
<1>. USE DEF RunTypes, RowType, RowPlace, Holds, Finally, InFlight, Place,
            Unposted, Blank, HandlerPlace, WritePlace, VideoPlace, AttachPlace,
            Live, registryVars, handlerVars, sharedVars, threadVars
<1>1. ASSUME NEW r \in Runs, Post(r) PROVE ~Holds(q)'
  BY <1>1 DEF Post, Goes, InTurn
<1>2. ASSUME NEW r \in Runs, PostRefused(r) PROVE ~Holds(q)'
  BY <1>2 DEF PostRefused, Goes, InTurn
<1>3. ASSUME NEW r \in Runs, DropAtInsert(r) PROVE ~Holds(q)'
  BY <1>3 DEF DropAtInsert, Goes, Mishap
<1>4. ASSUME NEW r \in Runs, DropAtFinish(r) PROVE ~Holds(q)'
  BY <1>4 DEF DropAtFinish, Goes, Mishap
<1>5. ASSUME NEW r \in Runs, StartVideo(r) \/ LoopTick(r) \/ StageEnds(r)
      PROVE  ~Holds(q)'
  BY <1>5 DEF StartVideo, LoopTick, StageEnds
<1>6. ASSUME NEW r \in Runs, Tick(r) PROVE ~Holds(q)'
  BY <1>6 DEF Tick, TickStarts, TickSuppressed, TickLands, TickCreates
<1>7. ASSUME NEW r \in Runs, Started(r) PROVE ~Holds(q)'
  BY <1>7 DEF Started, Goes
<1>8. ASSUME NEW r \in Runs, StartDecoding(r) PROVE ~Holds(q)'
  BY <1>8 DEF StartDecoding, Goes
<1>9. ASSUME NEW r \in Runs, FinishReturns(r) PROVE ~Holds(q)'
  BY <1>9 DEF FinishReturns, Goes
<1>10. ASSUME NEW r \in Runs, HandlerAttached(r) PROVE ~Holds(q)'
  BY <1>10 DEF HandlerAttached, Goes
<1>11. ASSUME NEW r \in Runs, NEW st \in {"ok", "error", "cancelled"},
             InnerEnds(r, st)
      PROVE  ~Holds(q)'
  BY <1>11 DEF InnerEnds, Goes
<1>12. ASSUME NEW r \in Runs, NEW st \in {"ok", "error", "cancelled"},
             OuterEnds(r, st)
      PROVE  ~Holds(q)'
  BY <1>12 DEF OuterEnds, Goes, BeginFinish, Ended
<1>13. ASSUME NEW r \in Runs, NEW st \in {"error", "cancelled"},
             LoadFails(r, st)
      PROVE  ~Holds(q)'
  BY <1>13 DEF LoadFails, Goes, BeginFinish
<1>14. ASSUME NEW r \in Runs, InsertLands(r) PROVE ~Holds(q)'
  BY <1>14 DEF InsertLands
<1>15. ASSUME NEW r \in Runs, CloseAbortedRow(r) PROVE ~Holds(q)'
  BY <1>15 DEF CloseAbortedRow
<1>16. ASSUME NEW r \in Runs, FinishLands(r) PROVE ~Holds(q)'
  <2>1. Finished(r)
    BY <1>16, FinishEffect
  <2>. QED BY <2>1 DEF Finished
<1>17. ASSUME NEW r \in Runs, VideoEnds(r) PROVE ~Holds(q)'
  BY <1>17 DEF VideoEnds, Ended
<1>18. ASSUME NEW r \in Runs, VideoCut(r) PROVE ~Holds(q)'
  BY <1>18 DEF VideoCut, Ended
<1>19. ASSUME NEW r \in Runs, VideoAttached(r) PROVE ~Holds(q)'
  BY <1>19 DEF VideoAttached, Ended
<1>20. ASSUME NEW r \in Runs, AttachLands(r) PROVE ~Holds(q)'
  <2>1. Attached(r)
    BY <1>20, AttachEffect
  <2>. QED BY <2>1 DEF Attached
<1>21. ASSUME Evict PROVE ~Holds(q)'
  BY <1>21 DEF Evict, Mishap
<1>22. ASSUME Cancel PROVE ~Holds(q)'
  BY <1>22 DEF Cancel
<1>. QED BY <1>1, <1>2, <1>3, <1>4, <1>5, <1>6, <1>7, <1>8, <1>9, <1>10, <1>11,
         <1>12, <1>13, <1>14, <1>15, <1>16, <1>17, <1>18, <1>19, <1>20, <1>21,
         <1>22
  DEF Next, Tick, Handle, Ledger, Fetch

\* Who takes the id away: a run at work, or one with a video, which no longer
\* holds it then.
LEMMA CloserStep ==
  ASSUME RunTypes, row \in RowType, Places, Next
  PROVE  \/ owner' = owner
         \/ \E p \in Runs :
              \/ Post(p)
              \/ (Live(p) \/ video[p] # "none") /\ ~Holds(p)'
<1>. USE DEF RunTypes, RowType, Places, RowPlace, Holds, Finally, InFlight,
            Place, Unposted, Blank, HandlerPlace, WritePlace, VideoPlace,
            AttachPlace, Live, registryVars, handlerVars, sharedVars,
            threadVars
<1>. DEFINE Goal == \/ owner' = owner
                             \/ \E p \in Runs :
                                  \/ Post(p)
                                  \/ (Live(p) \/ video[p] # "none") /\ ~Holds(p)'
<1>1. ASSUME NEW r \in Runs, Post(r) PROVE Goal
  BY <1>1 DEF Post, Goes
<1>2. ASSUME NEW r \in Runs, PostRefused(r) PROVE Goal
  BY <1>2 DEF PostRefused, Goes
<1>3. ASSUME NEW r \in Runs, DropAtInsert(r) PROVE Goal
  BY <1>3 DEF DropAtInsert, Goes, Mishap, Close
<1>4. ASSUME NEW r \in Runs, DropAtFinish(r) PROVE Goal
  <2>1. owner' # owner => closeAfterAttach[r] \/ (runFinished[r] /\ video[r] \in Ended)
    BY <1>4 DEF DropAtFinish, FinalClose, CloseIf
  <2>2. owner' # owner => video[r] # "none"
    BY <2>1 DEF Ended
  <2>3. owner' # owner => ~Holds(r)'
    BY <1>4, <2>1 DEF DropAtFinish, Goes, Ended
  <2>. QED BY <2>2, <2>3
<1>5. ASSUME NEW r \in Runs, StartVideo(r) \/ LoopTick(r) \/ StageEnds(r)
      PROVE  Goal
  BY <1>5 DEF StartVideo, LoopTick, StageEnds, Recreated
<1>6. ASSUME NEW r \in Runs, Tick(r) PROVE Goal
  BY <1>6 DEF Tick, TickStarts, TickSuppressed, TickLands, TickCreates,
    Recreated
<1>7. ASSUME NEW r \in Runs, Started(r) PROVE Goal
  BY <1>7 DEF Started, Goes
<1>8. ASSUME NEW r \in Runs, StartDecoding(r) PROVE Goal
  BY <1>8 DEF StartDecoding, Goes
<1>9. ASSUME NEW r \in Runs, FinishReturns(r) PROVE Goal
  <2>1. owner' # owner => closeAfterAttach[r] \/ (runFinished[r] /\ video[r] \in Ended)
    BY <1>9 DEF FinishReturns, FinalClose, CloseIf
  <2>2. owner' # owner => video[r] # "none"
    BY <2>1 DEF Ended
  <2>3. owner' # owner => ~Holds(r)'
    BY <1>9, <2>1 DEF FinishReturns, Goes, Ended
  <2>. QED BY <2>2, <2>3
<1>10. ASSUME NEW r \in Runs, HandlerAttached(r) PROVE Goal
  BY <1>10 DEF HandlerAttached, Goes, FinalClose, CloseIf, Close
<1>11. ASSUME NEW r \in Runs, NEW st \in {"ok", "error", "cancelled"},
             InnerEnds(r, st)
      PROVE  Goal
  BY <1>11 DEF InnerEnds, Goes, CloseIf, Close
<1>12. ASSUME NEW r \in Runs, NEW st \in {"ok", "error", "cancelled"},
             OuterEnds(r, st)
      PROVE  Goal
  BY <1>12 DEF OuterEnds, Goes, BeginFinish, Ended, FinalClose, CloseIf, Close
<1>13. ASSUME NEW r \in Runs, NEW st \in {"error", "cancelled"},
             LoadFails(r, st)
      PROVE  Goal
  BY <1>13 DEF LoadFails, Goes, BeginFinish, Close
<1>14. ASSUME NEW r \in Runs, InsertLands(r) PROVE Goal
  BY <1>14 DEF InsertLands
<1>15. ASSUME NEW r \in Runs, CloseAbortedRow(r) PROVE Goal
  BY <1>15 DEF CloseAbortedRow
<1>16. ASSUME NEW r \in Runs, FinishLands(r) PROVE Goal
  BY <1>16 DEF FinishLands, Mishap
<1>17. ASSUME NEW r \in Runs, VideoEnds(r) PROVE Goal
  BY <1>17 DEF VideoEnds, Ended, CloseIf, Close
<1>18. ASSUME NEW r \in Runs, VideoCut(r) PROVE Goal
  BY <1>18 DEF VideoCut, Ended, Close
<1>19. ASSUME NEW r \in Runs, VideoAttached(r) PROVE Goal
  BY <1>19 DEF VideoAttached, Ended, CloseIf, Close
<1>20. ASSUME NEW r \in Runs, AttachLands(r) PROVE Goal
  BY <1>20 DEF AttachLands
<1>21. ASSUME Evict PROVE Goal
  BY <1>21 DEF Evict, Mishap
<1>22. ASSUME Cancel PROVE Goal
  BY <1>22 DEF Cancel
<1>. QED BY <1>1, <1>2, <1>3, <1>4, <1>5, <1>6, <1>7, <1>8, <1>9, <1>10, <1>11,
         <1>12, <1>13, <1>14, <1>15, <1>16, <1>17, <1>18, <1>19, <1>20, <1>21,
         <1>22
  DEF Next, Tick, Handle, Ledger, Fetch

\* A binding is replaced at a post, and popped by its own run, which is not
\* live then.
LEMMA BindingStep ==
  ASSUME RunTypes, Next
  PROVE  \/ binding' = binding
         \/ \E p \in Runs : Post(p) \/ (binding = p /\ ~Live(p)')
<1>. USE DEF RunTypes, Live, registryVars, handlerVars, sharedVars, threadVars
<1>. DEFINE Goal == \/ binding' = binding
                             \/ \E p \in Runs : Post(p) \/ (binding = p /\ ~Live(p)')
<1>1. ASSUME NEW r \in Runs, Post(r) PROVE Goal
  BY <1>1 DEF Post, Goes
<1>2. ASSUME NEW r \in Runs, PostRefused(r) PROVE Goal
  BY <1>2 DEF PostRefused, Goes
<1>3. ASSUME NEW r \in Runs, DropAtInsert(r) PROVE Goal
  BY <1>3 DEF DropAtInsert, Goes, Mishap, Unbind
<1>4. ASSUME NEW r \in Runs, DropAtFinish(r) PROVE Goal
  BY <1>4 DEF DropAtFinish, Goes, Mishap
<1>5. ASSUME NEW r \in Runs, StartVideo(r) \/ LoopTick(r) \/ StageEnds(r)
      PROVE  Goal
  BY <1>5 DEF StartVideo, LoopTick, StageEnds
<1>6. ASSUME NEW r \in Runs, Tick(r) PROVE Goal
  BY <1>6 DEF Tick, TickStarts, TickSuppressed, TickLands, TickCreates
<1>7. ASSUME NEW r \in Runs, Started(r) PROVE Goal
  BY <1>7 DEF Started, Goes
<1>8. ASSUME NEW r \in Runs, StartDecoding(r) PROVE Goal
  BY <1>8 DEF StartDecoding, Goes
<1>9. ASSUME NEW r \in Runs, FinishReturns(r) PROVE Goal
  BY <1>9 DEF FinishReturns, Goes
<1>10. ASSUME NEW r \in Runs, HandlerAttached(r) PROVE Goal
  BY <1>10 DEF HandlerAttached, Goes
<1>11. ASSUME NEW r \in Runs, NEW st \in {"ok", "error", "cancelled"},
             InnerEnds(r, st)
      PROVE  Goal
  BY <1>11 DEF InnerEnds, Goes
<1>12. ASSUME NEW r \in Runs, NEW st \in {"ok", "error", "cancelled"},
             OuterEnds(r, st)
      PROVE  Goal
  BY <1>12 DEF OuterEnds, Goes, BeginFinish, Ended, Unbind
<1>13. ASSUME NEW r \in Runs, NEW st \in {"error", "cancelled"},
             LoadFails(r, st)
      PROVE  Goal
  BY <1>13 DEF LoadFails, Goes, BeginFinish, Unbind
<1>14. ASSUME NEW r \in Runs, InsertLands(r) PROVE Goal
  BY <1>14 DEF InsertLands
<1>15. ASSUME NEW r \in Runs, CloseAbortedRow(r) PROVE Goal
  BY <1>15 DEF CloseAbortedRow
<1>16. ASSUME NEW r \in Runs, FinishLands(r) PROVE Goal
  BY <1>16 DEF FinishLands, Mishap
<1>17. ASSUME NEW r \in Runs, VideoEnds(r) PROVE Goal
  BY <1>17 DEF VideoEnds, Ended
<1>18. ASSUME NEW r \in Runs, VideoCut(r) PROVE Goal
  BY <1>18 DEF VideoCut, Ended
<1>19. ASSUME NEW r \in Runs, VideoAttached(r) PROVE Goal
  BY <1>19 DEF VideoAttached, Ended
<1>20. ASSUME NEW r \in Runs, AttachLands(r) PROVE Goal
  BY <1>20 DEF AttachLands
<1>21. ASSUME Evict PROVE Goal
  BY <1>21 DEF Evict, Mishap
<1>22. ASSUME Cancel PROVE Goal
  BY <1>22 DEF Cancel
<1>. QED BY <1>1, <1>2, <1>3, <1>4, <1>5, <1>6, <1>7, <1>8, <1>9, <1>10, <1>11,
         <1>12, <1>13, <1>14, <1>15, <1>16, <1>17, <1>18, <1>19, <1>20, <1>21,
         <1>22
  DEF Next, Tick, Handle, Ledger, Fetch

\* Whose row it is changes when an insert lands.
LEMMA RowRunStep ==
  ASSUME row \in RowType, Next
  PROVE  \/ row'.run = row.run
         \/ \E p \in Runs : write[p] = "insert" /\ row'.run = p
<1>. USE DEF RowType, registryVars, handlerVars, sharedVars, threadVars
<1>. DEFINE Goal == \/ row'.run = row.run
                             \/ \E p \in Runs : write[p] = "insert" /\ row'.run = p
<1>1. ASSUME NEW r \in Runs, Post(r) PROVE Goal
  BY <1>1 DEF Post
<1>2. ASSUME NEW r \in Runs, PostRefused(r) PROVE Goal
  BY <1>2 DEF PostRefused
<1>3. ASSUME NEW r \in Runs, DropAtInsert(r) PROVE Goal
  BY <1>3 DEF DropAtInsert
<1>4. ASSUME NEW r \in Runs, DropAtFinish(r) PROVE Goal
  BY <1>4 DEF DropAtFinish
<1>5. ASSUME NEW r \in Runs, StartVideo(r) \/ LoopTick(r) \/ StageEnds(r)
      PROVE  Goal
  BY <1>5 DEF StartVideo, LoopTick, StageEnds
<1>6. ASSUME NEW r \in Runs, Tick(r) PROVE Goal
  BY <1>6 DEF Tick, TickStarts, TickSuppressed, TickLands, TickCreates
<1>7. ASSUME NEW r \in Runs, Started(r) PROVE Goal
  BY <1>7 DEF Started
<1>8. ASSUME NEW r \in Runs, StartDecoding(r) PROVE Goal
  BY <1>8 DEF StartDecoding
<1>9. ASSUME NEW r \in Runs, FinishReturns(r) PROVE Goal
  BY <1>9 DEF FinishReturns
<1>10. ASSUME NEW r \in Runs, HandlerAttached(r) PROVE Goal
  BY <1>10 DEF HandlerAttached
<1>11. ASSUME NEW r \in Runs, NEW st \in {"ok", "error", "cancelled"},
             InnerEnds(r, st)
      PROVE  Goal
  BY <1>11 DEF InnerEnds
<1>12. ASSUME NEW r \in Runs, NEW st \in {"ok", "error", "cancelled"},
             OuterEnds(r, st)
      PROVE  Goal
  BY <1>12 DEF OuterEnds
<1>13. ASSUME NEW r \in Runs, NEW st \in {"error", "cancelled"},
             LoadFails(r, st)
      PROVE  Goal
  BY <1>13 DEF LoadFails
<1>14. ASSUME NEW r \in Runs, InsertLands(r) PROVE Goal
  BY <1>14 DEF InsertLands
<1>15. ASSUME NEW r \in Runs, CloseAbortedRow(r) PROVE Goal
  BY <1>15 DEF CloseAbortedRow
<1>16. ASSUME NEW r \in Runs, FinishLands(r) PROVE Goal
  <2>1. Finished(r)
    BY <1>16, FinishEffect
  <2>. QED BY <2>1 DEF Finished
<1>17. ASSUME NEW r \in Runs, VideoEnds(r) PROVE Goal
  BY <1>17 DEF VideoEnds
<1>18. ASSUME NEW r \in Runs, VideoCut(r) PROVE Goal
  BY <1>18 DEF VideoCut
<1>19. ASSUME NEW r \in Runs, VideoAttached(r) PROVE Goal
  BY <1>19 DEF VideoAttached
<1>20. ASSUME NEW r \in Runs, AttachLands(r) PROVE Goal
  <2>1. Attached(r)
    BY <1>20, AttachEffect
  <2>. QED BY <2>1 DEF Attached
<1>21. ASSUME Evict PROVE Goal
  BY <1>21 DEF Evict, Mishap
<1>22. ASSUME Cancel PROVE Goal
  BY <1>22 DEF Cancel
<1>. QED BY <1>1, <1>2, <1>3, <1>4, <1>5, <1>6, <1>7, <1>8, <1>9, <1>10, <1>11,
         <1>12, <1>13, <1>14, <1>15, <1>16, <1>17, <1>18, <1>19, <1>20, <1>21,
         <1>22
  DEF Next, Tick, Handle, Ledger, Fetch

\* A run gets its row from its own insert.
LEMMA HasRowStep ==
  ASSUME RunTypes, row \in RowType, NEW q \in Runs, HasRow(q)', Next
  PROVE  HasRow(q) \/ row'.run = q
<1>. USE DEF RunTypes, RowType, HasRow, registryVars, handlerVars, sharedVars,
            threadVars
<1>1. ASSUME NEW r \in Runs, Post(r) PROVE HasRow(q) \/ row'.run = q
  BY <1>1 DEF Post, Goes
<1>2. ASSUME NEW r \in Runs, PostRefused(r) PROVE HasRow(q) \/ row'.run = q
  BY <1>2 DEF PostRefused, Goes
<1>3. ASSUME NEW r \in Runs, DropAtInsert(r) PROVE HasRow(q) \/ row'.run = q
  BY <1>3 DEF DropAtInsert, Goes, Mishap
<1>4. ASSUME NEW r \in Runs, DropAtFinish(r) PROVE HasRow(q) \/ row'.run = q
  BY <1>4 DEF DropAtFinish, Goes, Mishap
<1>5. ASSUME NEW r \in Runs, StartVideo(r) \/ LoopTick(r) \/ StageEnds(r)
      PROVE  HasRow(q) \/ row'.run = q
  BY <1>5 DEF StartVideo, LoopTick, StageEnds
<1>6. ASSUME NEW r \in Runs, Tick(r) PROVE HasRow(q) \/ row'.run = q
  BY <1>6 DEF Tick, TickStarts, TickSuppressed, TickLands, TickCreates
<1>7. ASSUME NEW r \in Runs, Started(r) PROVE HasRow(q) \/ row'.run = q
  BY <1>7 DEF Started, Goes
<1>8. ASSUME NEW r \in Runs, StartDecoding(r) PROVE HasRow(q) \/ row'.run = q
  BY <1>8 DEF StartDecoding, Goes
<1>9. ASSUME NEW r \in Runs, FinishReturns(r) PROVE HasRow(q) \/ row'.run = q
  BY <1>9 DEF FinishReturns, Goes
<1>10. ASSUME NEW r \in Runs, HandlerAttached(r)
      PROVE  HasRow(q) \/ row'.run = q
  BY <1>10 DEF HandlerAttached, Goes
<1>11. ASSUME NEW r \in Runs, NEW st \in {"ok", "error", "cancelled"},
             InnerEnds(r, st)
      PROVE  HasRow(q) \/ row'.run = q
  BY <1>11 DEF InnerEnds, Goes
<1>12. ASSUME NEW r \in Runs, NEW st \in {"ok", "error", "cancelled"},
             OuterEnds(r, st)
      PROVE  HasRow(q) \/ row'.run = q
  BY <1>12 DEF OuterEnds, Goes, BeginFinish, Ended
<1>13. ASSUME NEW r \in Runs, NEW st \in {"error", "cancelled"},
             LoadFails(r, st)
      PROVE  HasRow(q) \/ row'.run = q
  BY <1>13 DEF LoadFails, Goes, BeginFinish
<1>14. ASSUME NEW r \in Runs, InsertLands(r) PROVE HasRow(q) \/ row'.run = q
  BY <1>14 DEF InsertLands
<1>15. ASSUME NEW r \in Runs, CloseAbortedRow(r)
      PROVE  HasRow(q) \/ row'.run = q
  BY <1>15 DEF CloseAbortedRow
<1>16. ASSUME NEW r \in Runs, FinishLands(r) PROVE HasRow(q) \/ row'.run = q
  <2>1. Finished(r)
    BY <1>16, FinishEffect
  <2>. QED BY <2>1 DEF Finished
<1>17. ASSUME NEW r \in Runs, VideoEnds(r) PROVE HasRow(q) \/ row'.run = q
  BY <1>17 DEF VideoEnds, Ended
<1>18. ASSUME NEW r \in Runs, VideoCut(r) PROVE HasRow(q) \/ row'.run = q
  BY <1>18 DEF VideoCut, Ended
<1>19. ASSUME NEW r \in Runs, VideoAttached(r) PROVE HasRow(q) \/ row'.run = q
  BY <1>19 DEF VideoAttached, Ended
<1>20. ASSUME NEW r \in Runs, AttachLands(r) PROVE HasRow(q) \/ row'.run = q
  <2>1. Attached(r)
    BY <1>20, AttachEffect
  <2>. QED BY <2>1 DEF Attached
<1>21. ASSUME Evict PROVE HasRow(q) \/ row'.run = q
  BY <1>21 DEF Evict, Mishap
<1>22. ASSUME Cancel PROVE HasRow(q) \/ row'.run = q
  BY <1>22 DEF Cancel
<1>. QED BY <1>1, <1>2, <1>3, <1>4, <1>5, <1>6, <1>7, <1>8, <1>9, <1>10, <1>11,
         <1>12, <1>13, <1>14, <1>15, <1>16, <1>17, <1>18, <1>19, <1>20, <1>21,
         <1>22
  DEF Next, Tick, Handle, Ledger, Fetch

\* A pending video is a run's.
LEMMA PendingIsSomeonesStep ==
  ASSUME row \in RowType, PendingIsSomeones, Next
  PROVE  PendingIsSomeones'
<1>. USE DEF RowType, PendingIsSomeones, registryVars, handlerVars, sharedVars,
            threadVars
<1>1. ASSUME NEW r \in Runs, Post(r) PROVE PendingIsSomeones'
  BY <1>1 DEF Post
<1>2. ASSUME NEW r \in Runs, PostRefused(r) PROVE PendingIsSomeones'
  BY <1>2 DEF PostRefused
<1>3. ASSUME NEW r \in Runs, DropAtInsert(r) PROVE PendingIsSomeones'
  BY <1>3 DEF DropAtInsert
<1>4. ASSUME NEW r \in Runs, DropAtFinish(r) PROVE PendingIsSomeones'
  BY <1>4 DEF DropAtFinish
<1>5. ASSUME NEW r \in Runs, StartVideo(r) \/ LoopTick(r) \/ StageEnds(r)
      PROVE  PendingIsSomeones'
  BY <1>5 DEF StartVideo, LoopTick, StageEnds
<1>6. ASSUME NEW r \in Runs, Tick(r) PROVE PendingIsSomeones'
  BY <1>6 DEF Tick, TickStarts, TickSuppressed, TickLands, TickCreates
<1>7. ASSUME NEW r \in Runs, Started(r) PROVE PendingIsSomeones'
  BY <1>7 DEF Started
<1>8. ASSUME NEW r \in Runs, StartDecoding(r) PROVE PendingIsSomeones'
  BY <1>8 DEF StartDecoding
<1>9. ASSUME NEW r \in Runs, FinishReturns(r) PROVE PendingIsSomeones'
  BY <1>9 DEF FinishReturns
<1>10. ASSUME NEW r \in Runs, HandlerAttached(r) PROVE PendingIsSomeones'
  BY <1>10 DEF HandlerAttached
<1>11. ASSUME NEW r \in Runs, NEW st \in {"ok", "error", "cancelled"},
             InnerEnds(r, st)
      PROVE  PendingIsSomeones'
  BY <1>11 DEF InnerEnds
<1>12. ASSUME NEW r \in Runs, NEW st \in {"ok", "error", "cancelled"},
             OuterEnds(r, st)
      PROVE  PendingIsSomeones'
  BY <1>12 DEF OuterEnds
<1>13. ASSUME NEW r \in Runs, NEW st \in {"error", "cancelled"},
             LoadFails(r, st)
      PROVE  PendingIsSomeones'
  BY <1>13 DEF LoadFails
<1>14. ASSUME NEW r \in Runs, InsertLands(r) PROVE PendingIsSomeones'
  BY <1>14 DEF InsertLands
<1>15. ASSUME NEW r \in Runs, CloseAbortedRow(r) PROVE PendingIsSomeones'
  BY <1>15 DEF CloseAbortedRow
<1>16. ASSUME NEW r \in Runs, FinishLands(r) PROVE PendingIsSomeones'
  <2>1. Finished(r)
    BY <1>16, FinishEffect
  <2>. QED BY <2>1 DEF Finished
<1>17. ASSUME NEW r \in Runs, VideoEnds(r) PROVE PendingIsSomeones'
  BY <1>17 DEF VideoEnds
<1>18. ASSUME NEW r \in Runs, VideoCut(r) PROVE PendingIsSomeones'
  BY <1>18 DEF VideoCut
<1>19. ASSUME NEW r \in Runs, VideoAttached(r) PROVE PendingIsSomeones'
  BY <1>19 DEF VideoAttached
<1>20. ASSUME NEW r \in Runs, AttachLands(r) PROVE PendingIsSomeones'
  <2>1. Attached(r)
    BY <1>20, AttachEffect
  <2>. QED BY <2>1 DEF Attached
<1>21. ASSUME Evict PROVE PendingIsSomeones'
  BY <1>21 DEF Evict, Mishap
<1>22. ASSUME Cancel PROVE PendingIsSomeones'
  BY <1>22 DEF Cancel
<1>. QED BY <1>1, <1>2, <1>3, <1>4, <1>5, <1>6, <1>7, <1>8, <1>9, <1>10, <1>11,
         <1>12, <1>13, <1>14, <1>15, <1>16, <1>17, <1>18, <1>19, <1>20, <1>21,
         <1>22
  DEF Next, Tick, Handle, Ledger, Fetch

\* A run that was posted stays so.
LEMMA PostedStays ==
  ASSUME RunTypes, NEW q \in Runs, handler[q] # "new", Next
  PROVE  handler'[q] # "new"
<1>. USE DEF RunTypes, registryVars, handlerVars, sharedVars, threadVars
<1>1. ASSUME NEW r \in Runs, Post(r) PROVE handler'[q] # "new"
  BY <1>1 DEF Post, Goes
<1>2. ASSUME NEW r \in Runs, PostRefused(r) PROVE handler'[q] # "new"
  BY <1>2 DEF PostRefused, Goes
<1>3. ASSUME NEW r \in Runs, DropAtInsert(r) PROVE handler'[q] # "new"
  BY <1>3 DEF DropAtInsert, Goes, Mishap
<1>4. ASSUME NEW r \in Runs, DropAtFinish(r) PROVE handler'[q] # "new"
  BY <1>4 DEF DropAtFinish, Goes, Mishap
<1>5. ASSUME NEW r \in Runs, StartVideo(r) \/ LoopTick(r) \/ StageEnds(r)
      PROVE  handler'[q] # "new"
  BY <1>5 DEF StartVideo, LoopTick, StageEnds
<1>6. ASSUME NEW r \in Runs, Tick(r) PROVE handler'[q] # "new"
  BY <1>6 DEF Tick, TickStarts, TickSuppressed, TickLands, TickCreates
<1>7. ASSUME NEW r \in Runs, Started(r) PROVE handler'[q] # "new"
  BY <1>7 DEF Started, Goes
<1>8. ASSUME NEW r \in Runs, StartDecoding(r) PROVE handler'[q] # "new"
  BY <1>8 DEF StartDecoding, Goes
<1>9. ASSUME NEW r \in Runs, FinishReturns(r) PROVE handler'[q] # "new"
  BY <1>9 DEF FinishReturns, Goes
<1>10. ASSUME NEW r \in Runs, HandlerAttached(r) PROVE handler'[q] # "new"
  BY <1>10 DEF HandlerAttached, Goes
<1>11. ASSUME NEW r \in Runs, NEW st \in {"ok", "error", "cancelled"},
             InnerEnds(r, st)
      PROVE  handler'[q] # "new"
  BY <1>11 DEF InnerEnds, Goes
<1>12. ASSUME NEW r \in Runs, NEW st \in {"ok", "error", "cancelled"},
             OuterEnds(r, st)
      PROVE  handler'[q] # "new"
  <2>1. \/ handler' = [handler EXCEPT ![r] = "finishing"]
        \/ handler' = [handler EXCEPT ![r] = "done"]
    BY <1>12 DEF OuterEnds, BeginFinish, Goes
  <2>. QED BY <2>1
<1>13. ASSUME NEW r \in Runs, NEW st \in {"error", "cancelled"},
             LoadFails(r, st)
      PROVE  handler'[q] # "new"
  BY <1>13 DEF LoadFails, Goes, BeginFinish
<1>14. ASSUME NEW r \in Runs, InsertLands(r) PROVE handler'[q] # "new"
  BY <1>14 DEF InsertLands
<1>15. ASSUME NEW r \in Runs, CloseAbortedRow(r) PROVE handler'[q] # "new"
  BY <1>15 DEF CloseAbortedRow
<1>16. ASSUME NEW r \in Runs, FinishLands(r) PROVE handler'[q] # "new"
  BY <1>16 DEF FinishLands, Mishap
<1>17. ASSUME NEW r \in Runs, VideoEnds(r) PROVE handler'[q] # "new"
  BY <1>17 DEF VideoEnds, Ended
<1>18. ASSUME NEW r \in Runs, VideoCut(r) PROVE handler'[q] # "new"
  BY <1>18 DEF VideoCut, Ended
<1>19. ASSUME NEW r \in Runs, VideoAttached(r) PROVE handler'[q] # "new"
  BY <1>19 DEF VideoAttached, Ended
<1>20. ASSUME NEW r \in Runs, AttachLands(r) PROVE handler'[q] # "new"
  BY <1>20 DEF AttachLands
<1>21. ASSUME Evict PROVE handler'[q] # "new"
  BY <1>21 DEF Evict, Mishap
<1>22. ASSUME Cancel PROVE handler'[q] # "new"
  BY <1>22 DEF Cancel
<1>. QED BY <1>1, <1>2, <1>3, <1>4, <1>5, <1>6, <1>7, <1>8, <1>9, <1>10, <1>11,
         <1>12, <1>13, <1>14, <1>15, <1>16, <1>17, <1>18, <1>19, <1>20, <1>21,
         <1>22
  DEF Next, Tick, Handle, Ledger, Fetch

\* Only a post makes a run live.
LEMMA LiveStep ==
  ASSUME RunTypes, NEW q \in Runs, ~Live(q), ~Post(q), Next
  PROVE  ~Live(q)'
<1>. USE DEF RunTypes, Live, registryVars, handlerVars, sharedVars, threadVars
<1>1. ASSUME NEW r \in Runs, Post(r) PROVE ~Live(q)'
  BY <1>1 DEF Post, Goes
<1>2. ASSUME NEW r \in Runs, PostRefused(r) PROVE ~Live(q)'
  BY <1>2 DEF PostRefused, Goes
<1>3. ASSUME NEW r \in Runs, DropAtInsert(r) PROVE ~Live(q)'
  BY <1>3 DEF DropAtInsert, Goes, Mishap
<1>4. ASSUME NEW r \in Runs, DropAtFinish(r) PROVE ~Live(q)'
  BY <1>4 DEF DropAtFinish, Goes, Mishap
<1>5. ASSUME NEW r \in Runs, StartVideo(r) \/ LoopTick(r) \/ StageEnds(r)
      PROVE  ~Live(q)'
  BY <1>5 DEF StartVideo, LoopTick, StageEnds
<1>6. ASSUME NEW r \in Runs, Tick(r) PROVE ~Live(q)'
  BY <1>6 DEF Tick, TickStarts, TickSuppressed, TickLands, TickCreates
<1>7. ASSUME NEW r \in Runs, Started(r) PROVE ~Live(q)'
  BY <1>7 DEF Started, Goes
<1>8. ASSUME NEW r \in Runs, StartDecoding(r) PROVE ~Live(q)'
  BY <1>8 DEF StartDecoding, Goes
<1>9. ASSUME NEW r \in Runs, FinishReturns(r) PROVE ~Live(q)'
  BY <1>9 DEF FinishReturns, Goes
<1>10. ASSUME NEW r \in Runs, HandlerAttached(r) PROVE ~Live(q)'
  BY <1>10 DEF HandlerAttached, Goes
<1>11. ASSUME NEW r \in Runs, NEW st \in {"ok", "error", "cancelled"},
             InnerEnds(r, st)
      PROVE  ~Live(q)'
  BY <1>11 DEF InnerEnds, Goes
<1>12. ASSUME NEW r \in Runs, NEW st \in {"ok", "error", "cancelled"},
             OuterEnds(r, st)
      PROVE  ~Live(q)'
  BY <1>12 DEF OuterEnds, Goes, BeginFinish, Ended
<1>13. ASSUME NEW r \in Runs, NEW st \in {"error", "cancelled"},
             LoadFails(r, st)
      PROVE  ~Live(q)'
  BY <1>13 DEF LoadFails, Goes, BeginFinish
<1>14. ASSUME NEW r \in Runs, InsertLands(r) PROVE ~Live(q)'
  BY <1>14 DEF InsertLands
<1>15. ASSUME NEW r \in Runs, CloseAbortedRow(r) PROVE ~Live(q)'
  BY <1>15 DEF CloseAbortedRow
<1>16. ASSUME NEW r \in Runs, FinishLands(r) PROVE ~Live(q)'
  BY <1>16 DEF FinishLands, Mishap
<1>17. ASSUME NEW r \in Runs, VideoEnds(r) PROVE ~Live(q)'
  BY <1>17 DEF VideoEnds, Ended
<1>18. ASSUME NEW r \in Runs, VideoCut(r) PROVE ~Live(q)'
  BY <1>18 DEF VideoCut, Ended
<1>19. ASSUME NEW r \in Runs, VideoAttached(r) PROVE ~Live(q)'
  BY <1>19 DEF VideoAttached, Ended
<1>20. ASSUME NEW r \in Runs, AttachLands(r) PROVE ~Live(q)'
  BY <1>20 DEF AttachLands
<1>21. ASSUME Evict PROVE ~Live(q)'
  BY <1>21 DEF Evict, Mishap
<1>22. ASSUME Cancel PROVE ~Live(q)'
  BY <1>22 DEF Cancel
<1>. QED BY <1>1, <1>2, <1>3, <1>4, <1>5, <1>6, <1>7, <1>8, <1>9, <1>10, <1>11,
         <1>12, <1>13, <1>14, <1>15, <1>16, <1>17, <1>18, <1>19, <1>20, <1>21,
         <1>22
  DEF Next, Tick, Handle, Ledger, Fetch

\* Mishaps are not undone.
LEMMA MishapsStay ==
  ASSUME TRUE, Next
  PROVE  mishaps \subseteq mishaps'
<1>. USE DEF registryVars, handlerVars, sharedVars, threadVars
<1>1. ASSUME NEW r \in Runs, Post(r) PROVE mishaps \subseteq mishaps'
  BY <1>1 DEF Post
<1>2. ASSUME NEW r \in Runs, PostRefused(r) PROVE mishaps \subseteq mishaps'
  BY <1>2 DEF PostRefused
<1>3. ASSUME NEW r \in Runs, DropAtInsert(r) PROVE mishaps \subseteq mishaps'
  BY <1>3 DEF DropAtInsert, Mishap
<1>4. ASSUME NEW r \in Runs, DropAtFinish(r) PROVE mishaps \subseteq mishaps'
  BY <1>4 DEF DropAtFinish, Mishap
<1>5. ASSUME NEW r \in Runs, StartVideo(r) \/ LoopTick(r) \/ StageEnds(r)
      PROVE  mishaps \subseteq mishaps'
  BY <1>5 DEF StartVideo, LoopTick, StageEnds
<1>6. ASSUME NEW r \in Runs, Tick(r) PROVE mishaps \subseteq mishaps'
  BY <1>6 DEF Tick, TickStarts, TickSuppressed, TickLands, TickCreates
<1>7. ASSUME NEW r \in Runs, Started(r) PROVE mishaps \subseteq mishaps'
  BY <1>7 DEF Started
<1>8. ASSUME NEW r \in Runs, StartDecoding(r) PROVE mishaps \subseteq mishaps'
  BY <1>8 DEF StartDecoding
<1>9. ASSUME NEW r \in Runs, FinishReturns(r) PROVE mishaps \subseteq mishaps'
  BY <1>9 DEF FinishReturns
<1>10. ASSUME NEW r \in Runs, HandlerAttached(r)
      PROVE  mishaps \subseteq mishaps'
  BY <1>10 DEF HandlerAttached
<1>11. ASSUME NEW r \in Runs, NEW st \in {"ok", "error", "cancelled"},
             InnerEnds(r, st)
      PROVE  mishaps \subseteq mishaps'
  BY <1>11 DEF InnerEnds
<1>12. ASSUME NEW r \in Runs, NEW st \in {"ok", "error", "cancelled"},
             OuterEnds(r, st)
      PROVE  mishaps \subseteq mishaps'
  BY <1>12 DEF OuterEnds
<1>13. ASSUME NEW r \in Runs, NEW st \in {"error", "cancelled"},
             LoadFails(r, st)
      PROVE  mishaps \subseteq mishaps'
  BY <1>13 DEF LoadFails
<1>14. ASSUME NEW r \in Runs, InsertLands(r) PROVE mishaps \subseteq mishaps'
  BY <1>14 DEF InsertLands
<1>15. ASSUME NEW r \in Runs, CloseAbortedRow(r)
      PROVE  mishaps \subseteq mishaps'
  BY <1>15 DEF CloseAbortedRow
<1>16. ASSUME NEW r \in Runs, FinishLands(r) PROVE mishaps \subseteq mishaps'
  BY <1>16 DEF FinishLands, Mishap
<1>17. ASSUME NEW r \in Runs, VideoEnds(r) PROVE mishaps \subseteq mishaps'
  BY <1>17 DEF VideoEnds
<1>18. ASSUME NEW r \in Runs, VideoCut(r) PROVE mishaps \subseteq mishaps'
  BY <1>18 DEF VideoCut
<1>19. ASSUME NEW r \in Runs, VideoAttached(r) PROVE mishaps \subseteq mishaps'
  BY <1>19 DEF VideoAttached
<1>20. ASSUME NEW r \in Runs, AttachLands(r) PROVE mishaps \subseteq mishaps'
  BY <1>20 DEF AttachLands
<1>21. ASSUME Evict PROVE mishaps \subseteq mishaps'
  BY <1>21 DEF Evict, Mishap
<1>22. ASSUME Cancel PROVE mishaps \subseteq mishaps'
  BY <1>22 DEF Cancel
<1>. QED BY <1>1, <1>2, <1>3, <1>4, <1>5, <1>6, <1>7, <1>8, <1>9, <1>10, <1>11,
         <1>12, <1>13, <1>14, <1>15, <1>16, <1>17, <1>18, <1>19, <1>20, <1>21,
         <1>22
  DEF Next, Tick, Handle, Ledger, Fetch

LEMMA InsertingIsStarting ==
  ASSUME RunTypes, NEW r \in Runs, Place(r), write[r] = "insert",
         "droppedAtInsert" \notin mishaps
  PROVE  handler[r] = "starting"
BY DEF RunTypes, Place, Unposted, Blank, HandlerPlace, WritePlace

-----------------------------------------------------------------------------
(* The inductive invariant.                                                 *)

LEMMA InitIInv == Init => IInv
<1>. SUFFICES ASSUME Init PROVE IInv
  OBVIOUS
<1>. USE NobodyIsARun DEF Init
<1>1. RegistryTypes /\ RunTypes /\ binding \in Runs \cup {NoRun}
        /\ mishaps \subseteq Kinds
  BY DEF RegistryTypes, RunTypes
<1>2. row \in RowType
  BY DEF RowType
<1>3. \A r \in Runs : Place(r) /\ handler[r] = "new" /\ video[r] = "none"
                        /\ ~HasRow(r)
  BY DEF Place, Unposted, Blank, HandlerPlace, WritePlace, VideoPlace,
         AttachPlace, Live, HasRow
<1>4. \A r \in Runs : RowPlace(r) /\ PendingPlace(r) /\ CloseComes(r)
  BY DEF RowPlace, PendingPlace, CloseComes
<1>5. TypeOK /\ Places
  BY <1>1, <1>2, <1>3, <1>4 DEF TypeOK, Places, Place, AttachPlace
<1>6. InOrder /\ LastClaim /\ Stamped /\ Unevicted
  BY DEF InOrder, LastClaim, Stamped, Unevicted
<1>7. PlainHolds /\ LiveRunIsBound /\ NewerRow /\ PendingIsSomeones
  BY <1>3
  DEF PlainHolds, Holds, Live, Finally, InFlight, LiveRunIsBound, NewerRow,
      PendingIsSomeones
<1>. QED BY <1>5, <1>6, <1>7 DEF IInv

LEMMA TypeStep ==
  ASSUME TypeOK, Places, Next
  PROVE  TypeOK' /\ Places'
<1>1. RegistryTypes' /\ RunTypes' /\ row' \in RowType /\ mishaps' \subseteq Kinds
        /\ binding' \in Runs \cup {NoRun}
  BY RegistryTypesStep, RunTypesStep, RowTypeStep, MishapsTypeStep,
     BindingTypeStep DEF TypeOK
<1>2. ASSUME NEW q \in Runs
      PROVE  (Place(q) /\ RowPlace(q) /\ PendingPlace(q) /\ CloseComes(q))'
  <2>1. /\ RunTypes /\ row \in RowType
        /\ Unposted(q) /\ Place(q) /\ RowPlace(q) /\ PendingPlace(q)
        /\ CloseComes(q)
    BY DEF TypeOK, Places, Place
  <2>. QED BY <2>1, UnpostedStep, PlaceStep, RowPlaceStep, PendingPlaceStep,
              CloseComesStep DEF Place
<1>3. Places'
  BY <1>2 DEF Places
<1>. QED BY <1>1, <1>3 DEF TypeOK, Places, Place, AttachPlace

\* A new owner is the newest of the posted runs.
LEMMA LastClaimStep ==
  ASSUME TypeOK, Places, InOrder, LastClaim, Next
  PROVE  LastClaim'
<1>. SUFFICES ASSUME owner' \in Runs, NEW q \in Runs, q > owner'
              PROVE  Untouched(q)'
  BY DEF LastClaim
<1>1. CASE owner' = owner
  <2>1. Untouched(q)
    BY <1>1 DEF LastClaim
  <2>2. ~Post(q)
    BY <1>1, NobodyIsARun DEF Post
  <2>. QED BY <2>1, <2>2, UntouchedStep DEF TypeOK
<1>2. CASE \E p \in Runs : Post(p) /\ owner' = p
  <2>1. PICK p \in Runs : Post(p) /\ owner' = p
    BY <1>2
  <2>2. handler[q] = "new" /\ p # q
    BY <2>1, NumRunsAssumption DEF Post, InTurn, InOrder, Runs
  <2>3. Untouched(q) /\ ~Post(q)
    BY <2>1, <2>2 DEF Places, Place, Unposted, Untouched, Post, InTurn, TypeOK,
       RunTypes, Goes
  <2>. QED BY <2>3, UntouchedStep DEF TypeOK
<1>. QED BY <1>1, <1>2, OwnerStep, NobodyIsARun

\* What was so before a step when it is so after it.
LEMMA NoVideoStays ==
  ASSUME TypeOK, Next, NEW r \in Int, r <= NumRuns, NoVideoBefore(r)'
  PROVE  NoVideoBefore(r)
<1>. SUFFICES ASSUME NEW q \in 1 .. (r - 1) PROVE video[q] = "none"
  BY DEF NoVideoBefore
<1>1. q \in Runs /\ video'[q] = "none"
  BY NumRunsAssumption DEF Runs, NoVideoBefore
<1>. QED BY <1>1, VideoStays DEF TypeOK

\* Who keeps the id at every step: a run that holds it and follows none with video.
LEMMA PlainHoldsStep ==
  ASSUME IInv, Next, NEW q \in Runs, Holds(q)', NoVideoBefore(q)'
  PROVE  owner' = q
<1>. USE DEF IInv
<1>1. CASE Post(q)
  BY <1>1 DEF Post
<1>2. CASE ~Post(q)
  <2>1. q \in Int /\ q <= NumRuns
    BY NumRunsAssumption DEF Runs
  <2>2. NoVideoBefore(q)
    BY <2>1, NoVideoStays
  <2>3. Holds(q)
    BY <1>2, HoldsStep DEF TypeOK, Places
  <2>4. owner = q
    BY <2>2, <2>3 DEF PlainHolds
  <2>. SUFFICES ASSUME owner' # owner PROVE FALSE
    BY <2>4
  <2>5. PICK p \in Runs : Post(p) \/ ((Live(p) \/ video[p] # "none") /\ ~Holds(p)')
    BY CloserStep DEF TypeOK
  <2>6. ~Post(p)
    BY <2>4, NobodyIsARun DEF Post
  <2>7. CASE p < q
    <3>1. p \in 1 .. (q - 1) /\ \A x \in 1 .. (p - 1) : x \in 1 .. (q - 1)
      BY <2>7, NumRunsAssumption DEF Runs
    <3>2. Holds(p) /\ NoVideoBefore(p)
      BY <2>2, <2>5, <2>6, <3>1 DEF NoVideoBefore, Holds
    <3>. QED BY <2>4, <2>7, <3>2, NumRunsAssumption DEF PlainHolds, Runs
  <2>8. CASE p > q
    <3>1. Untouched(p)
      BY <2>4, <2>8 DEF LastClaim
    <3>. QED BY <2>5, <2>6, <3>1 DEF Untouched, Blank, Live
  <2>9. CASE p = q
    BY <2>5, <2>6, <2>9
  <2>. QED BY <2>7, <2>8, <2>9, NumRunsAssumption DEF Runs
<1>. QED BY <1>1, <1>2

\* Its ticks reach its own job: nobody else pops or replaces the binding.
LEMMA BoundStep ==
  ASSUME IInv, Next
  PROVE  LiveRunIsBound'
<1>. USE DEF IInv
<1>. SUFFICES ASSUME NEW q \in Runs, Live(q)',
                     \/ NoVideoBefore(q)'
                     \/ (\A p \in (q + 1) .. NumRuns : handler[p] = "new")'
              PROVE  binding' = q
  BY DEF LiveRunIsBound
<1>1. CASE Post(q)
  BY <1>1 DEF Post
<1>2. CASE ~Post(q)
  <2>1. q \in Int /\ q <= NumRuns
    BY NumRunsAssumption DEF Runs
  <2>2. Live(q)
    BY <1>2, LiveStep DEF TypeOK
  <2>3. \/ NoVideoBefore(q) /\ owner = q
        \/ \A p \in (q + 1) .. NumRuns : handler'[p] = "new" /\ handler[p] = "new"
    <3>1. CASE NoVideoBefore(q)'
      BY <2>1, <2>2, <3>1, NoVideoStays DEF PlainHolds, Holds
    <3>2. CASE (\A p \in (q + 1) .. NumRuns : handler[p] = "new")'
      <4>. SUFFICES ASSUME NEW p \in (q + 1) .. NumRuns
                    PROVE  handler'[p] = "new" /\ handler[p] = "new"
        OBVIOUS
      <4>1. p \in Runs /\ handler'[p] = "new"
        BY <3>2, NumRunsAssumption DEF Runs
      <4>. QED BY <4>1, PostedStays DEF TypeOK
    <3>. QED BY <3>1, <3>2
  <2>4. binding = q
    BY <2>2, <2>3 DEF LiveRunIsBound
  <2>. SUFFICES ASSUME binding' # binding PROVE FALSE
    BY <2>4
  <2>5. PICK p \in Runs : Post(p) \/ (binding = p /\ ~Live(p)')
    BY BindingStep DEF TypeOK
  <2>6. Post(p)
    BY <2>4, <2>5
  <2>7. handler[p] = "new" /\ handler'[p] # "new" /\ owner = NoRun
    BY <2>6 DEF Post, InTurn, Goes, TypeOK, RunTypes
  <2>8. p > q
    BY <2>2, <2>7, NumRunsAssumption DEF InOrder, Live, Runs
  <2>9. p \in (q + 1) .. NumRuns
    BY <2>8, NumRunsAssumption DEF Runs
  <2>. QED BY <2>3, <2>7, <2>9, NobodyIsARun
<1>. QED BY <1>1, <1>2

\* An insert lands while its run has the id, before a later run posts.
LEMMA NewerRowStep ==
  ASSUME IInv, Next
  PROVE  NewerRow'
<1>. USE DEF IInv
<1>. SUFFICES ASSUME "droppedAtInsert" \notin mishaps', NEW q \in Runs,
                     HasRow(q)', NoVideoBefore(q - 1)'
              PROVE  row'.run >= q
  BY DEF NewerRow
<1>1. q \in Int /\ q - 1 \in Int /\ q - 1 <= NumRuns
  BY NumRunsAssumption DEF Runs
<1>2. NoVideoBefore(q - 1) /\ "droppedAtInsert" \notin mishaps
  BY <1>1, NoVideoStays, MishapsStay
<1>3. CASE row'.run = q
  BY <1>1, <1>3
<1>4. CASE row'.run # q
  <2>1. HasRow(q)
    BY <1>4, HasRowStep DEF TypeOK
  <2>2. row.run >= q
    BY <1>2, <2>1 DEF NewerRow
  <2>3. CASE row'.run = row.run
    BY <2>2, <2>3
  <2>4. CASE row'.run # row.run
    <3>1. PICK p \in Runs : write[p] = "insert" /\ row'.run = p
      BY <2>4, RowRunStep DEF TypeOK
    <3>2. handler[p] = "starting"
      BY <1>2, <3>1, InsertingIsStarting DEF TypeOK, Places
    <3>3. ~(p < q)
      <4>. SUFFICES ASSUME p < q PROVE FALSE
        OBVIOUS
      <4>1. \A x \in 1 .. (p - 1) : x \in 1 .. (q - 1 - 1)
        BY NumRunsAssumption DEF Runs
      <4>2. Holds(p) /\ NoVideoBefore(p)
        BY <1>2, <3>2, <4>1 DEF Holds, Live, NoVideoBefore
      <4>3. Untouched(q)
        BY <4>2 DEF PlainHolds, LastClaim
      <4>. QED BY <2>1, <4>3 DEF HasRow, Untouched, Blank
    <3>. QED BY <3>1, <3>3, NumRunsAssumption DEF Runs
  <2>. QED BY <2>3, <2>4
<1>. QED BY <1>3, <1>4

LEMMA NextIInv == IInv /\ [Next]_vars => IInv'
<1>. SUFFICES ASSUME IInv, [Next]_vars PROVE IInv'
  OBVIOUS
<1>1. CASE Next
  <2>1. TypeOK' /\ Places'
    BY <1>1, TypeStep DEF IInv
  <2>2. InOrder' /\ LastClaim' /\ Stamped' /\ Unevicted'
    BY <1>1, InOrderStep, LastClaimStep, StampedStep, UnevictedStep
    DEF IInv, TypeOK
  <2>3. PlainHolds'
    BY <1>1, PlainHoldsStep DEF PlainHolds
  <2>4. LiveRunIsBound' /\ NewerRow' /\ PendingIsSomeones'
    BY <1>1, BoundStep, NewerRowStep, PendingIsSomeonesStep DEF IInv, TypeOK
  <2>. QED BY <2>1, <2>2, <2>3, <2>4 DEF IInv
<1>2. CASE UNCHANGED vars
  BY <1>2
  DEF IInv, vars, registryVars, handlerVars, sharedVars, threadVars, TypeOK,
      RegistryTypes, RunTypes, Places, Place, Unposted, Blank, HandlerPlace,
      WritePlace, VideoPlace, AttachPlace, RowPlace, PendingPlace, CloseComes,
      InOrder, LastClaim, Untouched, Stamped, Unevicted, Holds, PlainHolds,
      LiveRunIsBound, NoVideoBefore, NewerRow, HasRow, PendingIsSomeones, Live
<1>. QED BY <1>1, <1>2

LEMMA Invariance == Spec => []IInv
BY InitIInv, NextIInv, PTL DEF Spec

-----------------------------------------------------------------------------
(* The properties.                                                          *)

\* A working run owns what is kept under its id: a run after others without video
\* keeps its id and its binding, and a cancel stops no other run than the one it
\* was for (_claim_progress_id, _progress_close, the outer finally of transcribe).
THEOREM WorkingRunKeepsItsOwn == Spec => []RunKeepsItsOwn
<1>1. IInv => RunKeepsItsOwn
  <2>. SUFFICES ASSUME IInv PROVE RunKeepsItsOwn
    OBVIOUS
  <2>1. PlainRunKeepsId
    BY DEF IInv, PlainHolds, Holds, PlainRunKeepsId
  <2>2. CancelHitsItsRun
    BY DEF IInv, Unevicted, CancelHitsItsRun
  <2>. QED BY <2>1, <2>2 DEF IInv, RunKeepsItsOwn
<1>. QED BY <1>1, Invariance, PTL

\* A run that is over left no entry and no owner stamp behind, and a late tick of
\* its stage thread makes no entry again (_finish_landed, _progress_set).
THEOREM OverIsClosed == Spec => []ClosedStaysClosed
<1>1. IInv => ClosedStaysClosed
  <2>. SUFFICES ASSUME IInv PROVE ClosedStaysClosed
    OBVIOUS
  <2>1. HandOverCloses
    <3>. SUFFICES ASSUME "droppedAtFinish" \notin mishaps, NEW r \in Runs, Over(r)
                  PROVE  r # owner /\ r # entry
      BY DEF HandOverCloses
    <3>1. r # owner
      BY DEF IInv, Places, CloseComes, Over, Live, Finally, InFlight, Ended
    <3>. QED BY <3>1 DEF IInv, Stamped
  <2>2. NoResurrection
    BY NobodyIsARun DEF IInv, TypeOK, RegistryTypes, Unevicted, NoResurrection
  <2>. QED BY <2>1, <2>2 DEF ClosedStaysClosed
<1>. QED BY <1>1, Invariance, PTL

\* The stored result of a finished run is its own or a later run's, a video that
\* it says is pending is answered while the entry is open, and it is not left
\* pending (jobs_store.finish, _jobs_attach_video_sync).
THEOREM ResultIsAnswered == Spec => []ResultAndVideo
<1>1. IInv => ResultAndVideo
  <2>. SUFFICES ASSUME IInv PROVE ResultAndVideo
    OBVIOUS
  <2>. USE DEF IInv
  <2>1. ResultKept
    <3>. SUFFICES ASSUME NEW r \in Runs,
                         Over(r) /\ jobRow[r] /\ write[r] = "none",
                         NoVideoBefore(r - 1),
                         mishaps \cap {"droppedAtInsert", "writeLost"} = {}
                  PROVE  \/ row.run > r
                         \/ /\ row.run = r
                            /\ row.state = IF status[r] = "ok"
                                             THEN "done" ELSE "failed"
      BY DEF ResultKept
    <3>1. row.run >= r
      BY DEF NewerRow, HasRow
    <3>2. row.run = r => row.state = IF status[r] = "ok" THEN "done" ELSE "failed"
      BY DEF Places, RowPlace, Over
    <3>3. row.run \in Int /\ r \in Int
      BY NumRunsAssumption DEF TypeOK, RowType, Runs, NoRun
    <3>. QED BY <3>1, <3>2, <3>3
  <2>2. ASSUME row.pending
        PROVE  row.run \in Runs /\ Place(row.run) /\ PendingPlace(row.run)
    BY <2>2 DEF PendingIsSomeones, Places
  <2>3. OpenWhileVideoComes
    <3>. SUFFICES ASSUME row.pending, VideoComes(row.run), NoVideoBefore(row.run),
                         mishaps \cap {"evicted", "droppedAtFinish"} = {}
                  PROVE  entry = row.run
      BY DEF OpenWhileVideoComes
    <3>1. Holds(row.run)
      BY <2>2
      DEF VideoComes, Place, VideoPlace, AttachPlace, HandlerPlace, PendingPlace,
          Holds, Live, Finally, InFlight, TypeOK, RunTypes, Ended
    <3>2. owner = row.run
      BY <2>2, <3>1 DEF PlainHolds
    <3>. QED BY <3>2 DEF Unevicted
  <2>4. PendingResolved
    <3>. SUFFICES ASSUME row.pending, Over(row.run), attach[row.run] # "running"
                  PROVE  "droppedAtFinish" \in mishaps
      BY DEF PendingResolved
    <3>. QED BY <2>2 DEF Place, VideoPlace, PendingPlace, Over, Ended, Live
  <2>. QED BY <2>1, <2>3, <2>4 DEF ResultAndVideo
<1>. QED BY <1>1, Invariance, PTL

=============================================================================
