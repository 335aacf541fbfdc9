------------------------------- MODULE BatchRuns -------------------------------
(***************************************************************************)
(* The life of a link transcription posted under a client-chosen progress  *)
(* id: transcription/progress.py (entry, owner stamp, tombstone, cancel    *)
(* flag, job binding), the durable job row (jobs_store.py), the handler    *)
(* (main.transcribe) and the keep_video task that may outlive it           *)
(* (media/video.py, _download_video_for_run).                              *)
(*                                                                         *)
(* One progress id, under which runs are posted again and again, numbered  *)
(* in that order.  The loop runs one action between two awaits; job-row    *)
(* statements run on threads, one per action; stage threads tick beside    *)
(* the loop, in steps that a loop action can come between.                 *)
(***************************************************************************)
EXTENDS Integers, FiniteSets

CONSTANTS
  NumRuns,      \* bound: posts under the id
  MaxMishaps,   \* bound: mishaps in one behaviour, each kind at most once
  Ownerless     \* an entry with no owner stamp

Runs == 1 .. NumRuns
NoRun == 0

ASSUME NumRunsAssumption == NumRuns \in Nat
ASSUME MishapsAssumption == MaxMishaps \in Nat
ASSUME OwnerlessAssumption == Ownerless \notin Nat

VARIABLES
  entry,            \* _BATCH_PROGRESS[id]: whose owner stamp it carries
  owner,            \* _PROGRESS_OWNER[id]
  tombstone,        \* id is in _PROGRESS_CLOSED
  flag,             \* id is in _BATCH_CANCELLED: whose entry was cancelled
  binding,          \* _JOB_BY_PID[id], and the plan bindings beside it
  row,              \* the id's jobs row
  handler,          \* where each run's handler is
  status,           \* its _status
  jobRow,           \* its _job_row
  answer,           \* its response said source_video_pending
  closeAfterAttach, \* its _close_after_attach
  runFinished,      \* its _run_finished[0]
  finishLanded,     \* its _finish_landed[0]
  video,            \* where its video task is
  write,            \* its job-row insert or finish, on a thread
  attach,           \* its _jobs_attach_video_sync, on a thread
  tick,             \* where its stage thread is in _progress_set
  mishaps           \* kinds of mishap so far

registryVars == <<entry, owner, tombstone, flag>>
handlerVars  == <<handler, status, jobRow, answer, closeAfterAttach>>
sharedVars   == <<runFinished, finishLanded>>
threadVars   == <<write, attach>>
vars == <<registryVars, handlerVars, sharedVars, threadVars, binding, row,
          video, tick, mishaps>>

Kinds == {"evicted", "droppedAtInsert", "droppedAtFinish", "writeLost"}
Ended == {"ended", "cut"}

RegistryTypes ==
  /\ entry \in Runs \cup {NoRun, Ownerless}
  /\ owner \in Runs \cup {NoRun}
  /\ tombstone \in BOOLEAN
  /\ flag \in Runs \cup {NoRun, Ownerless}

RowType == [run : Runs \cup {NoRun}, pending : BOOLEAN,
            videoOf : Runs \cup {NoRun},
            state : {"absent", "running", "done", "failed"}]

RunTypes ==
  /\ handler \in [Runs -> {"new", "starting", "loading", "decoding",
                           "cleaning", "finishing", "attaching", "done"}]
  /\ status \in [Runs -> {"ok", "error", "cancelled"}]
  /\ jobRow \in [Runs -> BOOLEAN]
  /\ answer \in [Runs -> BOOLEAN]
  /\ closeAfterAttach \in [Runs -> BOOLEAN]
  /\ runFinished \in [Runs -> BOOLEAN]
  /\ finishLanded \in [Runs -> BOOLEAN]
  /\ video \in [Runs -> {"none", "fetching", "attaching", "retrying",
                         "cutting"} \cup Ended]
  /\ write \in [Runs -> {"none", "insert", "inserted", "refused", "finish",
                         "finished"}]
  /\ attach \in [Runs -> {"none", "running", "patched", "gaveUp"}]
  /\ tick \in [Runs -> {"none", "idle", "closed", "admitted", "creating"}]

TypeOK ==
  /\ RegistryTypes /\ RunTypes
  /\ binding \in Runs \cup {NoRun}
  /\ row \in RowType
  /\ mishaps \subseteq Kinds
  /\ \A r \in Runs : attach[r] # "none" => jobRow[r]

Init ==
  /\ entry = NoRun /\ owner = NoRun /\ tombstone = FALSE /\ flag = NoRun
  /\ binding = NoRun
  /\ row = [run |-> NoRun, pending |-> FALSE, videoOf |-> NoRun,
            state |-> "absent"]
  /\ handler = [r \in Runs |-> "new"]
  /\ status = [r \in Runs |-> "ok"]
  /\ jobRow = [r \in Runs |-> FALSE]
  /\ answer = [r \in Runs |-> FALSE]
  /\ closeAfterAttach = [r \in Runs |-> FALSE]
  /\ runFinished = [r \in Runs |-> FALSE]
  /\ finishLanded = [r \in Runs |-> FALSE]
  /\ video = [r \in Runs |-> "none"]
  /\ write = [r \in Runs |-> "none"]
  /\ attach = [r \in Runs |-> "none"]
  /\ tick = [r \in Runs |-> "none"]
  /\ mishaps = {}

Mishap(kind) ==
  /\ kind \notin mishaps /\ Cardinality(mishaps) < MaxMishaps
  /\ mishaps' = mishaps \cup {kind}

-----------------------------------------------------------------------------
(* The registry.                                                            *)

\* Fault: a close that leaves the cancel flag set.
CloseKeepsFlag ==
  /\ entry' = NoRun /\ owner' = NoRun /\ tombstone' = TRUE
  /\ UNCHANGED flag

\* _progress_close retires whatever is open under the id.
Close ==
  /\ entry' = NoRun /\ owner' = NoRun /\ flag' = NoRun
  /\ tombstone' = TRUE

CloseIf(condition) == IF condition THEN Close ELSE UNCHANGED registryVars

\* An entry that a tick creates anew takes the stamp that is there.
Recreated == IF owner # NoRun THEN owner ELSE Ownerless

\* The entry of the id is the oldest of a full registry; its stamp stays.
Evict ==
  /\ Mishap("evicted")
  /\ entry # NoRun
  /\ entry' = NoRun
  /\ UNCHANGED <<owner, tombstone, flag, handlerVars, sharedVars, threadVars,
                 binding, row, video, tick>>

\* The cancel route, and DELETE of a running job.
Cancel ==
  /\ entry # NoRun /\ flag = NoRun
  /\ flag' = entry
  /\ UNCHANGED <<entry, owner, tombstone, handlerVars, sharedVars, threadVars,
                 binding, row, video, tick, mishaps>>

\* A tick on the loop: the handler's own, or the video task's.
LoopTick(r) ==
  /\ handler[r] = "decoding" \/ video[r] = "fetching"
  /\ entry = NoRun /\ ~tombstone
  /\ entry' = Recreated
  /\ UNCHANGED <<owner, tombstone, flag, handlerVars, sharedVars, threadVars,
                 binding, row, video, tick, mishaps>>

\* A tick of a stage thread, which outlives a dropped handler.
TickStarts(r) ==
  /\ tick[r] = "idle"
  /\ tick' = [tick EXCEPT ![r] = IF tombstone THEN "closed" ELSE "admitted"]
  /\ UNCHANGED <<registryVars, handlerVars, sharedVars, threadVars, binding,
                 row, video, mishaps>>

TickSuppressed(r) ==
  /\ tick[r] = "closed"
  /\ tombstone' = TRUE
  /\ tick' = [tick EXCEPT ![r] = "idle"]
  /\ UNCHANGED <<entry, owner, flag, handlerVars, sharedVars, threadVars,
                 binding, row, video, mishaps>>

\* Fault: the entry is created without testing for a close again.
TickLandsUntested(r) ==
  /\ tick[r] = "admitted"
  /\ tick' = [tick EXCEPT ![r] = IF entry = NoRun THEN "creating" ELSE "idle"]
  /\ UNCHANGED <<registryVars, handlerVars, sharedVars, threadVars, binding,
                 row, video, mishaps>>

\* After the mirrors: the entry, or the closed test again, or a new entry.
TickLands(r) ==
  /\ tick[r] = "admitted"
  /\ tick' = [tick EXCEPT ![r] = IF entry = NoRun /\ ~tombstone
                                   THEN "creating" ELSE "idle"]
  /\ UNCHANGED <<registryVars, handlerVars, sharedVars, threadVars, binding,
                 row, video, mishaps>>

TickCreates(r) ==
  /\ tick[r] = "creating"
  /\ entry' = Recreated
  /\ tick' = [tick EXCEPT ![r] = "idle"]
  /\ UNCHANGED <<owner, tombstone, flag, handlerVars, sharedVars, threadVars,
                 binding, row, video, mishaps>>

StageEnds(r) ==
  /\ tick[r] = "idle" /\ handler[r] # "decoding"
  /\ tick' = [tick EXCEPT ![r] = "none"]
  /\ UNCHANGED <<registryVars, handlerVars, sharedVars, threadVars, binding,
                 row, video, mishaps>>

-----------------------------------------------------------------------------
(* The handler, up to its inner finally.                                    *)

Goes(r, where) == handler' = [handler EXCEPT ![r] = where]

\* Fault: the outer finally pops the binding, whoever bound it since.
UnbindAny(r) == binding' = NoRun

Unbind(r) == binding' = IF binding = r THEN NoRun ELSE binding

InTurn(r) == handler[r] = "new" /\ \A q \in 1 .. (r - 1) : handler[q] # "new"

\* Fault: an id whose entry was evicted is claimed again.
PostIgnoresOwner(r) ==
  /\ InTurn(r)
  /\ entry = NoRun
  /\ entry' = r /\ owner' = r /\ tombstone' = FALSE
  /\ binding' = r
  /\ write' = [write EXCEPT ![r] = "insert"]
  /\ Goes(r, "starting")
  /\ UNCHANGED <<flag, status, jobRow, answer, closeAfterAttach, sharedVars,
                 attach, row, video, tick, mishaps>>

\* _claim_progress_id, the binding and the seed, with no await between.
Post(r) ==
  /\ InTurn(r)
  /\ entry = NoRun /\ owner = NoRun
  /\ entry' = r /\ owner' = r /\ tombstone' = FALSE
  /\ binding' = r
  /\ write' = [write EXCEPT ![r] = "insert"]
  /\ Goes(r, "starting")
  /\ UNCHANGED <<flag, status, jobRow, answer, closeAfterAttach, sharedVars,
                 attach, row, video, tick, mishaps>>

\* The id is in flight: the run goes on without progress, out of this model.
PostRefused(r) ==
  /\ InTurn(r)
  /\ entry # NoRun \/ owner # NoRun
  /\ Goes(r, "done")
  /\ UNCHANGED <<registryVars, status, jobRow, answer, closeAfterAttach,
                 sharedVars, threadVars, binding, row, video, tick, mishaps>>

\* jobs_store.start; refused when the row is another caller's, or it failed.
InsertLands(r) ==
  /\ write[r] = "insert"
  /\ \/ /\ row' = [run |-> r, pending |-> FALSE, videoOf |-> NoRun,
                   state |-> "running"]
        /\ write' = [write EXCEPT ![r] = "inserted"]
     \/ /\ write' = [write EXCEPT ![r] =
                       IF handler[r] = "done" THEN "none" ELSE "refused"]
        /\ UNCHANGED row
  /\ UNCHANGED <<registryVars, handlerVars, sharedVars, attach, binding, video,
                 tick, mishaps>>

Started(r) ==
  /\ handler[r] = "starting" /\ write[r] \in {"inserted", "refused"}
  /\ jobRow' = [jobRow EXCEPT ![r] = write[r] = "inserted"]
  /\ write' = [write EXCEPT ![r] = "none"]
  /\ Goes(r, "loading")
  /\ UNCHANGED <<registryVars, status, answer, closeAfterAttach, sharedVars,
                 attach, binding, row, video, tick, mishaps>>

\* The request is dropped while the insert is on its thread.
DropAtInsert(r) ==
  /\ Mishap("droppedAtInsert")
  /\ handler[r] = "starting"
  /\ Close /\ Unbind(r)
  /\ write' = [write EXCEPT ![r] = IF @ = "refused" THEN "none" ELSE @]
  /\ Goes(r, "done")
  /\ status' = [status EXCEPT ![r] = "cancelled"]
  /\ UNCHANGED <<jobRow, answer, closeAfterAttach, sharedVars, attach, row,
                 video, tick>>

\* ... and the row it wrote is closed once it has landed.
CloseAbortedRow(r) ==
  /\ handler[r] = "done" /\ write[r] = "inserted"
  /\ write' = [write EXCEPT ![r] = "none"]
  /\ row' = IF row.run = r THEN [row EXCEPT !.state = "failed"] ELSE row
  /\ UNCHANGED <<registryVars, handlerVars, sharedVars, attach, binding, video,
                 tick, mishaps>>

StartDecoding(r) ==
  /\ handler[r] = "loading"
  /\ Goes(r, "decoding")
  /\ tick' = [tick EXCEPT ![r] = "idle"]
  /\ UNCHANGED <<registryVars, status, jobRow, answer, closeAfterAttach,
                 sharedVars, threadVars, binding, row, video, mishaps>>

StartVideo(r) ==
  /\ handler[r] = "decoding" /\ video[r] = "none"
  /\ video' = [video EXCEPT ![r] = "fetching"]
  /\ UNCHANGED <<registryVars, handlerVars, sharedVars, threadVars, binding,
                 row, tick, mishaps>>

\* The response is built, or the run fails, is cancelled or dropped; the inner
\* finally leaves the entry to a video task that still runs, or to the attach.
InnerEnds(r, st) ==
  /\ handler[r] = "decoding"
  /\ status' = [status EXCEPT ![r] = st]
  /\ answer' = [answer EXCEPT ![r] = st = "ok" /\ video[r] = "fetching"]
  /\ runFinished' = [runFinished EXCEPT ![r] = video[r] = "fetching"]
  /\ closeAfterAttach' =
       [closeAfterAttach EXCEPT ![r] = video[r] = "ended" /\ jobRow[r]]
  /\ CloseIf(~runFinished'[r] /\ ~closeAfterAttach'[r])
  /\ Goes(r, "cleaning")
  /\ UNCHANGED <<jobRow, finishLanded, threadVars, binding, row, video, tick,
                 mishaps>>

-----------------------------------------------------------------------------
(* The handler's outer finally.                                             *)

FinalClose(r) ==
  CloseIf(closeAfterAttach[r] \/ (runFinished[r] /\ video[r] \in Ended))

\* To the awaits of the outer finally; nothing to wait for without a row.
BeginFinish(r) ==
  IF jobRow[r]
    THEN /\ write' = [write EXCEPT ![r] = "finish"]
         /\ Goes(r, "finishing")
    ELSE /\ UNCHANGED write
         /\ Goes(r, "done")

\* A failure before the inner try: the outer finally closes the entry.
LoadFails(r, st) ==
  /\ handler[r] = "loading"
  /\ status' = [status EXCEPT ![r] = st]
  /\ Close /\ Unbind(r)
  /\ BeginFinish(r)
  /\ UNCHANGED <<jobRow, answer, closeAfterAttach, sharedVars, attach, row,
                 video, tick, mishaps>>

\* The download dir is gone, or the request was dropped meanwhile.
OuterEnds(r, st) ==
  /\ handler[r] = "cleaning"
  /\ st \in {status[r], "cancelled"}
  /\ status' = [status EXCEPT ![r] = st]
  /\ video' = [video EXCEPT ![r] =
                 IF st # "ok" /\ @ \notin Ended \cup {"none"}
                   THEN "cutting" ELSE @]
  /\ Unbind(r)
  /\ BeginFinish(r)
  /\ IF jobRow[r] THEN UNCHANGED registryVars ELSE FinalClose(r)
  /\ UNCHANGED <<jobRow, answer, closeAfterAttach, sharedVars, attach, row,
                 tick, mishaps>>

\* jobs_store.finish, scoped to the run's own row.
FinishedRow(r) ==
  IF status[r] = "ok"
    THEN [row EXCEPT !.state = "done", !.pending = answer[r]]
    ELSE [row EXCEPT !.state = "failed"]

\* Fault: the finish stamps whatever row the id has.
FinishLandsAnywhere(r) ==
  /\ write[r] = "finish"
  /\ write' = [write EXCEPT ![r] =
                 IF handler[r] = "done" THEN "none" ELSE "finished"]
  /\ \/ row' = FinishedRow(r) /\ UNCHANGED mishaps
     \/ UNCHANGED row /\ Mishap("writeLost")
  /\ UNCHANGED <<registryVars, handlerVars, sharedVars, attach, binding, video,
                 tick>>

FinishLands(r) ==
  /\ write[r] = "finish"
  /\ write' = [write EXCEPT ![r] =
                 IF handler[r] = "done" THEN "none" ELSE "finished"]
  /\ \/ /\ row' = IF row.run = r THEN FinishedRow(r) ELSE row
        /\ UNCHANGED mishaps
     \/ UNCHANGED row /\ Mishap("writeLost")
  /\ UNCHANGED <<registryVars, handlerVars, sharedVars, attach, binding, video,
                 tick>>

FinishReturns(r) ==
  /\ handler[r] = "finishing" /\ write[r] = "finished"
  /\ write' = [write EXCEPT ![r] = "none"]
  /\ finishLanded' = [finishLanded EXCEPT ![r] = TRUE]
  /\ IF video[r] = "ended"
       THEN /\ attach' = [attach EXCEPT ![r] = "running"]
            /\ Goes(r, "attaching")
            /\ UNCHANGED registryVars
       ELSE /\ FinalClose(r)
            /\ Goes(r, "done")
            /\ UNCHANGED attach
  /\ UNCHANGED <<status, jobRow, answer, closeAfterAttach, runFinished, binding,
                 row, video, tick, mishaps>>

\* A second cancellation lands on an await of the outer finally.
DropAtFinish(r) ==
  /\ Mishap("droppedAtFinish")
  /\ handler[r] \in {"finishing", "attaching"}
  /\ FinalClose(r)
  /\ write' = [write EXCEPT ![r] = IF @ = "finished" THEN "none" ELSE @]
  /\ Goes(r, "done")
  /\ UNCHANGED <<status, jobRow, answer, closeAfterAttach, sharedVars, attach,
                 binding, row, video, tick>>

HandlerAttached(r) ==
  /\ handler[r] = "attaching" /\ attach[r] \in {"patched", "gaveUp"}
  /\ FinalClose(r)
  /\ attach' = [attach EXCEPT ![r] = "none"]
  /\ Goes(r, "done")
  /\ UNCHANGED <<status, jobRow, answer, closeAfterAttach, sharedVars, write,
                 binding, row, video, tick, mishaps>>

-----------------------------------------------------------------------------
(* The video task.                                                          *)

\* Fault: the task attaches to a row its run never got.
VideoEndsRowless(r) ==
  /\ video[r] = "fetching"
  /\ IF runFinished[r]
       THEN /\ video' = [video EXCEPT ![r] = "attaching"]
            /\ attach' = [attach EXCEPT ![r] = "running"]
       ELSE /\ video' = [video EXCEPT ![r] = "ended"]
            /\ UNCHANGED attach
  /\ UNCHANGED <<registryVars, handlerVars, sharedVars, write, binding, row,
                 tick, mishaps>>

\* Fault: the task closes the entry, then attaches.
VideoEndsClosing(r) ==
  /\ video[r] = "fetching"
  /\ IF runFinished[r] /\ jobRow[r]
       THEN /\ video' = [video EXCEPT ![r] = "attaching"]
            /\ attach' = [attach EXCEPT ![r] = "running"]
       ELSE /\ video' = [video EXCEPT ![r] = "ended"]
            /\ UNCHANGED attach
  /\ CloseIf(runFinished[r])
  /\ UNCHANGED <<handlerVars, sharedVars, write, binding, row, tick, mishaps>>

\* The fetch ended: landed, failed, or stopped by the cancel flag.
VideoEnds(r) ==
  /\ video[r] = "fetching"
  /\ IF runFinished[r] /\ jobRow[r]
       THEN /\ video' = [video EXCEPT ![r] = "attaching"]
            /\ attach' = [attach EXCEPT ![r] = "running"]
            /\ UNCHANGED registryVars
       ELSE /\ video' = [video EXCEPT ![r] = "ended"]
            /\ CloseIf(runFinished[r])
            /\ UNCHANGED attach
  /\ UNCHANGED <<handlerVars, sharedVars, write, binding, row, tick, mishaps>>

\* The handler's cancellation is delivered.
VideoCut(r) ==
  /\ video[r] = "cutting"
  /\ video' = [video EXCEPT ![r] = "cut"]
  /\ Close
  /\ UNCHANGED <<handlerVars, sharedVars, threadVars, binding, row, tick,
                 mishaps>>

\* A thread swaps the row's pending flag for the video, or gives up on a row
\* that stays running for a second.
AttachLands(r) ==
  /\ attach[r] = "running"
  /\ attach' = [attach EXCEPT ![r] =
                  IF row.state = "running" THEN "gaveUp" ELSE "patched"]
  /\ row' = IF row.state = "done" /\ row.pending
              THEN [row EXCEPT !.pending = FALSE, !.videoOf = r]
              ELSE row
  /\ UNCHANGED <<registryVars, handlerVars, sharedVars, write, binding, video,
                 tick, mishaps>>

\* Fault: an attach that gave up always leaves the rest to the handler.
VideoAttachedOnce(r) ==
  /\ video[r] \in {"attaching", "retrying"}
  /\ attach[r] \in {"patched", "gaveUp"}
  /\ video' = [video EXCEPT ![r] = "ended"]
  /\ attach' = [attach EXCEPT ![r] = "none"]
  /\ CloseIf(attach[r] = "patched")
  /\ UNCHANGED <<handlerVars, sharedVars, write, binding, row, tick, mishaps>>

\* Fault: an attach that gave up is not tried again.
VideoAttachedNoRetry(r) ==
  /\ video[r] \in {"attaching", "retrying"}
  /\ attach[r] \in {"patched", "gaveUp"}
  /\ video' = [video EXCEPT ![r] = "ended"]
  /\ attach' = [attach EXCEPT ![r] = "none"]
  /\ CloseIf(attach[r] = "patched" \/ finishLanded[r])
  /\ UNCHANGED <<handlerVars, sharedVars, write, binding, row, tick, mishaps>>

\* The attach returns; one that gave up leaves the close to a handler that has
\* not passed its check, and is tried again when it has.
VideoAttached(r) ==
  /\ video[r] \in {"attaching", "retrying"}
  /\ attach[r] \in {"patched", "gaveUp"}
  /\ LET again == /\ attach[r] = "gaveUp" /\ finishLanded[r]
                  /\ video[r] = "attaching"
     IN IF again
          THEN /\ video' = [video EXCEPT ![r] = "retrying"]
               /\ attach' = [attach EXCEPT ![r] = "running"]
               /\ UNCHANGED registryVars
          ELSE /\ video' = [video EXCEPT ![r] = "ended"]
               /\ attach' = [attach EXCEPT ![r] = "none"]
               /\ CloseIf(attach[r] = "patched" \/ finishLanded[r])
  /\ UNCHANGED <<handlerVars, sharedVars, write, binding, row, tick, mishaps>>

-----------------------------------------------------------------------------

Tick(r) ==
  \/ TickStarts(r) \/ TickSuppressed(r) \/ TickLands(r) \/ TickCreates(r)
Handle(r) ==
  \/ Started(r) \/ StartDecoding(r) \/ FinishReturns(r) \/ HandlerAttached(r)
  \/ \E st \in {"ok", "error", "cancelled"} :
       InnerEnds(r, st) \/ OuterEnds(r, st)
  \/ \E st \in {"error", "cancelled"} : LoadFails(r, st)
Ledger(r) == InsertLands(r) \/ CloseAbortedRow(r) \/ FinishLands(r)
Fetch(r) == VideoEnds(r) \/ VideoCut(r) \/ VideoAttached(r)

Next ==
  \/ \E r \in Runs :
       \/ Post(r) \/ PostRefused(r) \/ DropAtInsert(r) \/ DropAtFinish(r)
       \/ StartVideo(r) \/ LoopTick(r) \/ StageEnds(r)
       \/ Tick(r) \/ Handle(r) \/ Ledger(r) \/ Fetch(r) \/ AttachLands(r)
  \/ Evict \/ Cancel

Spec == Init /\ [][Next]_vars

-----------------------------------------------------------------------------

Live(r) == handler[r] \in {"starting", "loading", "decoding"}
Over(r) == handler[r] = "done" /\ video[r] \in Ended \cup {"none"}

\* The runs before r fetched no video.
NoVideoBefore(r) == \A q \in 1 .. (r - 1) : video[q] = "none"

\* "Entries live only for the request": a run that works has its id, so that it
\* can be polled and cancelled, when it follows runs without video, whatever is
\* evicted and however late an earlier handler's statements and ticks are. (After
\* a run with video the code may break it: two closes, README section 6.)
PlainRunKeepsId ==
  \A r \in Runs : Live(r) /\ NoVideoBefore(r) => owner = r

\* A run's ticks reach its own job, plan and run plan: no earlier run pops a
\* binding that was made since (the outer finally of transcribe), and no later
\* one makes its own. (A third run can, after a run with video closes twice.)
LiveRunIsBound ==
  \A r \in Runs :
    Live(r) /\ (NoVideoBefore(r) \/ \A q \in (r + 1) .. NumRuns : handler[q] = "new")
      => binding = r

\* Nothing is left behind a run that is over: no entry that would be listed,
\* polled and refuse the id for ever, when no request is dropped on an await of
\* the outer finally: handler and video task never leave the close to each other.
HandOverCloses ==
  "droppedAtFinish" \notin mishaps =>
    \A r \in Runs : Over(r) => r \notin {owner, entry}

\* "never an owner-less resurrection": a tick that straddles the close makes no
\* entry, unless the run's own entry had been evicted before (_progress_set).
NoResurrection == entry = Ownerless => "evicted" \in mishaps

\* A cancel flag is for the run it was set on: it stops no later run under the
\* same id (_progress_close; the cancel route wants a live entry).
CancelHitsItsRun ==
  flag # NoRun /\ owner # NoRun => flag = owner \/ "evicted" \in mishaps

\* The video of r will be attached to its row.
VideoComes(r) ==
  \/ attach[r] = "running" /\ video[r] # "cut"
  \/ video[r] = "fetching" /\ runFinished[r] /\ jobRow[r]

\* While the stored result says that a video is pending and one will come, the
\* entry is open: job_result, which drops the flag of a closed run, drops none
\* that will be answered ("a close seen here means the read sees the patch").
OpenWhileVideoComes ==
  LET r == row.run IN
    /\ row.pending /\ VideoComes(r) /\ NoVideoBefore(r)
    /\ mishaps \cap {"evicted", "droppedAtFinish"} = {}
  => entry = r

\* A finished run's row has its result, or is a later run's: a straggling
\* insert, finish or attach of an earlier run replaces neither (jobs_store.finish),
\* where the earlier runs still had the id when their inserts landed.
ResultKept ==
  \A r \in Runs :
      /\ Over(r) /\ jobRow[r] /\ write[r] = "none" /\ NoVideoBefore(r - 1)
      /\ mishaps \cap {"droppedAtInsert", "writeLost"} = {}
    => \/ row.run > r
       \/ row.run = r
          /\ row.state = IF status[r] = "ok" THEN "done" ELSE "failed"

\* When handler and video task are both gone, the stored result does not wait for
\* a video: neither leaves the attach to the other (_finish_landed).
PendingResolved ==
  LET r == row.run IN
    row.pending /\ Over(r) /\ attach[r] # "running"
      => "droppedAtFinish" \in mishaps

\* A working run owns what is kept under its id: entry, bindings and cancel flag
\* (_claim_progress_id, _progress_close, the outer finally of transcribe).
RunKeepsItsOwn == PlainRunKeepsId /\ LiveRunIsBound /\ CancelHitsItsRun

\* A run that is over is closed, and no late tick opens it again
\* (_progress_set, _finish_landed).
ClosedStaysClosed == HandOverCloses /\ NoResurrection

\* The stored result is the run's own, only a run with a row attaches to it, and its
\* pending video is answered while the entry is open (jobs_store.finish,
\* _jobs_attach_video_sync).
ResultAndVideo == TypeOK /\ ResultKept /\ OpenWhileVideoComes /\ PendingResolved

=============================================================================
