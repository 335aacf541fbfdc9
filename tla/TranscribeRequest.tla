-------------------------- MODULE TranscribeRequest --------------------------
(* The batch handler (main.py, transcribe): what one request takes, in which   *)
(* order, and what its two finally blocks give back, whichever await it is      *)
(* cancelled at. The progress entry, the job row and the video of the same run  *)
(* are BatchRuns' matter; the model, the separator and the pipelines are those  *)
(* of WhisperCache and StageCache.                                              *)
(*                                                                              *)
(* A request is cancelled by its client (a flag the stages poll), or its task   *)
(* is, at an await: the thread it waits for then goes on without it.            *)
EXTENDS Integers, FiniteSets

CONSTANTS
  Requests,
  Asks(_),     \* what a request may ask for
  Slots,       \* places of the inference semaphore
  MaxMishaps   \* bound: cancellations of each request

Stages == {"separating", "diarizing", "translating"}

VARIABLES
  req,       \* each request
  free,      \* free places of the semaphore
  mishaps

requestVars == <<req, free, mishaps>>

\* Where a request is suspended, and where its thread goes on when it is dropped.
Copying == {"reuse", "pipecopy", "retain"}
Threaded == Copying \cup {"transcode", "separate", "decode", "capture"}
Awaits == Threaded \cup
  {"row", "load", "form", "probe", "download", "register", "spool", "input", "roll",
   "sepslot", "decslot", "diarslot", "diarize", "assign", "trslot", "translate",
   "disk", "keep", "rmtree", "finish", "rates"}
\* The handler reads tmp_path there.
Reading == {"retain", "input", "transcode", "sepslot", "separate", "decslot", "decode",
            "diarslot", "diarize", "capture"}

Idle == [pc |-> "idle", ask |-> {}, status |-> "ok", leases |-> 0, inFlight |-> 0, jobs |-> 0,
         leased |-> FALSE, inner |-> FALSE, slot |-> FALSE, files |-> {}, tmp |-> "none",
         out |-> [s \in Stages |-> "none"], warned |-> {}, media |-> "none", text |-> "none",
         answered |-> FALSE, cancel |-> FALSE, dropped |-> {}, threads |-> {}]

RequestInit == req = [r \in Requests |-> Idle] /\ free = Slots /\ mishaps = [r \in Requests |-> 0]

Asked(q, stage) == stage \in q.ask

-----------------------------------------------------------------------------
(* The ends.                                                                   *)

\* Fault: the lease is given back by a run that went well only.
OuterIfOk(q) ==
  [q EXCEPT !.leases = IF q.leased /\ q.status = "ok" THEN @ - 1 ELSE @,
            !.inFlight = @ - 1, !.jobs = @ - 1, !.pc = "finish"]

\* The outer finally, up to its first await.
Outer(q) ==
  [q EXCEPT !.leases = IF q.leased THEN @ - 1 ELSE @, !.inFlight = @ - 1, !.jobs = @ - 1,
            !.pc = "finish"]

\* The inner finally: the private files go, then the download's directory.
Inner(q) ==
  LET tidy == [q EXCEPT !.files = @ \ {q.tmp, "retained"}]
  IN IF "dir" \in q.files THEN [tidy EXCEPT !.pc = "rmtree"] ELSE Outer(tidy)

Leave(q) == IF q.inner THEN Inner(q) ELSE Outer(q)

Raise(q, status) == Leave([q EXCEPT !.status = status])

\* A step of r to q; leaving an `async with` gives the slot back.
Step(r, from, q) ==
  /\ req[r].pc = from
  /\ req' = [req EXCEPT ![r] = q]
  /\ UNCHANGED <<free, mishaps>>

Release(r, from, q) ==
  /\ req[r].pc = from
  /\ req' = [req EXCEPT ![r] = [q EXCEPT !.slot = FALSE]]
  /\ free' = IF req[r].slot THEN free + 1 ELSE free
  /\ UNCHANGED mishaps

At(q, pc) == [q EXCEPT !.pc = pc]
\* The look at the client's flag before a wait for the semaphore.
Enter(q, pc) == IF q.cancel THEN Raise(q, "cancelled") ELSE At(q, pc)
Fails(r, from) == Release(r, from, Raise(req[r], "error"))
Cancelled(r, from) == req[r].cancel /\ Release(r, from, Raise(req[r], "cancelled"))

\* The acquire of the semaphore, and the look at the flag behind it.
Acquire(r, from, to) ==
  /\ req[r].pc = from /\ free > 0 /\ ~req[r].cancel
  /\ free' = free - 1
  /\ req' = [req EXCEPT ![r] = [@ EXCEPT !.slot = TRUE, !.pc = to]]
  /\ UNCHANGED mishaps

-----------------------------------------------------------------------------
(* Before the stages.                                                          *)

\* A text answer has no place for a media id: refused with the counters taken.
Arrive(r) ==
  \E ask \in Asks(r) :
    LET q == [req[r] EXCEPT !.ask = ask, !.inFlight = 1, !.jobs = 1]
    IN Step(r, "idle", IF {"retain", "text"} \subseteq ask THEN Raise(q, "error")
                       ELSE At(q, "row"))

RowStarted(r) == Step(r, "row", At(req[r], "load"))
TooLarge(r) == Fails(r, "row")

ModelLoaded(r) ==
  Step(r, "load", [req[r] EXCEPT !.pc = "form", !.leased = TRUE, !.leases = 1])
LoadFailed(r) == Fails(r, "load")

\* From here the inner finally answers for the files.
FormRead(r) ==
  LET q == [req[r] EXCEPT !.inner = TRUE]
  IN Step(r, "form", IF Asked(q, "url") THEN Enter(q, "probe")
                     ELSE [q EXCEPT !.pc = "spool", !.files = {"spool"}, !.tmp = "spool"])
FormRefused(r) == Fails(r, "form")

Downloading(q) == [q EXCEPT !.pc = "download", !.files = @ \cup {"dir"}]

Probed(r) ==
  Step(r, "probe", IF Asked(req[r], "reuse") THEN At(req[r], "reuse") ELSE Downloading(req[r]))
ProbeFailed(r) == Fails(r, "probe")

\* A language check's audio, if it can be copied and is still retained.
Reused(r) ==
  \E media \in {"none", "kept"} :
    Step(r, "reuse", [req[r] EXCEPT !.pc = "input", !.files = @ \cup {"copy"},
                                    !.tmp = "copy", !.media = media])
ReuseFailed(r) == Step(r, "reuse", Downloading(req[r]))

Downloaded(r) == Step(r, "download", At(req[r], "pipecopy"))
DownloadFailed(r) == Fails(r, "download")
DownloadCancelled(r) == Cancelled(r, "download")

Copied(r) ==
  Step(r, "pipecopy", [req[r] EXCEPT !.pc = "register", !.files = @ \cup {"copy"},
                                     !.tmp = "copy"])
CopyFailed(r) == Fails(r, "pipecopy")

Registered(r) ==
  \E media \in {"none", "kept"} :
    Step(r, "register", [req[r] EXCEPT !.pc = "input", !.media = media])

Spooled(r) == Step(r, "spool", At(req[r], IF Asked(req[r], "retain") THEN "retain" ELSE "input"))
SpoolTooLarge(r) == Fails(r, "spool")
\* Over the store's cap the upload is not retained.
RetainDeclined(r) ==
  /\ Asked(req[r], "retain")
  /\ Step(r, "spool", [req[r] EXCEPT !.pc = "input", !.warned = @ \cup {"retain"}])
Retained(r) ==
  Step(r, "retain", [req[r] EXCEPT !.pc = "input", !.files = @ \cup {"retained"}])
RetainFailed(r) ==
  Step(r, "retain", [req[r] EXCEPT !.pc = "input", !.warned = @ \cup {"retain"}])

InputTaken(r) == Step(r, "input", At(req[r], IF Asked(req[r], "capture") THEN "roll" ELSE "plan"))
InputRefused(r) == Fails(r, "input")

\* The capture's roll: the store may be filled by what is ready.
Rolled(r) ==
  \E ask \in {req[r].ask, req[r].ask \ {"capture"}} :
    Step(r, "roll", [req[r] EXCEPT !.pc = "plan", !.ask = ask])

-----------------------------------------------------------------------------
(* The stages. A stage asked for runs, is skipped, or fails softly.            *)

Skip(q, stage) == [q EXCEPT !.out[stage] = "skipped", !.warned = @ \cup {stage}]
\* Fault: the failure is only logged.
SoftFailSilent(q, stage) == [q EXCEPT !.out[stage] = "failed"]

SoftFail(q, stage) == [q EXCEPT !.out[stage] = "failed", !.warned = @ \cup {stage}]
Ran(q, stage) == [q EXCEPT !.out[stage] = "ran"]

\* The allowlists, then separation's own gate and its first look at the flag.
Planned(r) ==
  \E refused \in SUBSET (req[r].ask \cap {"separating", "diarizing"}), enabled \in BOOLEAN :
    LET d == IF "diarizing" \in refused THEN Skip(req[r], "diarizing") ELSE req[r]
        q == IF "separating" \in refused THEN Skip(d, "separating") ELSE d
    IN Step(r, "plan",
         IF ~Asked(q, "separating") \/ "separating" \in refused THEN Enter(q, "decslot")
         ELSE IF ~enabled THEN Enter(Skip(q, "separating"), "decslot")
         ELSE IF q.cancel \/ Asked(q, "wav") THEN Enter(q, "sepslot")
         ELSE [q EXCEPT !.pc = "transcode", !.files = @ \cup {"sepwav"}])

NoSepWav(q) == [q EXCEPT !.files = @ \ {"sepwav"}]

\* The wait for the slot is inside the try whose finally unlinks the WAV.
ToSeparator(q) == IF q.cancel THEN Raise(NoSepWav(q), "cancelled") ELSE At(q, "sepslot")
Transcoded(r) == Step(r, "transcode", ToSeparator(req[r]))
\* The separator decodes the original, unless it was refused.
TranscodeFailed(r) == Step(r, "transcode", ToSeparator(NoSepWav(req[r])))
TranscodeRefused(r) ==
  Step(r, "transcode", Enter(SoftFail(NoSepWav(req[r]), "separating"), "decslot"))

SepSlot(r) == Acquire(r, "sepslot", "separate")
\* Before the wait, behind it, or by the separator itself.
SepCancelled(r) ==
  \E from \in {"sepslot", "separate"} :
    /\ from = "sepslot" => free > 0
    /\ req[r].cancel /\ Release(r, from, Raise(NoSepWav(req[r]), "cancelled"))

\* Fault: the original stays on disk.
VocalsBeside(q) == [q EXCEPT !.files = @ \cup {"vocals"}, !.tmp = "vocals"]

\* The vocals take the upload's place.
Vocals(q) == [q EXCEPT !.files = (@ \ {q.tmp}) \cup {"vocals"}, !.tmp = "vocals"]
Separated(r) ==
  Release(r, "separate", Enter(Ran(Vocals(NoSepWav(req[r])), "separating"), "decslot"))
SeparationFailed(r) ==
  Release(r, "separate", Enter(SoftFail(NoSepWav(req[r]), "separating"), "decslot"))

DecodeSlot(r) == Acquire(r, "decslot", "decode")
DecodeCancelled(r) ==
  \E from \in {"decslot", "decode"} : (from = "decslot" => free > 0) /\ Cancelled(r, from)
Decoded(r) ==
  \E text \in {"silence", "speech"} :
    Release(r, "decode", [req[r] EXCEPT !.pc = "diargate", !.text = text])
DecodeFailed(r) == Fails(r, "decode")

\* A stage that nothing was decided on yet is gated when its turn comes.
Gate(r, from, stage, next, run) ==
  \E enabled \in BOOLEAN :
    Step(r, from,
      IF ~Asked(req[r], stage) \/ req[r].out[stage] # "none" THEN At(req[r], next)
      ELSE IF req[r].text = "silence" \/ ~enabled THEN At(Skip(req[r], stage), next)
      ELSE Enter(req[r], run))

DiarGate(r) == Gate(r, "diargate", "diarizing", "trgate", "diarslot")
DiarSlot(r) == Acquire(r, "diarslot", "diarize")
Diarized(r) == Release(r, "diarize", At(req[r], "assign"))
DiarFailed(r) == Release(r, "diarize", At(SoftFail(req[r], "diarizing"), "trgate"))
DiarCancelled(r) ==
  \E from \in {"diarslot", "diarize"} : (from = "diarslot" => free > 0) /\ Cancelled(r, from)
Assigned(r) == Step(r, "assign", At(Ran(req[r], "diarizing"), "trgate"))
\* Fault: outside the soft-fail block.
AssignFailedHard(r) == Fails(r, "assign")
AssignFailed(r) == Step(r, "assign", At(SoftFail(req[r], "diarizing"), "trgate"))

\* The slot is for a translation on the GPU.
TrGate(r) ==
  Gate(r, "trgate", "translating", "capgate", IF Asked(req[r], "gpu") THEN "trslot" ELSE "translate")
TrSlot(r) == Acquire(r, "trslot", "translate")
Translated(r) == Release(r, "translate", At(Ran(req[r], "translating"), "capgate"))
TranslationFailed(r) ==
  Release(r, "translate", At(SoftFail(req[r], "translating"), "capgate"))
TranslationCancelled(r) ==
  \E from \in {"trslot", "translate"} : (from = "trslot" => free > 0) /\ Cancelled(r, from)

-----------------------------------------------------------------------------
(* The answer.                                                                 *)

CapGate(r) ==
  Step(r, "capgate", At(req[r], IF Asked(req[r], "capture") /\ req[r].text = "speech"
                                THEN "disk" ELSE "answer"))
DiskSeen(r) == \E next \in {"capture", "answer"} : Step(r, "disk", At(req[r], next))
\* A capture that fails is logged.
Captured(r) == Step(r, "capture", At(req[r], "answer"))

Sent(q) == Inner([q EXCEPT !.answered = TRUE])

\* Fault: the id fixed after the download is handed out unseen.
AnswerUnseen(r) ==
  Step(r, "answer", IF "retained" \in req[r].files THEN At(req[r], "keep") ELSE Sent(req[r]))

\* A retained upload is registered only now; a link's audio may have left the store.
Answer(r) ==
  Step(r, "answer",
    IF Asked(req[r], "text") THEN Sent(req[r])
    ELSE IF "retained" \in req[r].files THEN At(req[r], "keep")
    ELSE IF req[r].media = "gone"
         THEN Sent([req[r] EXCEPT !.media = "none", !.warned = @ \cup {"media"}])
    ELSE Sent(req[r]))

KeptUpload(r) ==
  Step(r, "keep", Sent([req[r] EXCEPT !.media = "kept", !.files = @ \ {"retained"}]))
KeepFailed(r) == Step(r, "keep", Sent([req[r] EXCEPT !.warned = @ \cup {"retain"}]))

\* The sweep, or another's registration, drops the link's audio.
LeavesStore(r) ==
  /\ req[r].media = "kept" /\ ~req[r].answered
  /\ req' = [req EXCEPT ![r].media = "gone"]
  /\ UNCHANGED <<free, mishaps>>

Removed(r) == Step(r, "rmtree", Outer([req[r] EXCEPT !.files = @ \ {"dir"}]))
Finished(r) == Step(r, "finish", At(req[r], "rates"))
Learned(r) == Step(r, "rates", At(req[r], "done"))

-----------------------------------------------------------------------------
(* Cancellations.                                                              *)

CancelRequest(r) ==
  /\ mishaps[r] < MaxMishaps[r] /\ mishaps' = [mishaps EXCEPT ![r] = @ + 1]
  /\ req[r].pc \notin {"idle", "done"} /\ ~req[r].cancel
  /\ req' = [req EXCEPT ![r].cancel = TRUE]
  /\ UNCHANGED free

\* Fault: the separation's WAV is unlinked only behind a separation.
UnwoundSlotOnly(q) ==
  [q EXCEPT !.dropped = @ \cup {q.pc}, !.slot = FALSE,
            !.threads = IF q.pc \in Threaded THEN {q.pc} ELSE {}]

\* What the unwinding of an await does before the finally blocks: the separation's
\* own finally unlinks its WAV, a wait for the transcoder is not inside it.
Unwound(q) ==
  LET p == q.pc
      d == [q EXCEPT !.dropped = @ \cup {p}, !.slot = FALSE,
                     !.threads = IF p \in Threaded THEN {p} ELSE {}]
  IN IF p \in {"sepslot", "separate"} THEN NoSepWav(d) ELSE d

\* The delete goes on in its thread (shield); so does the row's last write.
Dropped(q) ==
  CASE q.pc = "rmtree" ->
         Outer([Unwound(q) EXCEPT !.status = "cancelled", !.files = @ \ {"dir"}])
    [] q.pc \in {"finish", "rates"} -> At([q EXCEPT !.dropped = @ \cup {q.pc}], "done")
    [] OTHER -> Raise(Unwound(q), "cancelled")

Drop(r) ==
  /\ mishaps[r] < MaxMishaps[r] /\ mishaps' = [mishaps EXCEPT ![r] = @ + 1]
  /\ req[r].pc \in Awaits
  /\ req' = [req EXCEPT ![r] = Dropped(req[r])]
  /\ free' = IF req[r].slot THEN free + 1 ELSE free

\* A copier's file, if its source was still there, has no owner any more; a
\* separator unlinks its own (handoff).
ThreadEnds(r) ==
  \E t \in req[r].threads : \E made \in SUBSET (IF t \in Copying THEN {"stray"} ELSE {}) :
    /\ req' = [req EXCEPT ![r].threads = {}, ![r].files = @ \cup made]
    /\ UNCHANGED <<free, mishaps>>

-----------------------------------------------------------------------------

RequestNext ==
  \E r \in Requests :
    \/ Arrive(r) \/ RowStarted(r) \/ TooLarge(r) \/ ModelLoaded(r) \/ LoadFailed(r)
    \/ FormRead(r) \/ FormRefused(r) \/ Probed(r) \/ ProbeFailed(r)
    \/ Reused(r) \/ ReuseFailed(r) \/ Downloaded(r) \/ DownloadFailed(r)
    \/ DownloadCancelled(r) \/ Copied(r) \/ CopyFailed(r) \/ Registered(r)
    \/ Spooled(r) \/ SpoolTooLarge(r) \/ RetainDeclined(r) \/ Retained(r) \/ RetainFailed(r)
    \/ InputTaken(r) \/ InputRefused(r) \/ Rolled(r) \/ Planned(r)
    \/ Transcoded(r) \/ TranscodeFailed(r) \/ TranscodeRefused(r)
    \/ SepSlot(r) \/ SepCancelled(r) \/ Separated(r) \/ SeparationFailed(r)
    \/ DecodeSlot(r) \/ DecodeCancelled(r) \/ Decoded(r) \/ DecodeFailed(r)
    \/ DiarGate(r) \/ DiarSlot(r) \/ Diarized(r) \/ DiarFailed(r) \/ DiarCancelled(r)
    \/ Assigned(r) \/ AssignFailed(r)
    \/ TrGate(r) \/ TrSlot(r) \/ Translated(r) \/ TranslationFailed(r)
    \/ TranslationCancelled(r)
    \/ CapGate(r) \/ DiskSeen(r) \/ Captured(r) \/ Answer(r) \/ KeptUpload(r) \/ KeepFailed(r)
    \/ LeavesStore(r) \/ Removed(r) \/ Finished(r) \/ Learned(r)
    \/ CancelRequest(r) \/ Drop(r) \/ ThreadEnds(r)

-----------------------------------------------------------------------------

Suspended(r) == req[r].pc \in {"separate", "decode", "diarize", "translate"}

\* What a request dropped while a thread made a file may leave to the next start.
MayLeave(q) == (IF q.dropped \cap Copying # {} THEN {"stray"} ELSE {})
               \cup (IF "transcode" \in q.dropped THEN {"sepwav"} ELSE {})

\* Whatever it ended at, a request has given back its lease, its slot, its place
\* among the running ones and its files, each of them once.
GivenBack ==
  /\ free = Slots - Cardinality({r \in Requests : req[r].slot})
  /\ \A r \in Requests : req[r].slot => Suspended(r)
  /\ \A r \in Requests : req[r].pc = "done" =>
       /\ req[r].leases = 0 /\ req[r].inFlight = 0 /\ req[r].jobs = 0
       /\ req[r].files \subseteq MayLeave(req[r])

\* A stage never reads a file that a cleanup, a swap or a registration took.
InputThere == \A r \in Requests : req[r].pc \in Reading => req[r].tmp \in req[r].files

\* Every stage asked for, and a retention, came about or is warned of, once there
\* is an answer; no id is advertised of audio that left the store.
Explained ==
  \A r \in Requests : req[r].answered =>
    /\ \A s \in Stages \cap req[r].ask :
         req[r].out[s] # "none" /\ (req[r].out[s] # "ran" => s \in req[r].warned)
    /\ "retain" \in req[r].ask => req[r].media = "kept" \/ "retain" \in req[r].warned
    /\ req[r].media # "gone" \/ "text" \in req[r].ask

\* Nothing that happens behind the decode costs the transcript, but a cancellation.
TranscriptKept ==
  \A r \in Requests :
    req[r].pc = "done" /\ req[r].text # "none" /\ ~req[r].cancel /\ req[r].dropped = {} =>
      req[r].answered /\ req[r].status = "ok"

=============================================================================
