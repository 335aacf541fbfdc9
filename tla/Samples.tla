------------------------------ MODULE Samples ------------------------------
(* Fine-tuning samples (captures/samples_store.py, captures/samples.py, the    *)
(* sample routes, captures/vad_reprocess.py): several captures merged into one *)
(* WAV and one row. A rebuild lock per sample serialises whoever writes that   *)
(* WAV; rows change under the two store locks, so each such block is a step.    *)
EXTENDS Integers, FiniteSets

CONSTANTS
  Captures,
  Sids,         \* sample ids
  Callers,      \* requests of non-admins, and the admin's clear and export
  Vad,          \* the reprocess worker thread
  Originals,    \* members of the sample there is at the start
  MaxRequests,  \* bound: requests
  MaxSaves      \* bound: saves of the sample settings, each followed by a reprocess

NoSample == "none"
NoBuild == [of |-> {}, gap |-> -1]
Built(cs, gap) == [of |-> cs, gap |-> gap]
Free == "free"
Threads == Callers \cup {Vad}

VARIABLES
  gap,       \* the global join settings, by the number of saves
  capture,   \* per capture: has it a row, has it its audio, and sample_id
  row,       \* per sample: capture_samples
  wav,       \* per sample: the merged WAV, by what it was built from
  rebuild,   \* per sample: who holds its rebuild lock
  thread,
  requests,
  packed,    \* the last export: what was written for one sample
  unguarded, \* samples whose row a clear deleted under somebody's rebuild
  broken,    \* samples whose dissolve failed
  job        \* the reprocess: its status and rerun flag, its pass's samples

samplesVars == <<gap, capture, row, wav, rebuild, thread, requests, packed,
                 unguarded, broken, job>>

Idle == [op |-> "none", pc |-> "idle", s |-> NoSample, cs |-> {}, gap |-> 0]
NoRow(phase) == [phase |-> phase, locked |-> FALSE, stale |-> FALSE,
                 built |-> NoBuild, silence |-> 0]
NewRow(cs, g) == [NoRow("live") EXCEPT !.built = Built(cs, g), !.silence = g]

Live(s) == row[s].phase = "live"
Members(s) == {c \in Captures : capture[c].row /\ capture[c].sample = s}
Present(cs) == \A c \in cs : capture[c].row /\ capture[c].audio

SamplesInit ==
  LET first == CHOOSE s \in Sids : TRUE IN
  /\ gap = 0
  /\ capture = [c \in Captures |->
       [row |-> TRUE, audio |-> TRUE,
        sample |-> IF c \in Originals THEN first ELSE NoSample]]
  /\ \E locked \in BOOLEAN :
       row = [s \in Sids |-> IF s = first
                THEN [NewRow(Originals, 0) EXCEPT !.locked = locked]
                ELSE NoRow("unused")]
  /\ \E there \in BOOLEAN :
       wav = [s \in Sids |-> IF s = first /\ there THEN Built(Originals, 0) ELSE NoBuild]
  /\ rebuild = [s \in Sids |-> Free]
  /\ thread = [t \in Threads |-> Idle]
  /\ requests = 0
  /\ packed = [members |-> {}, wav |-> NoBuild, says |-> NoBuild]
  /\ unguarded = {} /\ broken = {}
  /\ job = [status |-> "idle", rerun |-> FALSE, todo |-> {}, began |-> 0, asked |-> 0]

At(t, op, pc) == thread[t].op = op /\ thread[t].pc = pc
Move(t, pc) == thread' = [thread EXCEPT ![t].pc = pc]
Finish(t) == thread' = [thread EXCEPT ![t] = Idle]
Release(s) == rebuild' = [rebuild EXCEPT ![s] = Free]
Hold(t, s) == rebuild' = [rebuild EXCEPT ![s] = t]

Start(t, op, s, cs, g) ==
  /\ thread[t] = Idle
  /\ requests < MaxRequests
  /\ requests' = requests + 1
  /\ thread' = [thread EXCEPT ![t] = [op |-> op, pc |-> "start", s |-> s, cs |-> cs, gap |-> g]]
  /\ UNCHANGED <<gap, capture, rebuild, packed, unguarded, broken, job>>

-----------------------------------------------------------------------------
(* create_sample_api: validated and merged with no lock, since no row names    *)
(* the fresh id; the insert is the gate.                                       *)

ValidateMerge(t, s, cs) ==
  /\ row[s].phase = "unused"
  /\ Present(cs)
  /\ \A c \in cs : capture[c].sample = NoSample
  /\ row' = [row EXCEPT ![s] = NoRow("reserved")]
  /\ Start(t, "create", s, cs, gap)
  /\ UNCHANGED wav

BuildNew(t) ==
  LET s == thread[t].s IN
  /\ At(t, "create", "start")
  /\ \/ /\ \A c \in thread[t].cs : capture[c].audio
        /\ wav' = [wav EXCEPT ![s] = Built(thread[t].cs, thread[t].gap)]
        /\ Move(t, "insert")
     \/ /\ Finish(t)
        /\ UNCHANGED wav
  /\ UNCHANGED <<gap, capture, row, rebuild, requests, packed, unguarded, broken, job>>

\* Mutant: the member update is not checked for having matched every row.
ClaimableAlways(cs) == TRUE

\* What the guarded UPDATE of each member matches.
Claimable(cs) == \A c \in cs : capture[c].row /\ capture[c].sample = NoSample

\* The row's settings are read again, after the build.
Insert(t) ==
  LET s == thread[t].s
      cs == thread[t].cs IN
  /\ At(t, "create", "insert")
  /\ IF Claimable(cs)
     THEN /\ row' = [row EXCEPT ![s] = [NewRow(cs, thread[t].gap) EXCEPT !.silence = gap]]
          /\ capture' = [c \in Captures |-> IF c \in cs /\ capture[c].row
                           THEN [capture[c] EXCEPT !.sample = s] ELSE capture[c]]
          /\ Finish(t)
     ELSE /\ Move(t, "unmerge")
          /\ UNCHANGED <<row, capture>>
  /\ UNCHANGED <<gap, wav, rebuild, requests, packed, unguarded, broken, job>>

\* The refused insert's except branch.
Unmerge(t) ==
  /\ At(t, "create", "unmerge")
  /\ wav' = [wav EXCEPT ![thread[t].s] = NoBuild]
  /\ Finish(t)
  /\ UNCHANGED <<gap, capture, row, rebuild, requests, packed, unguarded, broken, job>>

-----------------------------------------------------------------------------
(* The three rebuilds of an existing sample.                                   *)

\* regenerate: the settings are read when the request is admitted.
AdmitRegenerate(t, s) ==
  /\ Live(s) /\ ~row[s].locked
  /\ Start(t, "regenerate", s, {}, gap)
  /\ UNCHANGED <<row, wav>>

\* A listened sample whose merged WAV is gone is rebuilt, if its members still
\* have theirs (_ensure_sample_wav), with the silence its row had then.
AdmitHeal(t, s) ==
  /\ Live(s) /\ wav[s] = NoBuild
  /\ Members(s) # {} /\ Present(Members(s))
  /\ Start(t, "heal", s, Members(s), row[s].silence)
  /\ UNCHANGED <<row, wav>>

\* The worker takes the next sample of its pass, its members and the settings.
TakeNext(s) ==
  /\ At(Vad, "reprocess", "pass") /\ s \in job.todo
  /\ job' = [job EXCEPT !.todo = @ \ {s}]
  /\ IF Live(s) /\ Members(s) # {}
     THEN thread' = [thread EXCEPT ![Vad] =
            [op |-> "reprocess", pc |-> "start", s |-> s, cs |-> Members(s), gap |-> gap]]
     ELSE UNCHANGED thread
  /\ UNCHANGED <<gap, capture, row, wav, rebuild, requests, packed, unguarded, broken>>

\* Mutants: the row is not read again under the lock, or its lock is not.
GoesOnUnchecked(t, s) == thread[t].op = "heal" => wav[s] = NoBuild
GoesOnGoneOnly(t, s) == Live(s) /\ (thread[t].op = "heal" => wav[s] = NoBuild)

\* What the thread finds under the lock it waited for.
GoesOn(t, s) ==
  /\ Live(s)
  /\ thread[t].op \in {"regenerate", "reprocess"} => ~row[s].locked
  /\ thread[t].op = "heal" => wav[s] = NoBuild

Rebuilding == {"regenerate", "heal", "reprocess"}
Done(t) == IF t = Vad THEN thread' = [thread EXCEPT ![t] = [Idle EXCEPT !.op = "reprocess", !.pc = "pass"]]
           ELSE Finish(t)

\* regenerate reads the members under the lock, the other two before it.
Enter(t) ==
  LET s == thread[t].s IN
  /\ thread[t].op \in Rebuilding /\ thread[t].pc = "start"
  /\ rebuild[s] = Free
  /\ IF GoesOn(t, s)
     THEN /\ Hold(t, s)
          /\ thread' = [thread EXCEPT ![t].pc = "read",
                          ![t].cs = IF thread[t].op = "regenerate" THEN Members(s) ELSE @]
     ELSE Done(t) /\ UNCHANGED rebuild
  /\ UNCHANGED <<gap, capture, row, wav, requests, packed, unguarded, broken, job>>

ReadMembers(t) ==
  /\ thread[t].op \in Rebuilding /\ thread[t].pc = "read"
  /\ Present(thread[t].cs)
  /\ Move(t, "write")
  /\ UNCHANGED <<gap, capture, row, wav, rebuild, requests, packed, unguarded, broken, job>>

\* A member without row or audio, or a merge that fails or would be too long:
\* nothing is written, and the worker marks the sample stale.
FailRebuild(t) ==
  LET s == thread[t].s IN
  /\ thread[t].op \in Rebuilding
  /\ \/ thread[t].pc = "read" /\ ~Present(thread[t].cs)
     \/ thread[t].pc = "write"
  /\ row' = [row EXCEPT ![s].stale = @ \/ (thread[t].op = "reprocess" /\ Live(s))]
  /\ Release(s) /\ Done(t)
  /\ UNCHANGED <<gap, capture, wav, requests, packed, unguarded, broken, job>>

ReplaceWav(t) ==
  /\ thread[t].op \in Rebuilding /\ thread[t].pc = "write"
  /\ wav' = [wav EXCEPT ![thread[t].s] = Built(thread[t].cs, thread[t].gap)]
  /\ Move(t, "patch")
  /\ UNCHANGED <<gap, capture, row, rebuild, requests, packed, unguarded, broken, job>>

\* update_sample matches no row when a clear took it. A heal keeps is_stale.
Patched(t, r) ==
  IF thread[t].op = "heal" THEN [r EXCEPT !.built = Built(thread[t].cs, thread[t].gap)]
  ELSE [r EXCEPT !.built = Built(thread[t].cs, thread[t].gap),
                 !.silence = thread[t].gap, !.stale = FALSE]

PatchRow(t) ==
  LET s == thread[t].s IN
  /\ thread[t].op \in Rebuilding /\ thread[t].pc = "patch"
  /\ row' = [row EXCEPT ![s] = IF Live(s) THEN Patched(t, @) ELSE @]
  /\ Release(s) /\ Done(t)
  /\ UNCHANGED <<gap, capture, wav, requests, packed, unguarded, broken, job>>

\* patch_sample_api: the toggle waits for the rebuild lock. A non-admin may
\* unlock what is locked.
ToggleLock(s) ==
  /\ Live(s) /\ rebuild[s] = Free
  /\ requests < MaxRequests /\ requests' = requests + 1
  /\ row' = [row EXCEPT ![s].locked = ~@]
  /\ UNCHANGED <<gap, capture, wav, rebuild, thread, packed, unguarded, broken, job>>

-----------------------------------------------------------------------------
(* Dissolving, deleting a member, and the clear.                               *)

AdmitDissolve(t, s) ==
  /\ Live(s) /\ ~row[s].locked
  /\ Start(t, "dissolve", s, {}, 0)
  /\ UNCHANGED <<row, wav>>

\* delete_capture: refused under the samples' lock if the sample is locked. Its
\* audio goes after its row.
DeleteMember(t, c) ==
  LET s == capture[c].sample IN
  /\ capture[c].row
  /\ s # NoSample => ~row[s].locked
  /\ thread[t] = Idle
  /\ requests < MaxRequests /\ requests' = requests + 1
  /\ capture' = [capture EXCEPT ![c].row = FALSE]
  /\ thread' = [thread EXCEPT ![t] = [op |-> "delete", pc |-> "unlink", s |-> s,
                                      cs |-> {c}, gap |-> 0]]
  /\ UNCHANGED <<gap, row, wav, rebuild, packed, unguarded, broken, job>>

UnlinkAudio(t) ==
  /\ At(t, "delete", "unlink")
  /\ capture' = [c \in Captures |-> IF c \in thread[t].cs
                   THEN [capture[c] EXCEPT !.audio = FALSE] ELSE capture[c]]
  /\ IF thread[t].s = NoSample THEN Finish(t) ELSE Move(t, "start")
  /\ UNCHANGED <<gap, row, wav, rebuild, requests, packed, unguarded, broken, job>>

Dissolving(t) == thread[t].op \in {"dissolve", "delete"} /\ thread[t].pc = "start"

\* dissolve_sample: the members are released and the row deleted in one
\* transaction; a delete's dissolve takes a sample locked meanwhile too.
Dissolve(t) ==
  LET s == thread[t].s IN
  /\ Dissolving(t) /\ rebuild[s] = Free
  /\ IF Live(s) /\ ~(thread[t].op = "dissolve" /\ row[s].locked)
     THEN /\ row' = [row EXCEPT ![s] = NoRow("gone")]
          /\ capture' = [c \in Captures |-> IF capture[c].sample = s
                           THEN [capture[c] EXCEPT !.sample = NoSample] ELSE capture[c]]
          /\ Hold(t, s) /\ Move(t, "wav")
     ELSE /\ Finish(t)
          /\ UNCHANGED <<row, capture, rebuild>>
  /\ UNCHANGED <<gap, wav, requests, packed, unguarded, broken, job>>

UnlinkWav(t) ==
  LET s == thread[t].s IN
  /\ thread[t].op \in {"dissolve", "delete"} /\ thread[t].pc = "wav"
  /\ wav' = [wav EXCEPT ![s] = NoBuild]
  /\ Release(s) /\ Finish(t)
  /\ UNCHANGED <<gap, capture, row, requests, packed, unguarded, broken, job>>

\* The transaction rolled back; a deleted member's is only logged.
DissolveFails(t) ==
  /\ Dissolving(t) /\ rebuild[thread[t].s] = Free
  /\ broken' = broken \cup {thread[t].s}
  /\ Finish(t)
  /\ UNCHANGED <<gap, capture, row, wav, rebuild, requests, packed, unguarded, job>>

\* clear_all lists the samples, and holds the locks of those while it deletes
\* every row; then it wipes both tables and the audio tree.
BeginClear(t) ==
  /\ \A u \in Callers : thread[u].op # "clear"
  /\ \E s \in Sids : Live(s)
  /\ Start(t, "clear", NoSample, {s \in Sids : Live(s)}, 0)
  /\ UNCHANGED <<row, wav>>

Held == {s \in Sids : rebuild[s] # Free}
Wiped == [s \in Sids |-> IF Live(s) THEN NoRow("gone") ELSE row[s]]
Orphaned == unguarded \cup {s \in Held : Live(s)}

ClearSamples(t) ==
  /\ At(t, "clear", "start")
  /\ thread[t].cs \cap Held = {}
  /\ row' = Wiped
  /\ unguarded' = Orphaned
  /\ Move(t, "wipe")
  /\ UNCHANGED <<gap, capture, wav, rebuild, requests, packed, broken, job>>

WipeAll(t) ==
  /\ At(t, "clear", "wipe")
  /\ row' = Wiped
  /\ unguarded' = Orphaned
  /\ capture' = [c \in Captures |-> [row |-> FALSE, audio |-> FALSE, sample |-> NoSample]]
  /\ wav' = [s \in Sids |-> NoBuild]
  /\ Finish(t)
  /\ UNCHANGED <<gap, rebuild, requests, packed, broken, job>>

-----------------------------------------------------------------------------
(* The reprocess job, and the export.                                          *)

\* Mutant: a start during a run only reports its state.
RerunDropped == FALSE

Rerun == TRUE

\* The settings are saved, then a reprocess is asked for.
SaveAndReprocess ==
  /\ gap < MaxSaves
  /\ gap' = gap + 1
  /\ IF job.status = "running"
     THEN /\ job' = [job EXCEPT !.rerun = Rerun, !.asked = gap + 1]
          /\ UNCHANGED thread
     ELSE /\ job' = [job EXCEPT !.status = "running", !.rerun = FALSE, !.asked = gap + 1]
          /\ thread' = [thread EXCEPT ![Vad] = [Idle EXCEPT !.op = "reprocess", !.pc = "list"]]
  /\ UNCHANGED <<capture, row, wav, rebuild, requests, packed, unguarded, broken>>

ListPass ==
  /\ At(Vad, "reprocess", "list")
  /\ job' = [job EXCEPT !.todo = {s \in Sids : Live(s) /\ ~row[s].locked}, !.began = gap]
  /\ Move(Vad, "pass")
  /\ UNCHANGED <<gap, capture, row, wav, rebuild, requests, packed, unguarded, broken>>

EndPass ==
  /\ At(Vad, "reprocess", "pass") /\ job.todo = {}
  /\ IF job.rerun THEN job' = [job EXCEPT !.rerun = FALSE] /\ Move(Vad, "list")
     ELSE job' = [job EXCEPT !.status = "done"] /\ Finish(Vad)
  /\ UNCHANGED <<gap, capture, row, wav, rebuild, requests, packed, unguarded, broken>>

\* Mutant: the export does not compare the members with those merged.
ExportableAny(s) == Live(s) /\ ~row[s].stale /\ ~row[s].locked /\ Members(s) # {}

Exportable(s) ==
  /\ Live(s) /\ ~row[s].stale /\ ~row[s].locked
  /\ Members(s) # {}
  /\ row[s].built.of = Members(s)

\* Under the rebuild lock: row, members and WAV, and the manifest line of them.
Export(s) ==
  /\ rebuild[s] = Free
  /\ Exportable(s) /\ wav[s] # NoBuild
  /\ packed' = [members |-> Members(s), wav |-> wav[s], says |-> row[s].built]
  /\ UNCHANGED <<gap, capture, row, wav, rebuild, thread, requests, unguarded, broken, job>>

CallerStep(t) ==
  \/ \E s \in Sids : \/ \E cs \in SUBSET Captures \ {{}} : ValidateMerge(t, s, cs)
                     \/ AdmitRegenerate(t, s) \/ AdmitHeal(t, s) \/ AdmitDissolve(t, s)
  \/ \E c \in Captures : DeleteMember(t, c)
  \/ BuildNew(t) \/ Insert(t) \/ Unmerge(t)
  \/ UnlinkAudio(t) \/ Dissolve(t) \/ UnlinkWav(t) \/ DissolveFails(t)
  \/ BeginClear(t) \/ ClearSamples(t) \/ WipeAll(t)

SamplesNext ==
  \/ \E t \in Callers : CallerStep(t)
  \/ \E t \in Threads : Enter(t) \/ ReadMembers(t) \/ FailRebuild(t) \/ ReplaceWav(t) \/ PatchRow(t)
  \/ \E s \in Sids : ToggleLock(s) \/ TakeNext(s) \/ Export(s)
  \/ SaveAndReprocess \/ ListPass \/ EndPass

-----------------------------------------------------------------------------

\* A sample is exported with the WAV its row describes and the text of exactly
\* the members that WAV was merged from (_build_export_stream), whatever is
\* rebuilt, deleted, dissolved or cleared meanwhile.
ExportMatches == packed.wav = packed.says /\ packed.wav.of = packed.members

\* While a sample stays locked its merged WAV is not replaced and no non-admin
\* takes a member from it: regenerate, the reprocess and delete look at the lock
\* again when they get to write (samples_store, vad_reprocess).
LockedFrozen ==
  [][\A s \in Sids :
       row[s].locked /\ row'[s].locked =>
         /\ wav[s] # NoBuild => wav'[s] \in {wav[s], NoBuild}
         /\ {c \in Captures : capture'[c].row /\ capture'[c].sample = s} = Members(s)]_samplesVars

Busy(s) == \E t \in Threads : thread[t].s = s \/ thread[t].op = "clear"

\* Nobody working on it, a sample that is no more has no merged WAV left on disk
\* and no member bound to it: a rebuild that waited out its dissolve stops, a
\* refused merge takes its WAV back. (A clear may delete a row that was added, or
\* whose rebuild began, after it took the locks.)
NothingLeftBehind ==
  \A s \in Sids : ~Live(s) /\ ~Busy(s) =>
    /\ wav[s] # NoBuild => s \in unguarded
    /\ Members(s) = {}

\* A sample has exactly the members it was merged from, unless the delete of
\* one has yet to dissolve it, or could not (_insert_sample_with_sid,
\* delete_capture).
MembersComplete ==
  \A s \in Sids : Live(s) =>
    \/ row[s].built.of = Members(s)
    \/ s \in broken
    \/ \E t \in Callers : thread[t].op = "delete" /\ thread[t].s = s

\* No reprocess request is lost: once the job is done, its last pass began
\* after the last save it was asked to apply (vad_reprocess.start).
RequestsServed == job.status = "done" => job.began >= job.asked

=============================================================================
