------------------------------ MODULE MCStores ------------------------------
(* The stores, which share no state in these models, checked side by side; each *)
(* behaviour is of one of them: the samples merged from captures, the captures  *)
(* themselves, the usage tables, the media store.                               *)
EXTENDS Naturals, FiniteSets, TLC

CONSTANTS
  Captures, Sids, Callers, Vad, Originals, MaxSaves,                  \* samples
  Tasks, RowCap, MaxCaptures, MaxEvents,                              \* captures
  Users, Names, Kinds, Deliveries, Apps, Langs,                       \* usage
  TargetsMax, Grace, JobHours, AppHours, MaxHour,
  MaxRequests,  \* of samples and of usage
  Uploads, Audios, Videos, Size, Big,                                 \* media
  Made, Cap, Slots, AudioWall, VideoWall, UploadIdle, Ttl

VARIABLES
  part,
  gap, capture, row, wav, rebuild, thread, requests, packed, unguarded, broken, job,
  rows, status, earlier, merged, files, lost, recorded, doing, events, given,
  hour, jobs, sessions, dictated, apps, targets, swept, pruned, counted, posted,
  at, reg, where, age, entries, held, doomed, sweep, left, live, calm

\* A video alone fills the store, and one fetch is over its cap.
MediaSize == [f \in Uploads \cup Audios \cup Videos |->
                IF f = Big THEN Cap + 1 ELSE IF f \in Videos THEN Cap ELSE 1]

\* The free lock and the absent sample are nobody's name; the sample there is at
\* the start has its id and members; a user is not the tag of a request without a
\* job, nor an outcome or an app what stands for none; a fetch is of one kind, a
\* file has some bytes and the store a cap; the bounds are numbers.
ASSUME StoresAssumption ==
  /\ IsFiniteSet(Captures) /\ IsFiniteSet(Sids)
  /\ Sids # {} /\ Originals \subseteq Captures
  /\ "none" \notin Sids /\ "free" \notin Callers \cup {Vad} /\ Vad \notin Callers
  /\ RowCap \in Nat /\ MaxCaptures \in Nat
  /\ IsFiniteSet(Users) /\ IsFiniteSet(Names) /\ IsFiniteSet(Langs)
  /\ IsFiniteSet(Deliveries) /\ IsFiniteSet(Apps)
  /\ "request" \notin Users /\ "awaited" \notin Deliveries /\ "none" \notin Apps
  /\ TargetsMax \in Nat /\ Grace \in Nat /\ JobHours \in Nat /\ AppHours \in Nat /\ MaxHour \in Nat
  /\ IsFiniteSet(Uploads) /\ IsFiniteSet(Audios) /\ IsFiniteSet(Videos)
  /\ Uploads \cap (Audios \cup Videos) = {} /\ Audios \cap Videos = {}
  /\ \A f \in Uploads \cup Audios \cup Videos : Size[f] \in Nat
  /\ Cap \in Nat \ {0} /\ AudioWall \in Nat /\ VideoWall \in Nat
  /\ UploadIdle \in Nat /\ Ttl \in Nat

M == INSTANCE Samples
C == INSTANCE CaptureStore
U == INSTANCE UsageStore WITH requests <- posted
D == INSTANCE MediaStore

samplesVars == <<gap, capture, row, wav, rebuild, thread, requests, packed, unguarded,
                 broken, job>>
storeVars == <<rows, status, earlier, merged, files, lost, recorded, doing, events, given>>
usageVars == <<hour, jobs, sessions, dictated, apps, targets, swept, pruned, counted, posted>>
mediaVars == <<at, reg, where, age, entries, held, doomed, sweep, left, live, calm>>

StoresInit ==
  /\ part \in {"samples", "captures", "usage", "media"}
  /\ M!SamplesInit /\ C!StoreInit /\ U!UsageInit /\ D!MediaInit
  /\ part # "samples" => \A s \in Sids : ~row[s].locked /\ wav[s] = M!NoBuild
  /\ part # "media" => \A f \in Audios \cup Videos : at[f] = "idle"

SamplesStep == part = "samples" /\ M!SamplesNext /\ UNCHANGED <<part, storeVars, usageVars, mediaVars>>
CapturesStep == part = "captures" /\ C!StoreNext /\ UNCHANGED <<part, samplesVars, usageVars, mediaVars>>
UsageStep == part = "usage" /\ U!UsageNext /\ UNCHANGED <<part, samplesVars, storeVars, mediaVars>>
MediaStep == part = "media" /\ D!MediaNext /\ UNCHANGED <<part, samplesVars, storeVars, usageVars>>

StoresSpec ==
  /\ StoresInit
  /\ [][SamplesStep \/ CapturesStep \/ UsageStep \/ MediaStep]_<<part, samplesVars, storeVars,
                                                                usageVars, mediaVars>>

\* The parts are given the same model values (Users, Callers and Tasks; Names and
\* Originals), so that these two permutations serve them all.
MCSymmetry == Permutations(Callers) \cup Permutations(Originals)

-----------------------------------------------------------------------------

\* A sample is exported with the WAV its row describes, its members are those it
\* was merged from, nothing of a sample is left behind it, and a settings save is
\* followed by a reprocess that has read it (the rebuild locks, kick_reprocess).
SamplesCorrect ==
  part = "samples" =>
    M!ExportMatches /\ M!NothingLeftBehind /\ M!MembersComplete /\ M!RequestsServed

\* A capture's row has its WAV and no WAV is left without its row, and a review
\* survives its audio's absence, whatever is evicted, deleted, cleared, lost and
\* brought back (create_capture, _unlink_row_audio, reconcile_on_startup).
CapturesAccounted ==
  part = "captures" => C!RowsHaveAudio /\ C!NoStrayAudio /\ C!ReviewKept

\* A media entry has its file, a live download keeps its directory, the cap holds
\* and a sweep of a quiet store leaves nothing (register, sweep,
\* _reap_stale_staging, _evict_over_cap).
MediaAccounted ==
  part = "media" =>
    D!EntriesHaveFiles /\ D!LiveJobsKept /\ D!CapHolds /\ D!QuietSweepClears

\* What a reviewer settled is respected: a locked sample is not rebuilt or taken
\* apart, and the cap evicts unreviewed and ready captures last (is_locked,
\* _EVICTION_ORDER).
ReviewsRespected == M!LockedFrozen /\ C!EvictionOrder

\* The usage tables are the sums over the jobs, each session, report and target
\* counted once, whatever is replayed, late or swept (record_usage,
\* record_outcome, sweep).
UsageAddsUp ==
  part = "usage" =>
    U!TablesAddUp /\ U!SessionsCountedOnce /\ U!RolledOnce /\ U!TargetsOncePerJob

=============================================================================
