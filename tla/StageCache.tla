----------------------------- MODULE StageCache -----------------------------
(* The two single-pipeline stage caches, audio/diarization.py and              *)
(* audio/bgm_separation.py: one cached pipeline, reloaded whenever the wanted  *)
(* model or the configured device differs; job leases; pipelines dropped from  *)
(* the cache with jobs still on them ("orphans"); the inference mutex a        *)
(* cancelled request's thread goes on holding; and the vocals file a           *)
(* separation hands over. family says which of the two a behaviour is of.      *)
EXTENDS Integers, FiniteSets

CONSTANTS
  Models,    \* model ids (model file names for the separator)
  Jobs,      \* requests
  Warmups,   \* preload loads: speculative, and without a lease
  Families,  \* a subset of {"diarization", "bgm"}
  MaxEdits   \* bound: admin edits of the device

NoPipe == [model |-> "none", device |-> -1, by |-> "none"]
Free == "free"
Tasks == Jobs \cup Warmups

ASSUME StageAssumption ==
  /\ IsFiniteSet(Jobs) /\ Jobs \cap Warmups = {} /\ Free \notin Tasks
  /\ Families \subseteq {"diarization", "bgm"}
  /\ MaxEdits \in Nat

VARIABLES
  family,
  device,   \* the configured device, as the number of edits so far
  drains,   \* edits whose drop of the pipeline is still to come
  cache,    \* _pipeline with its key
  leases, orphans,
  rows,     \* models listed in the loaded-model registry
  lock,     \* who holds _lock, across its whole load
  deferred, \* _deferred_free
  mutex,    \* whose thread is inside the pipeline
  pc, want, got,
  thread,   \* per job: its executor thread
  wav       \* per job: the vocals file it writes

cacheVars == <<cache, leases, orphans, rows, lock, deferred>>
runVars == <<mutex, thread, wav>>
configVars == <<family, device, drains>>
taskVars == <<pc, want, got>>
vars == <<configVars, cacheVars, taskVars, runVars>>

Keys == [model : Models, device : 0..MaxEdits]
Pipes == [model : Models, device : 0..MaxEdits, by : Tasks]

KeyOf(p) == [model |-> p.model, device |-> p.device]
Cached(key) == cache # NoPipe /\ KeyOf(cache) = key
Resident(c, m) == c # NoPipe /\ c.model = m

Init ==
  /\ family \in Families
  /\ device = 0
  /\ drains = 0
  /\ cache = NoPipe
  /\ leases = [m \in Models |-> 0]
  /\ orphans = [m \in Models |-> 0]
  /\ rows = {}
  /\ lock = Free
  /\ deferred = {}
  /\ mutex = Free
  /\ pc = [t \in Tasks |-> "idle"]
  /\ want \in [Tasks -> {[model |-> m, device |-> 0] : m \in Models}]
  /\ got = [t \in Tasks |-> NoPipe]
  /\ thread = [t \in Tasks |-> "none"]
  /\ wav = [t \in Tasks |-> "none"]

-----------------------------------------------------------------------------
(* Freeing, dropping and releasing: synchronous on the event loop.             *)

Loading(m) == lock # Free /\ want[lock].model = m

\* Mutant: the separator's teardown does not look for a load in flight.
FreePipeNow(m) ==
  /\ rows' = rows \ {m}
  /\ UNCHANGED deferred

\* The last user of a pipeline outside the cache is gone: its registry row goes
\* too, unless the row describes the model's live pipeline by now; the separator
\* leaves it to a load of the same model in flight.
FreePipe(m) ==
  \/ /\ Resident(cache, m)
     /\ UNCHANGED <<rows, deferred>>
  \/ /\ ~Resident(cache, m)
     /\ family = "bgm" /\ Loading(m)
     /\ deferred' = deferred \cup {m}
     /\ UNCHANGED rows
  \/ /\ ~Resident(cache, m)
     /\ ~(family = "bgm" /\ Loading(m))
     /\ rows' = rows \ {m}
     /\ UNCHANGED deferred

\* What becomes of the counts and the row when the pipeline leaves the cache
\* with force: a leased one is orphaned, the last user frees it.
DropCounts ==
  IF cache = NoPipe
  THEN UNCHANGED <<leases, orphans, rows>>
  ELSE LET m == cache.model IN
       /\ leases' = [leases EXCEPT ![m] = 0]
       /\ orphans' = [orphans EXCEPT ![m] = @ + leases[m]]
       /\ rows' = IF leases[m] + orphans[m] > 0 THEN rows ELSE rows \ {m}

\* A lease ends: the orphan count is charged unless the holder's pipeline is
\* the cached one.
Release(m, pipe) ==
  IF pipe # cache /\ orphans[m] > 0
  THEN /\ orphans' = [orphans EXCEPT ![m] = @ - 1]
       /\ UNCHANGED leases
       /\ IF orphans[m] = 1 THEN FreePipe(m) ELSE UNCHANGED <<rows, deferred>>
  ELSE /\ leases' = [leases EXCEPT ![m] = IF @ > 0 THEN @ - 1 ELSE 0]
       /\ UNCHANGED <<orphans, rows, deferred>>

\* Would a load of m run beside a job? A preload's admission and its check
\* under the lock.
Busy(m) ==
  \/ \E o \in Models : orphans[o] > 0
  \/ mutex # Free
  \/ cache # NoPipe /\ cache.model # m /\ leases[cache.model] > 0

-----------------------------------------------------------------------------
(* _get_pipeline, _get_separator.                                              *)

\* The cached pipeline is the wanted one: a job leases it and submits its
\* thread, a warm-up has nothing to do.
Take(t) ==
  IF t \in Jobs
  THEN /\ leases' = [leases EXCEPT ![want[t].model] = @ + 1]
       /\ got' = [got EXCEPT ![t] = cache]
       /\ pc' = [pc EXCEPT ![t] = "run"]
       /\ thread' = [thread EXCEPT ![t] = "queued"]
  ELSE /\ pc' = [pc EXCEPT ![t] = "done"]
       /\ UNCHANGED <<leases, got, thread>>

\* The key is taken before any wait; a hit does not touch the lock.
Begin(t) ==
  /\ pc[t] = "idle"
  /\ \E key \in {[want[t] EXCEPT !.device = device]} :
       /\ want' = [want EXCEPT ![t] = key]
       /\ IF Cached(key)
          THEN Take(t)
          ELSE /\ pc' = [pc EXCEPT ![t] = "wait"]
               /\ UNCHANGED <<leases, got, thread>>
  /\ UNCHANGED <<configVars, cache, orphans, rows, lock, deferred, mutex, wav>>

HitUnderLock(t) ==
  /\ pc[t] = "wait" /\ lock = Free
  /\ Cached(want[t])
  /\ Take(t)
  /\ UNCHANGED <<configVars, want, cache, orphans, rows, lock, deferred, mutex,
                 wav>>

Decline(t) ==
  /\ pc[t] = "wait" /\ lock = Free
  /\ ~Cached(want[t])
  /\ t \in Warmups /\ Busy(want[t].model)
  /\ pc' = [pc EXCEPT ![t] = "done"]
  /\ UNCHANGED <<configVars, cacheVars, want, got, runVars>>

\* Mutant: a warm-up trusts the verdict it was admitted with.
StartLoadUnchecked(t) ==
  /\ pc[t] = "wait" /\ lock = Free
  /\ ~Cached(want[t])
  /\ DropCounts
  /\ cache' = NoPipe
  /\ lock' = t
  /\ pc' = [pc EXCEPT ![t] = "load"]
  /\ UNCHANGED <<configVars, deferred, want, got, runVars>>

StartLoad(t) ==
  /\ pc[t] = "wait" /\ lock = Free
  /\ ~Cached(want[t])
  /\ ~(t \in Warmups /\ Busy(want[t].model))
  /\ DropCounts
  /\ cache' = NoPipe
  /\ lock' = t
  /\ pc' = [pc EXCEPT ![t] = "load"]
  /\ UNCHANGED <<configVars, deferred, want, got, runVars>>

GiveUpWait(t) ==
  /\ pc[t] = "wait"
  /\ pc' = [pc EXCEPT ![t] = "done"]
  /\ UNCHANGED <<configVars, cacheVars, want, got, runVars>>

\* Built, and cached before the registry write is awaited: a lock-free hit can
\* lease it from here on.
Built(t) ==
  /\ pc[t] = "load"
  /\ \E p \in {[model |-> want[t].model, device |-> want[t].device, by |-> t]} :
       /\ cache' = p
       /\ got' = [got EXCEPT ![t] = p]
  /\ leases' = IF t \in Jobs
               THEN [leases EXCEPT ![want[t].model] = @ + 1] ELSE leases
  /\ pc' = [pc EXCEPT ![t] = "register"]
  /\ UNCHANGED <<configVars, orphans, rows, lock, deferred, want, runVars>>

\* The teardown an orphan left to a load that cached nothing.
RedoDeferred(models) ==
  rows' = rows \ {m \in models : orphans'[m] = 0}

\* The build failed, or its caller was cancelled: nothing is cached.
LoadEnds(t) ==
  /\ pc[t] = "load"
  /\ pc' = [pc EXCEPT ![t] = "done"]
  /\ lock' = Free
  /\ deferred' = {}
  /\ UNCHANGED <<cache, leases, orphans>>
  /\ RedoDeferred(deferred)
  /\ UNCHANGED <<configVars, want, got, runVars>>

CancelRegister(t) ==
  /\ pc[t] = "register"
  /\ pc' = [pc EXCEPT ![t] = "registerCancelled"]
  /\ UNCHANGED <<configVars, cacheVars, want, got, runVars>>

\* The row is written; a load cancelled meanwhile gives its lease back and
\* leaves the pipeline cached.
\* Mutant: the cancelled load forgets its lease.
RegisteredLeaky(t) ==
  /\ pc[t] \in {"register", "registerCancelled"}
  /\ rows' = rows \cup {want[t].model}
  /\ lock' = Free
  /\ deferred' = {}
  /\ IF pc[t] = "register" /\ t \in Jobs
     THEN /\ pc' = [pc EXCEPT ![t] = "run"]
          /\ thread' = [thread EXCEPT ![t] = "queued"]
     ELSE /\ pc' = [pc EXCEPT ![t] = "done"]
          /\ UNCHANGED thread
  /\ UNCHANGED leases
  /\ UNCHANGED <<configVars, cache, orphans, want, got, mutex, wav>>

Registered(t) ==
  /\ pc[t] \in {"register", "registerCancelled"}
  /\ rows' = rows \cup {want[t].model}
  /\ lock' = Free
  /\ deferred' = {}
  /\ IF pc[t] = "register" /\ t \in Jobs
     THEN /\ pc' = [pc EXCEPT ![t] = "run"]
          /\ thread' = [thread EXCEPT ![t] = "queued"]
          /\ UNCHANGED leases
     ELSE /\ pc' = [pc EXCEPT ![t] = "done"]
          /\ leases' = IF t \in Jobs
                       THEN [leases EXCEPT ![want[t].model] = @ - 1] ELSE leases
          /\ UNCHANGED thread
  /\ UNCHANGED <<configVars, cache, orphans, want, got, mutex, wav>>

\* Mutant: a failed registration takes back a lease its load never had.
RegisterFailsUnleased(t) ==
  /\ pc[t] \in {"register", "registerCancelled"}
  /\ leases' = [leases EXCEPT ![want[t].model] = @ - 1]
  /\ cache' = NoPipe
  /\ lock' = Free
  /\ deferred' = {}
  /\ UNCHANGED orphans
  /\ RedoDeferred(deferred)
  /\ pc' = [pc EXCEPT ![t] = "failed"]
  /\ UNCHANGED <<configVars, want, got, runVars>>

\* The registry write failed: the lease is undone, then the cache cleared.
RegisterFails(t) ==
  /\ pc[t] \in {"register", "registerCancelled"}
  /\ leases' = IF t \in Jobs
               THEN [leases EXCEPT ![want[t].model] = @ - 1] ELSE leases
  /\ cache' = NoPipe
  /\ lock' = Free
  /\ deferred' = {}
  /\ UNCHANGED orphans
  /\ RedoDeferred(deferred)
  /\ pc' = [pc EXCEPT ![t] = "failed"]
  /\ UNCHANGED <<configVars, want, got, runVars>>

-----------------------------------------------------------------------------
(* The run: a thread of the job's, and the task that awaits it.                *)

\* The mutex is free for the thread; a flagged cancel, or an abandoned
\* separation, ends it before it enters.
Enter(j) ==
  /\ thread[j] = "queued" /\ mutex = Free
  /\ ~(family = "bgm" /\ pc[j] = "cancelled")
  /\ thread' = [thread EXCEPT ![j] = "inside"]
  /\ mutex' = j
  /\ UNCHANGED <<configVars, cacheVars, taskVars, wav>>

TurnBack(j) ==
  /\ thread[j] = "queued"
  /\ thread' = [thread EXCEPT ![j] = "over"]
  /\ UNCHANGED <<configVars, cacheVars, taskVars, mutex, wav>>

\* The inference returns, is cancelled by its check or raises; a separation
\* that succeeds has written its file.
Leave(j) ==
  /\ thread[j] = "inside"
  /\ mutex' = Free
  /\ \/ /\ thread' = [thread EXCEPT ![j] = "over"]
        /\ UNCHANGED wav
     \/ /\ family = "bgm"
        /\ thread' = [thread EXCEPT ![j] = "handing"]
        /\ wav' = [wav EXCEPT ![j] = "written"]
  /\ UNCHANGED <<configVars, cacheVars, taskVars>>

\* Under the hand-off lock: the file goes to the task, or with it.
HandOff(j) ==
  /\ thread[j] = "handing"
  /\ thread' = [thread EXCEPT ![j] = "over"]
  /\ wav' = [wav EXCEPT ![j] = IF pc[j] = "cancelled" THEN "unlinked"
                               ELSE "offered"]
  /\ UNCHANGED <<configVars, cacheVars, taskVars, mutex>>

\* Mutant: a lease is always charged to the orphans of its model first.
FinishOrphansFirst(j) ==
  /\ pc[j] = "run" /\ thread[j] = "over"
  /\ pc' = [pc EXCEPT ![j] = "done"]
  /\ Release(got[j].model, NoPipe)
  /\ wav' = [wav EXCEPT ![j] = IF @ = "offered" THEN "caller" ELSE @]
  /\ UNCHANGED <<configVars, cache, lock, want, got, mutex, thread>>

Finish(j) ==
  /\ pc[j] = "run" /\ thread[j] = "over"
  /\ pc' = [pc EXCEPT ![j] = "done"]
  /\ Release(got[j].model, got[j])
  /\ wav' = [wav EXCEPT ![j] = IF @ = "offered" THEN "caller" ELSE @]
  /\ UNCHANGED <<configVars, cache, lock, want, got, mutex, thread>>

\* Mutant: the task does not look for a file its thread has offered.
CancelRunBlind(j) ==
  /\ pc[j] = "run"
  /\ pc' = [pc EXCEPT ![j] = "cancelled"]
  /\ Release(got[j].model, got[j])
  /\ UNCHANGED <<wav, thread>>
  /\ UNCHANGED <<configVars, cache, lock, want, got, mutex>>

\* The task is cancelled: the lease goes back at once, the thread goes on
\* unless it had not started; a file already offered is unlinked here.
CancelRun(j) ==
  /\ pc[j] = "run"
  /\ pc' = [pc EXCEPT ![j] = "cancelled"]
  /\ Release(got[j].model, got[j])
  /\ wav' = [wav EXCEPT ![j] = IF @ = "offered" THEN "unlinked" ELSE @]
  /\ \/ UNCHANGED thread
     \/ /\ thread[j] = "queued"
        /\ thread' = [thread EXCEPT ![j] = "over"]
  /\ UNCHANGED <<configVars, cache, lock, want, got, mutex>>

-----------------------------------------------------------------------------
(* Drops: an admin edit's, and the idle evictor's or the preloader's.          *)

Edit ==
  /\ device < MaxEdits
  /\ device' = device + 1
  /\ drains' = drains + 1
  /\ UNCHANGED <<family, cacheVars, taskVars, runVars>>

EditDrop ==
  /\ drains > 0 /\ lock = Free
  /\ drains' = drains - 1
  /\ DropCounts
  /\ cache' = NoPipe
  /\ UNCHANGED <<family, device, lock, deferred, taskVars, runVars>>

\* Mutant: the evictor looks at the leases only.
IdleDropLeasesOnly ==
  /\ cache # NoPipe /\ lock = Free
  /\ leases[cache.model] = 0
  /\ DropCounts
  /\ cache' = NoPipe
  /\ UNCHANGED <<configVars, lock, deferred, taskVars, runVars>>

\* Unforced: declined while the pipeline is leased or any thread is inside.
IdleDrop ==
  /\ cache # NoPipe /\ lock = Free
  /\ leases[cache.model] = 0
  /\ mutex = Free
  /\ DropCounts
  /\ cache' = NoPipe
  /\ UNCHANGED <<configVars, lock, deferred, taskVars, runVars>>

Next ==
  \/ \E t \in Tasks :
       \/ Begin(t) \/ HitUnderLock(t) \/ Decline(t) \/ StartLoad(t)
       \/ GiveUpWait(t) \/ Built(t) \/ LoadEnds(t)
       \/ CancelRegister(t) \/ Registered(t) \/ RegisterFails(t)
  \/ \E j \in Jobs :
       \/ Enter(j) \/ TurnBack(j) \/ Leave(j) \/ HandOff(j)
       \/ Finish(j) \/ CancelRun(j)
  \/ Edit \/ EditDrop \/ IdleDrop

Spec == Init /\ [][Next]_vars

-----------------------------------------------------------------------------

TypeOK ==
  /\ cache \in Pipes \cup {NoPipe}
  /\ leases \in [Models -> 0..Cardinality(Jobs)]
  /\ orphans \in [Models -> 0..Cardinality(Jobs)]
  /\ rows \subseteq Models /\ deferred \subseteq Models
  /\ lock \in Tasks \cup {Free}
  /\ mutex \in Jobs \cup {Free}
  /\ want \in [Tasks -> Keys]
  /\ got \in [Tasks -> Pipes \cup {NoPipe}]

Holds(j) == pc[j] \in {"register", "registerCancelled", "run"}
Holders(m) == {j \in Jobs : Holds(j) /\ got[j].model = m}

\* Every job between its lease and its release is counted once, as a lease or
\* as an orphan, across force-drops, reloads of the same model on another
\* device, failed registrations and cancellations; and the jobs on the cached
\* pipeline are all counted as leases, so an unforced drop spares them
\* (_leases, _orphans, _release_locked's live test).
LeaseAccounting ==
  \A m \in Models :
    /\ leases[m] + orphans[m] = Cardinality(Holders(m))
    /\ Cardinality({j \in Holders(m) : got[j] = cache}) <= leases[m]

\* The loaded-model registry lists exactly what is in memory as far as the
\* cache knows: a cached pipeline whose registration is over has its row, and
\* no row outlives the cached pipeline and the last orphan of its model, except
\* while a load has that teardown deferred to it (_free_locked, _deferred_free).
\* A failed registration is the exception: an orphan of the same model that ends
\* meanwhile leaves its row to it.
RowsMatch ==
  \A m \in Models :
    /\ Resident(cache, m) /\ lock = Free => m \in rows
    /\ m \in rows => \/ Resident(cache, m) \/ orphans[m] > 0 \/ m \in deferred
                     \/ \E t \in Tasks : pc[t] = "failed" /\ want[t].model = m

\* A pipeline leaves the cache under a thread that is inside it only by force:
\* an edit's drop, or another load starting. The idle evictor and a preload's
\* eviction never do that, not even when the thread's job has been cancelled
\* and its lease is gone (_drop_locked, _infer_mutex).
NoFreeUnderThread ==
  [][mutex # Free /\ got[mutex] = cache /\ cache' # cache
       => drains' # drains \/ lock' # lock]_vars

\* A warm-up starts to load only while nothing else is in memory that a job
\* still uses: no thread inside any pipeline, and no job on another model's,
\* cached or dropped, whatever happened since it was admitted (busy, re-checked
\* under the lock). Two cases escape busy, and the property names them: a job on
\* the same model under the device of before an edit, and one on a model whose
\* registration failed once under a lock-free hit. That job is on no cached
\* pipeline and in no orphan count, and when it ends it is charged to the orphan
\* count of another, on a pipeline of the same model dropped before.
WarmupLoadsAlone ==
  [][\A w \in Warmups :
       pc[w] = "wait" /\ pc'[w] = "load" =>
         \A j \in Jobs :
           /\ thread[j] # "inside"
           /\ pc[j] = "run" =>
                \/ got[j].model = want[w].model
                \/ \E t \in Tasks :
                     pc[t] = "failed" /\ want[t].model = got[j].model]_vars

\* A separation's vocals file is never left behind: once its job and its thread
\* are both over it has been handed to the caller or unlinked, whichever of the
\* two noticed the cancellation (the hand-off in _separate_with).
FilesOwned ==
  \A j \in Jobs :
    pc[j] \in {"done", "cancelled"} /\ thread[j] \in {"none", "over"} =>
      wav[j] \in IF pc[j] = "done" THEN {"none", "caller"}
                 ELSE {"none", "unlinked"}

=============================================================================
