# A verification development for faster-whisper-backend

TLA+ modules, TLC configurations and TLAPS proofs kept beside the
faster-whisper-backend server: a FastAPI application that runs Whisper
transcription (batch uploads, links, live WebSocket dictation) on one asyncio
loop with worker threads, optionally under several uvicorn workers, with SQLite
files and JSON overlays as its shared state. Source paths below are relative to
`src/faster_whisper_backend/`.

The code's own logic that is hard to test is where requests, cancellations,
threads, edits and restarts meet around shared state. It is modelled in eight
groups of modules, each checked by its own runs:

1. the **Whisper model cache** (`transcription/models.py`);
2. **browser sessions across workers** (`auth/sessions_store.py`);
3. **batch runs** under one progress id (`transcription/progress.py`, `media/video.py`);
4. the **stages** of a batch request and the caches of their models
   (`main.transcribe`, `audio/diarization.py`, `audio/bgm_separation.py`,
   `translation/engine.py`);
5. the **preloader** (`runtime/preload.py`);
6. **live dictation** (`streaming/session.py`, `streaming/routes.py`);
7. **services** that share nothing: settings, translation of segments, receipts,
   what a request may override;
8. **stores**: captures, fine-tuning samples, usage, media.

Contents: [inventory](#1-inventory), [modules](#2-modules), [runs](#3-runs-and-bounds),
[fairness](#4-fairness), [proofs](#5-proofs), [findings](#6-what-the-checks-found),
[what is left out](#7-abstractions-and-what-is-left-out), [plan](#8-plan).

## 1. Inventory

"State" is what outlives one call; "hard" names the behaviours a unit test would
hardly reach. The rows marked with a module in the second table (section 2) are
modelled, nearly all of them partly; PROJECT.json lists the same components with
their files, what of each is modelled, and the hazards line by line.

| component | state | operations | talks to | hard | correct when |
|---|---|---|---|---|---|
| Whisper model cache (`transcription/models.py`, `core/loop_lock.py`, `runtime/model_registry.py`) | LRU of instances, leases, orphan leases, load lock, in-flight count, single-flight downloads, suppress-chars ids, pending trim; a registry row per model | hit, miss, convert, download, build with fallback, register, release, trim, idle eviction, preload eviction, drain, cap edit | every handler that decodes (lease), preloader (evict, warm set), settings (drain, trim), stats (registry) | cancellation on any await; forced unload under users; edits during a load; victims chosen while leases move | no release is counted for another instance; nothing in use is unloaded except by a drain; overflow is reclaimed; settings in force are the ones built with; every load ends |
| Sessions (`auth/sessions_store.py`, `settings/version.py`, re-check in `streaming/routes.py`) | rows and a revocation counter in SQLite; per worker: index, recorded data version, adopted counter, two throttles; per stream: version seen | sign-in, sign-out, lookup, fetch on a miss, rebuild, purge, probe, bump | request authentication, live streams | commits of siblings between two statements; failing reads and writes; a bump spent on a stale index | a revocation is never marked as seen unread; a live session is found; a stream of a signed-out session ends |
| Batch runs (`transcription/progress.py`, `jobs_store.py`, `jobs_routes.py`, `media/video.py`, `main.py`) | entry, owner stamp, tombstone, cancel flag, job and plan bindings per progress id; a jobs row; a handler, a video task and a stage thread per run | claim, tick, cancel, close, evict; row insert, finish, attach; hand-over between handler and video task | receipts, run plans, admin feed | late threads, a re-post of the id, cancellations on the awaits of a finally, eviction at the cap | a live run owns its id, bindings and flag; a closed id stays closed; exactly one closes; the stored result is the run's and names its video |
| Batch request pipeline (`main.transcribe`) | per request: its lease, semaphore slot, counters, temporary files, stage results | upload or link, separate, decode, diarize, translate, retain, answer | every stage cache, media store, registry | a cancellation on any of some twenty awaits, threads that run on | everything taken is given back once; the answer says of each stage whether it ran |
| Live dictation (`streaming/session.py`, `routes.py`, `localagreement.py`, `transport.py`, `vad.py`) | agreed prefix, document text, utterance ordinal and state, decode in flight, audio buffer, route leases | feed, partial decode, endpoint, final decode, flush, boundary, reset, stop, re-authenticate | model cache, GPU gate, text pipeline, captures, sessions | decode racing end of speech and stop; a failing final; lease hand-off on cancellation | each announced utterance ends in exactly one terminal frame; within a document text only grows |
| Stage caches: diarization, music separation, translation (`audio/diarization.py`, `audio/bgm_separation.py`, `translation/engine.py`) | one instance (GGUF: a few), leases, orphans, an inference mutex | get or load, infer, release, idle drop, drain | batch runs, preloader, settings | threads that outlive a cancelled request hold the mutex; a drop waits for them | as for the model cache; inference is exclusive; a drop never frees what runs |
| Preloader (`runtime/preload.py`, `preload_routes.py`) | plans, items and their states, warm leases, a single worker queue | register, replace, cancel, expire; load, evict a peer | model and stage caches, device memory | decisions before a lock and acts after it; a plan replaced while its item loads | a plan's items end; a warm lease never outlives its plan; admission and eviction agree |
| GPU gate and metrics (`stats/metrics.py`, `sampler.py`, stores, routes) | semaphore of a configurable size, counters, time series | acquire, release, resize; sample, flush | every decode | a resize under waiters | the gate admits at most its size |
| Receipt hold (`transcription/receipt_hold.py`; receipts, traces) | parked receipts by capture id | park, claim, supersede, sweep | streams, translation route | a claim racing the sweep | each receipt is logged once |
| Run plan and rates (`run_plan.py`, `runtime/stage_rates.py`) | per-run stage plan, learned rates | begin, tick, end; learn | progress registry | none beyond the registry's | shares sum to one, progress grows |
| Decode guards (`guards.py`, `segment_guards.py`, `translation/gating.py`) | none | classify segments | decoder | none: pure heuristics | tuned on audio, not stated in the code |
| Catalogue, sizes, download progress (`catalog_routes.py`, `model_sizes.py`, `download_progress.py`, `hf_cache.py`) | size cache, byte counters | list, estimate, poll | Hub | cache staleness | estimates only |
| Settings (`settings/*`, `core/atomic_json.py`, `pipeline/apply.py`) | JSON overlay on disk, running configuration, version counters, per-file locks | save (locked read-modify-write), hot-apply, bump, rename at load | all | overlapping saves across threads and workers | no save lost; memory ends equal to disk; sessions resolve after the last bump |
| Effective configuration (`effective_config.py`, `admin/overrides_routes.py`) | none (resolution); override rows | layer global, key, session, request; locks | every request | precedence of locks | a locked field never takes a request's value |
| API keys, rate limits (`auth/api_keys_store.py`, `rate_limit.py`) | key file and index, windows, in-flight slots | create, revoke, look up; check, enter, leave | authentication | index staleness across workers; a slot leaked by a cancellation | limits hold; slots return |
| Authentication, hosts (`auth/dependencies.py`, `hosts.py`, `routes.py`) | none | decide | sessions, keys | none: stateless | documented policy |
| Text pipeline (`pipeline/*`, `core/text_corrections.py`) | compiled rules, a bounded matching process | apply stages, hold a seam back | streams, batch | a stuck match killed and restarted | seam text is released once |
| Captures and samples (`captures/*`) | rows and WAVs; per sample a rebuild lock; the reprocess job | record, evict, review, delete, clear, reconcile; merge, regenerate, heal, reprocess, lock, dissolve, export | streams, batch, admin page | row and file out of step; what was read before a lock; a crash between a file and its row | a row has its WAV, an export matches its manifest, a reviewer's work is respected |
| Usage (`stats/usage_store.py`) | job rows, hourly tables of sums | record, outcome, late utterance, sweep | batch, streams, desktop app | reports that come early, late, twice or never | each session, report and target counted once |
| Recent transcriptions | capped log | append, query | rules page | none of note | |
| Media store (`media/media_store.py`, `media/routes.py`, `media/video.py`) | entries, retained files, staging directories, a cap | upload, fetch, register, evict, resolve, touch, sweep, orphan scan | batch runs | registering threads beside the janitor; a cut between a file and its entry | an entry has its file; nothing stray stays; the cap holds |
| Media downloads, editing and audio conversion | subprocesses | fetch, mux, convert | batch runs | subprocess cut mid-way | files removed once unused |
| Reports, client settings, quick config, admin pages, shared infrastructure | rows, job table of 200 | CRUD | | none of note | |

## 2. Modules

| module | models | extends / instantiates |
|---|---|---|
| `ModelPool` | what a cache of models promises to those who lease from it | |
| `WhisperCache`, `MCWhisperCache` | the model cache; symmetry | refines `ModelPool` |
| `SessionsStore`, `MCSessionsStore` | sessions across workers; small instances | |
| `BatchRuns` | runs under one progress id | |
| `StageCache` | diarization and separation: one cached pipeline | |
| `TranslationCache` | the GGUF translation models | |
| `TranscribeRequest` | the batch handler over its stages | |
| `MCStages` | one of the three per behaviour (`part`) | `StageCache`; instantiates the other two |
| `Preload`, `MCPreload` | plans, warm set, queue and worker | |
| `DictationClient` | what a dictation promises the client that draws its frames | |
| `DictationSession` | the session's state machine and stabiliser | |
| `DictationStream`, `MCDictation` | a WebSocket dictation, handshake to teardown | `DictationSession`; refines `DictationClient` |
| `Settings` | configuration saves of one worker | |
| `TranslateText`, `TranslateRun` | grouping, parsing and cutting of a translation; one call | |
| `ReceiptHold` | receipts held until their translation lands | |
| `EffectiveConfig`, `SilenceGates`, `SpeakerHints`; `MCOverrides` | what a request may change, one of the three per behaviour; the configurations of the run | |
| `MCServices` | settings, translation, reply, receipts, layers, silences or hints per behaviour | `Settings`; instantiates the others |
| `Samples`, `CaptureStore`, `UsageStore`, `MediaStore`, `MCStores` | the four stores, one per behaviour | `MCStores` instantiates them |
| `Sums` | a sum over a set, as `MapThenSumSet`, in a module small enough to instantiate | |
| `WhisperCacheProofs`, `SessionsStoreProofs`, `BatchRunsProofs`, `StagesProofs`, `PreloadProofs`, `DictationStreamProofs`, `ServicesProofs`, `StoresProofs` | the proofs (section 5) | the module proved about |

**Parts.** Components that share no state are checked in one run by a variable `part`
chosen at the start: a behaviour is of one part, the other parts' variables keep their
initial values, and the invariants of a part say so (`part = "samples" => ...`). Nothing
is composed that the code does not compose; what is composed there (a stream with its
session, a request with its stages' outcomes) is one module.

**WhisperCache.** An action is what the loop does between two awaits, or one
effect of a thread the loop waits for. `pc` places each caller in
`_get_or_load_model`: `converting` (awaits `_ensure_ct2_model`), `fetching` (awaits
a shared snapshot download), `queued` (awaits the load lock), `building` and
`fallback` (awaits a constructor's thread, lock held), `registering` (awaits the
thread that writes the registry row), `using` (has its lease). `cache` maps a model
to the *identity* of its instance, since a release compares instances and not
names (`_release_model_lease`). The cache's order is `older[m]`, the models used
less recently than `m`: with it, "the first unleased victims" is a predicate on a
set (`IsOverflow`), not a list. `hwRead`/`srcRead` are what a load has read of the
settings and not used yet; `hw`/`src` count the edits that hit each model. The
cancellation latch of `loop_lock.py` is `cancelled`: on a thread's await a
cancellation is remembered and acted on when the thread is done. The warm set of
the preloader is an arbitrary set at each look (`IdleScan`, `IdleSweep`).

**ModelPool.** One resident instance per model; an instance somebody uses leaves
only if its model was revoked (`Detach`: a drain after an edit) or its load fails
before it returned (`Withdraw`). The mapping: `resident` is `cache`, `users[i]` the
callers that hold `i`, `unconfirmed` the models being registered, `revoked` those of
a pending drain. Leases, orphans, the lock, order, cap and trims are all hidden:
the theorem of the pool is that the counters never let an evictor take a model
from under a decode.

**SessionsStore.** Workers are processes on one SQLite file, so an action is at
most one SQL statement: a sibling may commit between the version read and the
SELECT of a rebuild, or between a rebuild and the write it prepares. SQLite's
`data_version` is kept as the one bit the code derives from it: `unseen[w]` (the
pragma differs from what `w` recorded), and `missed[w]` (and will still differ when
the rebuild under way is done). In a worker the event loop (sign-in, sign-out,
handshake, re-authentication: `at`, `token`, `subject`, `gen`) and the thread pool
(lookups, purge) share the index under `_lock`. A stream re-authenticates when its
version is behind (`behind`), as `_refresh_ident` does.

**BatchRuns.** One progress id; runs 1..NumRuns are posted under it in turn. Each
has a handler (through `transcribe`'s inner and outer finally), a `keep_video` task,
a stage thread whose tick is split where the loop can come between
(`TickStarts`, `TickLands`, `TickCreates`), and job-row statements on threads. The
`Mishap` kinds are the entry's eviction at the registry's cap, a request dropped
while its insert or its finish is on a thread, and a lost finish.

**StageCache** has one pipeline by identity, job leases, pipelines dropped with jobs
still on them (`orphans`), the inference mutex that a cancelled request's thread goes on
holding, and the separation's vocals file; `family` says which of the two caches a
behaviour is of, where they differ. **TranslationCache** has a lock per reference, leases,
and the decode count that outlives a cancelled job's lease. **TranscribeRequest** follows
one handler through its awaits: `req[r]` says what it holds (lease, slot, counters, files),
the two finally blocks are the actions that give it back, and a cancellation may come at each
await, the awaited thread then going on alone.

**Preload.** `register_plan`, the sweeper and the worker are steps of the loop;
`on_stage_start` runs on a job's thread and hands its item over (`hand`). The worker's
steps are split at its awaits: evict peers, load, register, lease, unlease.

**DictationSession** takes audio as frames, each silence or the next spoken word; a decode
hears the words of the live buffer, and a preview may mishear the last. The buffer, the
agreed prefix, the hold-back, trimming, forced commit and hard break are the code's, over
words for characters. **DictationStream** adds the receive loop, the pump, the two model
loads, slots, revocation and teardown. **DictationClient** keeps only what was drawn: the
document, the committed length, and which ordinals were announced and ended.

**Settings** splits each handler at its awaits and its thread's file transaction, three
saves overlapping; what follows a save (compiled rules, a stream's view, a model built) is
in it; `locks` names the holder of each. **TranslateRun** lets the model answer anything a
batch or a sentence group can get, on any of `Inputs`; segments before `at` are done, in
fluent mode `at` is a group's first. **ReceiptHold** numbers the receipts as they are
parked; `earlier` is the order in which held keys were last touched, `overflow` and `logged`
count how often each receipt is there, so that a loss or a double shows as a number.
**EffectiveConfig** is one request in any configuration of layers: a value is the name of
the layer it comes from, so the precedence is what is checked.

**Samples** splits each route at its rebuild lock, its file write and its row write, with
one thread per caller and the reprocess worker (`Vad`); a WAV is what it was built from
(`Built(cs, gap)`). **CaptureStore** has a task between its WAV and its row, or between its
row and its unlink. **UsageStore** has each transaction as a step, over one client name's
jobs (`Awaited` stands for the empty column of a report not there yet). **MediaStore**
follows each fetched file from staging to the retained directory, beside the janitor's
sweep, split at each of its looks at the disk. A fetch is an upload, a link's audio or its
video; `Size` gives each its bytes (in the run a video fills the store and `Big` is over its
cap), and staging outlives the longer of the two download walls (`LongerWall`).

## 3. Runs and bounds

| run | instance | shows |
|---|---|---|
| cache_edits | 2 models, 2 callers, cap 1 or 2, one edit, idle evictor | leases exact, registry and hardware settings current, overflow reclaimed, the pool's promise |
| cache_progress | 1 model, 2 callers, conversion and download, one edit, fair | waiters keep their download, every load ends, hardware edits take effect |
| cache_weights | 1 model, 1 caller | the violation of section 6 |
| sessions_safety | 2 workers, 2 sessions, 1 stream, 1 mishap | no revocation marked as seen unread, no live session lost, no bump spent on a stale index |
| sessions_ends | 2 workers, 1 session, 2 streams on one worker, fair | streams of a signed-out session end |
| batch_safety | 2 runs under an id, 1 mishap | a run keeps its id, flag and bindings; a closed id stays closed; result and video are the run's |
| stages_safety | 2 jobs, a warm-up, 2 models or 2 references under a cap of 1, one device edit; or two requests for one slot, 2 cancellations | leases, orphans, rows, slots, files; no thread disturbed; answers explained |
| preload_plans | 2 users, 3 models in 2 families, 2 plans, queue of 1, one restart, one job, fair | the warm set follows the plans; marks are resolved |
| dictation_text | 5 frames, every kind of word, all thresholds reachable, 1 mishap | no word twice, none lost, the client's promise |
| dictation_stream | 2 loads, 3 frames, queue of 2, one edit or revocation, one cancellation, fair | leases back, flush covered, silence after a cut-off, a stopped stream ends |
| services | 3 of 10 saves, 2 failing; 6 or 4 cues; replies of 5 characters; 4 receipts on 3 captures; some 10,000 configurations | see `SavesTakeEffect` .. `RequestsBounded` in `MCServices` |
| stores | see `Stores.cfg`: 2 samples of 3 captures, 3 captures under a cap of 1, 2 users, 4 media files | see `SamplesCorrect` .. `UsageAddsUp` in `MCStores` |

Why these bounds are enough for what they show:

- *Two models, two callers* (cache_edits) is the least with a victim and a survivor, or a
  current and an orphaned holder of one name. `MaxInstances` = 2 models + callers, the
  number of objects that can be referred to at once, so no behaviour is cut by it. Larger
  caches (a choice among unleased victims) are covered by the proofs, for every size.
- `MaxEdits` = 1: an edit interleaves with everything else; the second edit of a
  model only repeats the first with other values, and a second *pending* drain of one
  scope is folded into the first (`EditLoadSettings`).
- cache_progress has one model because waiting and joining are per model;
  the proofs cover many.
- `OneHome` puts the streams on `w1` so that sign-outs come from the stream's own worker
  and from its sibling. Symmetry permutes sessions and streams, callers and models, jobs and
  references, callers and members; never workers (their roles differ). No liveness
  property is checked under symmetry.
- `FewAfterMishap` (sessions_safety, a CONSTRAINT): after a mishap, a second session is
  explored only while no stream is open. The proofs have no such restriction.
- Two runs under an id is the least with a re-post. One mishap of any kind per
  behaviour, anywhere in it; the proofs cover any number of runs and mishaps.
- stages_safety: a device edit or another model is the least with an orphan; two jobs and
  a warm-up are a holder, a follower and an evictor. The request `full` asks for every kind of input and
  stage in turn; the other wants the slot it holds. The proofs cover any number of each.
- dictation_text: five frames reach a trim, a forced commit and a hard break after a
  committed word. Thresholds are at their smallest useful value; the hold-back, of
  two words, sees a joiner it knows (`Joiners`) and one it does not (`Unheld`).
- stores: two callers and the worker are the least with somebody waiting for a rebuild
  lock behind another while a third deletes; `MaxRequests` = 2 with the worker's own passes.
  In the media store any two of four files meet, so no three fetches at once.

`CHECK_DEADLOCK FALSE` is in BatchRuns, Stages, Preload, both Dictation configurations,
Services and Stores: there the work of a behaviour is finite (posts, frames, requests,
saves), and when it is done nothing more happens.

## 4. Fairness

*WhisperCache.* Weak fairness of what a thread or a finished await does (convert,
download, build, register) and of `Release` (handlers and streams release in a
finally). Strong fairness of what waits for the load lock (`TakeLock`, drains,
trims): `asyncio.Lock` is first in, first out, so a waiter gets it however often
it is taken meanwhile. Nothing is assumed of new calls, cancellations, aging or
edits.

*SessionsStore.* What a loop or pool thread has begun it ends (weak; strong where it
must take the index lock against the pool); the two throttles run out; an open stream
checks its credential again and again (`_refresh_ident` runs on every decode, about
once a second while somebody speaks). Nothing is assumed of sign-ins, sign-outs,
purges or other workers' probes. `MaxMishaps` is 0 here: with a failed read the
stream may indeed go on (section 6).

*DictationStream.* The event loop runs what is ready: the pump takes the next frame, sees
a revocation or the stop (weak); the handler's teardown steps (weak); a model load's
thread ends, in success or failure (weak); and the session's own steps,
`SessionRuns == []<>~CanStep \/ []<><<PumpStep \/ CloseStep>>_vars`, which is their weak
fairness with `CanStep` written for ENABLED. Nothing makes a client send, flush, stop or
leave, and nothing cancels the handler.

*Preload.* `WorkerRuns`: the loop runs what a thread handed it and the worker takes the
items queued, again in the form with the enabling condition written out. It is not
assumed while the worker is off (after a stop, until the start), nor of sweeps, jobs or
registrations.

All other runs have safety properties only.

## 5. Proofs

Every theorem is for all values of the constants under the assumptions named in the
module that declares them (finite sets, markers apart, caps as numbers), nothing else. The
theorems and what they establish are listed in PROJECT.json; here is the argument of each.
In every module the invariant is split into parts, a lemma shows each part kept by each
action, and lemmas of the form "what this step does" state an action's effect once,
pointwise, for all parts to cite.

**WhisperCacheProofs.** `IInv == TypeOK /\ Calls /\ LoadLock /\ EditsCounted /\
LeaseAccounting /\ LoadsInFlightExact`, from which `TypeCorrect`, `LeasesCorrect` and
`LoadsCorrect`.

- `Calls`: what a caller's `pc` says of its other fields. Without it a release could be
  counted for a caller that holds none.
- `LoadLock`: the lock is held exactly by the caller building or registering; while it
  builds, its model is not cached; while it registers, it is. So a build never
  overwrites a cached instance (which would make its holders orphans in fact and not
  in count), and no drop comes between caching and registering.
- `EditsCounted` keeps `hw` and `src` in range. `LeaseAccounting` is needed for TypeOK: a
  decrement stays a natural number because the counter is the cardinality of a set
  the caller is in.

`PoolImplemented`: `Spec => PoolSpec`, the refinement of `ModelPool`. `Identities`: an
instance is of one model, in the cache and in every hand; with `LeaseAccounting`, a
model without a lease has an instance in nobody's hands (`UnleasedUnused`), which is the
pool's condition for an eviction. Each step is then a step of the pool or a stutter.
`RegistryCorrect` is inductive with `LoadLock`; `HardwareCorrect` with
`BuildsWithCurrentHardware` (what a build under way has read is in force, or a drain that
will drop its model is pending: a load reads these settings *under* the lock a drain
takes, and the revision pin before it, which is why cache_weights fails);
`WaitersCorrect` and `OverflowCorrect` by themselves.

**SessionsStoreProofs.** `Effects`: whatever a step is, to the rows and indexes it is one
of seven things. Hence only `Revoke` signs a session out and it moves the counter, an
index gains entries of live sessions only, and `unseen` is cleared only by a rebuild.
`ReflectedKept`: an index that reflects every revocation does until the counter moves,
and at the worker that moves it, even then; `UnseenCorrect`, `FoundCorrect` and
`CountedCorrect` follow, the last with `CountersBehind` (no worker is ahead of the counter).
For `CutOffCorrect`: `AdoptedIsReflected` (what the probe adopted is in the index),
`EndDue` (the property, its last case narrowed to streams past the probe) and `Sampled`
(until a read fails, a worker with an open stream has sampled the counter).

**BatchRunsProofs.** Per run, `Places` says what handler, video task, tick and pending write
can be together and what is left to close the entry (`CloseComes`); then `InOrder` (runs are
posted one after the other), `LastClaim` (no run later than the entry's owner has touched
it), `Stamped`, `Unevicted` and `PlainHolds` (what holds until an entry is evicted, and after
runs without video), `LiveRunIsBound`, `NewerRow` and `PendingIsSomeones` (whose row it is,
and who will answer a pending video). From these `WorkingRunKeepsItsOwn`, `OverIsClosed`
and `ResultIsAnswered`, for any number of runs and mishaps.

**StagesProofs.** `PipeInv`: the lock is its loader's and a fresh identity
nobody's (`LoadInv`); unless a registration of the model has failed, leases are the jobs on
the cached pipeline (`CountInv`); a deferred teardown is of the model being loaded
(`RowsInv`); where each thread is (`ThreadInv`). Hence `PipelinesAccountedFor`, and
`ThreadsLeftAlone` as an action property. `GgufInv`: who loads, holds a reference's lock,
has a row to write; the lease and decode counts are those of their holders; no completion
decodes on a closed model, because a model somebody decodes on is in use and a trim or a drop
spares those. Hence `GgufModelsAccounted`. For a request, `Good` is, await by await, what
it must hold there (`Counted`, `Owned`), what its stages are decided to be (`Decided`),
what it retains and what it will answer; with the semaphore's ledger (free slots = slots
− holders) it gives `RequestsReturn` and `AnswersTell`. The assumption is that the retain
flag is read of uploads only (`main.py:1506-1507`).

**PreloadProofs.** `PlanInv`: the warm set is the union of the plans; ids derived from what a
plan holds are `Bounded`, so a free one is found (a pigeonhole). `WayInv`: a mark in flight
has its item with a thread, on its way, queued or at work (`OnTheWay`). `RowInv`: a stats
row's end comes with its plan's work. `CacheInv`: a model a job uses is resident.
Hence `PlansAreAccounted`.

**DictationStreamProofs.** `LeasesByPhase`: in each phase of the handshake, the loop and the
teardown, exactly which lease is held by whom (handler, handover, a load nobody awaits).
`FlushInv`: while flushes are ignored one is queued or under way with no audio behind it.
`SilentInv`: a refused session stands aborted until its socket is closed. Hence
`LeasesAreReturned`, `FlushCovers` and, as an action property, `CutOffStaysSilent`.

**ServicesProofs.** The steps of one service leave the variables of the others alone
(`StepOfEach`), so each service has an invariant of its own.

- `SettingsInv` says who holds each lock and what each handler still has to do.
  `LockInv`: a handler past its admission holds the locks of its operation, and of the file
  and apply locks just those its place has. `ReadInv`: what a thread has read under the file
  lock is the file still, and what an apply has loaded is, in the part its own request
  edits. The rest goes part by part: unless a handler that saved the rules is yet to apply
  them, the running rules are the saved ones (`RulesInv`), the same for the profiles, where
  a rename holds both names while its cascade or its rollback is due (`ProfilesInv`). Saves
  of the overrides exclude each other only in the file: the running ones are the file's, or
  an apply that will make them so is on its way (`OverInv`). `SeenInv` is what a connection
  has resolved and a model was built with. Hence `SavesTakeEffectAlways` and
  `NoEditIsLost`. The assumption is what a request names: its operation, a rule that is there.
- `HoldInv`: a receipt is on one key at most, and each one parked is held, in the overflow or
  logged, once. Which receipts leave depends on the order of touches, that none is lost does
  not. Hence `ReceiptsAccounted`.
- `RunInv`: a cue is done when the loop is past it, or blank in a batch halved since (`Done`);
  a size that failed twice right after growing is above the ceiling (`GrownInv`). Hence
  `TranslationGoesOn` (every step moves on, or sends less from the same place) and
  `NoThirdTryEver`, one of the parts of `CuesKeepTheirWords`.
- `BoundedInv` (`LayersInv`, `GatesInv`, `HintsInv`): what a request was given is the value of
  the model's functions for the configuration it met, and the argument is about these. Layers: the bound ones come first, so the first with an
  opinion on a field, or the first to mention a rule, is the same whatever is appended
  (`OwnerKept`, `MentionKept`); an opt-out leaves the direct ones in their order
  (`DirectOwnerKept`). That the layers concatenated are a list of layers is the one induction,
  by least counterexample again (`JoinExists`). Gates: a connection fits its gates twice, with
  the client's values and with those it ended up with; the second fit moves nothing the first
  has settled (`SecondFit`), so what the client is told is what runs. Hints: what a hint ends
  as follows from the rank of its source and from the one of the count (`HintsReconciled`).
  Hence `RequestsBoundedAlways`. The assumption is that no profile has the name of the
  opt-out, and that silences and speaker counts are numbers.

**StoresProofs.** `CaptureInv`: what a task is in the middle of is about captures that no
row names and no other insert is about; a WAV is a row's, a task's or one the disk lost;
what was never listed was never reviewed. Hence `CapturesAreAccounted`. The order of
evictions follows from the rank being a total preorder refined by age: whoever comes before
an evicted capture has fewer before it, so it is evicted as well (`EvictedFirst`).
`SampleInv` is the longest invariant here, since four kinds of thread meet at a rebuild lock:

- `SamplePlaces`, `SampleLocks`, `SampleFresh`: where a thread is, that a rebuild lock is
  held exactly by the thread in its block, and that a fresh id is one request's.
- `SampleGuards`: what was found under the lock stays so while it is held: the row is not
  locked (the toggle waits for the rebuild lock), or the WAV that a heal replaces is missing.
  This is what makes `LockedFrozen` hold, and the re-check under the lock what it rests on.
- `SampleWavs`: a WAV on disk is explained: by its row, by the merge that wrote it and has
  its row to write, by a dissolve that has yet to unlink it, or by a clear (which may take a
  row that is being rebuilt: `unguarded`). With `SampleHolders`, that nobody but a clear
  takes a sample from under its rebuild.
- `SampleMembers`, `SampleBuilds`: a member's sample is live; the members are those merged,
  and those a rebuild is about to merge, unless a member's delete has yet to dissolve the
  sample, or could not (`Excused`). An export's check of members against `built` rests on it.
- `SampleJob`: the last save is past the pass's beginning only while a rerun is due.

Hence `SamplesAreCorrect` and, as action properties, `ReviewsAreRespected`.

For the media store and the usage tables, sums over finite sets are needed first. The
provers have no induction over an operator's argument; but a set of numbers has a least
element (`LeastExists`), so a set of smallest counterexamples is refuted instead, and
`SetInduction` is that argument, once, for the subsets of a finite set. With it `SumOf`, the
fold the models use, is shown to have its value whatever element is taken first (`SumAdds`),
and from there what is needed of sums: of two functions, of one changed element, of ones,
class by class.

`MediaInv`, of any number of fetches, sizes and ticks:

- `EntriesInv`, `FilePlaces`: no file is listed twice; what is listed is in the retained
  directory, its fetch past the insert; a live download's file is in staging, no older than
  its own wall (the reaper waits for the longer of the two, and more); only an evictor has
  files to drop.
- `ScanInv`: from the janitor's snapshot of the rows on, a row new to it has a file that its
  `register()` has just dated.
- `CalmInv`: in a sweep that began with everything over and old, what each of its steps has
  passed is gone.
- `CapInv`: without what evictors are about to drop (`Staying`), and unless a `register()` is
  between its insert and its eviction, all fits, or it is one video that fits with the audio
  it spared; the audio by itself fits.

Hence `MediaIsAccounted`.

`UsageInv` writes each table as a sum, over all job names, of what that job is to have put
there (`BucketOne`, `AppOne`, `RolledOne`, `TargetOne` and the words): a step changes the rows
of few jobs, and the table by the difference. With it go the rules of a job's row
(`JobRules`: a stub with no utterance waits with its report; only a dictation is reported; an
app comes with the report), each job in the sessions that were counted once it has an
utterance (`JobCounted`), and, for what outlives its row, the pruned jobs: they make up the
difference in `RolledSum`, and bound it in `TargetsSums`. A sweep closes a set of jobs at once: by
`SumOfClasses` the jobs it closes bucket by bucket are all those it closes. Hence
`UsageIsAddedUp`.

**Only model-checked**, and why:

- liveness (`LoadsEnd`, `HardwareEditsTakeEffect`, `SignedOutStreamsEnd`, `MarksResolved`,
  `StopEnds`): fairness needs ENABLED, which the prover does not have;
- `CuesKeepTheirWords` but for its part `NoThirdTry`, `TextKept` and the refinement of
  `DictationClient`: texts and replies are sequences cut, searched and joined by recursive
  functions, of which the provers' library has no theory. An argument by least
  counterexample, as for the sums, would have to build one;
- cache_weights, which is violated.

## 6. What the checks found

**cache_weights** is the finding a run shows: `_load_on_miss` reads the revision pin and the
conversion settings before the load lock and converts or downloads after; an edit meanwhile
finds nothing cached to drop, and the model built from the old pin is cached and stays.
Hardware settings are read under the lock and do not have the problem (`HardwareCorrect`).

Known disagreements that no run shows (the properties are stated so as not to claim them):

- a request that still runs on a drained instance stores its tokenizer's ids under the
  model's *name* after the unload cleared the entry (`models.py:157`);
- after a sign-out whose transaction failed, the cookie is only dropped from this worker's
  index; the next commit of a sibling has it fetched again;
- if the first sample of the revocation counter fails, the next is adopted silently, and a
  stream opened meanwhile is not checked again;
- both the video task and the handler's outer finally close a progress entry; the id can be
  posted again in between, and the second close takes the new run's. A third post can then
  rebind under a live run, and an earlier run's late insert replace its row: hence the
  hypothesis "follows no run with video" of the batch properties;
- a cancellation on the finish and an attach that gives up leave the close to each other:
  the entry stays and refuses the id.

Conditions that properties needed, each a fact about the code. They were met while checking
and proving; where a property exempts a case, it is exactly the one named.

*Batch runs.* An owner-less entry can appear only when the run's own entry was evicted
before the close (`progress.py:342-358`), and its flag can meet a later run. An insert of a
dropped run that lands late replaces the row of the run posted since (`progress.py:211`).
With its entry evicted while the video is fetched, a run looks closed to `job_result`. The
attach is scoped by the id, not by the run (`media/video.py:270`).

*Batch request.* A task cancelled while `transcode_to_wav` runs (`main.py:2335-2350`) leaves the
separated WAV until the next hard restart's sweep, though `main.py:2399-2401` says it is
unlinked "even on cancel/failure"; a cancelled `make_pipeline_copy` leaves its copy
(`MayLeave`). A dropped request's decode thread goes on after its slot and lease are
returned, and a capture thread may read a file after it is unlinked (documented).

*Stage caches.* `busy(model)` is false for a model in use under an edited device. A failed
registration with a follower that took its lease without the lock leaves a pipeline in use
that `busy()` cannot see; the follower's release is then charged to another job's orphan
count of that model, which hides that job too, and a same-model orphan ending meanwhile
leaves its registry row. A cancelled job's thread queued behind the mutex is invisible to
`_infer_mutex.locked()` between two holders.

*Preloader.* An eviction or a singleton load may drop a model that became warm while it
waited for the family's lock (`preload.py:13-15`); an old item's `finally` discards the
in-flight mark of a plan registered again under the same id.

*Settings.* Between a rename's save and its cascade the binding on disk names a missing
profile; after a failed rollback the alias stays. *Receipts.* After `_flush_before_exit` the
server still serves briefly; a receipt parked then is lost.

*Overrides.* `fit_silence_gates` with inner and hard break locked and outer free may return
`fits` false though a valid outer exists (120, 100, 200: 130 works), against its docstring. The names
endpoint offers profiles to a key with `apply_no_profiles`. A client bound equal to the
locked one does not count as the caller's range of speakers; two contradicting locks clamp
the minimum to the maximum. The decode-override gate leaves form fields open, by design.

*Samples.* The last step of a clear deletes rows of samples added, or whose rebuild began,
after it took its locks, and leaves their WAV until the next start (`unguarded`). Regenerate
reads the settings before it waits for the lock; a create reads the silence once for the WAV
and once for the row. A sample unlocked or created around a reprocess keeps old settings
and is not stale. A corrections save looks at `is_locked` without the rebuild lock.

*Media.* `touch()` does not check the lifetime, and a sweep that listed the entry as expired
still drops it (the handler looks again and answers without the id). Two concurrent
registers may each evict the other's file. An upload idle for an hour is reaped alive. A
video's registration may leave the store over its cap by the audio it spares, until the
next sweep. An upload cut during `register()` leaves an entry nobody was told of.

## 7. Abstractions and what is left out

- *Model cache.* What a conversion or a build does; sizes, timings, logs. An admin edit
  is one step that leaves a drain behind (`apply.py` runs it in the background); overlapping
  saves are in `Settings`. Idle time is "fresh" or "aged".
- *Sessions.* Time is two throttle bits and an expiry; a data version is a bit. The expiry
  of a session ends no open stream: the code bumps nothing for it, and no property claims it.
- *Batch runs.* One id; the two-hour tombstone and stale sweeps are not modelled;
  `_progress_close` is one step, as is the `KeyError` window of `progress.py:355-356`. The
  translate, media and admin handlers use the registry without a hand-over and are
  special cases of a run with no video.
- *Preloader.* Derived plan ids abstract from the entries hashed into them; device memory is
  a choice.
- *Dictation.* Words for characters; a decode's text is what was said, a preview's last
  word may differ; time is counted in frames.
- *Settings.* One worker; fields pinned by the environment, and a clear that migrates slugs
  (it applies the overrides without `_PROFILES_LOCK`), are left out. *Overrides:* renames,
  clamping, parsing and provenance labels.
- *Translation.* One target; a target in the source language, which is copied, is left out.
- *Stores.* A store's write succeeds except an insert's and a dissolve's. A job whose row was
  pruned is named by no request. The byte cap, corrections and chips of captures; failures,
  waiting times and audio sums of usage; owners, the probe cache, packaging, the wipe at
  start and moves across file systems of media. The orphan scan's age check and unlink are
  one step, as are a row's pop and unlink.
- *Not modelled*, with reasons, in PROJECT.json: the settings tables, merging audio, model
  catalogue and sizes, plan arithmetic, decode guards, rate limits, authentication and hosts,
  the text pipeline, the GPU gate and metrics, downloads and editing, audio conversion,
  reports, client settings, recent transcriptions, shared infrastructure.

## 8. Plan

*Done*: the modules of section 2; all safety properties of the model cache, the sessions
store, batch runs, the stages, the preloader, the stream's leases, flushes and cut-off,
settings, what a request may change, receipts, captures and samples, the media store and the
usage tables are proved.

Next, in order:

1. `OwnWords` of `TranslateRun`, from what `MergeSentences` returns: groups in order, each cue
   in one of them.
2. The refinement of `DictationClient`, for the part of it that is not about texts:
   ordinals and terminal frames.
3. Modules not there yet: `settings/rename.py` with its cascade at load, the GPU gate's resize
   under waiters, the matching process of `pipeline/regex_guard.py`.
