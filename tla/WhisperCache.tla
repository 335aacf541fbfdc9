---------------------------- MODULE WhisperCache ----------------------------
(***************************************************************************)
(* The whisper model cache of transcription/models.py: an LRU of loaded    *)
(* WhisperModel instances with leases, run on one asyncio loop.            *)
(*                                                                         *)
(* An action is one run of the loop between two awaits (nothing else runs  *)
(* on the loop meanwhile), or one effect of a thread the loop awaits.  The *)
(* load lock (_model_load_lock) is held across awaits only by a load, so   *)
(* every other holder is one action guarded by LockFree.                   *)
(***************************************************************************)
EXTENDS Naturals, FiniteSets

CONSTANTS
  Models,        \* model ids
  Requests,      \* callers of _get_or_load_model, one call at a time each
  Converts,      \* models AUTO_CONVERT_HF_MODELS probes before a load
  Hub,           \* models whose weights are on the Hub
  SuppressChars, \* SUPPRESS_CHARS is set
  IdleTimeout,   \* MODEL_IDLE_TIMEOUT_S > 0
  MaxInstances,  \* bound: WhisperModel objects alive or remembered at once
  Caps,          \* values MAX_LOADED_MODELS is edited between
  MaxEdits,      \* bound: admin saves
  NoModel,       \* Python's None, where a model id is expected
  NoRequest      \* nobody holds the load lock

Instances == 1 .. MaxInstances
None == 0        \* no instance: not cached, not held

ASSUME FiniteAssumption == IsFiniteSet(Models) /\ IsFiniteSet(Requests)
ASSUME NoneAssumption == NoModel \notin Models /\ NoRequest \notin Requests
ASSUME SourcesAssumption == Converts \subseteq Models /\ Hub \subseteq Models
ASSUME SwitchesAssumption == {IdleTimeout, SuppressChars} \subseteq BOOLEAN
ASSUME CapsAssumption == Caps \subseteq Nat \ {0} /\ Caps # {}
ASSUME EditsAssumption == MaxEdits \in Nat
ASSUME InstancesAssumption ==
  /\ MaxInstances \in Nat
  /\ 2 * Cardinality(Models) + Cardinality(Requests) <= MaxInstances

VARIABLES
  cache,         \* _loaded_models: the instance cached for each model
  older,         \* its order: the cached models used less recently than each
  leases,        \* _model_leases
  orphans,       \* _orphan_leases
  registry,      \* model_registry row; "aged": idle for the timeout
  hwOf,          \* hardware settings the cached instance was built with
  srcOf,         \* weights settings (revision, conversion) it was built with
  suppress,      \* _suppress_chars_cache: whose tokenizer encoded the entry
  pc,            \* where each caller is in _get_or_load_model
  want,          \* the model it asks for
  wantLease,     \* its lease argument
  held,          \* the instance it holds a lease on
  cancelled,     \* its CancelLatch
  hwRead,        \* hardware settings its load read (under the lock)
  srcRead,       \* weights settings its load read (before the lock)
  loadsInFlight, \* _loads_in_flight
  prefetch,      \* _hub_prefetches: snapshot downloads running
  loader,        \* holder of _model_load_lock
  trimPending,   \* _trim_task scheduled and not run
  trimKeep,      \* _trim_keep
  stale,         \* the idle evictor's list between its prescan and the lock
  cap,           \* cfg.MAX_LOADED_MODELS
  capTrim,       \* a trim_to_cap is waiting for the lock
  hw,            \* the hardware settings in force for each model
  src,           \* the weights settings in force for each model
  drains,        \* drain_then_evict calls waiting for the lock
  edits          \* admin saves so far (bound)

cacheVars  == <<cache, older, leases, orphans, registry, hwOf, srcOf,
                suppress>>
callVars   == <<pc, want, wantLease, held, cancelled, hwRead, srcRead>>
trimVars   == <<trimPending, trimKeep>>
configVars == <<cap, capTrim, hw, src, drains, edits>>
vars == <<cacheVars, callVars, trimVars, configVars, loadsInFlight, prefetch,
          loader, stale>>

Cached == {m \in Models : cache[m] # None}
LockFree == loader = NoRequest
Missing == {"converting", "fetching", "queued", "building", "fallback",
            "registering"}
Snapshots == Models \X (0 .. MaxEdits)

CacheType ==
  /\ cache \in [Models -> Instances \cup {None}]
  /\ older \in [Models -> SUBSET Models]
  /\ leases \in [Models -> Nat]
  /\ orphans \in [Models -> Nat]
  /\ registry \in [Models -> {"absent", "fresh", "aged"}]
  /\ hwOf \in [Models -> 0 .. MaxEdits]
  /\ srcOf \in [Models -> 0 .. MaxEdits]
  /\ suppress \in [Models -> Instances \cup {None}]

CallType ==
  /\ pc \in [Requests -> {"idle", "using"} \cup Missing]
  /\ want \in [Requests -> Models \cup {NoModel}]
  /\ wantLease \in [Requests -> BOOLEAN]
  /\ held \in [Requests -> Instances \cup {None}]
  /\ cancelled \in [Requests -> BOOLEAN]
  /\ hwRead \in [Requests -> 0 .. MaxEdits]
  /\ srcRead \in [Requests -> 0 .. MaxEdits]

TrimType ==
  /\ trimPending \in BOOLEAN
  /\ trimKeep \in Models \cup {NoModel}

ConfigType ==
  /\ cap \in Caps
  /\ capTrim \in BOOLEAN
  /\ hw \in [Models -> 0 .. MaxEdits]
  /\ src \in [Models -> 0 .. MaxEdits]
  /\ drains \subseteq SUBSET Models
  /\ edits \in 0 .. MaxEdits

TypeOK ==
  /\ CacheType /\ CallType /\ TrimType /\ ConfigType
  /\ loadsInFlight \in Nat
  /\ prefetch \subseteq Snapshots
  /\ loader \in Requests \cup {NoRequest}
  /\ stale \subseteq Models

Init ==
  /\ cache = [m \in Models |-> None]
  /\ older = [m \in Models |-> {}]
  /\ leases = [m \in Models |-> 0]
  /\ orphans = [m \in Models |-> 0]
  /\ registry = [m \in Models |-> "absent"]
  /\ hwOf = [m \in Models |-> 0]
  /\ srcOf = [m \in Models |-> 0]
  /\ suppress = [m \in Models |-> None]
  /\ pc = [r \in Requests |-> "idle"]
  /\ want = [r \in Requests |-> NoModel]
  /\ wantLease = [r \in Requests |-> FALSE]
  /\ held = [r \in Requests |-> None]
  /\ cancelled = [r \in Requests |-> FALSE]
  /\ hwRead = [r \in Requests |-> 0]
  /\ srcRead = [r \in Requests |-> 0]
  /\ loadsInFlight = 0
  /\ prefetch = {}
  /\ loader = NoRequest
  /\ trimPending = FALSE
  /\ trimKeep = NoModel
  /\ stale = {}
  /\ cap \in Caps
  /\ capTrim = FALSE
  /\ hw = [m \in Models |-> 0]
  /\ src = [m \in Models |-> 0]
  /\ drains = {}
  /\ edits = 0

-----------------------------------------------------------------------------
(* The cache: recency, unloading, leases and the trim they schedule.        *)

MoveToEnd(m) ==
  [n \in Models |-> IF n = m THEN Cached \ {m} ELSE older[n] \ {m}]

Touched(m) == [registry EXCEPT ![m] = IF @ = "absent" THEN @ ELSE "fresh"]

Unregistered(E) ==
  [m \in Models |-> IF m \in E THEN "absent" ELSE registry[m]]

\* Unload the models of E; the leases on their instances become orphans.
Drop(E) ==
  /\ cache' = [m \in Models |-> IF m \in E THEN None ELSE cache[m]]
  /\ older' = [m \in Models |-> IF m \in E THEN {} ELSE older[m] \ E]
  /\ leases' = [m \in Models |-> IF m \in E THEN 0 ELSE leases[m]]
  /\ orphans' = [m \in Models |->
                   orphans[m] + (IF m \in E THEN leases[m] ELSE 0)]
  /\ registry' = Unregistered(E)
  /\ hwOf' = [m \in Models |-> IF m \in E THEN 0 ELSE hwOf[m]]
  /\ srcOf' = [m \in Models |-> IF m \in E THEN 0 ELSE srcOf[m]]
  /\ suppress' = [m \in Models |-> IF m \in E THEN None ELSE suppress[m]]

\* Fault: an unload that never declines.
Unguarded == Cached

\* What _drop_loaded_model agrees to unload without force.
Unleased == {m \in Cached : leases[m] = 0}

\* E is what a loop "while len(_loaded_models) > size: drop the first
\* unleased model other than keep" drops.
IsOverflow(E, keep, size) ==
  LET candidates == Unleased \ {keep}
      excess == IF Cardinality(Cached) > size
                  THEN Cardinality(Cached) - size ELSE 0
  IN /\ E \subseteq candidates
     /\ Cardinality(E) = IF excess < Cardinality(candidates)
                           THEN excess ELSE Cardinality(candidates)
     /\ \A m \in E : \A n \in candidates \ E : m \in older[n]

\* len is the length of _loaded_models when the call is made.
ScheduleTrim(keep, len) ==
  IF len <= cap
    THEN UNCHANGED trimVars
    ELSE /\ trimPending' = TRUE
         /\ trimKeep' = IF keep # NoModel \/ ~trimPending
                          THEN keep ELSE trimKeep

TakeLease(r, m) ==
  /\ leases' = [leases EXCEPT ![m] = @ + 1]
  /\ held' = [held EXCEPT ![r] = cache'[m]]

\* Fault: the last release leaves the excess to the next miss.
DropLeaseOnly(m) ==
  /\ leases' = [leases EXCEPT ![m] = @ - 1]
  /\ UNCHANGED trimVars

DropLease(m) ==
  /\ leases' = [leases EXCEPT ![m] = @ - 1]
  /\ IF leases[m] <= 1
       THEN ScheduleTrim(m, Cardinality(Cached))
       ELSE UNCHANGED trimVars

\* Fault: a release counted by name, whatever instance it is for.
ReleaseByName(r) ==
  /\ DropLease(want[r])
  /\ registry' = Touched(want[r])
  /\ UNCHANGED <<cache, older, orphans, hwOf, srcOf, suppress>>

ReleaseLease(r) ==
  LET m == want[r] IN
  /\ IF cache[m] # held[r]
       THEN /\ orphans' = [orphans EXCEPT ![m] = @ - 1]
            /\ UNCHANGED <<leases, trimVars>>
       ELSE DropLease(m) /\ UNCHANGED orphans
  /\ registry' = Touched(m)
  /\ UNCHANGED <<cache, older, hwOf, srcOf, suppress>>

\* The calls of R return without a model, or give theirs back.
Return(R) ==
  /\ pc' = [r \in Requests |-> IF r \in R THEN "idle" ELSE pc[r]]
  /\ want' = [r \in Requests |-> IF r \in R THEN NoModel ELSE want[r]]
  /\ wantLease' = [r \in Requests |-> IF r \in R THEN FALSE ELSE wantLease[r]]
  /\ held' = [r \in Requests |-> IF r \in R THEN None ELSE held[r]]
  /\ cancelled' = [r \in Requests |-> IF r \in R THEN FALSE ELSE cancelled[r]]
  /\ hwRead' = [r \in Requests |-> IF r \in R THEN 0 ELSE hwRead[r]]
  /\ srcRead' = [r \in Requests |-> IF r \in R THEN 0 ELSE srcRead[r]]

-----------------------------------------------------------------------------
(* _get_or_load_model: the lock-free hit, and the miss up to the lock.      *)

Hit(r, m, lease) ==
  /\ pc[r] = "idle"
  /\ cache[m] # None
  /\ older' = MoveToEnd(m)
  /\ registry' = Touched(m)
  /\ UNCHANGED cache
  /\ IF lease
       THEN /\ TakeLease(r, m)
            /\ pc' = [pc EXCEPT ![r] = "using"]
            /\ want' = [want EXCEPT ![r] = m]
            /\ wantLease' = [wantLease EXCEPT ![r] = TRUE]
       ELSE UNCHANGED <<leases, held, pc, want, wantLease>>
  /\ UNCHANGED <<orphans, hwOf, srcOf, suppress, cancelled, hwRead, srcRead,
                 loadsInFlight, trimVars, configVars, prefetch, loader, stale>>

\* The weights settings are read here, before the lock.  _ensure_ct2_model
\* awaits its probe and a conversion, unless one is there already; else the
\* snapshot is local, or comes from the single-flight download, which this
\* caller starts or joins.
Miss(r, m, lease) ==
  /\ pc[r] = "idle"
  /\ cache[m] = None
  /\ loadsInFlight' = loadsInFlight + 1
  /\ want' = [want EXCEPT ![r] = m]
  /\ wantLease' = [wantLease EXCEPT ![r] = lease]
  /\ srcRead' = [srcRead EXCEPT ![r] = src[m]]
  /\ \/ /\ m \in Converts
        /\ pc' = [pc EXCEPT ![r] = "converting"]
        /\ UNCHANGED prefetch
     \/ /\ m \in Hub \ Converts
        /\ pc' = [pc EXCEPT ![r] = "fetching"]
        /\ prefetch' = prefetch \cup {<<m, src[m]>>}
     \/ /\ m \notin Hub \ Converts
        /\ pc' = [pc EXCEPT ![r] = "queued"]
        /\ UNCHANGED prefetch
  /\ UNCHANGED <<held, cancelled, hwRead, cacheVars, trimVars, configVars,
                 loader, stale>>

\* The converted directory is current: nothing to download.
Converted(r) ==
  /\ pc[r] = "converting"
  /\ pc' = [pc EXCEPT ![r] = "queued"]
  /\ UNCHANGED <<want, wantLease, held, cancelled, hwRead, srcRead,
                 loadsInFlight, cacheVars, trimVars, configVars, prefetch,
                 loader, stale>>

\* The probe found no weights to convert: the revision is read again, and the
\* snapshot downloaded.
NothingToConvert(r) ==
  LET m == want[r] IN
  /\ pc[r] = "converting" /\ m \in Hub
  /\ srcRead' = [srcRead EXCEPT ![r] = src[m]]
  /\ pc' = [pc EXCEPT ![r] = "fetching"]
  /\ prefetch' = prefetch \cup {<<m, src[m]>>}
  /\ UNCHANGED <<want, wantLease, held, cancelled, hwRead, loadsInFlight,
                 cacheVars, trimVars, configVars, loader, stale>>

\* The conversion failed or timed out.
ConversionFails(r) ==
  /\ pc[r] = "converting"
  /\ Return({r})
  /\ loadsInFlight' = loadsInFlight - 1
  /\ UNCHANGED <<cacheVars, trimVars, configVars, prefetch, loader, stale>>

Waiters(snapshot) ==
  {r \in Requests : pc[r] = "fetching" /\ <<want[r], srcRead[r]>> = snapshot}

\* Done, or failed in a way the constructor may still get past.
PrefetchEnds(snapshot) ==
  /\ snapshot \in prefetch
  /\ prefetch' = prefetch \ {snapshot}
  /\ pc' = [r \in Requests |->
              IF r \in Waiters(snapshot) THEN "queued" ELSE pc[r]]
  /\ UNCHANGED <<want, wantLease, held, cancelled, hwRead, srcRead,
                 loadsInFlight, cacheVars, trimVars, configVars, loader,
                 stale>>

\* Fault: a refusal takes one of its waiters off the counter.
RefuseOnce(snapshot) ==
  /\ snapshot \in prefetch
  /\ prefetch' = prefetch \ {snapshot}
  /\ Return(Waiters(snapshot))
  /\ loadsInFlight' = loadsInFlight - 1
  /\ UNCHANGED <<cacheVars, trimVars, configVars, loader, stale>>

\* The Hub refused the repo, revision or token: every waiter answers 400.
PrefetchRefused(snapshot) ==
  /\ snapshot \in prefetch
  /\ prefetch' = prefetch \ {snapshot}
  /\ Return(Waiters(snapshot))
  /\ loadsInFlight' = loadsInFlight - Cardinality(Waiters(snapshot))
  /\ UNCHANGED <<cacheVars, trimVars, configVars, loader, stale>>

\* Fault: a cancelled caller takes the download it waits for with it.
CancelUnshielded(r) ==
  /\ pc[r] \in {"converting", "fetching", "queued"}
  /\ Return({r})
  /\ loadsInFlight' = loadsInFlight - 1
  /\ prefetch' = prefetch \ {<<want[r], srcRead[r]>>}
  /\ UNCHANGED <<cacheVars, trimVars, configVars, loader, stale>>

\* A caller cancelled before it holds the lock; the download is shielded.
CancelWait(r) ==
  /\ pc[r] \in {"converting", "fetching", "queued"}
  /\ Return({r})
  /\ loadsInFlight' = loadsInFlight - 1
  /\ UNCHANGED <<cacheVars, trimVars, configVars, prefetch, loader, stale>>

-----------------------------------------------------------------------------
(* _load_on_miss under _model_load_lock.                                    *)

\* Another caller loaded the model while this one waited for the lock.
FoundUnderLock(r) ==
  LET m == want[r] IN
  /\ pc[r] = "queued" /\ LockFree
  /\ cache[m] # None
  /\ loadsInFlight' = loadsInFlight - 1
  /\ older' = MoveToEnd(m)
  /\ registry' = Touched(m)
  /\ UNCHANGED <<cache, orphans, hwOf, srcOf, suppress>>
  /\ IF wantLease[r]
       THEN /\ TakeLease(r, m)
            /\ pc' = [pc EXCEPT ![r] = "using"]
            /\ UNCHANGED <<want, wantLease, cancelled, hwRead, srcRead>>
       ELSE Return({r}) /\ UNCHANGED leases
  /\ UNCHANGED <<trimVars, configVars, prefetch, loader, stale>>

\* Make room, read the hardware settings, start the constructor's thread.
BeginBuild(r) ==
  LET m == want[r] IN
  /\ pc[r] = "queued" /\ LockFree
  /\ cache[m] = None
  /\ \E E \in SUBSET Models : IsOverflow(E, NoModel, cap - 1) /\ Drop(E)
  /\ hwRead' = [hwRead EXCEPT ![r] = hw[m]]
  /\ pc' = [pc EXCEPT ![r] = "building"]
  /\ loader' = r
  /\ UNCHANGED <<want, wantLease, held, cancelled, srcRead, loadsInFlight,
                 trimVars, configVars, prefetch, stale>>

\* A cancellation that lands on a thread's await is latched.
LatchCancel(r) ==
  /\ pc[r] \in {"building", "fallback", "registering"}
  /\ ~cancelled[r]
  /\ cancelled' = [cancelled EXCEPT ![r] = TRUE]
  /\ UNCHANGED <<pc, want, wantLease, held, hwRead, srcRead, loadsInFlight,
                 cacheVars, trimVars, configVars, prefetch, loader, stale>>

PrimaryBuildFails(r) ==
  /\ pc[r] = "building"
  /\ ~cancelled[r]
  /\ pc' = [pc EXCEPT ![r] = "fallback"]
  /\ UNCHANGED <<want, wantLease, held, cancelled, hwRead, srcRead,
                 loadsInFlight, cacheVars, trimVars, configVars, prefetch,
                 loader, stale>>

\* Fault: a failed build keeps the load lock.
BuildFailsLocked(r) ==
  /\ pc[r] = "fallback" \/ (pc[r] = "building" /\ cancelled[r])
  /\ Return({r})
  /\ loadsInFlight' = loadsInFlight - 1
  /\ UNCHANGED <<cacheVars, trimVars, configVars, prefetch, loader, stale>>

\* The fallback failed too, or nobody waits for one.
BuildFails(r) ==
  /\ pc[r] = "fallback" \/ (pc[r] = "building" /\ cancelled[r])
  /\ Return({r})
  /\ loadsInFlight' = loadsInFlight - 1
  /\ loader' = NoRequest
  /\ UNCHANGED <<cacheVars, trimVars, configVars, prefetch, stale>>

\* The identity of a new object: none that anything still refers to.
IsNewInstance(i) ==
  LET live == {cache[m] : m \in Models} \cup {held[r] : r \in Requests}
                \cup {suppress[m] : m \in Models}
  IN /\ i \in Instances \ live
     /\ \A j \in 1 .. (i - 1) : j \in live

\* The instance is cached, and leased unless the caller is gone, before the
\* registry row is written on a thread.
BuildDone(r) ==
  LET m == want[r]
      leased == wantLease[r] /\ ~cancelled[r]
  IN
  /\ pc[r] \in {"building", "fallback"}
  /\ \E i \in Instances :
       /\ IsNewInstance(i)
       /\ cache' = [cache EXCEPT ![m] = i]
  /\ older' = MoveToEnd(m)
  /\ hwOf' = [hwOf EXCEPT ![m] = hwRead[r]]
  /\ srcOf' = [srcOf EXCEPT ![m] = srcRead[r]]
  /\ ScheduleTrim(IF leased THEN NoModel ELSE m, Cardinality(Cached) + 1)
  /\ IF leased THEN TakeLease(r, m) ELSE UNCHANGED <<leases, held>>
  /\ pc' = [pc EXCEPT ![r] = "registering"]
  /\ hwRead' = [hwRead EXCEPT ![r] = 0] \* both dead from here on
  /\ srcRead' = [srcRead EXCEPT ![r] = 0]
  /\ UNCHANGED <<want, wantLease, cancelled, loadsInFlight, orphans, registry,
                 suppress, configVars, prefetch, loader, stale>>

\* Fault: a cancelled load does not wait for the thread that writes the row.
FinishUnregistered(r) ==
  LET m == want[r] IN
  /\ pc[r] = "registering"
  /\ cancelled[r]
  /\ IF held[r] # None THEN DropLease(m) ELSE UNCHANGED <<leases, trimVars>>
  /\ Return({r})
  /\ loader' = NoRequest
  /\ loadsInFlight' = loadsInFlight - 1
  /\ UNCHANGED <<cache, older, orphans, registry, hwOf, srcOf, suppress,
                 configVars, prefetch, stale>>

\* The register thread wrote the row and the load returns its model; a latched
\* cancellation gives the lease back and leaves the model cached.
FinishLoad(r) ==
  LET m == want[r] IN
  /\ pc[r] = "registering"
  /\ registry' = [registry EXCEPT ![m] = "fresh"]
  /\ UNCHANGED <<cache, older, orphans, hwOf, srcOf, suppress>>
  /\ IF held[r] # None /\ ~cancelled[r]
       THEN /\ pc' = [pc EXCEPT ![r] = "using"]
            /\ UNCHANGED <<want, wantLease, held, cancelled, hwRead, srcRead,
                           leases, trimVars>>
       ELSE /\ IF held[r] # None
                 THEN DropLease(m)
                 ELSE UNCHANGED <<leases, trimVars>>
            /\ Return({r})
  /\ loader' = NoRequest
  /\ loadsInFlight' = loadsInFlight - 1
  /\ UNCHANGED <<configVars, prefetch, stale>>

\* The register thread failed before its row: the loader's lease goes, then
\* the model, its other leases orphaned.
RegisterFails(r) ==
  LET m == want[r]
      own == IF held[r] # None THEN 1 ELSE 0
  IN
  /\ pc[r] = "registering"
  /\ cache' = [cache EXCEPT ![m] = None]
  /\ older' = [n \in Models |-> IF n = m THEN {} ELSE older[n] \ {m}]
  /\ leases' = [leases EXCEPT ![m] = 0]
  /\ orphans' = [orphans EXCEPT ![m] = @ + leases[m] - own]
  /\ registry' = Unregistered({m})
  /\ hwOf' = [hwOf EXCEPT ![m] = 0]
  /\ srcOf' = [srcOf EXCEPT ![m] = 0]
  /\ suppress' = [suppress EXCEPT ![m] = None]
  /\ IF own = 1 /\ leases[m] <= 1
       THEN ScheduleTrim(m, Cardinality(Cached))
       ELSE UNCHANGED trimVars
  /\ Return({r})
  /\ loader' = NoRequest
  /\ loadsInFlight' = loadsInFlight - 1
  /\ UNCHANGED <<configVars, prefetch, stale>>

\* A caller's decode takes the suppressed token ids from the cache entry of
\* its model's name, or encodes them with its own instance's tokenizer.
ResolveSuppressChars(r) ==
  /\ SuppressChars
  /\ pc[r] = "using"
  /\ suppress[want[r]] = None
  /\ suppress' = [suppress EXCEPT ![want[r]] = held[r]]
  /\ UNCHANGED <<cache, older, leases, orphans, registry, hwOf, srcOf,
                 callVars, loadsInFlight, trimVars, configVars, prefetch,
                 loader, stale>>

\* Fault: a handler that releases, and whose outer finally releases again.
ReleaseAndStay(r) ==
  /\ pc[r] = "using"
  /\ ReleaseLease(r)
  /\ UNCHANGED <<callVars, loadsInFlight, configVars, prefetch, loader, stale>>

\* The finally of a handler or of a stream.
Release(r) ==
  /\ pc[r] = "using"
  /\ ReleaseLease(r)
  /\ Return({r})
  /\ UNCHANGED <<loadsInFlight, configVars, prefetch, loader, stale>>

-----------------------------------------------------------------------------
(* Eviction: by the preloader, the trims, the idle evictor and an edit.     *)

Evict(m) ==
  /\ LockFree
  /\ m \in Unleased
  /\ Drop({m})
  /\ UNCHANGED <<callVars, loadsInFlight, trimVars, configVars, prefetch,
                 loader, stale>>

ScheduledTrim ==
  /\ trimPending /\ LockFree
  /\ \E E \in SUBSET Models : IsOverflow(E, trimKeep, cap) /\ Drop(E)
  /\ trimPending' = FALSE
  /\ trimKeep' = NoModel \* dead until the next schedule sets it
  /\ UNCHANGED <<callVars, loadsInFlight, configVars, prefetch, loader, stale>>

TrimToCap ==
  /\ capTrim /\ LockFree
  /\ \E E \in SUBSET Models : IsOverflow(E, NoModel, cap) /\ Drop(E)
  /\ capTrim' = FALSE
  /\ UNCHANGED <<callVars, loadsInFlight, trimVars, cap, hw, src, drains,
                 edits, prefetch, loader, stale>>

\* MODEL_IDLE_TIMEOUT_S passes without a use.
Age(m) ==
  /\ IdleTimeout
  /\ registry[m] = "fresh"
  /\ registry' = [registry EXCEPT ![m] = "aged"]
  /\ UNCHANGED <<cache, older, leases, orphans, hwOf, srcOf, suppress,
                 callVars, loadsInFlight, trimVars, configVars, prefetch,
                 loader, stale>>

\* warm is the set the preload leases cover at that moment (external here).
IdleScan(warm) ==
  LET found == {m \in Unleased \ warm : registry[m] = "aged"} IN
  /\ stale = {} /\ found # {}
  /\ stale' = found
  /\ UNCHANGED <<cacheVars, callVars, loadsInFlight, trimVars, configVars,
                 prefetch, loader>>

\* Fault: the prescan's answer is trusted once the lock is there.
SweepUnchecked(warm) ==
  /\ stale # {} /\ LockFree
  /\ Drop(stale \cap Cached)
  /\ stale' = {}
  /\ UNCHANGED <<callVars, loadsInFlight, trimVars, configVars, prefetch,
                 loader>>

IdleSweep(warm) ==
  /\ stale # {} /\ LockFree
  /\ Drop({m \in (stale \cap Unleased) \ warm : registry[m] # "fresh"})
  /\ stale' = {}
  /\ UNCHANGED <<callVars, loadsInFlight, trimVars, configVars, prefetch,
                 loader>>

\* An admin save reaches the running config; its eviction waits for the lock.
\* (Bound: one pending drain per scope.)
EditScopes == {Models} \cup {{m} : m \in Models}

EditLoadSettings(S) ==
  /\ edits < MaxEdits /\ S \notin drains
  /\ edits' = edits + 1
  /\ \/ /\ hw' = [m \in Models |-> IF m \in S THEN hw[m] + 1 ELSE hw[m]]
        /\ UNCHANGED src
     \/ /\ src' = [m \in Models |-> IF m \in S THEN src[m] + 1 ELSE src[m]]
        /\ UNCHANGED hw
  /\ drains' = drains \cup {S}
  /\ UNCHANGED <<cap, capTrim, cacheVars, callVars, loadsInFlight, trimVars,
                 prefetch, loader, stale>>

EditCap(c) ==
  /\ edits < MaxEdits /\ c # cap
  /\ edits' = edits + 1
  /\ cap' = c
  /\ capTrim' = TRUE
  /\ UNCHANGED <<hw, src, drains, cacheVars, callVars, loadsInFlight, trimVars,
                 prefetch, loader, stale>>

\* Fault: a drain that does not wait for the load lock.
DrainUnlocked(S) ==
  /\ S \in drains
  /\ Drop(S \cap Cached)
  /\ drains' = drains \ {S}
  /\ UNCHANGED <<cap, capTrim, hw, src, edits, callVars, loadsInFlight,
                 trimVars, prefetch, loader, stale>>

\* Fault: a drain that spares the models in use.
DrainUnforced(S) ==
  /\ S \in drains /\ LockFree
  /\ Drop(S \cap Unleased)
  /\ drains' = drains \ {S}
  /\ UNCHANGED <<cap, capTrim, hw, src, edits, callVars, loadsInFlight,
                 trimVars, prefetch, loader, stale>>

DrainThenEvict(S) ==
  /\ S \in drains /\ LockFree
  /\ Drop(S \cap Cached)
  /\ drains' = drains \ {S}
  /\ UNCHANGED <<cap, capTrim, hw, src, edits, callVars, loadsInFlight,
                 trimVars, prefetch, loader, stale>>

-----------------------------------------------------------------------------

Call(r) ==
  \E m \in Models, lease \in BOOLEAN : Hit(r, m, lease) \/ Miss(r, m, lease)
Convert(r) == Converted(r) \/ NothingToConvert(r) \/ ConversionFails(r)
TakeLock(r) == FoundUnderLock(r) \/ BeginBuild(r)
Build(r) == PrimaryBuildFails(r) \/ BuildFails(r) \/ BuildDone(r)
Register(r) == RegisterFails(r) \/ FinishLoad(r)
Cancel(r) == CancelWait(r) \/ LatchCancel(r)
Prefetch(s) == PrefetchEnds(s) \/ PrefetchRefused(s)
Idle == \E warm \in SUBSET Models : IdleScan(warm) \/ IdleSweep(warm)
Edit == \/ \E S \in EditScopes : EditLoadSettings(S)
        \/ \E c \in Caps : EditCap(c)

Next ==
  \/ \E r \in Requests :
       Call(r) \/ Convert(r) \/ TakeLock(r) \/ Build(r) \/ Register(r)
         \/ ResolveSuppressChars(r) \/ Release(r) \/ Cancel(r)
  \/ \E m \in Models : Evict(m) \/ Age(m)
  \/ \E s \in Snapshots : Prefetch(s)
  \/ \E S \in EditScopes : DrainThenEvict(S)
  \/ ScheduledTrim \/ TrimToCap \/ Idle \/ Edit

Spec == Init /\ [][Next]_vars

\* asyncio.Lock is FIFO: who waits for the load lock gets it, however often it
\* is taken meanwhile.  Threads end, and a caller ends its use of a model.
Fairness ==
  /\ \A r \in Requests :
       /\ WF_vars(Convert(r)) /\ SF_vars(TakeLock(r))
       /\ WF_vars(Build(r)) /\ WF_vars(Register(r)) /\ WF_vars(Release(r))
  /\ \A s \in Snapshots : WF_vars(Prefetch(s))
  /\ \A S \in EditScopes : SF_vars(DrainThenEvict(S))
  /\ SF_vars(ScheduledTrim) /\ SF_vars(TrimToCap)

FairSpec == Spec /\ Fairness

-----------------------------------------------------------------------------
(* Safety.                                                                  *)

HoldersOf(m) == {r \in Requests : held[r] # None /\ want[r] = m}
CurrentHolders(m) == {r \in HoldersOf(m) : held[r] = cache[m]}
OrphanHolders(m) == {r \in HoldersOf(m) : held[r] # cache[m]}

\* A lease count is the number of callers on the cached instance, an orphan
\* count the number on instances forced out from under them: no release, in
\* whatever order it meets reloads, drains and failed registrations, is
\* counted against the other (_release_model_lease, _drop_loaded_model).
LeaseAccounting ==
  \A m \in Models : /\ leases[m] = Cardinality(CurrentHolders(m))
                    /\ orphans[m] = Cardinality(OrphanHolders(m))

\* A registry row never outlives its model (a phantom nothing unregisters),
\* and a cached model lacks one only while its load is registering it
\* (_load_on_miss keeps the lock through register_through_latch).
RegistryMatchesCache ==
  \A m \in Models :
    \/ registry[m] # "absent" <=> cache[m] # None
    \/ ~LockFree /\ want[loader] = m /\ pc[loader] = "registering"

\* A resident model was built with the hardware settings in force, or the
\* drain that drops it is waiting for the lock (_load_on_miss reads the
\* settings under the lock drain_then_evict takes).
BuiltWithCurrentHardware ==
  \A m \in Cached :
    hwOf[m] # hw[m] => \E S \in drains : m \in S

\* The same of the settings that choose the weights, REVISION and the
\* conversion ones: "the next request reloads them" (schema.LOAD_TIME_FIELDS).
BuiltFromCurrentWeights ==
  \A m \in Cached :
    srcOf[m] # src[m] => \E S \in drains : m \in S

\* With no trim or cap edit under way, even in the middle of a load, the cache
\* is over its cap only by models in use, and at most one model (the one the last
\* trim spared) is not: whatever order leases were released in, the excess is
\* reclaimed without a further miss (_schedule_trim_to_cap, _evict_over_cap).
OverflowOnlyInUse ==
  ~trimPending /\ ~capTrim =>
    \/ Cardinality(Cached) <= cap
    \/ Cardinality(Unleased) <= 1

\* Whoever waits for a snapshot waits for a download that still runs, whoever
\* else gave up on it (the shield around _hub_prefetches' task).
WaitersHaveDownload ==
  \A r \in Requests :
    pc[r] = "fetching" => <<want[r], srcRead[r]>> \in prefetch

\* load_in_progress, which the preloader defers to, counts exactly the calls
\* that are past the cache hit and have not returned.
LoadsInFlightExact ==
  loadsInFlight = Cardinality({r \in Requests : pc[r] \in Missing})

-----------------------------------------------------------------------------
(* What the cache promises to its callers (ModelPool).                      *)

Pool == INSTANCE ModelPool WITH
  Clients <- Requests,
  resident <- cache,
  users <- [i \in Instances |-> {r \in Requests : held[r] = i}],
  unconfirmed <- {want[r] : r \in {q \in Requests : pc[q] = "registering"}},
  revoked <- UNION drains

\* Every step of the cache is one the pool allows: an instance somebody uses
\* leaves the cache only by a drain after an edit or by the failure of the
\* load that has not yet returned it.
PoolSpec == Pool!Spec

-----------------------------------------------------------------------------
(* Liveness.                                                                *)

\* A load that started ends, with a model or without.
LoadsEnd ==
  \A r \in Requests : pc[r] \in Missing ~> pc[r] \in {"idle", "using"}

\* A hardware edit takes effect: no resident model stays behind it.
HardwareEditsTakeEffect ==
  \A m \in Models :
    (cache[m] # None /\ hwOf[m] # hw[m]) ~> (cache[m] = None \/ hwOf[m] = hw[m])
=============================================================================
