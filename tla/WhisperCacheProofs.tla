------------------------- MODULE WhisperCacheProofs -------------------------
(***************************************************************************)
(* Theorems about WhisperCache, for any models, callers, caps and edits:   *)
(* first the leases and the loads, then what is true of the models kept    *)
(* resident: their registry rows, the hardware settings they were built    *)
(* with, the downloads their loads wait for, how many they are, and that   *)
(* each step of the cache is a step of ModelPool or leaves the pool as it  *)
(* is.                                                                     *)
(***************************************************************************)
EXTENDS WhisperCache, FiniteSetTheorems, TLAPS

(* The inductive invariant.                                                 *)

\* What a caller has, by where it is in _get_or_load_model.
Calls ==
  \A r \in Requests :
    /\ pc[r] = "idle" => want[r] = NoModel
    /\ pc[r] # "idle" => want[r] \in Models
    /\ pc[r] = "using" => held[r] # None
    /\ pc[r] \notin {"using", "registering"} => held[r] = None

\* Only a load holds the lock across a step, and its model is out of reach of
\* every other load and of every eviction meanwhile.
LoadLock ==
  \A r \in Requests :
    /\ pc[r] \in {"building", "fallback", "registering"} <=> loader = r
    /\ pc[r] \in {"building", "fallback"} => cache[want[r]] = None
    /\ pc[r] = "registering" =>
         cache[want[r]] # None /\ held[r] \in {None, cache[want[r]]}

EditsCounted == \A m \in Models : hw[m] <= edits /\ src[m] <= edits

IInv ==
  /\ TypeOK
  /\ Calls
  /\ LoadLock
  /\ EditsCounted
  /\ LeaseAccounting
  /\ LoadsInFlightExact

-----------------------------------------------------------------------------
(* Counting callers.                                                        *)

\* Sets of callers can be counted.
LEMMA CallersFinite ==
  ASSUME NEW S \in SUBSET Requests
  PROVE  /\ IsFiniteSet(S)
         /\ Cardinality(S) \in Nat
BY FiniteAssumption, FS_Subset, FS_CardinalityType

\* A caller that joins a set is counted once.
LEMMA OneMore ==
  ASSUME NEW S \in SUBSET Requests, NEW r, r \notin S
  PROVE  Cardinality(S \cup {r}) = Cardinality(S) + 1
BY CallersFinite, FS_AddElement

\* A caller that leaves a set was counted in it.
LEMMA OneLess ==
  ASSUME NEW S \in SUBSET Requests, NEW r \in S
  PROVE  /\ Cardinality(S \ {r}) = Cardinality(S) - 1
         /\ Cardinality(S) \in Nat \ {0}
<1>1. Cardinality(S \ {r}) = Cardinality(S) - 1
  BY CallersFinite, FS_RemoveElement
<1>2. Cardinality(S) \in Nat /\ Cardinality(S \ {r}) \in Nat
  BY CallersFinite
<1>. QED BY <1>1, <1>2

\* Disjoint sets of callers count separately.
LEMMA DisjointSum ==
  ASSUME NEW S \in SUBSET Requests, NEW T \in SUBSET Requests,
         S \cap T = {}
  PROVE  Cardinality(S \cup T) = Cardinality(S) + Cardinality(T)
<1>1. Cardinality(S \cup T)
        = Cardinality(S) + Cardinality(T) - Cardinality(S \cap T)
  BY CallersFinite, FS_Union
<1>2. Cardinality(S \cap T) = 0
  BY FS_EmptySet
<1>3. Cardinality(S) \in Nat /\ Cardinality(T) \in Nat
  BY CallersFinite
<1>. QED BY <1>1, <1>2, <1>3

\* The empty cache satisfies the inductive invariant.
LEMMA InitIInv == Init => IInv
<1>. SUFFICES ASSUME Init PROVE IInv
  OBVIOUS
<1>. USE DEF Init
<1>1. TypeOK
  <2>1. 0 \in 0 .. MaxEdits
    BY EditsAssumption
  <2>. QED
    BY <2>1 DEF TypeOK, CacheType, CallType, TrimType, ConfigType, None, Missing
<1>2. Calls
  BY DEF Calls
<1>3. LoadLock
  BY NoneAssumption DEF LoadLock
<1>4. EditsCounted
  BY DEF EditsCounted
<1>5. LeaseAccounting
  <2>1. \A m \in Models : CurrentHolders(m) = {} /\ OrphanHolders(m) = {}
    BY DEF CurrentHolders, OrphanHolders, HoldersOf
  <2>. QED BY <2>1, FS_EmptySet DEF LeaseAccounting
<1>6. LoadsInFlightExact
  <2>1. {r \in Requests : pc[r] \in Missing} = {}
    BY DEF Missing
  <2>. QED BY <2>1, FS_EmptySet DEF LoadsInFlightExact
<1>. QED BY <1>1, <1>2, <1>3, <1>4, <1>5, <1>6 DEF IInv

-----------------------------------------------------------------------------
(* Type correctness: what the shared operators return.                      *)

\* A group of variables a step leaves alone keeps its type.
LEMMA UnchangedTypes ==
  ASSUME TypeOK
  PROVE  /\ UNCHANGED cacheVars => CacheType'
         /\ UNCHANGED callVars => CallType'
         /\ UNCHANGED trimVars => TrimType'
         /\ UNCHANGED configVars => ConfigType'
<1>1. UNCHANGED cacheVars => CacheType'
  BY DEF TypeOK, CacheType, cacheVars
<1>2. UNCHANGED callVars => CallType'
  BY DEF TypeOK, CallType, callVars
<1>3. UNCHANGED trimVars => TrimType'
  BY DEF TypeOK, TrimType, trimVars
<1>4. UNCHANGED configVars => ConfigType'
  BY DEF TypeOK, ConfigType, configVars
<1>. QED BY <1>1, <1>2, <1>3, <1>4

\* Unloading models (_drop_loaded_model) keeps the cache typed.
LEMMA DropType ==
  ASSUME TypeOK, NEW E \in SUBSET Models, Drop(E)
  PROVE  CacheType'
<1>1. 0 \in 0 .. MaxEdits
  BY EditsAssumption
<1>. QED BY <1>1 DEF TypeOK, CacheType, Drop, Unregistered, Missing

\* Ending calls keeps the callers' state typed.
LEMMA ReturnType ==
  ASSUME TypeOK, NEW R \in SUBSET Requests, Return(R)
  PROVE  CallType'
<1>1. 0 \in 0 .. MaxEdits
  BY EditsAssumption
<1>. QED BY <1>1 DEF TypeOK, CallType, Return

\* Scheduling a trim (_schedule_trim_to_cap) keeps the trim state typed.
LEMMA ScheduleTrimType ==
  ASSUME TypeOK, NEW keep \in Models \cup {NoModel}, NEW len,
         ScheduleTrim(keep, len)
  PROVE  TrimType'
<1>1. CASE UNCHANGED trimVars
  BY <1>1, UnchangedTypes
<1>2. CASE trimPending' = TRUE /\ trimKeep' \in {keep, trimKeep}
  BY <1>2 DEF TypeOK, TrimType
<1>. QED BY <1>1, <1>2 DEF ScheduleTrim

\* Taking one lease off a positive count leaves a count.
LEMMA DropLeaseType ==
  ASSUME TypeOK, NEW m \in Models, leases[m] # 0, DropLease(m)
  PROVE  leases' \in [Models -> Nat] /\ TrimType'
<1>1. leases' \in [Models -> Nat]
  <2>1. leases' = [leases EXCEPT ![m] = @ - 1]
    BY DEF DropLease
  <2>2. leases \in [Models -> Nat]
    BY DEF TypeOK, CacheType
  <2>. QED BY <2>1, <2>2
<1>2. CASE ScheduleTrim(m, Cardinality(Cached))
  BY <1>1, <1>2, ScheduleTrimType
<1>3. CASE UNCHANGED trimVars
  BY <1>1, <1>3, UnchangedTypes
<1>. QED BY <1>2, <1>3 DEF DropLease

\* Marking a model used keeps the recency order and the registry typed.
LEMMA TouchType ==
  ASSUME TypeOK, NEW m \in Models
  PROVE  /\ MoveToEnd(m) \in [Models -> SUBSET Models]
         /\ Touched(m) \in [Models -> {"absent", "fresh", "aged"}]
BY DEF TypeOK, CacheType, MoveToEnd, Touched, Cached

\* A holder is counted, so its release never takes a count below zero.
LEMMA HolderCounted ==
  ASSUME IInv, NEW r \in Requests, held[r] # None
  PROVE  /\ want[r] \in Models
         /\ held[r] = cache[want[r]] => leases[want[r]] # 0
         /\ held[r] # cache[want[r]] => orphans[want[r]] # 0
<1>1. want[r] \in Models
  BY DEF IInv, Calls
<1>2. r \in HoldersOf(want[r])
  BY DEF HoldersOf
<1>3. ASSUME held[r] = cache[want[r]] PROVE leases[want[r]] # 0
  <2>1. r \in CurrentHolders(want[r])
    BY <1>2, <1>3 DEF CurrentHolders
  <2>2. Cardinality(CurrentHolders(want[r])) \in Nat \ {0}
    BY <2>1, OneLess DEF CurrentHolders, HoldersOf
  <2>. QED BY <1>1, <2>2 DEF IInv, LeaseAccounting
<1>4. ASSUME held[r] # cache[want[r]] PROVE orphans[want[r]] # 0
  <2>1. r \in OrphanHolders(want[r])
    BY <1>2, <1>4 DEF OrphanHolders
  <2>2. Cardinality(OrphanHolders(want[r])) \in Nat \ {0}
    BY <2>1, OneLess DEF OrphanHolders, HoldersOf
  <2>. QED BY <1>1, <2>2 DEF IInv, LeaseAccounting
<1>. QED BY <1>1, <1>3, <1>4

Loading == {r \in Requests : pc[r] \in Missing}

\* A call that is loading is in the in-flight count, so its finally never
\* takes the count below zero.
LEMMA LoadCounted ==
  ASSUME IInv, NEW r \in Loading
  PROVE  loadsInFlight \in Nat \ {0} /\ loadsInFlight - 1 \in Nat
<1>1. Cardinality(Loading) \in Nat \ {0}
  BY OneLess DEF Loading
<1>. QED BY <1>1 DEF IInv, LoadsInFlightExact, Loading

\* Releasing what a caller holds (_release_model_lease) keeps counts counts.
LEMMA ReleaseLeaseType ==
  ASSUME IInv, NEW r \in Requests, held[r] # None, ReleaseLease(r)
  PROVE  CacheType' /\ TrimType'
<1>. DEFINE m == want[r]
<1>1. TypeOK /\ m \in Models
  BY HolderCounted DEF IInv
<1>2. CASE cache[m] # held[r]
  <2>1. /\ orphans' = [orphans EXCEPT ![m] = @ - 1]
        /\ UNCHANGED <<leases, trimVars>>
    BY <1>2 DEF ReleaseLease
  <2>2. orphans' \in [Models -> Nat]
    BY <1>1, <1>2, <2>1, HolderCounted DEF TypeOK, CacheType
  <2>. QED
    BY <1>1, <2>1, <2>2, TouchType, UnchangedTypes
    DEF ReleaseLease, TypeOK, CacheType
<1>3. CASE cache[m] = held[r]
  <2>1. DropLease(m) /\ UNCHANGED orphans
    BY <1>3 DEF ReleaseLease
  <2>2. leases' \in [Models -> Nat] /\ TrimType'
    BY <1>1, <1>3, <2>1, HolderCounted, DropLeaseType
  <2>. QED
    BY <1>1, <2>1, <2>2, TouchType DEF ReleaseLease, TypeOK, CacheType
<1>. QED BY <1>2, <1>3

-----------------------------------------------------------------------------
(* Type correctness: the steps.                                             *)

\* A hit keeps the types.
LEMMA HitType ==
  ASSUME IInv, NEW r \in Requests, NEW m \in Models, NEW l \in BOOLEAN,
         Hit(r, m, l)
  PROVE  TypeOK'
<1>. USE DEF Hit
<1>1. TypeOK
  BY DEF IInv
<1>2. CacheType'
  <2>1. CASE leases' = [leases EXCEPT ![m] = @ + 1]
    BY <1>1, <2>1, TouchType DEF TypeOK, CacheType
  <2>2. CASE UNCHANGED leases
    BY <1>1, <2>2, TouchType DEF TypeOK, CacheType
  <2>. QED BY <2>1, <2>2 DEF TakeLease
<1>3. CallType'
  <2>1. CASE l
    <3>1. cache'[m] \in Instances \cup {None}
      BY <1>1 DEF TypeOK, CacheType
    <3>2. held' = [held EXCEPT ![r] = cache'[m]]
      BY <2>1 DEF TakeLease
    <3>3. held' \in [Requests -> Instances \cup {None}]
      BY <1>1, <3>1, <3>2 DEF TypeOK, CallType
    <3>. QED BY <1>1, <2>1, <3>3 DEF TypeOK, CallType
  <2>2. CASE ~l
    BY <1>1, <2>2 DEF TypeOK, CallType
  <2>. QED BY <2>1, <2>2
<1>. QED BY <1>1, <1>2, <1>3, UnchangedTypes DEF TypeOK

\* A miss keeps the types.
LEMMA MissType ==
  ASSUME IInv, NEW r \in Requests, NEW m \in Models, NEW l \in BOOLEAN,
         Miss(r, m, l)
  PROVE  TypeOK'
<1>. USE DEF Miss
<1>1. TypeOK
  BY DEF IInv
<1>2. CallType'
  BY <1>1 DEF TypeOK, CallType, ConfigType, Missing
<1>3. prefetch' \subseteq Snapshots
  BY <1>1 DEF TypeOK, ConfigType, Snapshots
<1>. QED BY <1>1, <1>2, <1>3, UnchangedTypes DEF TypeOK

\* The steps that only move a caller on.
LEMMA MoveType ==
  ASSUME IInv, NEW r \in Requests,
         \/ Converted(r) \/ NothingToConvert(r) \/ LatchCancel(r)
         \/ PrimaryBuildFails(r)
  PROVE  TypeOK'
<1>1. TypeOK
  BY DEF IInv
<1>2. CASE Converted(r)
  BY <1>1, <1>2, UnchangedTypes DEF Converted, TypeOK, CallType, Missing
<1>3. CASE LatchCancel(r)
  BY <1>1, <1>3, UnchangedTypes DEF LatchCancel, TypeOK, CallType
<1>4. CASE PrimaryBuildFails(r)
  BY <1>1, <1>4, UnchangedTypes DEF PrimaryBuildFails, TypeOK, CallType, Missing
<1>5. CASE NothingToConvert(r)
  <2>1. want[r] \in Models
    BY <1>5 DEF NothingToConvert, IInv, Calls, Missing
  <2>2. CallType'
    BY <1>1, <1>5, <2>1
    DEF NothingToConvert, TypeOK, CallType, ConfigType, Missing
  <2>3. prefetch' \subseteq Snapshots
    BY <1>1, <1>5, <2>1 DEF NothingToConvert, TypeOK, ConfigType, Snapshots
  <2>. QED BY <1>1, <1>5, <2>2, <2>3, UnchangedTypes
       DEF NothingToConvert, TypeOK
<1>. QED BY <1>2, <1>3, <1>4, <1>5

\* The steps that end calls without a model.
LEMMA LeaveType ==
  ASSUME IInv, NEW r \in Requests,
         \/ ConversionFails(r) \/ CancelWait(r) \/ BuildFails(r)
  PROVE  TypeOK'
<1>1. TypeOK /\ {r} \in SUBSET Requests
  BY DEF IInv
<1>2. r \in Loading
  BY DEF ConversionFails, CancelWait, BuildFails, Loading, Missing
<1>3. loadsInFlight - 1 \in Nat
  BY <1>2, LoadCounted
<1>4. Return({r}) /\ loadsInFlight' = loadsInFlight - 1
  BY DEF ConversionFails, CancelWait, BuildFails
<1>5. CallType' /\ loadsInFlight' \in Nat
  BY <1>1, <1>3, <1>4, ReturnType
<1>6. /\ UNCHANGED <<cacheVars, trimVars, configVars, prefetch, stale>>
      /\ loader' \in {loader, NoRequest}
  BY DEF ConversionFails, CancelWait, BuildFails
<1>. QED BY <1>1, <1>5, <1>6, UnchangedTypes DEF TypeOK

\* The end of a shared download, or its refusal, keeps the types.
LEMMA PrefetchType ==
  ASSUME IInv, NEW s \in Snapshots, Prefetch(s)
  PROVE  TypeOK'
<1>1. TypeOK
  BY DEF IInv
<1>2. CASE PrefetchEnds(s)
  <2>1. CallType'
    BY <1>1, <1>2 DEF PrefetchEnds, TypeOK, CallType, Missing
  <2>. QED BY <1>1, <1>2, <2>1, UnchangedTypes DEF PrefetchEnds, TypeOK
<1>3. CASE PrefetchRefused(s)
  <2>1. Waiters(s) \in SUBSET Loading /\ Loading \in SUBSET Requests
    BY DEF Waiters, Loading, Missing
  <2>2. /\ Cardinality(Waiters(s)) \in Nat
        /\ Cardinality(Loading) \in Nat
        /\ Cardinality(Waiters(s)) <= Cardinality(Loading)
    BY <2>1, CallersFinite, FS_Subset
  <2>3. loadsInFlight - Cardinality(Waiters(s)) \in Nat
    BY <2>2 DEF IInv, LoadsInFlightExact, Loading
  <2>4. CallType'
    BY <1>1, <1>3, <2>1, ReturnType DEF PrefetchRefused
  <2>. QED BY <1>1, <1>3, <2>3, <2>4, UnchangedTypes DEF PrefetchRefused, TypeOK
<1>. QED BY <1>2, <1>3 DEF Prefetch

\* Finding the model loaded once under the lock keeps the types.
LEMMA FoundType ==
  ASSUME IInv, NEW r \in Requests, FoundUnderLock(r)
  PROVE  TypeOK'
<1>. DEFINE m == want[r]
<1>. USE DEF FoundUnderLock
<1>1. TypeOK /\ m \in Models /\ r \in Loading
  BY DEF IInv, Calls, Loading, Missing
<1>2. CacheType'
  <2>1. CASE leases' = [leases EXCEPT ![m] = @ + 1]
    BY <1>1, <2>1, TouchType DEF TypeOK, CacheType
  <2>2. CASE UNCHANGED leases
    BY <1>1, <2>2, TouchType DEF TypeOK, CacheType
  <2>. QED BY <2>1, <2>2 DEF TakeLease
<1>3. CallType'
  <2>1. CASE wantLease[r]
    BY <1>1, <2>1 DEF TypeOK, CacheType, CallType, TakeLease
  <2>2. CASE ~wantLease[r]
    BY <1>1, <2>2, ReturnType
  <2>. QED BY <2>1, <2>2
<1>. QED BY <1>1, <1>2, <1>3, LoadCounted, UnchangedTypes DEF TypeOK

\* Starting a build under the lock keeps the types.
LEMMA BeginBuildType ==
  ASSUME IInv, NEW r \in Requests, BeginBuild(r)
  PROVE  TypeOK'
<1>. USE DEF BeginBuild
<1>1. TypeOK /\ want[r] \in Models
  BY DEF IInv, Calls
<1>2. CacheType'
  BY <1>1, DropType
<1>3. CallType'
  BY <1>1 DEF TypeOK, ConfigType, CallType, Missing
<1>. QED BY <1>1, <1>2, <1>3, UnchangedTypes DEF TypeOK

\* Inserting the built model, with its lease, keeps the types.
LEMMA BuildDoneType ==
  ASSUME IInv, NEW r \in Requests, BuildDone(r)
  PROVE  TypeOK'
<1>. DEFINE m == want[r]
<1>. DEFINE leased == wantLease[r] /\ ~cancelled[r]
<1>1. TypeOK /\ m \in Models
  BY DEF BuildDone, IInv, Calls
<1>2. PICK i \in Instances : cache' = [cache EXCEPT ![m] = i]
  BY DEF BuildDone
<1>3. leases' \in [Models -> Nat] /\ held' \in [Requests -> Instances \cup {None}]
  <2>1. CASE TakeLease(r, m)
    BY <1>1, <1>2, <2>1 DEF TypeOK, CacheType, CallType, TakeLease
  <2>2. CASE UNCHANGED <<leases, held>>
    BY <1>1, <2>2 DEF TypeOK, CacheType, CallType
  <2>. QED BY <2>1, <2>2 DEF BuildDone
<1>4. CacheType'
  BY <1>1, <1>2, <1>3, TouchType DEF BuildDone, TypeOK, CacheType, CallType
<1>5. CallType'
  <2>1. 0 \in 0 .. MaxEdits
    BY EditsAssumption
  <2>. QED BY <1>1, <1>3, <2>1 DEF BuildDone, TypeOK, CallType, Missing
<1>6. TrimType'
  <2>1. (IF leased THEN NoModel ELSE m) \in Models \cup {NoModel}
    BY <1>1
  <2>. QED BY <1>1, <2>1, ScheduleTrimType DEF BuildDone
<1>. QED BY <1>1, <1>4, <1>5, <1>6, UnchangedTypes DEF BuildDone, TypeOK

\* Registering the model and leaving the lock keeps the types.
LEMMA FinishLoadType ==
  ASSUME IInv, NEW r \in Requests, FinishLoad(r)
  PROVE  TypeOK'
<1>. DEFINE m == want[r]
<1>1. TypeOK /\ m \in Models /\ r \in Loading
  BY DEF FinishLoad, IInv, Calls, Loading, Missing
<1>2. CASE held[r] # None /\ ~cancelled[r]
  <2>1. CacheType' /\ CallType'
    BY <1>1, <1>2 DEF FinishLoad, TypeOK, CacheType, CallType
  <2>. QED BY <1>1, <1>2, <2>1, LoadCounted, UnchangedTypes DEF FinishLoad, TypeOK
<1>3. CASE ~(held[r] # None /\ ~cancelled[r])
  <2>1. leases' \in [Models -> Nat] /\ TrimType'
    <3>1. CASE held[r] # None
      <4>1. held[r] = cache[m]
        BY <3>1 DEF FinishLoad, IInv, LoadLock
      <4>. QED BY <1>1, <1>3, <3>1, <4>1, HolderCounted, DropLeaseType DEF FinishLoad
    <3>2. CASE held[r] = None
      <4>1. UNCHANGED <<leases, trimVars>>
        BY <1>3, <3>2 DEF FinishLoad
      <4>. QED BY <1>1, <4>1, UnchangedTypes DEF TypeOK, CacheType
    <3>. QED BY <3>1, <3>2
  <2>2. CacheType'
    BY <1>1, <2>1 DEF FinishLoad, TypeOK, CacheType
  <2>3. CallType'
    BY <1>1, <1>3, ReturnType DEF FinishLoad
  <2>. QED
    BY <1>1, <2>1, <2>2, <2>3, LoadCounted, UnchangedTypes DEF FinishLoad, TypeOK
<1>. QED BY <1>2, <1>3

\* A registration that fails or is cancelled keeps the types.
LEMMA RegisterFailsType ==
  ASSUME IInv, NEW r \in Requests, RegisterFails(r)
  PROVE  TypeOK'
<1>. DEFINE m == want[r]
<1>. DEFINE own == IF held[r] # None THEN 1 ELSE 0
<1>1. TypeOK /\ m \in Models /\ r \in Loading
  BY DEF RegisterFails, IInv, Calls, Loading, Missing
<1>2. leases[m] - own \in Nat
  <2>1. CASE held[r] = None
    BY <1>1, <2>1 DEF TypeOK, CacheType
  <2>2. CASE held[r] # None
    <3>1. held[r] = cache[m]
      BY <2>2 DEF RegisterFails, IInv, LoadLock
    <3>. QED BY <1>1, <2>2, <3>1, HolderCounted DEF TypeOK, CacheType
  <2>. QED BY <2>1, <2>2
<1>3. orphans' \in [Models -> Nat]
  BY <1>1, <1>2 DEF RegisterFails, TypeOK, CacheType
<1>4. CacheType'
  <2>1. 0 \in 0 .. MaxEdits
    BY EditsAssumption
  <2>. QED
    BY <1>1, <1>3, <2>1 DEF RegisterFails, TypeOK, CacheType, Unregistered
<1>5. TrimType'
  <2>1. CASE ScheduleTrim(m, Cardinality(Cached))
    BY <1>1, <2>1, ScheduleTrimType
  <2>2. CASE UNCHANGED trimVars
    BY <1>1, <2>2, UnchangedTypes
  <2>. QED BY <2>1, <2>2 DEF RegisterFails
<1>6. CallType'
  BY <1>1, ReturnType DEF RegisterFails
<1>. QED
  BY <1>1, <1>4, <1>5, <1>6, LoadCounted, UnchangedTypes DEF RegisterFails, TypeOK

\* Using and releasing a model keeps the types.
LEMMA UseType ==
  ASSUME IInv, NEW r \in Requests, ResolveSuppressChars(r) \/ Release(r)
  PROVE  TypeOK'
<1>1. TypeOK /\ held[r] # None
  BY DEF ResolveSuppressChars, Release, IInv, Calls
<1>2. CASE ResolveSuppressChars(r)
  <2>1. CacheType'
    BY <1>1, <1>2, HolderCounted
    DEF ResolveSuppressChars, TypeOK, CacheType, CallType
  <2>. QED BY <1>1, <1>2, <2>1, UnchangedTypes DEF ResolveSuppressChars, TypeOK
<1>3. CASE Release(r)
  BY <1>1, <1>3, ReleaseLeaseType, ReturnType, UnchangedTypes DEF Release, TypeOK
<1>. QED BY <1>2, <1>3

\* Evictions, trims, the idle evictor and drains keep the types.
LEMMA EvictionType ==
  ASSUME IInv,
         \/ \E m \in Models : Evict(m) \/ Age(m)
         \/ ScheduledTrim \/ TrimToCap \/ Idle
         \/ \E S \in EditScopes : DrainThenEvict(S)
  PROVE  TypeOK'
<1>1. TypeOK
  BY DEF IInv
<1>2. ASSUME NEW m \in Models, Evict(m) PROVE TypeOK'
  BY <1>1, <1>2, DropType, UnchangedTypes DEF Evict, TypeOK
<1>3. ASSUME NEW m \in Models, Age(m) PROVE TypeOK'
  BY <1>1, <1>3, UnchangedTypes DEF Age, TypeOK, CacheType
<1>4. CASE ScheduledTrim
  <2>1. CacheType'
    BY <1>1, <1>4, DropType DEF ScheduledTrim
  <2>2. TrimType'
    BY <1>4 DEF ScheduledTrim, TrimType
  <2>. QED BY <1>1, <1>4, <2>1, <2>2, UnchangedTypes DEF ScheduledTrim, TypeOK
<1>5. CASE TrimToCap
  <2>1. CacheType'
    BY <1>1, <1>5, DropType DEF TrimToCap
  <2>2. ConfigType'
    BY <1>1, <1>5 DEF TrimToCap, TypeOK, ConfigType
  <2>. QED BY <1>1, <1>5, <2>1, <2>2, UnchangedTypes DEF TrimToCap, TypeOK
<1>6. ASSUME NEW warm, IdleScan(warm) PROVE TypeOK'
  BY <1>1, <1>6, UnchangedTypes DEF IdleScan, TypeOK, Unleased, Cached
<1>7. ASSUME NEW warm, IdleSweep(warm) PROVE TypeOK'
  <2>. DEFINE E == {m \in (stale \cap Unleased) \ warm : registry[m] # "fresh"}
  <2>1. E \in SUBSET Models /\ Drop(E)
    BY <1>1, <1>7 DEF IdleSweep, TypeOK
  <2>2. CacheType'
    BY <1>1, <2>1, DropType
  <2>. QED BY <1>1, <1>7, <2>2, UnchangedTypes DEF IdleSweep, TypeOK
<1>8. ASSUME NEW S \in EditScopes, DrainThenEvict(S) PROVE TypeOK'
  <2>1. CacheType'
    <3>1. S \cap Cached \in SUBSET Models
      BY DEF Cached
    <3>. QED BY <1>1, <1>8, <3>1, DropType DEF DrainThenEvict
  <2>2. ConfigType'
    BY <1>1, <1>8 DEF DrainThenEvict, TypeOK, ConfigType
  <2>. QED BY <1>1, <1>8, <2>1, <2>2, UnchangedTypes DEF DrainThenEvict, TypeOK
<1>. QED BY <1>2, <1>3, <1>4, <1>5, <1>6, <1>7, <1>8 DEF Idle

\* Configuration edits keep the types.
LEMMA EditType ==
  ASSUME IInv, Edit
  PROVE  TypeOK'
<1>1. TypeOK /\ EditsCounted
  BY DEF IInv
<1>2. ASSUME NEW S \in EditScopes, EditLoadSettings(S) PROVE TypeOK'
  <2>1. S \in SUBSET Models /\ edits + 1 \in 0 .. MaxEdits
    BY <1>1, <1>2, EditsAssumption
    DEF EditLoadSettings, EditScopes, TypeOK, ConfigType
  <2>2. \A m \in Models : /\ hw[m] \in Nat /\ hw[m] + 1 \in 0 .. MaxEdits
                          /\ src[m] \in Nat /\ src[m] + 1 \in 0 .. MaxEdits
    BY <1>1, <2>1, EditsAssumption DEF TypeOK, ConfigType, EditsCounted
  <2>3. ConfigType'
    BY <1>1, <1>2, <2>1, <2>2 DEF EditLoadSettings, TypeOK, ConfigType
  <2>. QED BY <1>1, <1>2, <2>3, UnchangedTypes DEF EditLoadSettings, TypeOK
<1>3. ASSUME NEW c \in Caps, EditCap(c) PROVE TypeOK'
  <2>1. edits + 1 \in 0 .. MaxEdits
    BY <1>1, <1>3, EditsAssumption DEF EditCap, TypeOK, ConfigType
  <2>2. ConfigType'
    BY <1>1, <1>3, <2>1 DEF EditCap, TypeOK, ConfigType
  <2>. QED BY <1>1, <1>3, <2>2, UnchangedTypes DEF EditCap, TypeOK
<1>. QED BY <1>2, <1>3 DEF Edit

\* Every step of the cache keeps the types.
LEMMA StepType ==
  ASSUME IInv, Next
  PROVE  TypeOK'
<1>1. ASSUME NEW r \in Requests,
             Call(r) \/ Convert(r) \/ TakeLock(r) \/ Build(r) \/ Register(r)
               \/ ResolveSuppressChars(r) \/ Release(r) \/ Cancel(r)
      PROVE  TypeOK'
  BY <1>1, HitType, MissType, MoveType, LeaveType, FoundType, BeginBuildType,
     BuildDoneType, FinishLoadType, RegisterFailsType, UseType
  DEF Call, Convert, TakeLock, Build, Register, Cancel
<1>. QED BY <1>1, PrefetchType, EvictionType, EditType DEF Next

-----------------------------------------------------------------------------
(* Where callers are, and who holds the load lock.                          *)

\* What a drop removes is the dropped models and nothing else.
LEMMA CacheDropped ==
  ASSUME TypeOK, NEW E, Drop(E), NEW m \in Models
  PROVE  cache'[m] = IF m \in E THEN None ELSE cache[m]
BY DEF Drop

\* The steps that leave callers and the lock alone never unload under the lock.
LEMMA CacheStepKeepsCalls ==
  ASSUME IInv,
         \/ \E m \in Models : Evict(m) \/ Age(m)
         \/ ScheduledTrim \/ TrimToCap \/ Idle \/ Edit
         \/ \E S \in EditScopes : DrainThenEvict(S)
         \/ \E r \in Requests : ResolveSuppressChars(r)
  PROVE  /\ UNCHANGED <<callVars, loadsInFlight, loader>>
         /\ UNCHANGED cache \/ LockFree
<1>1. CASE Edit
  BY <1>1 DEF Edit, EditLoadSettings, EditCap, cacheVars
<1>2. CASE Idle
  BY <1>2 DEF Idle, IdleScan, IdleSweep, cacheVars
<1>. QED
  BY <1>1, <1>2
  DEF Evict, Age, ScheduledTrim, TrimToCap, DrainThenEvict, ResolveSuppressChars

\* One caller moves on, to a place where it need not hold anything.
LEMMA OneMoves ==
  ASSUME Calls, NEW r \in Requests, pc[r] # "idle", UNCHANGED want,
         \A q \in Requests : q # r => pc'[q] = pc[q] /\ held'[q] = held[q],
         pc'[r] \notin {"idle", "using"},
         pc'[r] # "registering" => held'[r] = None
  PROVE  Calls'
<1>1. ASSUME NEW q \in Requests, q # r
      PROVE  /\ pc'[q] = "idle" => want'[q] = NoModel
             /\ pc'[q] # "idle" => want'[q] \in Models
             /\ pc'[q] = "using" => held'[q] # None
             /\ pc'[q] \notin {"using", "registering"} => held'[q] = None
  BY <1>1 DEF Calls
<1>2. want'[r] \in Models
  BY DEF Calls
<1>. QED BY <1>1, <1>2 DEF Calls

\* Every step keeps what each call's position says of what it holds.
LEMMA StepCalls ==
  ASSUME IInv, Next
  PROVE  Calls'
<1>1. Calls /\ CallType /\ CacheType
  BY DEF IInv, TypeOK
<1>2. ASSUME NEW r \in Requests, NEW m \in Models, NEW l \in BOOLEAN,
             Hit(r, m, l) \/ Miss(r, m, l)
      PROVE  Calls'
  <2>1. CASE Miss(r, m, l)
    BY <1>1, <2>1, NoneAssumption DEF Miss, Calls, CallType
  <2>2. CASE Hit(r, m, l) /\ l
    BY <1>1, <2>2, NoneAssumption DEF Hit, TakeLease, Calls, CallType
  <2>3. CASE Hit(r, m, l) /\ ~l
    BY <1>1, <2>3 DEF Hit, Calls
  <2>. QED BY <1>2, <2>1, <2>2, <2>3
<1>3. ASSUME NEW r \in Requests,
             \/ Converted(r) \/ NothingToConvert(r) \/ LatchCancel(r)
             \/ PrimaryBuildFails(r) \/ BeginBuild(r)
      PROVE  Calls'
  <2>1. CASE LatchCancel(r)
    BY <1>1, <2>1 DEF LatchCancel, Calls
  <2>2. CASE Converted(r) \/ BeginBuild(r)
    BY <1>1, <2>2, OneMoves DEF Converted, BeginBuild, Calls, CallType
  <2>3. CASE NothingToConvert(r) \/ PrimaryBuildFails(r)
    BY <1>1, <2>3, OneMoves DEF NothingToConvert, PrimaryBuildFails, Calls, CallType
  <2>. QED BY <1>3, <2>1, <2>2, <2>3
<1>4. ASSUME NEW r \in Requests,
             \/ ConversionFails(r) \/ CancelWait(r) \/ BuildFails(r)
             \/ RegisterFails(r) \/ Release(r)
      PROVE  Calls'
  <2>1. Return({r})
    BY <1>4 DEF ConversionFails, CancelWait, BuildFails, RegisterFails, Release
  <2>. QED BY <1>1, <2>1 DEF Return, Calls
<1>5. ASSUME NEW s \in Snapshots, Prefetch(s) PROVE Calls'
  <2>1. CASE PrefetchEnds(s)
    BY <1>1, <2>1 DEF PrefetchEnds, Waiters, Calls
  <2>2. CASE PrefetchRefused(s)
    BY <1>1, <2>2 DEF PrefetchRefused, Return, Calls
  <2>. QED BY <1>5, <2>1, <2>2 DEF Prefetch
<1>6. ASSUME NEW r \in Requests, FoundUnderLock(r) PROVE Calls'
  <2>1. CASE wantLease[r]
    BY <1>1, <1>6, <2>1 DEF FoundUnderLock, TakeLease, Calls, CallType
  <2>2. CASE ~wantLease[r]
    BY <1>1, <1>6, <2>2 DEF FoundUnderLock, Return, Calls
  <2>. QED BY <2>1, <2>2
<1>7. ASSUME NEW r \in Requests, BuildDone(r) PROVE Calls'
  <2>1. /\ pc' = [pc EXCEPT ![r] = "registering"]
        /\ want' = want
        /\ \A q \in Requests : q # r => held'[q] = held[q]
        /\ pc[r] \in {"building", "fallback"}
    BY <1>1, <1>7 DEF BuildDone, TakeLease, CallType
  <2>. QED BY <1>1, <2>1, OneMoves DEF CallType
<1>8. ASSUME NEW r \in Requests, FinishLoad(r) PROVE Calls'
  <2>1. CASE held[r] # None /\ ~cancelled[r]
    BY <1>1, <1>8, <2>1 DEF FinishLoad, Calls, CallType
  <2>2. CASE ~(held[r] # None /\ ~cancelled[r])
    <3>1. Return({r})
      BY <1>8, <2>2 DEF FinishLoad
    <3>. QED BY <1>1, <3>1 DEF Return, Calls
  <2>. QED BY <2>1, <2>2
<1>9. CASE UNCHANGED callVars
  BY <1>1, <1>9 DEF Calls, callVars
<1>10. ASSUME NEW r \in Requests,
              Call(r) \/ Convert(r) \/ TakeLock(r) \/ Build(r) \/ Register(r)
                \/ Release(r) \/ Cancel(r)
       PROVE  Calls'
  BY <1>2, <1>3, <1>4, <1>6, <1>7, <1>8, <1>10
  DEF Call, Convert, TakeLock, Build, Register, Cancel
<1>. QED BY <1>5, <1>9, <1>10, CacheStepKeepsCalls DEF Next

\* Every step keeps the load lock with at most one call under it, and a model
\* that is being built uncached.
LEMMA StepLoadLock ==
  ASSUME IInv, Next
  PROVE  LoadLock'
<1>1. /\ Calls /\ LoadLock /\ TypeOK /\ CallType /\ CacheType
      /\ NoRequest \notin Requests
  BY NoneAssumption DEF IInv, TypeOK
<1>2. ASSUME NEW r \in Requests, NEW m \in Models, NEW l \in BOOLEAN,
             Hit(r, m, l) \/ Miss(r, m, l)
      PROVE  LoadLock'
  <2>1. CASE Miss(r, m, l)
    BY <1>1, <2>1 DEF Miss, cacheVars, LoadLock, CallType
  <2>2. CASE Hit(r, m, l) /\ l
    BY <1>1, <2>2 DEF Hit, TakeLease, LoadLock, CallType
  <2>3. CASE Hit(r, m, l) /\ ~l
    BY <1>1, <2>3 DEF Hit, LoadLock
  <2>. QED BY <1>2, <2>1, <2>2, <2>3
<1>3. ASSUME NEW r \in Requests,
             \/ Converted(r) \/ NothingToConvert(r) \/ LatchCancel(r)
             \/ PrimaryBuildFails(r)
      PROVE  LoadLock'
  BY <1>1, <1>3
  DEF Converted, NothingToConvert, LatchCancel, PrimaryBuildFails, cacheVars,
      LoadLock, CallType
<1>4. ASSUME NEW r \in Requests,
             ConversionFails(r) \/ CancelWait(r) \/ Release(r)
      PROVE  LoadLock'
  <2>1. /\ Return({r}) /\ UNCHANGED <<cache, loader>>
        /\ pc[r] \notin {"building", "fallback", "registering"}
    BY <1>4 DEF ConversionFails, CancelWait, Release, ReleaseLease, cacheVars
  <2>. QED BY <1>1, <2>1 DEF Return, LoadLock
<1>5. ASSUME NEW s \in Snapshots, Prefetch(s) PROVE LoadLock'
  <2>1. CASE PrefetchEnds(s)
    BY <1>1, <2>1 DEF PrefetchEnds, Waiters, cacheVars, LoadLock
  <2>2. CASE PrefetchRefused(s)
    <3>1. Return(Waiters(s)) /\ UNCHANGED <<cache, loader>>
      BY <2>2 DEF PrefetchRefused, cacheVars
    <3>. QED BY <1>1, <3>1 DEF Waiters, Return, LoadLock
  <2>. QED BY <1>5, <2>1, <2>2 DEF Prefetch
<1>6. ASSUME NEW r \in Requests, FoundUnderLock(r) PROVE LoadLock'
  <2>1. CASE wantLease[r]
    BY <1>1, <1>6, <2>1 DEF FoundUnderLock, TakeLease, LoadLock, CallType
  <2>2. CASE ~wantLease[r]
    BY <1>1, <1>6, <2>2 DEF FoundUnderLock, Return, LoadLock
  <2>. QED BY <2>1, <2>2
<1>7. ASSUME NEW r \in Requests, BeginBuild(r) PROVE LoadLock'
  <2>1. cache'[want[r]] = None
    BY <1>1, <1>7, CacheDropped DEF BeginBuild, Calls
  <2>2. \A q \in Requests : pc[q] \notin {"building", "fallback", "registering"}
    BY <1>1, <1>7 DEF BeginBuild, LockFree, LoadLock
  <2>3. /\ pc' = [pc EXCEPT ![r] = "building"] /\ loader' = r
        /\ UNCHANGED <<want, held>>
    BY <1>7 DEF BeginBuild
  <2>. QED BY <1>1, <2>1, <2>2, <2>3 DEF LoadLock, CallType
<1>8. ASSUME NEW r \in Requests, BuildDone(r) PROVE LoadLock'
  <2>1. PICK i \in Instances : cache' = [cache EXCEPT ![want[r]] = i]
    BY <1>8 DEF BuildDone
  <2>2. /\ pc[r] \in {"building", "fallback"}
        /\ pc' = [pc EXCEPT ![r] = "registering"]
        /\ UNCHANGED <<want, loader>>
        /\ held' = [held EXCEPT ![r] = cache'[want[r]]] \/ UNCHANGED held
    BY <1>8 DEF BuildDone, TakeLease
  <2>3. want[r] \in Models /\ held[r] = None /\ loader = r
    BY <1>1, <2>2 DEF Calls, LoadLock
  <2>4. cache'[want[r]] # None /\ held'[r] \in {None, cache'[want[r]]}
    BY <1>1, <2>1, <2>2, <2>3 DEF CacheType, CallType, Instances, None
  <2>5. ASSUME NEW q \in Requests \ {r}
        PROVE  pc'[q] = pc[q] /\ pc[q] \notin {"building", "fallback", "registering"}
    BY <1>1, <2>2, <2>3, <2>5 DEF CallType, LoadLock
  <2>. QED BY <1>1, <2>2, <2>3, <2>4, <2>5 DEF LoadLock, CallType
<1>9. ASSUME NEW r \in Requests,
             BuildFails(r) \/ FinishLoad(r) \/ RegisterFails(r)
      PROVE  LoadLock'
  <2>1. loader = r /\ loader' = NoRequest
    BY <1>1, <1>9 DEF BuildFails, FinishLoad, RegisterFails, LoadLock
  <2>2. \/ pc' = [pc EXCEPT ![r] = "using"]
        \/ pc' = [q \in Requests |-> IF q \in {r} THEN "idle" ELSE pc[q]]
    BY <1>9 DEF BuildFails, FinishLoad, RegisterFails, Return
  <2>3. \A q \in Requests : pc'[q] \notin {"building", "fallback", "registering"}
    BY <1>1, <2>1, <2>2 DEF LoadLock, CallType
  <2>. QED BY <1>1, <2>1, <2>3 DEF LoadLock
<1>10. CASE UNCHANGED <<callVars, loader>> /\ (UNCHANGED cache \/ LockFree)
  BY <1>1, <1>10 DEF callVars, LockFree, LoadLock
<1>11. ASSUME NEW r \in Requests,
              Call(r) \/ Convert(r) \/ TakeLock(r) \/ Build(r) \/ Register(r)
                \/ Release(r) \/ Cancel(r)
       PROVE  LoadLock'
  BY <1>2, <1>3, <1>4, <1>6, <1>7, <1>8, <1>9, <1>11
  DEF Call, Convert, TakeLock, Build, Register, Cancel
<1>. QED BY <1>5, <1>10, <1>11, CacheStepKeepsCalls DEF Next

\* Every step keeps the edit count equal to the versions it produced.
LEMMA StepEdits ==
  ASSUME IInv, Next
  PROVE  EditsCounted'
<1>1. EditsCounted /\ ConfigType
  BY DEF IInv, TypeOK
<1>2. CASE UNCHANGED <<hw, src, edits>>
  BY <1>1, <1>2 DEF EditsCounted
<1>3. ASSUME NEW S \in EditScopes, EditLoadSettings(S) PROVE EditsCounted'
  <2>1. ASSUME NEW m \in Models PROVE hw'[m] <= edits' /\ src'[m] <= edits'
    <3>1. /\ hw[m] \in Nat /\ src[m] \in Nat /\ edits \in Nat
          /\ hw[m] <= edits /\ src[m] <= edits
      BY <1>1, <2>1, EditsAssumption DEF EditsCounted, ConfigType
    <3>2. /\ edits' = edits + 1
          /\ hw'[m] \in {hw[m], hw[m] + 1}
          /\ src'[m] \in {src[m], src[m] + 1}
      BY <1>3, <2>1 DEF EditLoadSettings
    <3>. QED BY <3>1, <3>2
  <2>. QED BY <2>1 DEF EditsCounted
<1>4. ASSUME NEW c \in Caps, EditCap(c) PROVE EditsCounted'
  BY <1>1, <1>4 DEF EditCap, EditsCounted, ConfigType
<1>5. ASSUME NEW r \in Requests,
             Call(r) \/ Convert(r) \/ TakeLock(r) \/ Build(r) \/ Register(r)
               \/ ResolveSuppressChars(r) \/ Release(r) \/ Cancel(r)
      PROVE  UNCHANGED configVars
  BY <1>5
  DEF Call, Hit, Miss, Convert, Converted, NothingToConvert, ConversionFails,
      TakeLock,
      FoundUnderLock, BeginBuild, Build, PrimaryBuildFails, BuildFails,
      BuildDone, Register, RegisterFails, FinishLoad, ResolveSuppressChars,
      Release, Cancel, CancelWait, LatchCancel
<1>6. ASSUME NEW s \in Snapshots, Prefetch(s) PROVE UNCHANGED configVars
  BY <1>6 DEF Prefetch, PrefetchEnds, PrefetchRefused
<1>7. ASSUME \/ \E m \in Models : Evict(m) \/ Age(m)
             \/ \E S \in EditScopes : DrainThenEvict(S)
             \/ ScheduledTrim \/ TrimToCap \/ Idle
      PROVE  UNCHANGED <<hw, src, edits>>
  BY <1>7
  DEF Evict, Age, DrainThenEvict, ScheduledTrim, TrimToCap, Idle, IdleScan,
      IdleSweep, configVars
<1>8. Edit \/ UNCHANGED <<hw, src, edits>>
  BY <1>5, <1>6, <1>7 DEF Next, configVars
<1>. QED BY <1>2, <1>3, <1>4, <1>8 DEF Edit

-----------------------------------------------------------------------------
(* Lease accounting.                                                        *)

\* The holders of the cached and of dropped instances of a model are disjoint
\* sets of callers.
LEMMA HoldersFinite ==
  ASSUME NEW m \in Models
  PROVE  /\ HoldersOf(m) \in SUBSET Requests
         /\ CurrentHolders(m) \in SUBSET Requests
         /\ OrphanHolders(m) \in SUBSET Requests
         /\ CurrentHolders(m) \cap OrphanHolders(m) = {}
         /\ CurrentHolders(m) \cup OrphanHolders(m) = HoldersOf(m)
BY DEF HoldersOf, CurrentHolders, OrphanHolders

\* A caller without a lease takes one on the instance just cached or found.
LEMMA TakeAccounting ==
  ASSUME IInv, NEW r \in Requests, NEW m \in Models,
         held[r] = None, want'[r] = m,
         \A q \in Requests \ {r} : want'[q] = want[q],
         UNCHANGED <<cache, orphans>>, cache[m] # None, TakeLease(r, m)
  PROVE  LeaseAccounting'
<1>1. CacheType /\ CallType /\ LeaseAccounting
  BY DEF IInv, TypeOK
<1>2. /\ leases' = [leases EXCEPT ![m] = @ + 1]
      /\ held' = [held EXCEPT ![r] = cache[m]]
  BY DEF TakeLease
<1>3. r \notin CurrentHolders(m)
  BY DEF CurrentHolders, HoldersOf
<1>4. ASSUME NEW n \in Models
      PROVE  /\ OrphanHolders(n)' = OrphanHolders(n)
             /\ CurrentHolders(n)' = IF n = m THEN CurrentHolders(n) \cup {r}
                                              ELSE CurrentHolders(n)
  BY <1>1, <1>2, <1>4 DEF OrphanHolders, CurrentHolders, HoldersOf, CallType
<1>5. Cardinality(CurrentHolders(m) \cup {r}) = Cardinality(CurrentHolders(m)) + 1
  BY <1>3, HoldersFinite, OneMore
<1>. QED BY <1>1, <1>2, <1>4, <1>5 DEF LeaseAccounting, CacheType

\* A caller gives its lease back, on the cached instance or on a dropped one.
LEMMA GiveAccounting ==
  ASSUME IInv, NEW r \in Requests, NEW m \in Models, m = want[r],
         held[r] # None, UNCHANGED cache, Return({r}),
         IF held[r] = cache[m]
           THEN leases' = [leases EXCEPT ![m] = @ - 1] /\ UNCHANGED orphans
           ELSE orphans' = [orphans EXCEPT ![m] = @ - 1] /\ UNCHANGED leases
  PROVE  LeaseAccounting'
<1>1. CacheType /\ CallType /\ LeaseAccounting
  BY DEF IInv, TypeOK
<1>2. /\ held' = [q \in Requests |-> IF q \in {r} THEN None ELSE held[q]]
      /\ want' = [q \in Requests |-> IF q \in {r} THEN NoModel ELSE want[q]]
  BY DEF Return
<1>3. r \in HoldersOf(m)
  BY DEF HoldersOf
<1>4. CASE held[r] = cache[m]
  <2>1. r \in CurrentHolders(m)
    BY <1>3, <1>4 DEF CurrentHolders
  <2>2. ASSUME NEW n \in Models
        PROVE  /\ OrphanHolders(n)' = OrphanHolders(n)
               /\ CurrentHolders(n)' = IF n = m THEN CurrentHolders(n) \ {r}
                                                ELSE CurrentHolders(n)
    BY <1>1, <1>2, <1>4, <2>2, NoneAssumption
    DEF OrphanHolders, CurrentHolders, HoldersOf
  <2>3. Cardinality(CurrentHolders(m) \ {r}) = Cardinality(CurrentHolders(m)) - 1
    BY <2>1, HoldersFinite, OneLess
  <2>4. ASSUME NEW n \in Models
        PROVE  /\ leases'[n] = IF n = m THEN leases[n] - 1 ELSE leases[n]
               /\ orphans'[n] = orphans[n]
    BY <1>1, <1>4 DEF CacheType
  <2>5. ASSUME NEW n \in Models
        PROVE  /\ leases'[n] = Cardinality(CurrentHolders(n)')
               /\ orphans'[n] = Cardinality(OrphanHolders(n)')
    BY <1>1, <2>2, <2>3, <2>4 DEF LeaseAccounting
  <2>. QED BY <2>5 DEF LeaseAccounting
<1>5. CASE held[r] # cache[m]
  <2>1. r \in OrphanHolders(m)
    BY <1>3, <1>5 DEF OrphanHolders
  <2>2. ASSUME NEW n \in Models
        PROVE  /\ CurrentHolders(n)' = CurrentHolders(n)
               /\ OrphanHolders(n)' = IF n = m THEN OrphanHolders(n) \ {r}
                                               ELSE OrphanHolders(n)
    BY <1>1, <1>2, <1>5, <2>2, NoneAssumption
    DEF OrphanHolders, CurrentHolders, HoldersOf
  <2>3. Cardinality(OrphanHolders(m) \ {r}) = Cardinality(OrphanHolders(m)) - 1
    BY <2>1, HoldersFinite, OneLess
  <2>4. ASSUME NEW n \in Models
        PROVE  /\ orphans'[n] = IF n = m THEN orphans[n] - 1 ELSE orphans[n]
               /\ leases'[n] = leases[n]
    BY <1>1, <1>5 DEF CacheType
  <2>5. ASSUME NEW n \in Models
        PROVE  /\ leases'[n] = Cardinality(CurrentHolders(n)')
               /\ orphans'[n] = Cardinality(OrphanHolders(n)')
    BY <1>1, <2>2, <2>3, <2>4 DEF LeaseAccounting
  <2>. QED BY <2>5 DEF LeaseAccounting
<1>. QED BY <1>4, <1>5

\* Callers without a lease come and go.
LEMMA SameAccounting ==
  ASSUME IInv, UNCHANGED <<cache, leases, orphans, held>>,
         \A q \in Requests : held[q] # None => want'[q] = want[q]
  PROVE  LeaseAccounting'
<1>1. ASSUME NEW n \in Models
      PROVE  /\ CurrentHolders(n)' = CurrentHolders(n)
             /\ OrphanHolders(n)' = OrphanHolders(n)
  BY <1>1 DEF OrphanHolders, CurrentHolders, HoldersOf
<1>. QED BY <1>1 DEF IInv, LeaseAccounting

\* Ending calls that hold nothing keeps the lease counts exact.
LEMMA ReturnAccounting ==
  ASSUME IInv, NEW R \in SUBSET Requests, Return(R),
         \A q \in R : held[q] = None,
         UNCHANGED <<cache, leases, orphans>>
  PROVE  LeaseAccounting'
<1>1. held' = held
  BY DEF Return, IInv, TypeOK, CallType
<1>2. \A q \in Requests : held[q] # None => want'[q] = want[q]
  BY DEF Return
<1>. QED BY <1>1, <1>2, SameAccounting

\* The holders of a dropped instance are all orphans.
LEMMA DropAccounting ==
  ASSUME IInv, NEW E \in SUBSET Models, Drop(E), UNCHANGED <<want, held>>
  PROVE  LeaseAccounting'
<1>1. CacheType /\ CallType /\ LeaseAccounting
  BY DEF IInv, TypeOK
<1>2. ASSUME NEW n \in Models, n \notin E
      PROVE  /\ leases'[n] = Cardinality(CurrentHolders(n)')
             /\ orphans'[n] = Cardinality(OrphanHolders(n)')
  <2>1. cache'[n] = cache[n] /\ leases'[n] = leases[n] /\ orphans'[n] = orphans[n]
    BY <1>1, <1>2 DEF Drop, CacheType
  <2>2. /\ CurrentHolders(n)' = CurrentHolders(n)
        /\ OrphanHolders(n)' = OrphanHolders(n)
    BY <2>1 DEF CurrentHolders, OrphanHolders, HoldersOf
  <2>. QED BY <1>1, <1>2, <2>1, <2>2 DEF LeaseAccounting
<1>3. ASSUME NEW n \in Models, n \in E
      PROVE  /\ leases'[n] = Cardinality(CurrentHolders(n)')
             /\ orphans'[n] = Cardinality(OrphanHolders(n)')
  <2>1. cache'[n] = None /\ leases'[n] = 0 /\ orphans'[n] = orphans[n] + leases[n]
    BY <1>1, <1>3 DEF Drop, CacheType
  <2>2. /\ CurrentHolders(n)' = {}
        /\ OrphanHolders(n)' = CurrentHolders(n) \cup OrphanHolders(n)
    BY <2>1 DEF CurrentHolders, OrphanHolders, HoldersOf
  <2>3. /\ Cardinality({}) = 0
        /\ Cardinality(CurrentHolders(n) \cup OrphanHolders(n))
             = Cardinality(CurrentHolders(n)) + Cardinality(OrphanHolders(n))
    BY HoldersFinite, DisjointSum, FS_EmptySet
  <2>4. leases[n] \in Nat /\ orphans[n] \in Nat
    BY <1>1 DEF CacheType
  <2>. QED BY <1>1, <2>1, <2>2, <2>3, <2>4 DEF LeaseAccounting
<1>. QED BY <1>2, <1>3 DEF LeaseAccounting

\* A new instance, that at most its loader holds.
LEMMA BuildDoneAccounting ==
  ASSUME IInv, NEW r \in Requests, BuildDone(r)
  PROVE  LeaseAccounting'
<1>. DEFINE m == want[r]
<1>1. /\ CacheType /\ CallType /\ LeaseAccounting
      /\ m \in Models /\ held[r] = None /\ cache[m] = None
  BY DEF BuildDone, IInv, TypeOK, Calls, LoadLock
<1>2. PICK i \in Instances : IsNewInstance(i) /\ cache' = [cache EXCEPT ![m] = i]
  BY DEF BuildDone
<1>3. i # None /\ \A q \in Requests : held[q] # i
  BY <1>2 DEF IsNewInstance, Instances, None
<1>4. UNCHANGED <<want, orphans>>
  BY DEF BuildDone
<1>5. leases[m] = 0
  <2>1. CurrentHolders(m) = {}
    BY <1>1 DEF CurrentHolders, HoldersOf
  <2>. QED BY <1>1, <2>1, FS_EmptySet DEF LeaseAccounting
<1>6. CASE UNCHANGED <<leases, held>>
  <2>1. ASSUME NEW n \in Models
        PROVE  /\ CurrentHolders(n)' = CurrentHolders(n)
               /\ OrphanHolders(n)' = OrphanHolders(n)
    BY <1>1, <1>2, <1>3, <1>4, <1>6, <2>1
    DEF CurrentHolders, OrphanHolders, HoldersOf, CacheType
  <2>. QED BY <1>1, <1>4, <1>6, <2>1 DEF LeaseAccounting
<1>7. CASE TakeLease(r, m)
  <2>1. /\ held' = [held EXCEPT ![r] = i]
        /\ leases' = [leases EXCEPT ![m] = 1]
    <3>1. cache'[m] = i
      BY <1>1, <1>2 DEF CacheType
    <3>. QED BY <1>5, <1>7, <3>1 DEF TakeLease
  <2>2. ASSUME NEW n \in Models
        PROVE  /\ CurrentHolders(n)' = IF n = m THEN {r} ELSE CurrentHolders(n)
               /\ OrphanHolders(n)' = OrphanHolders(n)
    BY <1>1, <1>2, <1>3, <1>4, <2>1, <2>2
    DEF CurrentHolders, OrphanHolders, HoldersOf, CacheType, CallType
  <2>3. Cardinality({r}) = 1
    BY FS_Singleton
  <2>. QED BY <1>1, <1>4, <2>1, <2>2, <2>3 DEF LeaseAccounting, CacheType
<1>. QED BY <1>6, <1>7 DEF BuildDone

\* The loader's lease ends and the others on its model are orphaned.
LEMMA RegisterFailsAccounting ==
  ASSUME IInv, NEW r \in Requests, RegisterFails(r),
         NEW m \in Models, m = want[r]
  PROVE  LeaseAccounting'
<1>1. /\ CacheType /\ CallType /\ LeaseAccounting
      /\ m \in Models /\ held[r] \in {None, cache[m]} /\ cache[m] # None
  BY DEF RegisterFails, IInv, TypeOK, Calls, LoadLock
<1>2. ASSUME NEW q \in Requests
      PROVE  /\ held'[q] = IF q = r THEN None ELSE held[q]
             /\ want'[q] = IF q = r THEN NoModel ELSE want[q]
  BY <1>2 DEF RegisterFails, Return
<1>3. ASSUME NEW n \in Models
      PROVE  /\ cache'[n] = IF n = m THEN None ELSE cache[n]
             /\ leases'[n] = IF n = m THEN 0 ELSE leases[n]
             /\ n # m => orphans'[n] = orphans[n]
  BY <1>1, <1>3 DEF RegisterFails, CacheType
<1>4. ASSUME NEW n \in Models \ {m}
      PROVE  /\ leases'[n] = Cardinality(CurrentHolders(n)')
             /\ orphans'[n] = Cardinality(OrphanHolders(n)')
  <2>1. /\ CurrentHolders(n)' = CurrentHolders(n)
        /\ OrphanHolders(n)' = OrphanHolders(n)
    BY <1>1, <1>2, <1>3, <1>4, NoneAssumption
    DEF CurrentHolders, OrphanHolders, HoldersOf
  <2>. QED BY <1>1, <1>3, <1>4, <2>1 DEF LeaseAccounting
<1>5. /\ leases'[m] = Cardinality(CurrentHolders(m)')
      /\ orphans'[m] = Cardinality(OrphanHolders(m)')
  <2>1. cache'[m] = None /\ leases'[m] = 0
    BY <1>1, <1>3
  <2>2. /\ CurrentHolders(m)' = {}
        /\ OrphanHolders(m)' = HoldersOf(m) \ {r}
    BY <1>1, <1>2, <2>1, NoneAssumption
    DEF CurrentHolders, OrphanHolders, HoldersOf
  <2>3. /\ leases[m] \in Nat /\ orphans[m] \in Nat
        /\ Cardinality(HoldersOf(m)) = leases[m] + orphans[m]
    <3>1. leases[m] \in Nat /\ orphans[m] \in Nat
      BY <1>1 DEF CacheType
    <3>2. Cardinality(HoldersOf(m)) = Cardinality(CurrentHolders(m))
                                        + Cardinality(OrphanHolders(m))
      BY HoldersFinite, DisjointSum
    <3>. QED BY <1>1, <3>1, <3>2 DEF LeaseAccounting
  <2>4. CASE held[r] = None
    <3>1. HoldersOf(m) \ {r} = HoldersOf(m)
      BY <2>4 DEF HoldersOf
    <3>2. orphans'[m] = orphans[m] + leases[m]
      <4>1. orphans' = [orphans EXCEPT ![want[r]] =
                          @ + leases[want[r]] - (IF held[r] # None THEN 1 ELSE 0)]
        BY DEF RegisterFails
      <4>. QED BY <1>1, <2>3, <2>4, <4>1 DEF CacheType
    <3>3. Cardinality(OrphanHolders(m)') = Cardinality(HoldersOf(m))
      BY <2>2, <3>1
    <3>4. Cardinality(CurrentHolders(m)') = 0
      BY <2>2, FS_EmptySet
    <3>. QED BY <2>1, <2>3, <3>2, <3>3, <3>4
  <2>5. CASE held[r] # None
    <3>1. Cardinality(HoldersOf(m) \ {r}) = Cardinality(HoldersOf(m)) - 1
      <4>1. r \in HoldersOf(m)
        BY <2>5 DEF HoldersOf
      <4>. QED BY <1>1, <4>1, HoldersFinite, OneLess
    <3>2. orphans'[m] = orphans[m] + leases[m] - 1
      <4>1. orphans' = [orphans EXCEPT ![want[r]] =
                          @ + leases[want[r]] - (IF held[r] # None THEN 1 ELSE 0)]
        BY DEF RegisterFails
      <4>. QED BY <1>1, <2>3, <2>5, <4>1 DEF CacheType
    <3>. QED BY <2>1, <2>2, <2>3, <3>1, <3>2, FS_EmptySet
  <2>. QED BY <2>4, <2>5
<1>6. ASSUME NEW n \in Models
      PROVE  /\ leases'[n] = Cardinality(CurrentHolders(n)')
             /\ orphans'[n] = Cardinality(OrphanHolders(n)')
  BY <1>4, <1>5
<1>. QED BY <1>6 DEF LeaseAccounting

\* Every step keeps lease and orphan counts equal to the holders they stand for.
LEMMA StepAccounting ==
  ASSUME IInv, Next
  PROVE  LeaseAccounting'
<1>1. Calls /\ LoadLock /\ TypeOK /\ CacheType /\ CallType
  BY DEF IInv, TypeOK
<1>2. ASSUME NEW r \in Requests, Call(r) PROVE LeaseAccounting'
  <2>1. PICK m \in Models, l \in BOOLEAN : Hit(r, m, l) \/ Miss(r, m, l)
    BY <1>2 DEF Call
  <2>2. CASE Miss(r, m, l)
    BY <1>1, <2>2, SameAccounting DEF Miss, Calls, cacheVars, CallType
  <2>3. CASE Hit(r, m, l) /\ l
    BY <1>1, <2>3, TakeAccounting DEF Hit, Calls, CallType
  <2>4. CASE Hit(r, m, l) /\ ~l
    BY <2>4, SameAccounting DEF Hit
  <2>. QED BY <2>1, <2>2, <2>3, <2>4
<1>3. ASSUME NEW r \in Requests,
             \/ Converted(r) \/ NothingToConvert(r) \/ LatchCancel(r)
             \/ PrimaryBuildFails(r)
      PROVE  LeaseAccounting'
  BY <1>3, SameAccounting
  DEF Converted, NothingToConvert, LatchCancel, PrimaryBuildFails, cacheVars
<1>4. ASSUME NEW r \in Requests,
             ConversionFails(r) \/ CancelWait(r) \/ BuildFails(r)
      PROVE  LeaseAccounting'
  BY <1>1, <1>4, ReturnAccounting
  DEF ConversionFails, CancelWait, BuildFails, cacheVars, Calls
<1>5. ASSUME NEW s \in Snapshots, Prefetch(s) PROVE LeaseAccounting'
  <2>1. CASE PrefetchEnds(s)
    BY <2>1, SameAccounting DEF PrefetchEnds, cacheVars
  <2>2. CASE PrefetchRefused(s)
    BY <1>1, <2>2, ReturnAccounting DEF PrefetchRefused, Waiters, cacheVars, Calls
  <2>. QED BY <1>5, <2>1, <2>2 DEF Prefetch
<1>6. ASSUME NEW r \in Requests, FoundUnderLock(r) PROVE LeaseAccounting'
  <2>1. want[r] \in Models /\ held[r] = None
    BY <1>1, <1>6 DEF FoundUnderLock, Calls
  <2>2. CASE wantLease[r]
    BY <1>6, <2>1, <2>2, TakeAccounting DEF FoundUnderLock
  <2>3. CASE ~wantLease[r]
    BY <1>6, <2>1, <2>3, ReturnAccounting DEF FoundUnderLock
  <2>. QED BY <2>2, <2>3
<1>7. ASSUME NEW r \in Requests, BeginBuild(r) PROVE LeaseAccounting'
  BY <1>7, DropAccounting DEF BeginBuild
<1>8. ASSUME NEW r \in Requests, FinishLoad(r) PROVE LeaseAccounting'
  <2>1. want[r] \in Models /\ held[r] \in {None, cache[want[r]]}
    BY <1>1, <1>8 DEF FinishLoad, Calls, LoadLock
  <2>2. CASE held[r] # None /\ ~cancelled[r]
    BY <1>8, <2>2, SameAccounting DEF FinishLoad
  <2>3. CASE held[r] # None /\ cancelled[r]
    BY <1>8, <2>1, <2>3, GiveAccounting DEF FinishLoad, DropLease
  <2>4. CASE held[r] = None
    BY <1>8, <2>4, ReturnAccounting DEF FinishLoad
  <2>. QED BY <1>1, <2>2, <2>3, <2>4 DEF CallType
<1>9. ASSUME NEW r \in Requests, RegisterFails(r) PROVE LeaseAccounting'
  <2>1. want[r] \in Models
    BY <1>1, <1>9 DEF RegisterFails, Calls
  <2>. QED BY <1>9, <2>1, RegisterFailsAccounting
<1>10. ASSUME NEW r \in Requests, Release(r) PROVE LeaseAccounting'
  <2>1. want[r] \in Models /\ held[r] # None
    BY <1>1, <1>10 DEF Release, Calls
  <2>2. /\ UNCHANGED cache
        /\ Return({r})
        /\ IF held[r] = cache[want[r]]
             THEN /\ leases' = [leases EXCEPT ![want[r]] = @ - 1]
                  /\ UNCHANGED orphans
             ELSE /\ orphans' = [orphans EXCEPT ![want[r]] = @ - 1]
                  /\ UNCHANGED leases
    BY <1>10 DEF Release, ReleaseLease, DropLease
  <2>. QED BY <2>1, <2>2, GiveAccounting
<1>11. CASE UNCHANGED <<cache, leases, orphans, held, want>>
  BY <1>11, SameAccounting
<1>12. ASSUME \/ \E m \in Models : Evict(m) \/ Age(m)
              \/ ScheduledTrim \/ TrimToCap \/ Idle \/ Edit
              \/ \E S \in EditScopes : DrainThenEvict(S)
              \/ \E r \in Requests : ResolveSuppressChars(r)
       PROVE  LeaseAccounting'
  <2>1. UNCHANGED <<want, held>>
    BY <1>12, CacheStepKeepsCalls DEF callVars
  <2>2. ASSUME NEW m \in Models, Evict(m) PROVE LeaseAccounting'
    BY <2>1, <2>2, DropAccounting DEF Evict
  <2>3. CASE ScheduledTrim \/ TrimToCap
    BY <2>1, <2>3, DropAccounting DEF ScheduledTrim, TrimToCap
  <2>4. ASSUME NEW S \in EditScopes, DrainThenEvict(S) PROVE LeaseAccounting'
    <3>1. S \cap Cached \in SUBSET Models
      BY DEF Cached
    <3>. QED BY <2>1, <2>4, <3>1, DropAccounting DEF DrainThenEvict
  <2>5. ASSUME NEW warm, IdleSweep(warm) PROVE LeaseAccounting'
    <3>1. {m \in (stale \cap Unleased) \ warm : registry[m] # "fresh"}
            \in SUBSET Models
      BY <1>1 DEF TypeOK
    <3>. QED BY <2>1, <2>5, <3>1, DropAccounting DEF IdleSweep
  <2>6. CASE Edit
    BY <1>11, <2>1, <2>6 DEF Edit, EditLoadSettings, EditCap, cacheVars
  <2>7. ASSUME NEW warm, IdleScan(warm) PROVE LeaseAccounting'
    BY <1>11, <2>1, <2>7 DEF IdleScan, cacheVars
  <2>8. ASSUME NEW m \in Models, Age(m) PROVE LeaseAccounting'
    BY <1>11, <2>1, <2>8 DEF Age
  <2>9. ASSUME NEW r \in Requests, ResolveSuppressChars(r)
        PROVE  LeaseAccounting'
    BY <1>11, <2>1, <2>9 DEF ResolveSuppressChars
  <2>. QED BY <1>12, <2>2, <2>3, <2>4, <2>5, <2>6, <2>7, <2>8, <2>9 DEF Idle
<1>13. ASSUME NEW r \in Requests,
              Call(r) \/ Convert(r) \/ TakeLock(r) \/ Build(r) \/ Register(r)
                \/ Release(r) \/ Cancel(r)
       PROVE  LeaseAccounting'
  BY <1>2, <1>3, <1>4, <1>6, <1>7, <1>8, <1>9, <1>10, <1>13,
     BuildDoneAccounting
  DEF Convert, TakeLock, Build, Register, Cancel
<1>. QED BY <1>5, <1>12, <1>13 DEF Next

-----------------------------------------------------------------------------
(* The in-flight counter.                                                   *)

\* A call joins, leaves or stays among the loads in flight.
LEMMA LoadsAdjusted ==
  ASSUME IInv,
         \/ UNCHANGED loadsInFlight /\ Loading' = Loading
         \/ \E r \in Requests \ Loading :
              loadsInFlight' = loadsInFlight + 1 /\ Loading' = Loading \cup {r}
         \/ \E r \in Loading :
              loadsInFlight' = loadsInFlight - 1 /\ Loading' = Loading \ {r}
  PROVE  LoadsInFlightExact'
<1>1. /\ loadsInFlight = Cardinality(Loading)
      /\ Loading \in SUBSET Requests
  BY DEF IInv, LoadsInFlightExact, Loading
<1>2. loadsInFlight' = Cardinality(Loading')
  <2>1. CASE UNCHANGED loadsInFlight /\ Loading' = Loading
    BY <1>1, <2>1
  <2>2. ASSUME NEW r \in Requests \ Loading,
               loadsInFlight' = loadsInFlight + 1, Loading' = Loading \cup {r}
        PROVE  loadsInFlight' = Cardinality(Loading')
    BY <1>1, <2>2, OneMore
  <2>3. ASSUME NEW r \in Loading,
               loadsInFlight' = loadsInFlight - 1, Loading' = Loading \ {r}
        PROVE  loadsInFlight' = Cardinality(Loading')
    BY <1>1, <2>3, OneLess
  <2>. QED BY <2>1, <2>2, <2>3
<1>. QED BY <1>2 DEF LoadsInFlightExact, Loading

\* Every step keeps the in-flight count equal to the calls that are loading.
LEMMA StepLoads ==
  ASSUME IInv, Next
  PROVE  LoadsInFlightExact'
<1>1. TypeOK /\ CallType /\ Calls
  BY DEF IInv, TypeOK
<1>. USE DEF Missing
<1>2. ASSUME NEW r \in Requests, Call(r) PROVE LoadsInFlightExact'
  <2>1. PICK m \in Models, l \in BOOLEAN : Hit(r, m, l) \/ Miss(r, m, l)
    BY <1>2 DEF Call
  <2>2. CASE Miss(r, m, l)
    <3>1. r \in Requests \ Loading /\ Loading' = Loading \cup {r}
      BY <1>1, <2>2 DEF Miss, Loading, CallType
    <3>. QED BY <2>2, <3>1, LoadsAdjusted DEF Miss
  <2>3. CASE Hit(r, m, l)
    <3>1. Loading' = Loading
      BY <1>1, <2>3 DEF Hit, Loading, CallType
    <3>. QED BY <2>3, <3>1, LoadsAdjusted DEF Hit
  <2>. QED BY <2>1, <2>2, <2>3
<1>3. ASSUME NEW r \in Requests,
             \/ Converted(r) \/ NothingToConvert(r) \/ LatchCancel(r)
             \/ PrimaryBuildFails(r)
             \/ BeginBuild(r) \/ BuildDone(r)
      PROVE  LoadsInFlightExact'
  <2>1. Loading' = Loading /\ UNCHANGED loadsInFlight
    BY <1>1, <1>3
    DEF Converted, NothingToConvert, LatchCancel, PrimaryBuildFails, BeginBuild,
        BuildDone, Loading, CallType
  <2>. QED BY <2>1, LoadsAdjusted
<1>4. ASSUME NEW r \in Requests,
             \/ ConversionFails(r) \/ CancelWait(r) \/ BuildFails(r)
             \/ RegisterFails(r) \/ FoundUnderLock(r) \/ FinishLoad(r)
      PROVE  LoadsInFlightExact'
  <2>1. loadsInFlight' = loadsInFlight - 1 /\ r \in Loading
    BY <1>4
    DEF ConversionFails, CancelWait, BuildFails, RegisterFails, FoundUnderLock,
        FinishLoad, Loading
  <2>2. \/ pc' = [pc EXCEPT ![r] = "using"]
        \/ pc' = [q \in Requests |-> IF q \in {r} THEN "idle" ELSE pc[q]]
    BY <1>4
    DEF ConversionFails, CancelWait, BuildFails, RegisterFails, FoundUnderLock,
        FinishLoad, Return
  <2>3. Loading' = Loading \ {r}
    BY <1>1, <2>2 DEF Loading, CallType
  <2>. QED BY <2>1, <2>3, LoadsAdjusted
<1>5. ASSUME NEW r \in Requests, Release(r) PROVE LoadsInFlightExact'
  <2>1. Loading' = Loading /\ UNCHANGED loadsInFlight
    BY <1>1, <1>5 DEF Release, Return, Loading
  <2>. QED BY <2>1, LoadsAdjusted
<1>6. ASSUME NEW s \in Snapshots, PrefetchEnds(s) PROVE LoadsInFlightExact'
  <2>1. Loading' = Loading /\ UNCHANGED loadsInFlight
    BY <1>1, <1>6 DEF PrefetchEnds, Waiters, Loading
  <2>. QED BY <2>1, LoadsAdjusted
<1>7. ASSUME NEW s \in Snapshots, PrefetchRefused(s) PROVE LoadsInFlightExact'
  <2>1. /\ loadsInFlight' = loadsInFlight - Cardinality(Waiters(s))
        /\ Loading' = Loading \ Waiters(s)
        /\ Waiters(s) \in SUBSET Loading
    BY <1>1, <1>7 DEF PrefetchRefused, Return, Waiters, Loading
  <2>2. Loading' \in SUBSET Requests /\ Waiters(s) \in SUBSET Requests
    BY DEF Loading, Waiters
  <2>3. Cardinality(Loading' \cup Waiters(s))
          = Cardinality(Loading') + Cardinality(Waiters(s))
    BY <2>1, <2>2, DisjointSum
  <2>4. Loading' \cup Waiters(s) = Loading
    BY <2>1
  <2>5. Cardinality(Loading') \in Nat /\ Cardinality(Waiters(s)) \in Nat
    BY <2>2, CallersFinite
  <2>6. loadsInFlight = Cardinality(Loading') + Cardinality(Waiters(s))
    <3>1. loadsInFlight = Cardinality(Loading)
      BY DEF IInv, LoadsInFlightExact, Loading
    <3>. QED BY <2>3, <2>4, <3>1
  <2>7. loadsInFlight' = Cardinality(Loading')
    <3>1. loadsInFlight' = loadsInFlight - Cardinality(Waiters(s))
      BY <2>1
    <3>. QED BY <2>5, <2>6, <3>1
  <2>. QED BY <2>7 DEF LoadsInFlightExact, Loading
<1>8. CASE UNCHANGED <<callVars, loadsInFlight>>
  BY <1>8, LoadsAdjusted DEF callVars, Loading
<1>9. ASSUME NEW r \in Requests,
             Call(r) \/ Convert(r) \/ TakeLock(r) \/ Build(r) \/ Register(r)
               \/ Release(r) \/ Cancel(r)
      PROVE  LoadsInFlightExact'
  BY <1>2, <1>3, <1>4, <1>5, <1>9
  DEF Convert, TakeLock, Build, Register, Cancel
<1>. QED BY <1>6, <1>7, <1>8, <1>9, CacheStepKeepsCalls DEF Next, Prefetch

-----------------------------------------------------------------------------
(* Theorems.                                                                *)

\* The inductive invariant holds in every reachable state of the cache
\* (_get_or_load_model, _load_on_miss and every eviction path).
THEOREM Inductive == Spec => []IInv
<1>1. Init => IInv
  BY InitIInv
<1>2. ASSUME IInv, [Next]_vars PROVE IInv'
  <2>1. CASE Next
    BY <1>2, <2>1, StepType, StepCalls, StepLoadLock, StepEdits,
       StepAccounting, StepLoads
    DEF IInv
  <2>2. CASE UNCHANGED vars
    <3>1. UNCHANGED <<cacheVars, callVars, trimVars, configVars, loadsInFlight,
                      prefetch, loader, stale>>
      BY <2>2 DEF vars
    <3>2. TypeOK'
      BY <1>2, <3>1, UnchangedTypes DEF IInv, TypeOK
    <3>3. Calls' /\ LoadLock' /\ EditsCounted'
      BY <1>2, <3>1
      DEF IInv, Calls, LoadLock, EditsCounted, callVars, cacheVars, configVars
    <3>4. LeaseAccounting'
      BY <1>2, <3>1, SameAccounting DEF callVars, cacheVars
    <3>5. LoadsInFlightExact'
      BY <1>2, <3>1, LoadsAdjusted DEF callVars, Loading
    <3>. QED BY <3>2, <3>3, <3>4, <3>5 DEF IInv
  <2>. QED BY <1>2, <2>1, <2>2
<1>. QED BY <1>1, <1>2, PTL DEF Spec

\* Every variable stays in its type: no count goes below zero and every
\* instance identity fits the pool of MaxInstances.
THEOREM TypeCorrect == Spec => []TypeOK
<1>1. IInv => TypeOK
  BY DEF IInv
<1>. QED BY <1>1, Inductive, PTL

\* Leases and orphan leases count exactly the callers that hold one
\* (_release_model_lease, _drop_loaded_model), for any models and callers.
THEOREM LeasesCorrect == Spec => []LeaseAccounting
<1>1. IInv => LeaseAccounting
  BY DEF IInv
<1>. QED BY <1>1, Inductive, PTL

\* load_in_progress counts exactly the calls past the hit (_loads_in_flight).
THEOREM LoadsCorrect == Spec => []LoadsInFlightExact
<1>1. IInv => LoadsInFlightExact
  BY DEF IInv
<1>. QED BY <1>1, Inductive, PTL

-----------------------------------------------------------------------------
Constructing == {"building", "fallback"}

\* A model that a pending drain will drop.
Doomed(m) == \E S \in drains : m \in S

\* What a build under way has read is in force, or its model is to be dropped:
\* with it, BuiltWithCurrentHardware is inductive.
BuildsWithCurrentHardware ==
  \A r \in Requests :
    pc[r] \in Constructing /\ hwRead[r] # hw[want[r]] => Doomed(want[r])

RInv ==
  /\ RegistryMatchesCache
  /\ BuiltWithCurrentHardware
  /\ BuildsWithCurrentHardware

-----------------------------------------------------------------------------
(* Registry and hardware settings: the kinds of step.                       *)

Listed(m) == registry[m] # "absent"

\* With no registration under way, rows and models agree.
LEMMA AllListed ==
  ASSUME IInv, RInv, \A q \in Requests : pc[q] # "registering"
  PROVE  \A m \in Models : Listed(m) <=> cache[m] # None
BY DEF IInv, TypeOK, LockFree, RInv, RegistryMatchesCache, Listed

\* A step that neither loads nor unloads, and leaves the load under way alone.
LEMMA QuietStep ==
  ASSUME IInv, RInv, UNCHANGED <<cache, hwOf, hw, drains>>,
         \A m \in Models : Listed(m)' = Listed(m),
         \A q \in Requests :
           /\ pc'[q] \in Constructing =>
                /\ pc[q] \in Constructing
                /\ want'[q] = want[q] /\ hwRead'[q] = hwRead[q]
           /\ pc[q] = "registering" =>
                /\ pc'[q] = "registering" /\ want'[q] = want[q]
                /\ loader' = loader
  PROVE  RInv'
<1>1. RegistryMatchesCache'
  <2>1. ASSUME NEW m \in Models, ~(Listed(m) <=> cache[m] # None)
        PROVE  /\ ~LockFree' /\ want'[loader'] = m
               /\ pc'[loader'] = "registering"
    BY <2>1 DEF RInv, RegistryMatchesCache, Listed, LockFree, IInv, TypeOK
  <2>. QED BY <2>1 DEF RegistryMatchesCache, Listed
<1>2. BuiltWithCurrentHardware'
  BY DEF RInv, BuiltWithCurrentHardware, Cached
<1>3. BuildsWithCurrentHardware'
  BY DEF RInv, BuildsWithCurrentHardware, Doomed
<1>. QED BY <1>1, <1>2, <1>3 DEF RInv

\* An unload with the lock free: model, row and settings go together.
LEMMA DropStep ==
  ASSUME IInv, RInv, LockFree, NEW E \in SUBSET Models, Drop(E),
         UNCHANGED <<hw, want>>,
         \A m \in Models : Doomed(m) => Doomed(m)' \/ m \in E \/ cache[m] = None,
         \A q \in Requests :
           pc'[q] \in Constructing => hwRead'[q] = hw[want[q]]
  PROVE  RInv'
<1>1. \A q \in Requests : pc[q] # "registering"
  BY NoneAssumption DEF IInv, LoadLock, LockFree
<1>2. CacheType
  BY DEF IInv, TypeOK
<1>3. RegistryMatchesCache'
  <2>1. \A m \in Models : Listed(m)' <=> cache'[m] # None
    BY <1>1, <1>2, AllListed DEF Drop, Unregistered, Listed
  <2>. QED BY <2>1 DEF RegistryMatchesCache, Listed
<1>4. BuiltWithCurrentHardware'
  <2>1. ASSUME NEW m \in Models, cache'[m] # None, hwOf'[m] # hw'[m]
        PROVE  Doomed(m)'
    <3>1. m \notin E /\ cache[m] # None /\ hwOf[m] # hw[m]
      BY <1>2, <2>1 DEF Drop
    <3>2. Doomed(m)
      BY <3>1 DEF RInv, BuiltWithCurrentHardware, Doomed, Cached
    <3>. QED BY <3>1, <3>2
  <2>. QED BY <2>1 DEF BuiltWithCurrentHardware, Doomed, Cached
<1>5. BuildsWithCurrentHardware'
  BY DEF BuildsWithCurrentHardware
<1>. QED BY <1>3, <1>4, <1>5 DEF RInv

\* A new model: its row is under way.
LEMMA BuildDoneStep ==
  ASSUME IInv, RInv, NEW r \in Requests, BuildDone(r)
  PROVE  RInv'
<1>1. PICK m \in Models : m = want[r]
  BY DEF BuildDone, IInv, Calls
<1>2. /\ CacheType /\ CallType
      /\ pc[r] \in Constructing /\ loader = r /\ loader' = loader
      /\ pc' = [pc EXCEPT ![r] = "registering"]
      /\ UNCHANGED <<want, hw, drains, registry>>
      /\ hwRead' = [hwRead EXCEPT ![r] = 0]
      /\ hwOf' = [hwOf EXCEPT ![m] = hwRead[r]]
  BY <1>1 DEF BuildDone, configVars, IInv, TypeOK, LoadLock, Constructing
<1>3. \A n \in Models \ {m} : cache'[n] = cache[n]
  BY <1>1, <1>2 DEF BuildDone, CacheType
<1>4. RegistryMatchesCache'
  <2>1. \A q \in Requests : pc[q] # "registering"
    BY <1>2 DEF IInv, LoadLock, Constructing
  <2>2. \A n \in Models \ {m} : Listed(n)' <=> cache'[n] # None
    BY <1>2, <1>3, <2>1, AllListed DEF Listed
  <2>3. ~LockFree' /\ want'[loader'] = m /\ pc'[loader'] = "registering"
    BY <1>1, <1>2, NoneAssumption DEF LockFree, CallType
  <2>. QED BY <2>2, <2>3 DEF RegistryMatchesCache, Listed
<1>5. BuiltWithCurrentHardware'
  <2>1. ASSUME NEW n \in Models, cache'[n] # None, hwOf'[n] # hw'[n]
        PROVE  Doomed(n)
    <3>1. CASE n = m
      BY <1>1, <1>2, <2>1, <3>1 DEF RInv, BuildsWithCurrentHardware, CacheType
    <3>2. CASE n # m
      BY <1>2, <1>3, <2>1, <3>2
      DEF RInv, BuiltWithCurrentHardware, Doomed, Cached, CacheType
    <3>. QED BY <3>1, <3>2
  <2>. QED BY <1>2, <2>1 DEF BuiltWithCurrentHardware, Doomed, Cached
<1>6. BuildsWithCurrentHardware'
  BY <1>2 DEF RInv, BuildsWithCurrentHardware, Doomed, Constructing, CallType
<1>. QED BY <1>4, <1>5, <1>6 DEF RInv

\* The row is written, or the model taken back: the two agree again.
LEMMA RegisterStep ==
  ASSUME IInv, RInv, NEW r \in Requests, Register(r)
  PROVE  RInv'
<1>1. PICK m \in Models : m = want[r]
  BY DEF Register, FinishLoad, RegisterFails, IInv, Calls
<1>2. /\ CacheType /\ CallType
      /\ pc[r] = "registering" /\ loader = r /\ UNCHANGED <<hw, drains>>
      /\ cache[m] # None
  BY <1>1 DEF Register, FinishLoad, RegisterFails, configVars, IInv, TypeOK,
              LoadLock
<1>3. \A n \in Models \ {m} : Listed(n) <=> cache[n] # None
  BY <1>1, <1>2 DEF RInv, RegistryMatchesCache, Listed
<1>4. \A n \in Models : Listed(n)' <=> cache'[n] # None
  <2>1. CASE FinishLoad(r)
    BY <1>1, <1>2, <1>3, <2>1 DEF FinishLoad, Listed, CacheType
  <2>2. CASE RegisterFails(r)
    BY <1>1, <1>2, <1>3, <2>2 DEF RegisterFails, Unregistered, Listed, CacheType
  <2>. QED BY <2>1, <2>2 DEF Register
<1>5. \A n \in Models :
        cache'[n] # None => cache[n] # None /\ hwOf'[n] = hwOf[n]
  BY <1>1, <1>2 DEF Register, FinishLoad, RegisterFails, CacheType
<1>6. \A q \in Requests : pc'[q] \notin Constructing
  <2>1. pc'[r] \notin Constructing
    BY <1>2 DEF Register, FinishLoad, RegisterFails, Return, CallType,
                Constructing
  <2>2. ASSUME NEW q \in Requests, q # r PROVE pc'[q] = pc[q]
    BY ZenonT(40), <1>2, <2>2 DEF Register, FinishLoad, RegisterFails, Return, CallType
  <2>3. \A q \in Requests : q # r => pc[q] \notin Constructing
    BY <1>2 DEF IInv, LoadLock, Constructing
  <2>. QED BY <2>1, <2>2, <2>3
<1>7. RegistryMatchesCache'
  BY <1>4 DEF RegistryMatchesCache, Listed
<1>8. BuiltWithCurrentHardware'
  BY <1>2, <1>5 DEF RInv, BuiltWithCurrentHardware, Cached
<1>9. BuildsWithCurrentHardware'
  BY <1>6 DEF BuildsWithCurrentHardware
<1>. QED BY <1>7, <1>8, <1>9 DEF RInv

\* Marking a model used adds and removes no row.
LEMMA TouchedListed ==
  ASSUME CacheType, NEW n, registry' = Touched(n)
  PROVE  \A m \in Models : Listed(m)' = Listed(m)
BY DEF CacheType, Touched, Listed

\* The steps of calls that neither build nor register.
LEMMA CallStep ==
  ASSUME IInv, RInv, NEW r \in Requests,
         \/ Call(r) \/ Convert(r) \/ FoundUnderLock(r) \/ Cancel(r)
         \/ PrimaryBuildFails(r) \/ BuildFails(r)
         \/ ResolveSuppressChars(r) \/ Release(r)
  PROVE  RInv'
<1>1. CacheType /\ CallType /\ Calls /\ LoadLock
  BY DEF IInv, TypeOK
<1>2. ASSUME UNCHANGED <<cache, hwOf, hw, drains>>,
             registry' = registry \/ \E n \in Models : registry' = Touched(n),
             \A q \in Requests : q # r =>
               pc'[q] = pc[q] /\ want'[q] = want[q] /\ hwRead'[q] = hwRead[q],
             pc[r] = "registering" =>
               pc'[r] = "registering" /\ want'[r] = want[r],
             pc'[r] \in Constructing =>
               /\ pc[r] \in Constructing
               /\ want'[r] = want[r] /\ hwRead'[r] = hwRead[r],
             pc[r] \notin Constructing => loader' = loader
      PROVE  RInv'
  <2>1. \A m \in Models : Listed(m)' = Listed(m)
    BY <1>1, <1>2, TouchedListed DEF Listed
  <2>2. \A q \in Requests : pc[q] = "registering" => loader' = loader
    BY <1>1, <1>2 DEF LoadLock, Constructing
  <2>. QED BY <1>2, <2>1, <2>2, QuietStep
<1>3. CASE Call(r)
  <2>1. ASSUME NEW m \in Models, NEW l \in BOOLEAN, Miss(r, m, l)
        PROVE  RInv'
    BY <1>1, <1>2, <2>1 DEF Miss, cacheVars, configVars, CallType, Constructing
  <2>2. ASSUME NEW m \in Models, NEW l \in BOOLEAN, Hit(r, m, l)
        PROVE  RInv'
    BY <1>1, <1>2, <2>2 DEF Hit, configVars, CallType, Constructing
  <2>. QED BY <1>3, <2>1, <2>2 DEF Call
<1>4. CASE Return({r}) /\ UNCHANGED <<cache, hwOf, hw, drains>>
             /\ (registry' = registry \/ \E n \in Models : registry' = Touched(n))
             /\ pc[r] # "registering"
             /\ (pc[r] \notin Constructing => loader' = loader)
  BY <1>1, <1>2, <1>4 DEF Return, Constructing
<1>5. CASE Convert(r)
  BY <1>1, <1>2, <1>4, <1>5
  DEF Convert, Converted, NothingToConvert, ConversionFails, cacheVars,
      configVars, CallType, Constructing
<1>6. CASE FoundUnderLock(r)
  <2>1. want[r] \in Models
    BY <1>1, <1>6 DEF FoundUnderLock, Calls
  <2>. QED BY <1>1, <1>2, <1>4, <1>6, <2>1
       DEF FoundUnderLock, configVars, CallType, Constructing
<1>7. CASE Cancel(r)
  BY <1>1, <1>2, <1>4, <1>7
  DEF Cancel, CancelWait, LatchCancel, cacheVars, configVars, Constructing
<1>8. CASE PrimaryBuildFails(r) \/ BuildFails(r)
  BY <1>1, <1>2, <1>4, <1>8
  DEF PrimaryBuildFails, BuildFails, cacheVars, configVars, CallType,
      Constructing
<1>9. CASE ResolveSuppressChars(r)
  BY <1>1, <1>2, <1>9 DEF ResolveSuppressChars, callVars, configVars
<1>10. CASE Release(r)
  <2>1. want[r] \in Models
    BY <1>1, <1>10 DEF Release, Calls
  <2>. QED BY <1>1, <1>4, <1>10, <2>1 DEF Release, ReleaseLease, configVars
<1>. QED BY <1>3, <1>5, <1>6, <1>7, <1>8, <1>9, <1>10

\* The end of a shared download, or its refusal.
LEMMA FetchStep ==
  ASSUME IInv, RInv, NEW s \in Snapshots, Prefetch(s)
  PROVE  RInv'
<1>1. \A q \in Waiters(s) : pc[q] = "fetching"
  BY DEF Waiters
<1>2. /\ UNCHANGED <<cache, hwOf, hw, drains, registry, loader>>
      /\ \A q \in Requests :
           \/ pc'[q] = pc[q] /\ want'[q] = want[q] /\ hwRead'[q] = hwRead[q]
           \/ pc[q] = "fetching" /\ pc'[q] \in {"queued", "idle"}
  BY <1>1 DEF Prefetch, PrefetchEnds, PrefetchRefused, Return, cacheVars,
              configVars
<1>. QED BY <1>2, QuietStep DEF Listed, Constructing

\* Every eviction, and the room a load makes.
LEMMA EvictStep ==
  ASSUME IInv, RInv,
         \/ \E r \in Requests : BeginBuild(r)
         \/ \E m \in Models : Evict(m)
         \/ ScheduledTrim \/ TrimToCap
         \/ \E warm \in SUBSET Models : IdleSweep(warm)
         \/ \E S \in EditScopes : DrainThenEvict(S)
  PROVE  RInv'
<1>1. CacheType /\ CallType /\ LockFree
  BY DEF IInv, TypeOK, BeginBuild, Evict, ScheduledTrim, TrimToCap, IdleSweep,
         DrainThenEvict
<1>2. \A q \in Requests : pc[q] \notin Constructing
  BY <1>1, NoneAssumption DEF IInv, LoadLock, LockFree, Constructing
<1>3. ASSUME NEW r \in Requests, BeginBuild(r) PROVE RInv'
  <2>1. /\ \E E \in SUBSET Models : Drop(E)
        /\ UNCHANGED <<hw, want, drains>>
        /\ hwRead' = [hwRead EXCEPT ![r] = hw[want[r]]]
        /\ pc' = [pc EXCEPT ![r] = "building"]
    BY <1>3 DEF BeginBuild, configVars
  <2>2. \A q \in Requests :
          pc'[q] \in Constructing => hwRead'[q] = hw[want[q]]
    BY <1>1, <1>2, <2>1 DEF CallType
  <2>. QED BY <1>1, <2>1, <2>2, DropStep DEF Doomed
<1>4. ASSUME UNCHANGED callVars, UNCHANGED <<hw, drains>>,
             \E E \in SUBSET Models : Drop(E)
      PROVE  RInv'
  BY <1>1, <1>2, <1>4, DropStep DEF callVars, Doomed
<1>5. ASSUME NEW m \in Models, Evict(m) PROVE RInv'
  BY <1>4, <1>5 DEF Evict, configVars
<1>6. CASE ScheduledTrim \/ TrimToCap
  BY <1>4, <1>6 DEF ScheduledTrim, TrimToCap, configVars
<1>7. ASSUME NEW warm \in SUBSET Models, IdleSweep(warm) PROVE RInv'
  <2>1. {m \in (stale \cap Unleased) \ warm : registry[m] # "fresh"}
          \in SUBSET Models
    BY DEF Unleased, Cached
  <2>. QED BY <1>4, <1>7, <2>1 DEF IdleSweep, configVars
<1>8. ASSUME NEW S \in EditScopes, DrainThenEvict(S) PROVE RInv'
  <2>1. S \cap Cached \in SUBSET Models
    BY DEF Cached
  <2>2. /\ Drop(S \cap Cached) /\ drains' = drains \ {S}
        /\ UNCHANGED <<hw, want, pc>>
    BY <1>8 DEF DrainThenEvict, callVars
  <2>3. ASSUME NEW m \in Models, Doomed(m)
        PROVE  Doomed(m)' \/ m \in S \cap Cached \/ cache[m] = None
    BY <2>2, <2>3 DEF Doomed, Cached
  <2>. QED BY <1>1, <1>2, <2>1, <2>2, <2>3, DropStep
<1>. QED BY <1>3, <1>5, <1>6, <1>7, <1>8

\* Edits and the passing of time: an edit dooms the models it is about.
LEMMA EditStep ==
  ASSUME IInv, RInv,
         \/ Edit
         \/ \E m \in Models : Age(m)
         \/ \E warm \in SUBSET Models : IdleScan(warm)
  PROVE  RInv'
<1>1. /\ CacheType /\ UNCHANGED <<cache, hwOf, callVars, loader>>
      /\ \A m \in Models : Listed(m)' = Listed(m)
  BY DEF Edit, EditLoadSettings, EditCap, Age, IdleScan, cacheVars, Listed,
         IInv, TypeOK, CacheType
<1>2. CASE UNCHANGED <<hw, drains>>
  BY <1>1, <1>2, QuietStep DEF callVars
<1>3. ASSUME NEW S \in EditScopes, EditLoadSettings(S) PROVE RInv'
  <2>1. /\ UNCHANGED registry /\ drains' = drains \cup {S}
        /\ hw' = hw \/ hw' = [m \in Models |-> IF m \in S THEN hw[m] + 1 ELSE hw[m]]
    BY <1>3 DEF EditLoadSettings, cacheVars
  <2>2. \A m \in Models : Doomed(m)' \/ (~Doomed(m) /\ hw'[m] = hw[m])
    BY <2>1 DEF Doomed
  <2>3. RegistryMatchesCache'
    BY <1>1, <2>1 DEF RInv, RegistryMatchesCache, LockFree, callVars
  <2>4. BuiltWithCurrentHardware'
    BY <1>1, <2>2 DEF RInv, BuiltWithCurrentHardware, Doomed, Cached
  <2>5. BuildsWithCurrentHardware'
    <3>1. ASSUME NEW r \in Requests, pc[r] \in Constructing
          PROVE  want[r] \in Models
      BY <3>1 DEF IInv, Calls, Constructing
    <3>. QED BY <1>1, <2>2, <3>1
         DEF RInv, BuildsWithCurrentHardware, Doomed, callVars
  <2>. QED BY <2>3, <2>4, <2>5 DEF RInv
<1>4. ASSUME \/ \E c \in Caps : EditCap(c)
             \/ \E m \in Models : Age(m)
             \/ \E warm \in SUBSET Models : IdleScan(warm)
      PROVE  UNCHANGED <<hw, drains>>
  BY <1>4 DEF EditCap, Age, IdleScan, configVars
<1>. QED BY <1>2, <1>3, <1>4 DEF Edit

\* Registry rows and hardware settings through any step.
LEMMA StepResident ==
  ASSUME IInv, RInv, [Next]_vars
  PROVE  RInv'
<1>1. ASSUME NEW r \in Requests,
             Call(r) \/ Convert(r) \/ TakeLock(r) \/ Build(r) \/ Register(r)
               \/ ResolveSuppressChars(r) \/ Release(r) \/ Cancel(r)
      PROVE  RInv'
  BY <1>1, CallStep, EvictStep, BuildDoneStep, RegisterStep DEF TakeLock, Build
<1>2. ASSUME \/ \E m \in Models : Evict(m) \/ Age(m)
             \/ \E S \in EditScopes : DrainThenEvict(S)
             \/ ScheduledTrim \/ TrimToCap \/ Idle \/ Edit
      PROVE  RInv'
  BY <1>2, EvictStep, EditStep DEF Idle
<1>3. CASE UNCHANGED vars
  <2>1. UNCHANGED <<cache, hwOf, hw, drains, registry, pc, want, hwRead, loader>>
    BY <1>3 DEF vars, cacheVars, callVars, configVars
  <2>. QED BY <2>1, QuietStep DEF Listed
<1>. QED BY <1>1, <1>2, <1>3, FetchStep DEF Next

-----------------------------------------------------------------------------
(* Downloads.                                                               *)

\* Whoever waits for a snapshot waits for one that is on its way.
LEMMA StepWaiters ==
  ASSUME IInv, WaitersHaveDownload, [Next]_vars
  PROVE  WaitersHaveDownload'
<1>1. CallType
  BY DEF IInv, TypeOK
<1>2. ASSUME NEW r \in Requests,
             \A q \in Requests : q # r =>
               pc'[q] = pc[q] /\ want'[q] = want[q] /\ srcRead'[q] = srcRead[q],
             prefetch \subseteq prefetch',
             pc'[r] = "fetching" => <<want'[r], srcRead'[r]>> \in prefetch'
      PROVE  WaitersHaveDownload'
  BY <1>2 DEF WaitersHaveDownload
<1>3. ASSUME NEW r \in Requests,
             \/ \E m \in Models, l \in BOOLEAN : Miss(r, m, l)
             \/ NothingToConvert(r)
      PROVE  WaitersHaveDownload'
  <2>1. ASSUME NEW m \in Models, NEW l \in BOOLEAN, Miss(r, m, l)
        PROVE  WaitersHaveDownload'
    BY <1>1, <1>2, <2>1 DEF Miss, CallType
  <2>2. CASE NothingToConvert(r)
    BY <1>1, <1>2, <2>2 DEF NothingToConvert, CallType
  <2>. QED BY <1>3, <2>1, <2>2
<1>4. ASSUME NEW r \in Requests,
             \/ ConversionFails(r) \/ CancelWait(r) \/ BuildFails(r)
             \/ RegisterFails(r) \/ Release(r)
             \/ FinishLoad(r) /\ Return({r})
             \/ FoundUnderLock(r) /\ Return({r})
      PROVE  WaitersHaveDownload'
  <2>1. Return({r}) /\ UNCHANGED prefetch
    BY <1>4 DEF ConversionFails, CancelWait, BuildFails, RegisterFails, Release,
                FinishLoad, FoundUnderLock
  <2>. QED BY <1>2, <2>1 DEF Return
<1>5. ASSUME NEW r \in Requests, UNCHANGED <<prefetch, want>>,
             \A q \in Requests : q # r =>
               pc'[q] = pc[q] /\ srcRead'[q] = srcRead[q],
             pc'[r] # "fetching"
      PROVE  WaitersHaveDownload'
  BY <1>2, <1>5
<1>6. ASSUME NEW r \in Requests,
             \/ Converted(r) \/ BeginBuild(r) \/ PrimaryBuildFails(r)
             \/ BuildDone(r)
      PROVE  WaitersHaveDownload'
  BY <1>1, <1>5, <1>6
  DEF Converted, BeginBuild, PrimaryBuildFails, BuildDone, CallType
<1>7. ASSUME NEW r \in Requests, FoundUnderLock(r) \/ FinishLoad(r)
      PROVE  WaitersHaveDownload'
  BY <1>1, <1>4, <1>5, <1>7 DEF FoundUnderLock, FinishLoad, CallType
<1>8. ASSUME NEW r \in Requests, NEW m \in Models, NEW l \in BOOLEAN,
             Hit(r, m, l)
      PROVE  WaitersHaveDownload'
  BY <1>1, <1>2, <1>8 DEF Hit, CallType, WaitersHaveDownload
<1>9. CASE UNCHANGED <<pc, want, srcRead, prefetch>>
  BY <1>9 DEF WaitersHaveDownload
<1>10. ASSUME NEW r \in Requests, LatchCancel(r) \/ ResolveSuppressChars(r)
       PROVE  WaitersHaveDownload'
  BY <1>9, <1>10 DEF LatchCancel, ResolveSuppressChars, callVars
<1>11. CASE \/ \E m \in Models : Evict(m) \/ Age(m)
            \/ \E S \in EditScopes : DrainThenEvict(S)
            \/ ScheduledTrim \/ TrimToCap \/ Idle \/ Edit
  BY <1>9, <1>11
  DEF Evict, Age, DrainThenEvict, ScheduledTrim, TrimToCap, Idle, IdleScan,
      IdleSweep, Edit, EditLoadSettings, EditCap, callVars
<1>12. ASSUME NEW s \in Snapshots, Prefetch(s) PROVE WaitersHaveDownload'
  <2>1. ASSUME NEW q \in Requests, pc'[q] = "fetching"
        PROVE  /\ pc[q] = "fetching" /\ q \notin Waiters(s)
               /\ want'[q] = want[q] /\ srcRead'[q] = srcRead[q]
    BY <1>12, <2>1 DEF Prefetch, PrefetchEnds, PrefetchRefused, Return
  <2>2. prefetch' = prefetch \ {s}
    BY <1>12 DEF Prefetch, PrefetchEnds, PrefetchRefused
  <2>. QED BY <2>1, <2>2 DEF WaitersHaveDownload, Waiters
<1>13. CASE UNCHANGED vars
  BY <1>9, <1>13 DEF vars, callVars
<1>14. ASSUME NEW r \in Requests,
              Call(r) \/ Convert(r) \/ TakeLock(r) \/ Build(r) \/ Register(r)
                \/ ResolveSuppressChars(r) \/ Release(r) \/ Cancel(r)
       PROVE  WaitersHaveDownload'
  BY <1>3, <1>4, <1>6, <1>7, <1>8, <1>10, <1>14
  DEF Call, Convert, TakeLock, Build, Register, Cancel
<1>. QED BY <1>11, <1>12, <1>13, <1>14 DEF Next

-----------------------------------------------------------------------------
(* The cap.                                                                 *)

\* Sets of models can be counted.
LEMMA ModelsFinite ==
  ASSUME NEW S \in SUBSET Models, NEW T \in SUBSET S
  PROVE  /\ IsFiniteSet(S) /\ IsFiniteSet(T)
         /\ Cardinality(S) \in Nat /\ Cardinality(T) \in Nat
         /\ Cardinality(T) <= Cardinality(S)
<1>1. IsFiniteSet(S) /\ IsFiniteSet(T)
  BY FiniteAssumption, FS_Subset
<1>. QED BY <1>1, FS_Subset, FS_CardinalityType

\* The loops that make room stop at the size, or when only the spared model
\* could still go.
LEMMA OverflowReclaimed ==
  ASSUME TypeOK, NEW E \in SUBSET Models, NEW keep, NEW size \in Nat,
         IsOverflow(E, keep, size)
  PROVE  Cardinality(Cached \ E) <= size \/ Unleased \ E \subseteq {keep}
<1>. DEFINE candidates == Unleased \ {keep}
<1>1. /\ Cached \in SUBSET Models /\ candidates \in SUBSET Cached
      /\ E \in SUBSET candidates
  BY DEF Cached, Unleased, IsOverflow
<1>2. /\ IsFiniteSet(Cached) /\ IsFiniteSet(candidates) /\ IsFiniteSet(E)
      /\ Cardinality(Cached) \in Nat /\ Cardinality(candidates) \in Nat
      /\ Cardinality(E) \in Nat
  BY <1>1, ModelsFinite
<1>3. Cardinality(Cached \ E) = Cardinality(Cached) - Cardinality(E)
  <2>1. Cached \cap E = E
    BY <1>1
  <2>. QED BY <1>2, <2>1, FS_Difference
<1>4. CASE E = candidates
  BY <1>4
<1>5. CASE E # candidates
  <2>1. Cardinality(E) # Cardinality(candidates)
    BY <1>1, <1>2, <1>5, FS_Subset
  <2>2. Cardinality(E) = IF Cardinality(Cached) > size
                           THEN Cardinality(Cached) - size ELSE 0
    BY <2>1 DEF IsOverflow
  <2>. QED BY <1>2, <1>3, <2>2
<1>. QED BY <1>4, <1>5

\* A step with which neither the models nor the unleased ones grow in number.
LEMMA OverflowKept ==
  ASSUME TypeOK, OverflowOnlyInUse, UNCHANGED cap,
         trimPending => trimPending', capTrim => capTrim',
         Cached' \subseteq Cached, Unleased' \subseteq Unleased
  PROVE  OverflowOnlyInUse'
<1>1. Cached \in SUBSET Models /\ Unleased \in SUBSET Models
  BY DEF Cached, Unleased
<1>2. /\ Cardinality(Cached') <= Cardinality(Cached)
      /\ Cardinality(Unleased') <= Cardinality(Unleased)
      /\ {Cardinality(Cached), Cardinality(Cached'), Cardinality(Unleased),
          Cardinality(Unleased'), cap} \subseteq Nat
  BY <1>1, ModelsFinite, CapsAssumption DEF TypeOK, ConfigType
<1>. QED BY <1>2 DEF OverflowOnlyInUse

\* What an unload leaves.
LEMMA Dropped ==
  ASSUME TypeOK, NEW E \in SUBSET Models, Drop(E)
  PROVE  /\ Cached' = Cached \ E
         /\ E \subseteq Cached => Unleased' = Unleased \ E
BY DEF Drop, Cached, Unleased, TypeOK, CacheType

\* A last release schedules the trim that its model's excess may need.
LEMMA OverflowReleased ==
  ASSUME TypeOK, OverflowOnlyInUse, NEW m \in Models, DropLease(m),
         UNCHANGED <<cache, cap, capTrim>>
  PROVE  OverflowOnlyInUse'
<1>1. Cached' = Cached /\ leases' = [leases EXCEPT ![m] = @ - 1]
  BY DEF Cached, DropLease
<1>2. CASE leases[m] > 1
  <2>1. Unleased' \subseteq Unleased
    BY <1>1, <1>2 DEF Unleased, TypeOK, CacheType
  <2>2. UNCHANGED trimVars
    BY <1>2 DEF DropLease, TypeOK, CacheType
  <2>. QED BY <1>1, <2>1, <2>2, OverflowKept DEF trimVars
<1>3. CASE ScheduleTrim(m, Cardinality(Cached))
  BY <1>1, <1>3 DEF ScheduleTrim, OverflowOnlyInUse
<1>. QED BY <1>2, <1>3 DEF DropLease, TypeOK, CacheType

\* A new model over the cap schedules one too.
LEMMA OverflowBuilt ==
  ASSUME TypeOK, NEW r \in Requests, want[r] \in Models, BuildDone(r)
  PROVE  OverflowOnlyInUse'
<1>. DEFINE m == want[r]
            k == Cardinality(Cached) + 1
<1>1. Cached \in SUBSET Models /\ cap \in Nat /\ cap' = cap
  BY CapsAssumption DEF Cached, BuildDone, configVars, TypeOK, ConfigType
<1>2. Cached' = Cached \cup {m}
  BY DEF BuildDone, Cached, Instances, None, TypeOK, CacheType
<1>3. Cardinality(Cached') <= k /\ Cardinality(Cached') \in Nat /\ k \in Nat
  <2>1. IsFiniteSet(Cached) /\ Cardinality(Cached) \in Nat
    BY <1>1, ModelsFinite, FS_Subset, FS_CardinalityType
  <2>2. Cardinality(Cached \cup {m}) =
          IF m \in Cached THEN Cardinality(Cached) ELSE Cardinality(Cached) + 1
    BY <2>1, FS_AddElement
  <2>3. k \in Nat /\ Cardinality(Cached \cup {m}) \in {k - 1, k}
    BY <2>1, <2>2
  <2>. HIDE DEF k, m
  <2>4. Cardinality(Cached') = Cardinality(Cached \cup {m})
    BY <1>2
  <2>5. Cardinality(Cached') \in {k - 1, k} /\ Cardinality(Cached') \in Nat
    <3>1. Cardinality(Cached \cup {m}) \in Nat
      BY <2>1, FS_AddElement, FS_CardinalityType
    <3>. QED BY <2>3, <2>4, <3>1
  <2>. QED BY <2>3, <2>5
<1>4. k <= cap \/ trimPending'
  BY DEF BuildDone, ScheduleTrim
<1>. QED BY <1>1, <1>3, <1>4 DEF OverflowOnlyInUse

\* A trim, or the room made for a build, leaves no excess that could go.
LEMMA OverflowTrimmed ==
  ASSUME TypeOK, NEW E \in SUBSET Models, NEW keep, NEW size \in Nat,
         size <= cap, UNCHANGED cap, IsOverflow(E, keep, size), Drop(E)
  PROVE  OverflowOnlyInUse'
<1>1. /\ Cached \in SUBSET Models /\ Unleased \in SUBSET Models
      /\ E \subseteq Cached
  BY DEF Cached, Unleased, IsOverflow
<1>2. Cached' = Cached \ E /\ Unleased' = Unleased \ E
  BY <1>1, Dropped
<1>3. cap \in Nat /\ Cardinality(Cached') \in Nat
  BY <1>1, <1>2, ModelsFinite, CapsAssumption DEF TypeOK, ConfigType
<1>4. CASE Cardinality(Cached \ E) <= size
  BY <1>2, <1>3, <1>4 DEF OverflowOnlyInUse
<1>5. CASE Unleased \ E \subseteq {keep}
  <2>1. IsFiniteSet({keep}) /\ Cardinality({keep}) = 1
    BY FS_Singleton
  <2>2. Cardinality(Unleased \ E) <= 1
    BY <1>5, <2>1, FS_Subset
  <2>. QED BY <1>2, <2>2 DEF OverflowOnlyInUse
<1>. QED BY <1>4, <1>5, OverflowReclaimed

\* The steps of calls.
LEMMA OverflowCalls ==
  ASSUME IInv, OverflowOnlyInUse, NEW r \in Requests,
         Call(r) \/ Convert(r) \/ TakeLock(r) \/ Build(r) \/ Register(r)
           \/ ResolveSuppressChars(r) \/ Release(r) \/ Cancel(r)
  PROVE  OverflowOnlyInUse'
<1>1. TypeOK /\ CacheType /\ Calls
  BY DEF IInv, TypeOK
<1>2. ASSUME UNCHANGED <<cache, cap, capTrim, trimPending>>,
             leases' = leases \/
               \E m \in Models : leases' = [leases EXCEPT ![m] = @ + 1]
      PROVE  OverflowOnlyInUse'
  <2>1. Cached' = Cached
    BY <1>2 DEF Cached
  <2>2. ASSUME NEW n \in Models, leases'[n] = 0
        PROVE  leases[n] = 0
    <3>1. CASE leases' = leases
      BY <2>2, <3>1
    <3>2. CASE \E m \in Models : leases' = [leases EXCEPT ![m] = @ + 1]
      <4>1. PICK m \in Models : leases' = [leases EXCEPT ![m] = @ + 1]
        BY <3>2
      <4>2. leases \in [Models -> Nat]
        BY <1>1 DEF CacheType
      <4>. QED BY <2>2, <4>1, <4>2
    <3>. QED BY <1>2, <3>1, <3>2
  <2>3. Cached \subseteq Models
    BY DEF Cached
  <2>4. Unleased' \subseteq Unleased
    BY <2>1, <2>2, <2>3 DEF Unleased
  <2>. QED BY <1>1, <1>2, <2>1, <2>4, OverflowKept
<1>3. CASE Call(r) \/ Convert(r) \/ Cancel(r) \/ PrimaryBuildFails(r)
             \/ BuildFails(r) \/ ResolveSuppressChars(r)
  BY <1>2, <1>3
  DEF Call, Hit, Miss, TakeLease, Convert, Converted, NothingToConvert,
      ConversionFails, Cancel, CancelWait, LatchCancel, PrimaryBuildFails,
      BuildFails, ResolveSuppressChars, cacheVars, trimVars, configVars
<1>4. CASE FoundUnderLock(r)
  <2>1. want[r] \in Models
    BY <1>1, <1>4 DEF FoundUnderLock, Calls
  <2>. QED BY <1>2, <1>4, <2>1
       DEF FoundUnderLock, TakeLease, trimVars, configVars
<1>5. CASE BeginBuild(r)
  <2>1. cap - 1 \in Nat /\ cap - 1 <= cap /\ UNCHANGED cap
    BY <1>1, <1>5, CapsAssumption DEF BeginBuild, configVars, TypeOK, ConfigType
  <2>2. PICK E \in SUBSET Models : IsOverflow(E, NoModel, cap - 1) /\ Drop(E)
    BY <1>5 DEF BeginBuild
  <2>. QED BY <1>1, <2>1, <2>2, OverflowTrimmed
<1>6. CASE BuildDone(r)
  <2>1. want[r] \in Models
    BY <1>1, <1>6 DEF BuildDone, Calls
  <2>. QED BY <1>1, <1>6, <2>1, OverflowBuilt
<1>7. CASE FinishLoad(r)
  <2>1. want[r] \in Models /\ UNCHANGED <<cache, cap, capTrim>>
    BY <1>1, <1>7 DEF FinishLoad, Calls, configVars
  <2>2. CASE DropLease(want[r])
    BY <1>1, <2>1, <2>2, OverflowReleased
  <2>3. CASE UNCHANGED <<leases, trimVars>>
    BY <1>2, <2>1, <2>3 DEF trimVars
  <2>. QED BY <1>7, <2>2, <2>3 DEF FinishLoad
<1>8. CASE RegisterFails(r)
  <2>1. Cached' \subseteq Cached /\ Unleased' \subseteq Unleased
    BY <1>1, <1>8 DEF RegisterFails, Cached, Unleased, CacheType
  <2>2. trimPending => trimPending'
    BY <1>8 DEF RegisterFails, ScheduleTrim, trimVars
  <2>3. UNCHANGED <<cap, capTrim>>
    BY <1>8 DEF RegisterFails, configVars
  <2>. QED BY <1>1, <2>1, <2>2, <2>3, OverflowKept
<1>9. CASE Release(r)
  <2>1. want[r] \in Models /\ UNCHANGED <<cache, cap, capTrim>>
    BY <1>1, <1>9 DEF Release, ReleaseLease, Calls, configVars
  <2>2. CASE DropLease(want[r])
    BY <1>1, <2>1, <2>2, OverflowReleased
  <2>3. CASE UNCHANGED <<leases, trimVars>>
    BY <1>2, <2>1, <2>3 DEF trimVars
  <2>. QED BY <1>9, <2>2, <2>3 DEF Release, ReleaseLease
<1>. QED BY <1>3, <1>4, <1>5, <1>6, <1>7, <1>8, <1>9
     DEF TakeLock, Build, Register

\* The other steps.
LEMMA StepOverflow ==
  ASSUME IInv, OverflowOnlyInUse, [Next]_vars
  PROVE  OverflowOnlyInUse'
<1>1. TypeOK /\ cap \in Nat
  BY CapsAssumption DEF IInv, TypeOK, ConfigType
<1>2. CASE UNCHANGED <<cache, leases, cap, capTrim, trimPending>>
  BY <1>2 DEF OverflowOnlyInUse, Cached, Unleased
<1>3. ASSUME NEW E \in SUBSET Models, E \subseteq Cached, Drop(E),
             UNCHANGED <<cap, capTrim, trimPending>>
      PROVE  OverflowOnlyInUse'
  BY <1>1, <1>3, Dropped, OverflowKept
<1>4. ASSUME NEW m \in Models, Evict(m) \/ Age(m) PROVE OverflowOnlyInUse'
  <2>1. CASE Evict(m)
    BY <1>3, <2>1 DEF Evict, Unleased, trimVars, configVars
  <2>2. CASE Age(m)
    BY <1>2, <2>2 DEF Age, trimVars, configVars
  <2>. QED BY <1>4, <2>1, <2>2
<1>5. CASE ScheduledTrim
  <2>1. PICK E \in SUBSET Models : IsOverflow(E, trimKeep, cap) /\ Drop(E)
    BY <1>5 DEF ScheduledTrim
  <2>. QED BY <1>1, <1>5, <2>1, OverflowTrimmed DEF ScheduledTrim, configVars
<1>6. CASE TrimToCap
  <2>1. PICK E \in SUBSET Models : IsOverflow(E, NoModel, cap) /\ Drop(E)
    BY <1>6 DEF TrimToCap
  <2>. QED BY <1>1, <1>6, <2>1, OverflowTrimmed DEF TrimToCap
<1>7. CASE Idle
  <2>1. ASSUME NEW warm \in SUBSET Models, IdleSweep(warm)
        PROVE  OverflowOnlyInUse'
    <3>. DEFINE E == {m \in (stale \cap Unleased) \ warm : registry[m] # "fresh"}
    <3>1. E \in SUBSET Models /\ E \subseteq Cached
      BY DEF Unleased, Cached
    <3>. QED BY <1>3, <2>1, <3>1 DEF IdleSweep, trimVars, configVars
  <2>2. ASSUME NEW warm \in SUBSET Models, IdleScan(warm)
        PROVE  OverflowOnlyInUse'
    BY <1>2, <2>2 DEF IdleScan, cacheVars, trimVars, configVars
  <2>. QED BY <1>7, <2>1, <2>2 DEF Idle
<1>8. CASE Edit
  <2>1. ASSUME NEW S \in EditScopes, EditLoadSettings(S)
        PROVE  OverflowOnlyInUse'
    BY <1>2, <2>1 DEF EditLoadSettings, cacheVars, trimVars
  <2>2. ASSUME NEW c \in Caps, EditCap(c) PROVE OverflowOnlyInUse'
    BY <2>2 DEF EditCap, OverflowOnlyInUse
  <2>. QED BY <1>8, <2>1, <2>2 DEF Edit
<1>9. ASSUME NEW S \in EditScopes, DrainThenEvict(S) PROVE OverflowOnlyInUse'
  <2>1. S \cap Cached \in SUBSET Models /\ S \cap Cached \subseteq Cached
    BY DEF Cached
  <2>. QED BY <1>3, <1>9, <2>1 DEF DrainThenEvict, trimVars
<1>10. ASSUME NEW s \in Snapshots, Prefetch(s) PROVE OverflowOnlyInUse'
  BY <1>2, <1>10
  DEF Prefetch, PrefetchEnds, PrefetchRefused, cacheVars, trimVars, configVars
<1>11. CASE UNCHANGED vars
  BY <1>2, <1>11 DEF vars, cacheVars, trimVars, configVars
<1>. QED BY <1>4, <1>5, <1>6, <1>7, <1>8, <1>9, <1>10, <1>11, OverflowCalls
     DEF Next

-----------------------------------------------------------------------------
(* Theorems.                                                                *)

\* What the two theorems below need to know of builds under way.
LEMMA ResidentInvariant == Spec => []RInv
<1>1. Init => RInv
  <2>1. Init => RegistryMatchesCache
    BY DEF Init, RegistryMatchesCache
  <2>2. Init => BuiltWithCurrentHardware /\ BuildsWithCurrentHardware
    BY DEF Init, BuiltWithCurrentHardware, BuildsWithCurrentHardware, Cached,
           Constructing
  <2>. QED BY <2>1, <2>2 DEF RInv
<1>2. IInv /\ RInv /\ [Next]_vars => RInv'
  BY StepResident
<1>. QED BY <1>1, <1>2, Inductive, PTL DEF Spec

\* The registry names exactly the cached models, but for the one whose row is
\* being written (register_through_latch, unregister_loaded_model).
THEOREM RegistryCorrect == Spec => []RegistryMatchesCache
<1>1. RInv => RegistryMatchesCache
  BY DEF RInv
<1>. QED BY <1>1, ResidentInvariant, PTL

\* No model built from old hardware settings stays: a load reads them under the
\* lock that drain_then_evict takes (_load_on_miss).
THEOREM HardwareCorrect == Spec => []BuiltWithCurrentHardware
<1>1. RInv => BuiltWithCurrentHardware
  BY DEF RInv
<1>. QED BY <1>1, ResidentInvariant, PTL

\* Nobody waits for a download that is not there (_hub_prefetches).
THEOREM WaitersCorrect == Spec => []WaitersHaveDownload
<1>1. Init => WaitersHaveDownload
  BY DEF Init, WaitersHaveDownload
<1>2. IInv /\ WaitersHaveDownload /\ [Next]_vars => WaitersHaveDownload'
  BY StepWaiters
<1>. QED BY <1>1, <1>2, Inductive, PTL DEF Spec

\* The excess over the cap is in use, all but one model, or about to be trimmed
\* (_schedule_trim_to_cap, _evict_over_cap), for any cap and any edits of it.
THEOREM OverflowCorrect == Spec => []OverflowOnlyInUse
<1>1. Init => OverflowOnlyInUse
  <2>1. Init => Unleased = {}
    BY DEF Init, Unleased, Cached
  <2>. QED BY <2>1, FS_EmptySet DEF OverflowOnlyInUse
<1>2. IInv /\ OverflowOnlyInUse /\ [Next]_vars => OverflowOnlyInUse'
  BY StepOverflow
<1>. QED BY <1>1, <1>2, Inductive, PTL DEF Spec

-----------------------------------------------------------------------------
(* WhisperCache implements ModelPool.                                       *)


\* An instance is of one model, in the cache and in the hands of its holders.
Identities ==
  /\ \A m, n \in Models : cache[m] = cache[n] => m = n \/ cache[m] = None
  /\ \A r \in Requests, m \in Models :
       held[r] = cache[m] => want[r] = m \/ held[r] = None

PInv == IInv /\ Identities

\* The pool's variables.
UsersOf(i) == {r \in Requests : held[r] = i}
Users == [i \in Instances |-> UsersOf(i)]
Unconfirmed == {want[r] : r \in {q \in Requests : pc[q] = "registering"}}
Revoked == UNION drains

-----------------------------------------------------------------------------
(* An instance keeps to its model.                                          *)

\* Every call ends up in the cache's hands as it was, or is no longer in any.
LEMMA IdentitiesKept ==
  ASSUME Identities, CacheType,
         \A m \in Models : cache'[m] \in {cache[m], None},
         \A r \in Requests :
           \/ held'[r] = None
           \/ held'[r] = held[r] /\ want'[r] = want[r]
  PROVE  Identities'
<1>1. ASSUME NEW m \in Models, NEW n \in Models, cache'[m] = cache'[n],
             cache'[m] # None
      PROVE  m = n
  BY <1>1 DEF Identities
<1>2. ASSUME NEW r \in Requests, NEW m \in Models, held'[r] = cache'[m],
             held'[r] # None
      PROVE  want'[r] = m
  BY <1>2 DEF Identities
<1>. QED BY <1>1, <1>2 DEF Identities

\* A caller leases the cached instance of the model it asked for.
LEMMA IdentitiesTaken ==
  ASSUME Identities, CallType, UNCHANGED cache, NEW r \in Requests,
         NEW m \in Models, TakeLease(r, m), want'[r] = m,
         \A q \in Requests : q # r => want'[q] = want[q]
  PROVE  Identities'
<1>1. held' = [held EXCEPT ![r] = cache[m]]
  BY DEF TakeLease
<1>2. ASSUME NEW q \in Requests, NEW n \in Models, held'[q] = cache'[n],
             held'[q] # None
      PROVE  want'[q] = n
  <2>1. CASE q = r
    BY <1>1, <1>2, <2>1 DEF Identities, CallType
  <2>2. CASE q # r
    BY <1>1, <1>2, <2>2 DEF Identities, CallType
  <2>. QED BY <2>1, <2>2
<1>. QED BY <1>2 DEF Identities

-----------------------------------------------------------------------------
(* What is in use, seen from the pool.                                      *)

\* No load is waiting for its registration while the lock is free.
LEMMA NoneUnconfirmed ==
  ASSUME IInv, LockFree
  PROVE  Unconfirmed = {}
BY NoneAssumption DEF IInv, LoadLock, LockFree, Unconfirmed

\* Only the holder of the lock is waiting for its registration.
LEMMA LoaderUnconfirmed ==
  ASSUME IInv, NEW r \in Requests, pc[r] = "registering"
  PROVE  Unconfirmed = {want[r]}
<1>1. \A q \in Requests : pc[q] = "registering" => q = r
  BY DEF IInv, LoadLock
<1>. QED BY <1>1 DEF Unconfirmed

\* Callers that register neither come, go nor change their mind.
LEMMA UnconfirmedKept ==
  ASSUME \A q \in Requests :
           /\ pc'[q] = "registering" <=> pc[q] = "registering"
           /\ pc[q] = "registering" => want'[q] = want[q]
  PROVE  Unconfirmed' = Unconfirmed
BY DEF Unconfirmed

\* Nobody is on the instance of an unleased model: what an evictor finds with
\* no lease is out of every caller's hands.
LEMMA UnleasedUnused ==
  ASSUME PInv, NEW m \in Unleased
  PROVE  UsersOf(cache[m]) = {}
<1>1. m \in Models /\ cache[m] # None /\ leases[m] = 0
  BY DEF Unleased, Cached
<1>2. Cardinality(CurrentHolders(m)) = 0
  BY <1>1 DEF PInv, IInv, LeaseAccounting
<1>3. CurrentHolders(m) = {}
  BY <1>1, <1>2, HoldersFinite, CallersFinite, FS_EmptySet
<1>. QED BY <1>1, <1>3 DEF UsersOf, CurrentHolders, HoldersOf, PInv, Identities

PoolStep == [Pool!Next]_(Pool!vars)

\* What the pool cannot see.
LEMMA PoolStutters ==
  ASSUME UNCHANGED <<cache, held, drains, Unconfirmed>>
  PROVE  PoolStep
BY DEF PoolStep, Pool!vars, Unconfirmed

\* An eviction that spares what is leased is one the pool allows.
LEMMA PoolEvicts ==
  ASSUME PInv, LockFree, NEW E \in SUBSET Unleased, Drop(E),
         UNCHANGED <<held, drains, Unconfirmed>>
  PROVE  PoolStep
<1>1. E \in SUBSET Models
  BY DEF Unleased, Cached
<1>2. \A m \in E : UsersOf(cache[m]) = {}
  BY UnleasedUnused
<1>3. Unconfirmed = {}
  BY NoneUnconfirmed DEF PInv
<1>4. cache' = [m \in Models |-> IF m \in E THEN None ELSE cache[m]]
  BY DEF Drop
<1>5. \A m \in E : cache[m] \in Instances
  BY DEF Unleased, Cached, PInv, IInv, TypeOK, CacheType
<1>6. Pool!Evict(E)
  BY <1>2, <1>3, <1>4, <1>5
  DEF Pool!Evict, Pool!Without, Unconfirmed, UsersOf
<1>. QED BY <1>1, <1>6 DEF PoolStep, Pool!Next

\* A forced drop takes only models of a pending drain.
LEMMA PoolDetaches ==
  ASSUME PInv, LockFree, NEW S \in drains, S \in SUBSET Models,
         Drop(S \cap Cached), drains' = drains \ {S},
         UNCHANGED <<held, Unconfirmed>>
  PROVE  PoolStep
<1>1. S \subseteq Revoked
  BY DEF Revoked
<1>2. Unconfirmed = {}
  BY NoneUnconfirmed DEF PInv
<1>3. cache' = [m \in Models |-> IF m \in S THEN None ELSE cache[m]]
  BY DEF Drop, Cached, PInv, IInv, TypeOK, CacheType
<1>4. Revoked' \in SUBSET Revoked /\ Revoked \ S \subseteq Revoked'
  BY DEF Revoked
<1>5. Pool!Detach(S)
  BY <1>1, <1>2, <1>3, <1>4
  DEF Pool!Detach, Pool!Without, Unconfirmed, Revoked
<1>. QED BY <1>5 DEF PoolStep, Pool!Next

\* A lease on a resident instance.
LEMMA PoolAcquires ==
  ASSUME PInv, NEW r \in Requests, NEW m \in Models, held[r] = None,
         cache[m] # None, TakeLease(r, m), UNCHANGED <<cache, drains, Unconfirmed>>
  PROVE  PoolStep
<1>1. held' = [held EXCEPT ![r] = cache[m]] /\ CallType /\ cache[m] \in Instances
  BY DEF TakeLease, PInv, IInv, TypeOK, CacheType
<1>2. ASSUME NEW i \in Instances
      PROVE  UsersOf(i)' = IF i = cache[m] THEN UsersOf(i) \cup {r} ELSE UsersOf(i)
  BY <1>1 DEF UsersOf, CallType, None, Instances
<1>3. Pool!Acquire(r, m)
  BY <1>1, <1>2 DEF Pool!Acquire, UsersOf, Unconfirmed
<1>. QED BY <1>3 DEF PoolStep, Pool!Next

\* The end of a use, on a resident instance or on one taken away meanwhile.
LEMMA PoolReleases ==
  ASSUME PInv, NEW r \in Requests, Release(r)
  PROVE  PoolStep /\ Identities'
<1>1. /\ pc[r] = "using" /\ Return({r}) /\ UNCHANGED <<cache, drains>>
      /\ CacheType /\ CallType /\ held[r] \in Instances
  BY DEF Release, ReleaseLease, configVars, PInv, IInv, TypeOK, CallType, Calls
<1>2. held' = [q \in Requests |-> IF q = r THEN None ELSE held[q]]
  BY <1>1 DEF Return
<1>3. Unconfirmed' = Unconfirmed
  BY <1>1, UnconfirmedKept DEF Return
<1>4. PICK i \in Instances : i = held[r]
  BY <1>1
<1>5. ASSUME NEW j \in Instances
      PROVE  UsersOf(j)' = IF j = i THEN UsersOf(j) \ {r} ELSE UsersOf(j)
  BY <1>1, <1>2, <1>4 DEF UsersOf, None, Instances
<1>6. Pool!Release(r, i)
  <2>1. Users' = [Users EXCEPT ![i] = @ \ {r}] /\ r \in Users[i]
    BY ZenonT(40), <1>4, <1>5 DEF Users, UsersOf
  <2>. QED BY <1>1, <1>3, <2>1 DEF Pool!Release, Users, UsersOf, Unconfirmed
<1>7. Identities'
  BY <1>1, IdentitiesKept DEF Return, PInv
<1>. QED BY <1>6, <1>7 DEF PoolStep, Pool!Next

\* A new instance is nobody's but its loader's.
LEMMA PoolLoads ==
  ASSUME PInv, NEW r \in Requests, BuildDone(r)
  PROVE  PoolStep /\ Identities'
<1>1. PICK m \in Models : m = want[r]
  BY DEF BuildDone, PInv, IInv, Calls
<1>2. CacheType /\ CallType /\ held[r] = None /\ cache[m] = None
  BY <1>1 DEF BuildDone, PInv, IInv, TypeOK, Calls, LoadLock
<1>3. PICK i \in Instances : IsNewInstance(i) /\ cache' = [cache EXCEPT ![m] = i]
  BY <1>1 DEF BuildDone
<1>4. /\ i # None /\ \A q \in Requests : held[q] # i
      /\ \A n \in Models : cache[n] # i
  BY <1>3 DEF IsNewInstance, Instances, None
<1>5. /\ pc' = [pc EXCEPT ![r] = "registering"]
      /\ UNCHANGED <<want, drains>>
      /\ held' \in {held, [held EXCEPT ![r] = i]}
  <2>1. cache'[m] = i
    BY <1>2, <1>3 DEF CacheType
  <2>. QED BY <1>1, <2>1 DEF BuildDone, TakeLease, configVars
<1>6. Unconfirmed' = Unconfirmed \cup {m}
  BY <1>1, <1>2, <1>5 DEF Unconfirmed, CallType
<1>7. PICK C \in {{}, {r}} : UsersOf(i)' = C
  <2>1. CASE held' = held
    BY <1>4, <2>1 DEF UsersOf
  <2>2. CASE held' = [held EXCEPT ![r] = i]
    BY <1>2, <1>4, <2>2 DEF UsersOf, CallType
  <2>. QED BY <1>5, <2>1, <2>2
<1>8. /\ UsersOf(i) = {}
      /\ \A j \in Instances : j # i => UsersOf(j)' = UsersOf(j)
  BY <1>2, <1>4, <1>5 DEF UsersOf, CallType, None, Instances
<1>9. Pool!Load(m, i, C)
  <2>1. Users' = [Users EXCEPT ![i] = C] /\ Users[i] = {}
    BY <1>7, <1>8 DEF Users
  <2>. QED BY <1>2, <1>3, <1>4, <1>5, <1>6, <2>1
       DEF Pool!Load, Users, UsersOf, Unconfirmed
<1>10. Identities'
  <2>1. ASSUME NEW n \in Models
        PROVE  cache'[n] = IF n = m THEN i ELSE cache[n]
    BY <1>2, <1>3 DEF CacheType
  <2>2. ASSUME NEW q \in Requests
        PROVE  held'[q] = held[q] \/ (q = r /\ held'[q] = i)
    BY <1>2, <1>5 DEF CallType
  <2>. QED BY <1>1, <1>2, <1>4, <1>5, <2>1, <2>2 DEF Identities, PInv
<1>11. C \in Pool!AtMostOne
  BY DEF Pool!AtMostOne
<1>. QED BY <1>9, <1>10, <1>11 DEF PoolStep, Pool!Next

\* A load that returns, and keeps its lease or gives it back.
LEMMA PoolConfirms ==
  ASSUME PInv, NEW r \in Requests, FinishLoad(r)
  PROVE  PoolStep /\ Identities'
<1>1. PICK m \in Models : m = want[r]
  BY DEF FinishLoad, PInv, IInv, Calls
<1>2. /\ CacheType /\ CallType /\ pc[r] = "registering"
      /\ cache[m] \in Instances /\ held[r] \in {None, cache[m]}
      /\ UNCHANGED <<cache, drains>>
  BY <1>1 DEF FinishLoad, configVars, PInv, IInv, TypeOK, CacheType, Calls,
              LoadLock
<1>3. /\ pc'[r] # "registering"
      /\ \A q \in Requests : q # r => pc'[q] = pc[q] /\ want'[q] = want[q]
      /\ \/ held' = held /\ want' = want
         \/ held' = [q \in Requests |-> IF q = r THEN None ELSE held[q]]
  <2>1. CASE Return({r})
    BY <1>2, <2>1 DEF Return, CallType
  <2>2. CASE pc' = [pc EXCEPT ![r] = "using"] /\ UNCHANGED <<want, held>>
    BY <1>2, <2>2 DEF CallType
  <2>. QED BY <2>1, <2>2 DEF FinishLoad
<1>4. Unconfirmed = {m}
  BY <1>1, <1>2, LoaderUnconfirmed DEF PInv
<1>5. Unconfirmed' = {}
  <2>1. \A q \in Requests : pc[q] = "registering" => q = r
    BY <1>2 DEF PInv, IInv, LoadLock
  <2>. QED BY <1>3, <2>1 DEF Unconfirmed
<1>6. PICK C \in {{}, {r}} :
        \A j \in Instances :
          UsersOf(j)' = IF j = cache[m] THEN UsersOf(j) \ C ELSE UsersOf(j)
  <2>1. CASE held' = held
    BY <2>1 DEF UsersOf
  <2>2. CASE held' = [q \in Requests |-> IF q = r THEN None ELSE held[q]]
    BY <1>2, <2>2 DEF UsersOf, None, Instances
  <2>. QED BY <1>3, <2>1, <2>2
<1>7. Pool!Confirm(m, C)
  <2>1. Users' = [Users EXCEPT ![cache[m]] = @ \ C]
    BY <1>2, <1>6 DEF Users
  <2>. QED BY <1>2, <1>4, <1>5, <2>1
       DEF Pool!Confirm, Users, UsersOf, Unconfirmed
<1>8. Identities'
  BY <1>2, <1>3, IdentitiesKept DEF PInv
<1>9. C \in Pool!AtMostOne
  BY DEF Pool!AtMostOne
<1>. QED BY <1>7, <1>8, <1>9 DEF PoolStep, Pool!Next

\* A load that fails after all takes its instance back.
LEMMA PoolWithdraws ==
  ASSUME PInv, NEW r \in Requests, RegisterFails(r)
  PROVE  PoolStep /\ Identities'
<1>1. PICK m \in Models : m = want[r]
  BY DEF RegisterFails, PInv, IInv, Calls
<1>2. /\ CacheType /\ CallType /\ pc[r] = "registering"
      /\ cache[m] \in Instances /\ held[r] \in {None, cache[m]}
      /\ UNCHANGED drains /\ Return({r})
      /\ cache' = [cache EXCEPT ![m] = None]
  BY <1>1 DEF RegisterFails, configVars, PInv, IInv, TypeOK, CacheType, Calls,
              LoadLock
<1>3. held' = [q \in Requests |-> IF q = r THEN None ELSE held[q]]
  BY <1>2 DEF Return
<1>4. Unconfirmed = {m}
  BY <1>1, <1>2, LoaderUnconfirmed DEF PInv
<1>5. Unconfirmed' = {}
  <2>1. \A q \in Requests : pc[q] = "registering" => q = r
    BY <1>2 DEF PInv, IInv, LoadLock
  <2>. QED BY <1>2, <2>1 DEF Unconfirmed, Return
<1>6. ASSUME NEW i \in Instances
      PROVE  UsersOf(i)' = IF i = cache[m] THEN UsersOf(i) \ {r} ELSE UsersOf(i)
  BY <1>2, <1>3 DEF UsersOf, None, Instances
<1>7. cache' = [n \in Models |-> IF n \in {m} THEN None ELSE cache[n]]
  BY <1>2 DEF CacheType
<1>8. Pool!Withdraw(m, {r})
  <2>1. Users' = [Users EXCEPT ![cache[m]] = @ \ {r}]
    BY <1>2, <1>6 DEF Users
  <2>. QED BY <1>2, <1>4, <1>5, <1>7, <2>1
       DEF Pool!Withdraw, Pool!Without, Users, UsersOf, Unconfirmed
<1>9. Identities'
  BY <1>2, <1>7, IdentitiesKept DEF PInv, Return
<1>10. {r} \in Pool!AtMostOne
  BY DEF Pool!AtMostOne
<1>. QED BY <1>8, <1>9, <1>10 DEF PoolStep, Pool!Next

-----------------------------------------------------------------------------
(* The steps.                                                               *)

\* A hit, or a model found under the lock, is an acquisition.
LEMMA PoolHits ==
  ASSUME PInv, NEW r \in Requests,
         \/ \E m \in Models, lease \in BOOLEAN : Hit(r, m, lease)
         \/ FoundUnderLock(r)
  PROVE  PoolStep /\ Identities'
<1>1. /\ CacheType /\ CallType /\ held[r] = None
      /\ UNCHANGED <<cache, drains>> /\ pc[r] \in {"idle", "queued"}
  BY DEF Hit, FoundUnderLock, configVars, PInv, IInv, TypeOK, Calls
<1>2. CASE UNCHANGED <<held, want>> /\ pc' = pc
  BY <1>1, <1>2, UnconfirmedKept, PoolStutters, IdentitiesKept DEF PInv
<1>3. CASE Return({r})
  <2>1. held' = held
    BY <1>1, <1>3 DEF Return, CallType
  <2>2. Unconfirmed' = Unconfirmed
    BY <1>1, <1>3, UnconfirmedKept DEF Return
  <2>. QED
    BY <1>1, <1>3, <2>1, <2>2, PoolStutters, IdentitiesKept DEF PInv, Return
<1>4. ASSUME NEW m \in Models, TakeLease(r, m), cache[m] # None,
             pc' = [pc EXCEPT ![r] = "using"],
             want' = [want EXCEPT ![r] = m]
      PROVE  PoolStep /\ Identities'
  <2>1. Unconfirmed' = Unconfirmed
    BY <1>1, <1>4, UnconfirmedKept DEF CallType
  <2>2. want'[r] = m /\ \A q \in Requests : q # r => want'[q] = want[q]
    BY <1>1, <1>4 DEF CallType
  <2>. QED BY <1>1, <1>4, <2>1, <2>2, PoolAcquires, IdentitiesTaken DEF PInv
<1>5. ASSUME NEW m \in Models, NEW lease \in BOOLEAN, Hit(r, m, lease)
      PROVE  PoolStep /\ Identities'
  BY <1>2, <1>4, <1>5 DEF Hit
<1>6. CASE FoundUnderLock(r)
  <2>1. PICK m \in Models : m = want[r]
    BY <1>6 DEF FoundUnderLock, PInv, IInv, Calls
  <2>2. want' = want => want' = [want EXCEPT ![r] = m]
    BY <1>1, <2>1 DEF CallType
  <2>. QED BY <1>3, <1>4, <1>6, <2>1, <2>2 DEF FoundUnderLock
<1>. QED BY <1>5, <1>6

\* A load on its way to its instance, or giving up before it has one, is
\* nothing to the pool.
LEMMA PoolWaits ==
  ASSUME PInv, NEW r \in Requests,
         \/ \E m \in Models, lease \in BOOLEAN : Miss(r, m, lease)
         \/ Convert(r) \/ Cancel(r) \/ PrimaryBuildFails(r) \/ BuildFails(r)
         \/ ResolveSuppressChars(r)
  PROVE  PoolStep /\ Identities'
<1>1. CacheType /\ CallType /\ Calls
  BY DEF PInv, IInv, TypeOK
<1>2. UNCHANGED <<cache, drains>>
  BY DEF Miss, Convert, Converted, NothingToConvert, ConversionFails, Cancel,
         CancelWait, LatchCancel, PrimaryBuildFails, BuildFails,
         ResolveSuppressChars, cacheVars, configVars
<1>3. CASE Return({r}) /\ pc[r] \notin {"using", "registering"}
  <2>1. held' = held
    BY <1>1, <1>3 DEF Return, CallType, Calls
  <2>2. Unconfirmed' = Unconfirmed
    BY <1>3, UnconfirmedKept DEF Return
  <2>. QED
    BY <1>1, <1>2, <1>3, <2>1, <2>2, PoolStutters, IdentitiesKept
    DEF PInv, Return
<1>4. CASE ConversionFails(r) \/ CancelWait(r) \/ BuildFails(r)
  BY <1>3, <1>4 DEF ConversionFails, CancelWait, BuildFails
<1>5. ASSUME held' = held, pc[r] # "registering", pc'[r] # "registering",
             \A q \in Requests : q # r => pc'[q] = pc[q] /\ want'[q] = want[q],
             held[r] = None \/ want'[r] = want[r]
      PROVE  PoolStep /\ Identities'
  <2>1. Unconfirmed' = Unconfirmed
    BY <1>5, UnconfirmedKept
  <2>. QED BY <1>1, <1>2, <1>5, <2>1, PoolStutters, IdentitiesKept DEF PInv
<1>6. ASSUME NEW m \in Models, NEW lease \in BOOLEAN, Miss(r, m, lease)
      PROVE  PoolStep /\ Identities'
  <2>1. pc'[r] # "registering"
    BY <1>1, <1>6 DEF Miss, CallType
  <2>. QED BY <1>1, <1>5, <1>6, <2>1 DEF Miss, CallType, Calls
<1>7. CASE Converted(r) \/ NothingToConvert(r) \/ PrimaryBuildFails(r)
  BY <1>1, <1>5, <1>7
  DEF Converted, NothingToConvert, PrimaryBuildFails, CallType
<1>8. CASE UNCHANGED <<pc, want, held>>
  <2>1. Unconfirmed' = Unconfirmed
    BY <1>8 DEF Unconfirmed
  <2>. QED BY <1>1, <1>2, <1>8, <2>1, PoolStutters, IdentitiesKept DEF PInv
<1>9. CASE LatchCancel(r) \/ ResolveSuppressChars(r)
  BY <1>8, <1>9 DEF LatchCancel, ResolveSuppressChars, callVars
<1>. QED BY <1>4, <1>6, <1>7, <1>9 DEF Convert, Cancel

\* The end of a shared download, or its refusal, is nothing to the pool.
LEMMA PoolFetches ==
  ASSUME PInv, NEW s \in Snapshots, Prefetch(s)
  PROVE  PoolStep /\ Identities'
<1>1. CacheType /\ CallType /\ Calls /\ UNCHANGED <<cache, drains>>
  BY DEF Prefetch, PrefetchEnds, PrefetchRefused, cacheVars, configVars, PInv,
         IInv, TypeOK
<1>2. \A q \in Requests :
        q \in Waiters(s) => pc[q] = "fetching" /\ held[q] = None
  BY <1>1 DEF Waiters, Calls
<1>3. \A q \in Requests :
        /\ pc'[q] = "registering" <=> pc[q] = "registering"
        /\ held'[q] = held[q]
        /\ held[q] # None \/ pc[q] = "registering" => want'[q] = want[q]
  BY <1>2 DEF Prefetch, PrefetchEnds, PrefetchRefused, Return
<1>4. held' = held
  BY <1>1, <1>3 DEF Prefetch, PrefetchEnds, PrefetchRefused, Return, CallType
<1>5. Unconfirmed' = Unconfirmed
  BY <1>3, UnconfirmedKept
<1>. QED BY <1>1, <1>3, <1>4, <1>5, PoolStutters, IdentitiesKept DEF PInv

\* Making room for a build.
LEMMA PoolMakesRoom ==
  ASSUME PInv, NEW r \in Requests, BeginBuild(r)
  PROVE  PoolStep /\ Identities'
<1>1. CacheType /\ CallType /\ Calls
  BY DEF PInv, IInv, TypeOK
<1>2. PICK E \in SUBSET Models : IsOverflow(E, NoModel, cap - 1) /\ Drop(E)
  BY DEF BeginBuild
<1>3. E \in SUBSET Unleased
  BY <1>2 DEF IsOverflow
<1>4. /\ LockFree /\ UNCHANGED <<held, want, drains>>
      /\ pc[r] = "queued" /\ pc' = [pc EXCEPT ![r] = "building"]
  BY DEF BeginBuild, configVars
<1>5. Unconfirmed' = Unconfirmed
  BY <1>1, <1>4, UnconfirmedKept DEF CallType
<1>6. \A m \in Models : cache'[m] \in {cache[m], None}
  BY <1>2 DEF Drop
<1>. QED BY <1>1, <1>2, <1>3, <1>4, <1>5, <1>6, PoolEvicts, IdentitiesKept
     DEF PInv

\* The preloader's eviction, the trims and the idle evictor.
LEMMA PoolTrims ==
  ASSUME PInv,
         \/ \E m \in Models : Evict(m)
         \/ ScheduledTrim \/ TrimToCap
         \/ \E warm \in SUBSET Models : IdleSweep(warm)
  PROVE  PoolStep /\ Identities'
<1>1. PICK E \in SUBSET Unleased : Drop(E)
  <2>1. ASSUME NEW m \in Models, Evict(m)
        PROVE  \E E \in SUBSET Unleased : Drop(E)
    BY <2>1 DEF Evict
  <2>2. CASE ScheduledTrim \/ TrimToCap
    BY <2>2 DEF ScheduledTrim, TrimToCap, IsOverflow
  <2>3. ASSUME NEW warm \in SUBSET Models, IdleSweep(warm)
        PROVE  \E E \in SUBSET Unleased : Drop(E)
    BY <2>3 DEF IdleSweep
  <2>. QED BY <2>1, <2>2, <2>3
<1>2. /\ LockFree /\ UNCHANGED <<pc, held, want, drains>>
  BY DEF Evict, ScheduledTrim, TrimToCap, IdleSweep, callVars, configVars
<1>3. Unconfirmed' = Unconfirmed
  BY <1>2 DEF Unconfirmed
<1>4. \A m \in Models : cache'[m] \in {cache[m], None}
  BY <1>1 DEF Drop
<1>5. CacheType
  BY DEF PInv, IInv, TypeOK
<1>. QED BY <1>1, <1>2, <1>3, <1>4, <1>5, PoolEvicts, IdentitiesKept DEF PInv

\* Admin edits, the drains they leave behind, and the passing of time.
LEMMA PoolEdits ==
  ASSUME PInv,
         \/ Edit
         \/ \E S \in EditScopes : DrainThenEvict(S)
         \/ \E m \in Models : Age(m)
         \/ \E warm \in SUBSET Models : IdleScan(warm)
  PROVE  PoolStep /\ Identities'
<1>1. CacheType /\ UNCHANGED <<pc, held, want>>
  BY DEF Edit, EditLoadSettings, EditCap, DrainThenEvict, Age, IdleScan,
         callVars, PInv, IInv, TypeOK
<1>2. Unconfirmed' = Unconfirmed
  BY <1>1 DEF Unconfirmed
<1>3. UNCHANGED cache => Identities'
  BY <1>1, IdentitiesKept DEF PInv
<1>4. CASE UNCHANGED <<cache, drains>>
  BY <1>1, <1>2, <1>3, <1>4, PoolStutters
<1>5. ASSUME NEW S \in EditScopes, EditLoadSettings(S)
      PROVE  PoolStep /\ Identities'
  <2>1. S \in SUBSET Models
    BY DEF EditScopes
  <2>2. UNCHANGED cache /\ drains' = drains \cup {S}
    BY <1>5 DEF EditLoadSettings, cacheVars
  <2>3. Revoked' = Revoked \cup S
    BY <2>2 DEF Revoked
  <2>4. Pool!Revoke(S)
    BY <1>1, <1>2, <2>2, <2>3 DEF Pool!Revoke, Revoked, Unconfirmed
  <2>. QED BY <1>3, <2>1, <2>2, <2>4 DEF PoolStep, Pool!Next
<1>6. ASSUME NEW S \in EditScopes, DrainThenEvict(S)
      PROVE  PoolStep /\ Identities'
  <2>1. S \in SUBSET Models
    BY DEF EditScopes
  <2>2. /\ S \in drains /\ LockFree /\ drains' = drains \ {S}
        /\ Drop(S \cap Cached)
    BY <1>6 DEF DrainThenEvict
  <2>3. \A m \in Models : cache'[m] \in {cache[m], None}
    BY <2>2 DEF Drop
  <2>. QED BY <1>1, <1>2, <2>1, <2>2, <2>3, PoolDetaches, IdentitiesKept DEF PInv
<1>7. ASSUME \/ \E c \in Caps : EditCap(c)
             \/ \E m \in Models : Age(m)
             \/ \E warm \in SUBSET Models : IdleScan(warm)
      PROVE  UNCHANGED <<cache, drains>>
  BY <1>7 DEF EditCap, Age, IdleScan, cacheVars, configVars
<1>. QED BY <1>4, <1>5, <1>6, <1>7 DEF Edit

-----------------------------------------------------------------------------
(* The theorem.                                                             *)

\* Every step of the cache is one the pool allows, and keeps instances to
\* their models.
LEMMA StepPool ==
  ASSUME PInv, [Next]_vars
  PROVE  PoolStep /\ Identities'
<1>1. ASSUME NEW r \in Requests,
             Call(r) \/ Convert(r) \/ TakeLock(r) \/ Build(r) \/ Register(r)
               \/ ResolveSuppressChars(r) \/ Release(r) \/ Cancel(r)
      PROVE  PoolStep /\ Identities'
  BY <1>1, PoolHits, PoolWaits, PoolMakesRoom, PoolLoads, PoolConfirms,
     PoolWithdraws, PoolReleases
  DEF Call, TakeLock, Build, Register
<1>2. ASSUME \/ \E m \in Models : Evict(m) \/ Age(m)
             \/ \E S \in EditScopes : DrainThenEvict(S)
             \/ ScheduledTrim \/ TrimToCap \/ Idle \/ Edit
      PROVE  PoolStep /\ Identities'
  BY <1>2, PoolTrims, PoolEdits DEF Idle
<1>3. ASSUME NEW s \in Snapshots, Prefetch(s) PROVE PoolStep /\ Identities'
  BY <1>3, PoolFetches
<1>4. CASE UNCHANGED vars
  <2>1. UNCHANGED <<cache, held, want, pc, drains>>
    BY <1>4 DEF vars, cacheVars, callVars, configVars
  <2>2. Unconfirmed' = Unconfirmed
    BY <2>1 DEF Unconfirmed
  <2>. QED BY <2>1, <2>2, PoolStutters, IdentitiesKept DEF PInv, IInv, TypeOK
<1>. QED BY <1>1, <1>2, <1>3, <1>4 DEF Next

\* The cache keeps the promise of the pool: an instance somebody uses stays
\* until its users are done, unless an edit revoked it or its own load failed
\* (_drop_loaded_model and everything that calls it).
THEOREM PoolImplemented == Spec => PoolSpec
<1>1. Init => Identities
  BY DEF Init, Identities
<1>2. Init => Pool!Init
  <2>1. Init => Users = [i \in Instances |-> {}]
    BY DEF Init, Users, UsersOf, Instances, None
  <2>2. Init => Unconfirmed = {} /\ Revoked = {}
    BY DEF Init, Unconfirmed, Revoked
  <2>. QED BY <2>1, <2>2 DEF Init, Pool!Init, Users, UsersOf, Unconfirmed, Revoked
<1>3. IInv /\ Identities /\ [Next]_vars => Identities'
  BY StepPool DEF PInv
<1>4. IInv /\ Identities /\ [Next]_vars => [Pool!Next]_(Pool!vars)
  BY StepPool DEF PInv, PoolStep
<1>. QED BY <1>1, <1>2, <1>3, <1>4, Inductive, PTL DEF Spec, PoolSpec, Pool!Spec
=============================================================================
