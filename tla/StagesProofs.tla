---------------------------- MODULE StagesProofs ----------------------------
(***************************************************************************)
(* Theorems about the stages of a batch request: the caches of their       *)
(* pipelines and of the translation models, for any models, references,    *)
(* jobs, warm-ups and edits; then the requests that go through the stages, *)
(* for any of them, any asks, mishaps and semaphore slots.                 *)
(***************************************************************************)
EXTENDS MCStages, TLAPS, FiniteSetTheorems

\* The task is in its load, from the start to the registration's end.
Loader(t) == pc[t] \in {"load", "register", "registerCancelled"}

\* A registration of this model has failed once.
Failed(m) == \E t \in Tasks : pc[t] = "failed" /\ want[t].model = m

\* The jobs on the cached pipeline.
OnCache(m) == {j \in Holders(m) : got[j] = cache}

\* The types of the caches' state.
PipeTypes ==
  /\ device \in 0..MaxEdits /\ drains \in Nat
  /\ cache \in Pipes \cup {NoPipe}
  /\ leases \in [Models -> Nat] /\ orphans \in [Models -> Nat]
  /\ rows \subseteq Models /\ deferred \subseteq Models
  /\ lock \in Tasks \cup {Free} /\ mutex \in Jobs \cup {Free}
  /\ pc \in [Tasks -> {"idle", "wait", "load", "register", "registerCancelled",
                       "run", "done", "cancelled", "failed"}]
  /\ want \in [Tasks -> Keys]
  /\ got \in [Tasks -> Pipes \cup {NoPipe}]
  /\ thread \in [Tasks -> {"none", "queued", "inside", "handing", "over"}]
  /\ wav \in [Tasks -> {"none", "written", "offered", "caller", "unlinked"}]

\* The lock is its loader's; a load has cached nothing before it has built, and
\* then what it holds; a task that has not built is in no pipeline's identity.
LoadInv ==
  \A t \in Tasks :
    /\ lock = t <=> Loader(t)
    /\ pc[t] = "load" => cache = NoPipe
    /\ pc[t] \in {"register", "registerCancelled"} =>
         cache = got[t] /\ got[t] # NoPipe /\ got[t].model = want[t].model
    /\ pc[t] \in {"idle", "wait", "load"} =>
         /\ cache # NoPipe => cache.by # t
         /\ \A x \in Tasks : got[x] # NoPipe => got[x].by # t
    /\ pc[t] = "run" => got[t] # NoPipe /\ t \in Jobs

\* LeaseAccounting; and but for a failed registration of the model, its leases are
\* exactly the jobs on the cached pipeline.
CountInv ==
  \A m \in Models :
    /\ leases[m] + orphans[m] = Cardinality(Holders(m))
    /\ Cardinality(OnCache(m)) <= leases[m]
    /\ Failed(m) \/ leases[m] = Cardinality(OnCache(m))

\* A deferred teardown is of the model being loaded.
RowsInv ==
  /\ RowsMatch
  /\ \A m \in deferred : lock # Free /\ want[lock].model = m

\* Where a job's thread and vocals file are, by where its task is.
ThreadInv ==
  \A j \in Jobs :
    /\ mutex = j <=> thread[j] = "inside"
    /\ pc[j] = "run" => thread[j] # "none"
    /\ thread[j] = "none" => wav[j] = "none"
    /\ thread[j] # "none" => got[j] # NoPipe /\ pc[j] \in {"run", "cancelled", "done"}
    /\ thread[j] \in {"queued", "inside", "handing"} => pc[j] \in {"run", "cancelled"}
    /\ thread[j] \in {"queued", "inside"} => wav[j] = "none"
    /\ thread[j] = "over" /\ pc[j] = "run" => wav[j] \in {"none", "offered"}
    /\ thread[j] = "over" /\ pc[j] = "done" => wav[j] \in {"none", "caller"}
    /\ thread[j] = "over" /\ pc[j] = "cancelled" => wav[j] \in {"none", "unlinked"}

PipeInv == PipeTypes /\ LoadInv /\ CountInv /\ RowsInv /\ ThreadInv

LEMMA TasksAre ==
  /\ Jobs \subseteq Tasks /\ Warmups \subseteq Tasks /\ Free \notin Tasks
  /\ IsFiniteSet(Jobs) /\ 0 \in 0..MaxEdits
  /\ \A t \in Warmups : t \notin Jobs
BY StageAssumption DEF Tasks

LEMMA NoPipeIsNone == NoPipe \notin Pipes
<1>1. NoPipe.device = -1 BY DEF NoPipe
<1>2. \A p \in Pipes : p.device \in 0..MaxEdits BY DEF Pipes
<1>. QED BY <1>1, <1>2, StageAssumption

LEMMA PipeFields ==
  \A p \in Pipes : p.model \in Models /\ p.device \in 0..MaxEdits /\ p.by \in Tasks
BY DEF Pipes

LEMMA KeyFields ==
  \A k \in Keys : k.model \in Models /\ k.device \in 0..MaxEdits
BY DEF Keys

LEMMA NewPipe ==
  ASSUME NEW k \in Keys, NEW t \in Tasks
  PROVE  [model |-> k.model, device |-> k.device, by |-> t] \in Pipes
BY DEF Keys, Pipes

LEMMA NewKey ==
  ASSUME NEW k \in Keys, NEW d \in 0..MaxEdits
  PROVE  /\ [k EXCEPT !.device = d] \in Keys
         /\ [k EXCEPT !.device = d].model = k.model
BY DEF Keys

LEMMA CachedFits ==
  ASSUME cache \in Pipes \cup {NoPipe}, NEW k \in Keys, Cached(k)
  PROVE  cache # NoPipe /\ cache \in Pipes /\ cache.model = k.model
BY DEF Cached, KeyOf, Keys

LEMMA HoldersFinite ==
  \A m \in Models : /\ IsFiniteSet(Holders(m)) /\ IsFiniteSet(OnCache(m))
                    /\ OnCache(m) \subseteq Holders(m) /\ Holders(m) \subseteq Jobs
                    /\ Cardinality(Holders(m)) \in Nat
                    /\ Cardinality(OnCache(m)) \in Nat
                    /\ Cardinality(OnCache(m)) <= Cardinality(Holders(m))
<1>. TAKE m \in Models
<1>1. Holders(m) \subseteq Jobs /\ OnCache(m) \subseteq Holders(m)
  BY DEF Holders, OnCache
<1>2. IsFiniteSet(Holders(m)) BY <1>1, TasksAre, FS_Subset
<1>3. IsFiniteSet(OnCache(m)) BY <1>1, <1>2, FS_Subset
<1>. QED BY <1>1, <1>2, <1>3, FS_CardinalityType, FS_Subset

LEMMA PipeStart == Init => PipeInv
<1>. SUFFICES ASSUME Init PROVE PipeInv OBVIOUS
<1>. USE DEF Init
<1>1. PipeTypes
  <2>1. want \in [Tasks -> Keys]
    <3>1. \A m \in Models : [model |-> m, device |-> 0] \in Keys
      BY TasksAre DEF Keys
    <3>. QED BY <3>1
  <2>. QED BY <2>1, TasksAre DEF PipeTypes
<1>2. LoadInv BY TasksAre DEF LoadInv, Loader
<1>3. CountInv
  <2>. SUFFICES ASSUME NEW m \in Models
                PROVE  /\ leases[m] + orphans[m] = Cardinality(Holders(m))
                       /\ Cardinality(OnCache(m)) <= leases[m]
                       /\ leases[m] = Cardinality(OnCache(m))
    BY DEF CountInv
  <2>1. Holders(m) = {} BY TasksAre DEF Holders, Holds
  <2>2. OnCache(m) = {} BY <2>1 DEF OnCache
  <2>. QED BY <2>1, <2>2, FS_EmptySet
<1>4. RowsInv BY DEF RowsInv, RowsMatch, Resident
<1>5. ThreadInv BY TasksAre DEF ThreadInv
<1>. QED BY <1>1, <1>2, <1>3, <1>4, <1>5 DEF PipeInv

-----------------------------------------------------------------------------

LEMMA DropTypes ==
  ASSUME PipeTypes, DropCounts
  PROVE  leases' \in [Models -> Nat] /\ orphans' \in [Models -> Nat] /\ rows' \subseteq Models
<1>1. CASE cache = NoPipe BY <1>1 DEF DropCounts, PipeTypes
<1>2. CASE cache # NoPipe
  <2>1. cache.model \in Models BY <1>2, PipeFields DEF PipeTypes
  <2>. QED BY <1>2, <2>1 DEF DropCounts, PipeTypes
<1>. QED BY <1>1, <1>2

LEMMA ReleaseTypes ==
  ASSUME PipeTypes, NEW m \in Models, NEW p, Release(m, p)
  PROVE  /\ leases' \in [Models -> Nat] /\ orphans' \in [Models -> Nat]
         /\ rows' \subseteq Models /\ deferred' \subseteq Models
<1>1. FreePipe(m) => rows' \subseteq Models /\ deferred' \subseteq Models
  BY DEF FreePipe, PipeTypes
<1>. QED BY <1>1 DEF Release, PipeTypes

LEMMA TypesStep == PipeInv /\ Next => PipeTypes'
<1>. SUFFICES ASSUME PipeInv, Next PROVE PipeTypes' OBVIOUS
<1>0. PipeTypes /\ LoadInv BY DEF PipeInv
<1>. USE <1>0
<1>1. ASSUME NEW t \in Tasks, Begin(t) PROVE PipeTypes'
  <2>1. PICK key \in {[want[t] EXCEPT !.device = device]} :
       /\ want' = [want EXCEPT ![t] = key]
       /\ IF Cached(key)
          THEN Take(t)
          ELSE /\ pc' = [pc EXCEPT ![t] = "wait"]
               /\ UNCHANGED <<leases, got, thread>>
    BY <1>1 DEF Begin
  <2>2. want[t].model \in Models BY KeyFields DEF PipeTypes
  <2>3. want' \in [Tasks -> Keys] BY <2>1, NewKey DEF PipeTypes
  <2>4. /\ UNCHANGED <<device, drains, cache, orphans, rows, lock, deferred, mutex, wav>>
    BY <1>1 DEF Begin, configVars
  <2>5. CASE Take(t) BY <2>2, <2>3, <2>4, <2>5 DEF Take, PipeTypes
  <2>6. CASE ~Take(t) BY <2>1, <2>3, <2>4, <2>6 DEF PipeTypes
  <2>. QED BY <2>5, <2>6
<1>2. ASSUME NEW t \in Tasks, HitUnderLock(t) PROVE PipeTypes'
  BY <1>2, KeyFields DEF HitUnderLock, Take, PipeTypes, configVars
<1>3. ASSUME NEW t \in Tasks, Decline(t) PROVE PipeTypes'
  BY <1>3 DEF Decline, PipeTypes, configVars, cacheVars, runVars
<1>4. ASSUME NEW t \in Tasks, StartLoad(t) PROVE PipeTypes'
  BY <1>4, DropTypes DEF StartLoad, PipeTypes, configVars, runVars
<1>5. ASSUME NEW t \in Tasks, GiveUpWait(t) PROVE PipeTypes'
  BY <1>5 DEF GiveUpWait, PipeTypes, configVars, cacheVars, runVars
<1>6. ASSUME NEW t \in Tasks, Built(t) PROVE PipeTypes'
  <2>1. PICK p \in {[model |-> want[t].model, device |-> want[t].device, by |-> t]} :
          cache' = p /\ got' = [got EXCEPT ![t] = p]
    BY <1>6 DEF Built
  <2>2. p \in Pipes BY <2>1, NewPipe DEF PipeTypes
  <2>3. want[t].model \in Models BY KeyFields DEF PipeTypes
  <2>4. leases' \in [Models -> Nat] BY <1>6, <2>3 DEF Built, PipeTypes
  <2>. QED BY <1>6, <2>1, <2>2, <2>4 DEF Built, PipeTypes, configVars, runVars
<1>7. ASSUME NEW t \in Tasks, LoadEnds(t) PROVE PipeTypes'
  BY <1>7 DEF LoadEnds, RedoDeferred, PipeTypes, configVars, runVars
<1>8. ASSUME NEW t \in Tasks, CancelRegister(t) PROVE PipeTypes'
  BY <1>8 DEF CancelRegister, PipeTypes, configVars, cacheVars, runVars
<1>8a. ASSUME NEW t \in Tasks, pc[t] \in {"register", "registerCancelled"}, t \in Jobs
       PROVE  want[t].model \in Models /\ leases[want[t].model] > 0
  <2>1. want[t].model \in Models BY KeyFields DEF PipeTypes
  <2>2. t \in OnCache(want[t].model)
    BY <1>8a DEF LoadInv, OnCache, Holders, Holds
  <2>3. Cardinality(OnCache(want[t].model)) # 0
    BY <2>1, <2>2, HoldersFinite, FS_EmptySet
  <2>4. Cardinality(OnCache(want[t].model)) <= leases[want[t].model]
    BY <2>1 DEF PipeInv, CountInv
  <2>. QED BY <2>1, <2>3, <2>4, HoldersFinite DEF PipeTypes
<1>9. ASSUME NEW t \in Tasks, Registered(t) PROVE PipeTypes'
  <2>1. want[t].model \in Models BY KeyFields DEF PipeTypes
  <2>2. leases' \in [Models -> Nat] BY <1>8a, <1>9, <2>1 DEF Registered, PipeTypes
  <2>. QED BY <1>9, <2>1, <2>2 DEF Registered, PipeTypes, configVars
<1>10. ASSUME NEW t \in Tasks, RegisterFails(t) PROVE PipeTypes'
  <2>1. want[t].model \in Models BY KeyFields DEF PipeTypes
  <2>2. leases' \in [Models -> Nat] BY <1>8a, <1>10, <2>1 DEF RegisterFails, PipeTypes
  <2>. QED
    BY <1>10, <2>2 DEF RegisterFails, RedoDeferred, PipeTypes, configVars, runVars
<1>11. ASSUME NEW j \in Jobs, Enter(j) PROVE PipeTypes'
  BY <1>11, TasksAre DEF Enter, PipeTypes, configVars, cacheVars, taskVars
<1>12. ASSUME NEW j \in Jobs, TurnBack(j) PROVE PipeTypes'
  BY <1>12, TasksAre DEF TurnBack, PipeTypes, configVars, cacheVars, taskVars
<1>13. ASSUME NEW j \in Jobs, Leave(j) PROVE PipeTypes'
  BY <1>13, TasksAre DEF Leave, PipeTypes, configVars, cacheVars, taskVars
<1>14. ASSUME NEW j \in Jobs, HandOff(j) PROVE PipeTypes'
  BY <1>14, TasksAre DEF HandOff, PipeTypes, configVars, cacheVars, taskVars
<1>14a. ASSUME NEW j \in Jobs, pc[j] = "run" PROVE got[j].model \in Models
  BY <1>14a, TasksAre, PipeFields DEF LoadInv, PipeTypes
<1>15. ASSUME NEW j \in Jobs, Finish(j) PROVE PipeTypes'
  BY <1>14a, <1>15, TasksAre, ReleaseTypes DEF Finish, PipeTypes, configVars
<1>16. ASSUME NEW j \in Jobs, CancelRun(j) PROVE PipeTypes'
  BY <1>14a, <1>16, TasksAre, ReleaseTypes DEF CancelRun, PipeTypes, configVars
<1>17. CASE Edit
  BY <1>17, StageAssumption DEF Edit, PipeTypes, cacheVars, taskVars, runVars
<1>18. CASE EditDrop
  BY <1>18, DropTypes DEF EditDrop, PipeTypes, taskVars, runVars
<1>19. CASE IdleDrop
  BY <1>19, DropTypes DEF IdleDrop, PipeTypes, configVars, taskVars, runVars
<1>. QED
  BY <1>1, <1>2, <1>3, <1>4, <1>5, <1>6, <1>7, <1>8, <1>9, <1>10, <1>11, <1>12,
     <1>13, <1>14, <1>15, <1>16, <1>17, <1>18, <1>19 DEF Next

-----------------------------------------------------------------------------

LEMMA LoadStep == PipeInv /\ Next => LoadInv'
<1>. SUFFICES ASSUME PipeInv, Next PROVE LoadInv' OBVIOUS
<1>0. PipeTypes /\ LoadInv BY DEF PipeInv
<1>. USE <1>0
\* A step that leaves the cache, the lock and every pipeline held alone, and
\* moves one task between steps at which it neither loads nor runs.
<1>a. ASSUME NEW t \in Tasks, NEW at, pc' = [pc EXCEPT ![t] = at],
             UNCHANGED <<cache, lock, got>>, want'[t].model = want[t].model,
             \A x \in Tasks : x # t => want'[x] = want[x],
             \/ pc[t] = "idle" /\ at = "wait"
             \/ ~Loader(t) /\ at \in {"done", "cancelled"}
             \/ pc[t] = "register" /\ at = "registerCancelled"
      PROVE  LoadInv'
  <2>. SUFFICES ASSUME NEW x \in Tasks
                PROVE  /\ lock' = x <=> Loader(x)'
                       /\ pc'[x] = "load" => cache' = NoPipe
                       /\ pc'[x] \in {"register", "registerCancelled"} =>
                            /\ cache' = got'[x] /\ got'[x] # NoPipe
                            /\ got'[x].model = want'[x].model
                       /\ pc'[x] \in {"idle", "wait", "load"} =>
                            /\ cache' # NoPipe => cache'.by # x
                            /\ \A y \in Tasks : got'[y] # NoPipe => got'[y].by # x
                       /\ pc'[x] = "run" => got'[x] # NoPipe /\ x \in Jobs
    BY DEF LoadInv
  <2>1. CASE x = t BY <1>a, <2>1 DEF LoadInv, PipeTypes, Loader
  <2>2. CASE x # t BY <1>a, <2>2 DEF LoadInv, PipeTypes, Loader
  <2>. QED BY <2>1, <2>2
<1>b. ASSUME NEW t \in Tasks, ~Loader(t), pc[t] \in {"idle", "wait"}, Take(t),
             Cached(want'[t]), UNCHANGED <<cache, lock>>,
             want'[t].model = want[t].model, want'[t] \in Keys,
             \A x \in Tasks : x # t => want'[x] = want[x]
      PROVE  LoadInv'
  <2>1. CASE t \notin Jobs BY <1>a, <1>b, <2>1 DEF Take
  <2>2. CASE t \in Jobs
    <3>1. cache # NoPipe BY <1>b, CachedFits DEF PipeTypes
    <3>2. /\ got' = [got EXCEPT ![t] = cache]
          /\ pc' = [pc EXCEPT ![t] = "run"]
      BY <1>b, <2>2 DEF Take
    <3>. QED BY <1>b, <2>2, <3>1, <3>2 DEF LoadInv, PipeTypes, Loader
  <2>. QED BY <2>1, <2>2
\* The pipeline leaves the cache: nobody holds the lock.
<1>c. ASSUME lock = Free, cache' = NoPipe, UNCHANGED <<lock, pc, want, got>>
      PROVE  LoadInv'
  BY <1>c, TasksAre DEF LoadInv, Loader
<1>1. ASSUME NEW t \in Tasks, Begin(t) PROVE LoadInv'
  <2>1. PICK key \in {[want[t] EXCEPT !.device = device]} :
       /\ want' = [want EXCEPT ![t] = key]
       /\ IF Cached(key)
          THEN Take(t)
          ELSE /\ pc' = [pc EXCEPT ![t] = "wait"]
               /\ UNCHANGED <<leases, got, thread>>
    BY <1>1 DEF Begin
  <2>0. want[t] \in Keys /\ device \in 0..MaxEdits BY DEF PipeTypes
  <2>2. key \in Keys /\ key.model = want[t].model BY <2>0, <2>1, NewKey
  <2>3. /\ want'[t] = key
        /\ \A x \in Tasks : x # t => want'[x] = want[x]
    BY <2>1 DEF PipeTypes
  <2>4. UNCHANGED <<cache, lock>> /\ pc[t] = "idle" /\ ~Loader(t)
    BY <1>1 DEF Begin, Loader
  <2>5. CASE Cached(key) BY <1>b, <2>1, <2>2, <2>3, <2>4, <2>5
  <2>6. CASE ~Cached(key) BY <1>a, <2>1, <2>2, <2>3, <2>4, <2>6
  <2>. QED BY <2>5, <2>6
<1>2. ASSUME NEW t \in Tasks, HitUnderLock(t) PROVE LoadInv'
  <2>1. ~Loader(t) BY <1>2 DEF HitUnderLock, Loader
  <2>. QED BY <1>b, <1>2, <2>1 DEF HitUnderLock, PipeTypes, Cached
<1>3. ASSUME NEW t \in Tasks, Decline(t) PROVE LoadInv'
  BY <1>a, <1>3 DEF Decline, cacheVars, Loader
<1>4. ASSUME NEW t \in Tasks, StartLoad(t) PROVE LoadInv'
  <2>1. \A x \in Tasks : ~Loader(x) BY <1>4, TasksAre DEF StartLoad, LoadInv
  <2>. QED BY <1>4, <2>1, TasksAre DEF StartLoad, LoadInv, PipeTypes, Loader
<1>5. ASSUME NEW t \in Tasks, GiveUpWait(t) PROVE LoadInv'
  BY <1>a, <1>5 DEF GiveUpWait, cacheVars, Loader
<1>6. ASSUME NEW t \in Tasks, Built(t) PROVE LoadInv'
  <2>1. PICK p \in {[model |-> want[t].model, device |-> want[t].device, by |-> t]} :
          cache' = p /\ got' = [got EXCEPT ![t] = p]
    BY <1>6 DEF Built
  <2>2. p \in Pipes /\ p.model = want[t].model /\ p.by = t
    BY <2>1, NewPipe DEF PipeTypes
  <2>3. p # NoPipe BY <2>2, NoPipeIsNone
  <2>4. \A x \in Tasks : Loader(x) => x = t
    BY <1>6 DEF LoadInv, Built, Loader
  <2>5. pc' = [pc EXCEPT ![t] = "register"] /\ UNCHANGED <<lock, want>> /\ pc[t] = "load"
    BY <1>6 DEF Built
  <2>. QED BY <2>1, <2>2, <2>3, <2>4, <2>5 DEF LoadInv, PipeTypes, Loader
<1>d. ASSUME NEW t \in Tasks, NEW at, pc' = [pc EXCEPT ![t] = at], Loader(t),
             lock' = Free, cache' \in {cache, NoPipe}, UNCHANGED <<want, got>>,
             \/ at \in {"done", "failed"}
             \/ at = "run" /\ t \in Jobs /\ pc[t] = "register"
      PROVE  LoadInv'
  <2>1. \A x \in Tasks : Loader(x) => x = t BY <1>d DEF LoadInv
  <2>. QED BY <1>d, <2>1, TasksAre DEF LoadInv, PipeTypes, Loader
<1>7. ASSUME NEW t \in Tasks, LoadEnds(t) PROVE LoadInv'
  BY <1>d, <1>7 DEF LoadEnds, Loader
<1>8. ASSUME NEW t \in Tasks, CancelRegister(t) PROVE LoadInv'
  BY <1>a, <1>8 DEF CancelRegister, cacheVars, Loader
<1>9. ASSUME NEW t \in Tasks, Registered(t) PROVE LoadInv'
  BY <1>d, <1>9 DEF Registered, Loader
<1>10. ASSUME NEW t \in Tasks, RegisterFails(t) PROVE LoadInv'
  BY <1>d, <1>10 DEF RegisterFails, Loader
<1>e. ASSUME UNCHANGED <<cache, lock, pc, want, got>> PROVE LoadInv'
  BY <1>e DEF LoadInv, Loader
<1>11. ASSUME NEW j \in Jobs, Enter(j) \/ TurnBack(j) \/ Leave(j) \/ HandOff(j)
       PROVE  LoadInv'
  BY <1>e, <1>11 DEF Enter, TurnBack, Leave, HandOff, cacheVars, taskVars
<1>12. ASSUME NEW j \in Jobs, Finish(j) PROVE LoadInv'
  BY <1>a, <1>12, TasksAre DEF Finish, Loader
<1>13. ASSUME NEW j \in Jobs, CancelRun(j) PROVE LoadInv'
  BY <1>a, <1>13, TasksAre DEF CancelRun, Loader
<1>14. CASE Edit BY <1>e, <1>14 DEF Edit, cacheVars, taskVars
<1>15. CASE EditDrop BY <1>c, <1>15 DEF EditDrop, taskVars
<1>16. CASE IdleDrop BY <1>c, <1>16 DEF IdleDrop, taskVars
<1>. QED
  BY <1>1, <1>2, <1>3, <1>4, <1>5, <1>6, <1>7, <1>8, <1>9, <1>10, <1>11, <1>12,
     <1>13, <1>14, <1>15, <1>16 DEF Next

-----------------------------------------------------------------------------
(* The counts.                                                                 *)

CountsOf(m) ==
  /\ leases[m] + orphans[m] = Cardinality(Holders(m))
  /\ Cardinality(OnCache(m)) <= leases[m]
  /\ Failed(m) \/ leases[m] = Cardinality(OnCache(m))

\* Nothing the counts are about changes for this model.
LEMMA CountsStay ==
  ASSUME PipeInv, NEW m \in Models,
         leases'[m] = leases[m], orphans'[m] = orphans[m],
         Holders(m)' = Holders(m), OnCache(m)' = OnCache(m),
         Failed(m) => Failed(m)'
  PROVE  CountsOf(m)'
BY DEF PipeInv, CountInv, CountsOf

\* The steps between lease and release are the ones of Holds.
LEMMA HoldsStay ==
  ASSUME PipeInv, UNCHANGED <<leases, orphans, cache, got>>,
         NEW t \in Tasks, NEW at, pc' = [pc EXCEPT ![t] = at],
         t \in Jobs => (Holds(t) <=> at \in {"register", "registerCancelled", "run"}),
         pc[t] # "failed", want'[t] = want[t] \/ pc[t] = "idle",
         \A x \in Tasks : x # t => want'[x] = want[x]
  PROVE  CountInv'
<1>. SUFFICES ASSUME NEW m \in Models PROVE CountsOf(m)' BY DEF CountInv, CountsOf
<1>1. \A j \in Jobs : (Holds(j)' <=> Holds(j)) BY TasksAre DEF PipeInv, PipeTypes, Holds
<1>2. Holders(m)' = Holders(m) BY <1>1 DEF Holders
<1>3. OnCache(m)' = OnCache(m) BY <1>2 DEF OnCache
<1>4. Failed(m) => Failed(m)' BY DEF Failed, PipeInv, PipeTypes
<1>. QED BY <1>2, <1>3, <1>4, CountsStay

\* A forced drop: the leases of the pipeline's model become its orphans.
LEMMA DropCounted ==
  ASSUME PipeInv, DropCounts, cache' = NoPipe, UNCHANGED <<got, want>>,
         \A j \in Jobs : (Holds(j)' <=> Holds(j)),
         \A m \in Models : Failed(m) => Failed(m)'
  PROVE  CountInv'
<1>. SUFFICES ASSUME NEW m \in Models PROVE CountsOf(m)' BY DEF CountInv, CountsOf
<1>0. PipeTypes /\ LoadInv /\ CountInv BY DEF PipeInv
<1>1. Holders(m)' = Holders(m) BY DEF Holders
<1>2. \A j \in Holders(m) : got[j] # NoPipe
  BY TasksAre DEF Holders, Holds, LoadInv, PipeInv
<1>3. OnCache(m)' = {} BY <1>1, <1>2 DEF OnCache
<1>3a. Cardinality(OnCache(m)') = 0 BY <1>3, FS_EmptySet
<1>4. leases[m] \in Nat /\ orphans[m] \in Nat BY <1>0 DEF PipeTypes
<1>5. CASE ~Resident(cache, m)
  <2>1. leases'[m] = leases[m] /\ orphans'[m] = orphans[m]
    BY <1>0, <1>5, PipeFields DEF DropCounts, Resident, PipeTypes
  <2>2. OnCache(m) = {}
    <3>1. CASE cache = NoPipe BY <1>2, <3>1 DEF OnCache
    <3>2. CASE cache # NoPipe /\ cache.model # m
      BY <3>2 DEF OnCache, Holders
    <3>. QED BY <1>5, <3>1, <3>2 DEF Resident
  <2>. QED BY <1>1, <1>3, <2>1, <2>2, CountsStay
<1>6. CASE Resident(cache, m)
  <2>1. leases'[m] = 0 /\ orphans'[m] = orphans[m] + leases[m]
    BY <1>0, <1>6 DEF DropCounts, Resident, PipeTypes
  <2>2. leases[m] + orphans[m] = Cardinality(Holders(m)) BY <1>0 DEF CountInv
  <2>. QED BY <1>1, <1>3a, <1>4, <2>1, <2>2 DEF CountsOf
<1>. QED BY <1>5, <1>6

\* A job leases the cached pipeline.
LEMMA LeaseCounted ==
  ASSUME PipeInv, NEW t \in Jobs, ~Holds(t), Holds(t)', pc[t] # "failed",
         \A j \in Jobs : j # t => (Holds(j)' <=> Holds(j)) /\ got'[j] = got[j],
         NEW k \in Models, cache' # NoPipe, got'[t] = cache', cache'.model = k,
         \/ cache' = cache
         \/ cache = NoPipe /\ \A j \in Jobs : j # t => got[j] # cache',
         leases' = [leases EXCEPT ![k] = @ + 1], orphans' = orphans,
         \A m \in Models : Failed(m) => Failed(m)'
  PROVE  CountInv'
<1>. SUFFICES ASSUME NEW m \in Models PROVE CountsOf(m)' BY DEF CountInv, CountsOf
<1>0. PipeTypes /\ LoadInv /\ CountInv BY DEF PipeInv
<1>1. leases[m] \in Nat /\ orphans[m] \in Nat BY <1>0 DEF PipeTypes
<1>2. \A j \in Holders(m) : got[j] # NoPipe
  BY TasksAre DEF Holders, Holds, LoadInv, PipeInv
<1>3. CASE m # k
  <2>1. Holders(m)' = Holders(m) BY <1>3 DEF Holders
  <2>2. OnCache(m)' = OnCache(m)
    BY <1>2, <1>3, <2>1 DEF OnCache, Holders
  <2>3. leases'[m] = leases[m] BY <1>0, <1>3 DEF PipeTypes
  <2>. QED BY <2>1, <2>2, <2>3, CountsStay
<1>4. CASE m = k
  <2>1. Holders(m)' = Holders(m) \cup {t} /\ t \notin Holders(m)
    BY <1>4 DEF Holders
  <2>2. OnCache(m)' = OnCache(m) \cup {t} /\ t \notin OnCache(m)
    BY <1>2, <1>4, <2>1 DEF OnCache, Holders
  <2>3. /\ Cardinality(Holders(m)') = Cardinality(Holders(m)) + 1
        /\ Cardinality(OnCache(m)') = Cardinality(OnCache(m)) + 1
    BY <2>1, <2>2, HoldersFinite, FS_AddElement
  <2>4. leases'[m] = leases[m] + 1 /\ orphans'[m] = orphans[m]
    BY <1>0, <1>4 DEF PipeTypes
  <2>5. CountsOf(m) BY <1>0 DEF CountInv, CountsOf
  <2>. QED BY <1>1, <2>3, <2>4, <2>5, HoldersFinite DEF CountsOf
<1>. QED BY <1>3, <1>4

\* A job gives up its lease of the cached pipeline.
LEMMA ReturnCounted ==
  ASSUME PipeInv, NEW t \in Jobs, Holds(t), ~Holds(t)', got[t] = cache, got' = got,
         \A j \in Jobs : j # t => (Holds(j)' <=> Holds(j)),
         NEW k \in Models, cache.model = k,
         leases' = [leases EXCEPT ![k] = @ - 1], orphans' = orphans,
         \/ cache' = cache
         \/ cache' = NoPipe /\ Failed(k)',
         \A m \in Models : Failed(m) => Failed(m)'
  PROVE  CountInv'
<1>. SUFFICES ASSUME NEW m \in Models PROVE CountsOf(m)' BY DEF CountInv, CountsOf
<1>0. PipeTypes /\ LoadInv /\ CountInv BY DEF PipeInv
<1>1. leases[m] \in Nat /\ orphans[m] \in Nat BY <1>0 DEF PipeTypes
<1>2. \A j \in Holders(m) : got[j] # NoPipe
  BY TasksAre DEF Holders, Holds, LoadInv, PipeInv
<1>3. CASE m # k
  <2>1. Holders(m)' = Holders(m) BY <1>3 DEF Holders
  <2>2. OnCache(m)' = OnCache(m)
    BY <1>2, <1>3, <2>1 DEF OnCache, Holders
  <2>3. leases'[m] = leases[m] BY <1>0, <1>3 DEF PipeTypes
  <2>. QED BY <2>1, <2>2, <2>3, CountsStay
<1>4. CASE m = k
  <2>1. Holders(m)' = Holders(m) \ {t} /\ t \in Holders(m)
    BY <1>4 DEF Holders
  <2>2. t \in OnCache(m) BY <2>1 DEF OnCache
  <2>3. /\ Cardinality(Holders(m)') = Cardinality(Holders(m)) - 1
        /\ Cardinality(OnCache(m) \ {t}) = Cardinality(OnCache(m)) - 1
        /\ Cardinality(OnCache(m) \ {t}) \in Nat
    BY <2>1, <2>2, HoldersFinite, FS_RemoveElement, FS_CardinalityType
  <2>4. leases'[m] = leases[m] - 1 /\ orphans'[m] = orphans[m]
    BY <1>0, <1>4 DEF PipeTypes
  <2>5. CountsOf(m) BY <1>0 DEF CountInv, CountsOf
  <2>6. CASE cache' = cache
    <3>1. OnCache(m)' = OnCache(m) \ {t} BY <2>1, <2>6 DEF OnCache
    <3>. QED BY <1>1, <2>3, <2>4, <2>5, <3>1, HoldersFinite DEF CountsOf
  <2>7. CASE cache' = NoPipe /\ Failed(k)'
    <3>1. OnCache(m)' = {} BY <1>2, <2>1, <2>7 DEF OnCache
    <3>2. Cardinality(OnCache(m)') = 0 BY <3>1, FS_EmptySet
    <3>. QED BY <1>1, <1>4, <2>3, <2>4, <2>5, <2>7, <3>2, HoldersFinite DEF CountsOf
  <2>. QED BY <2>6, <2>7
<1>. QED BY <1>3, <1>4

\* A run's release, whatever became of its pipeline meanwhile.
LEMMA ReleaseCounted ==
  ASSUME PipeInv, NEW t \in Jobs, pc[t] = "run", ~Holds(t)',
         Release(got[t].model, got[t]), UNCHANGED <<got, cache>>,
         \A j \in Jobs : j # t => (Holds(j)' <=> Holds(j)),
         \A m \in Models : Failed(m) => Failed(m)'
  PROVE  CountInv'
<1>0. PipeTypes /\ LoadInv /\ CountInv BY DEF PipeInv
<1>1. Holds(t) /\ got[t] # NoPipe /\ got[t] \in Pipes
  BY <1>0, TasksAre DEF Holds, LoadInv, PipeTypes
<1>. DEFINE k == got[t].model
<1>2. k \in Models BY <1>1, PipeFields
<1>3. t \in Holders(k) BY <1>1 DEF Holders
<1>3a. /\ IsFiniteSet(Holders(k)) /\ Cardinality(Holders(k)) \in Nat
       /\ IsFiniteSet(Holders(k) \ {t})
       /\ Cardinality(Holders(k) \ {t}) = Cardinality(Holders(k)) - 1
  <2>1. IsFiniteSet(Holders(k)) /\ Cardinality(Holders(k)) \in Nat
    BY <1>2, HoldersFinite
  <2>. HIDE DEF k
  <2>. QED BY <1>3, <2>1, FS_RemoveElement
<1>4. Cardinality(Holders(k)) > 0 BY <1>2, <1>3, HoldersFinite, FS_EmptySet
<1>5. leases[k] \in Nat /\ orphans[k] \in Nat BY <1>0, <1>2 DEF PipeTypes
<1>6. CountsOf(k) BY <1>0, <1>2 DEF CountInv, CountsOf
<1>7. CASE got[t] = cache
  <2>1. t \in OnCache(k) BY <1>3, <1>7 DEF OnCache
  <2>2. Cardinality(OnCache(k)) > 0 BY <1>2, <2>1, HoldersFinite, FS_EmptySet
  <2>3. leases[k] > 0 BY <1>2, <1>5, <1>6, <2>2, HoldersFinite DEF CountsOf
  <2>4. leases' = [leases EXCEPT ![k] = @ - 1] /\ orphans' = orphans
    BY <1>7, <2>3 DEF Release
  <2>. QED BY <1>1, <1>2, <1>7, <2>4, ReturnCounted
<1>8. CASE got[t] # cache
  <2>. SUFFICES ASSUME NEW m \in Models PROVE CountsOf(m)' BY DEF CountInv, CountsOf
  <2>1. OnCache(m)' = OnCache(m) BY <1>8 DEF OnCache, Holders
  <2>2. CASE m # k
    <3>1. Holders(m)' = Holders(m) BY <2>2 DEF Holders
    <3>2. leases'[m] = leases[m] /\ orphans'[m] = orphans[m]
      BY <1>0, <1>2, <2>2 DEF Release, PipeTypes
    <3>. QED BY <2>1, <3>1, <3>2, CountsStay
  <2>3. CASE m = k
    <3>1. Holders(k)' = Holders(k) \ {t} BY DEF Holders
    <3>2. Cardinality(Holders(k)') = Cardinality(Holders(k)) - 1
      BY <1>3a, <3>1
    <3>3. CASE orphans[k] > 0
      <4>1. orphans'[k] = orphans[k] - 1 /\ leases'[k] = leases[k]
        BY <1>0, <1>2, <1>8, <3>3 DEF Release, PipeTypes
      <4>. QED BY <1>2, <1>5, <1>6, <2>1, <2>3, <3>2, <4>1, HoldersFinite DEF CountsOf
    <3>4. CASE orphans[k] = 0
      <4>0. leases[k] = Cardinality(Holders(k)) BY <1>5, <1>6, <3>4 DEF CountsOf
      <4>1. orphans'[k] = orphans[k] /\ leases'[k] = leases[k] - 1
        BY <1>0, <1>2, <1>4, <1>5, <1>8, <3>4, <4>0 DEF Release, PipeTypes
      <4>2. OnCache(k) \subseteq Holders(k) \ {t} BY <1>8 DEF OnCache
      <4>3. Cardinality(OnCache(k)) <= Cardinality(Holders(k)) - 1
        <5>. HIDE DEF k
        <5>1. Cardinality(OnCache(k)) <= Cardinality(Holders(k) \ {t})
          BY <1>3a, <4>2, FS_Subset
        <5>. QED BY <1>3a, <5>1
      <4>4. Failed(k)
        BY <1>2, <1>6, <4>0, <4>3, HoldersFinite DEF CountsOf
      <4>. QED BY <1>2, <1>5, <1>6, <2>1, <2>3, <3>2, <3>4, <4>0, <4>1, <4>3, <4>4,
                  HoldersFinite DEF CountsOf
    <3>. QED BY <1>5, <3>3, <3>4
  <2>. QED BY <2>2, <2>3
<1>. QED BY <1>7, <1>8

LEMMA CountStep == PipeInv /\ Next => CountInv'
<1>. SUFFICES ASSUME PipeInv, Next PROVE CountInv' OBVIOUS
<1>0. PipeTypes /\ LoadInv BY DEF PipeInv
<1>. USE <1>0
<1>a. ASSUME UNCHANGED <<leases, orphans, cache, pc, want, got>> PROVE CountInv'
  BY <1>a DEF PipeInv, CountInv, Failed, OnCache, Holders, Holds
<1>b. ASSUME NEW t \in Tasks, NEW at, pc' = [pc EXCEPT ![t] = at], pc[t] # "failed",
             want'[t] = want[t] \/ pc[t] = "idle",
             \A x \in Tasks : x # t => want'[x] = want[x]
      PROVE  /\ \A m \in Models : Failed(m) => Failed(m)'
             /\ \A j \in Jobs : j # t => (Holds(j)' <=> Holds(j))
             /\ Holds(t)' <=> at \in {"register", "registerCancelled", "run"}
             /\ at = "failed" => \A m \in Models : want'[t].model = m => Failed(m)'
  BY <1>b, TasksAre DEF PipeTypes, Failed, Holds
<1>c. ASSUME NEW t \in Tasks, pc[t] \in {"idle", "wait"}, Take(t), Cached(want'[t]),
             UNCHANGED <<cache, orphans>>, want'[t] \in Keys,
             want'[t] = want[t] \/ pc[t] = "idle", want'[t].model = want[t].model,
             \A x \in Tasks : x # t => want'[x] = want[x]
      PROVE  CountInv'
  <2>1. CASE t \notin Jobs BY <1>c, <2>1, HoldsStay DEF Take
  <2>2. CASE t \in Jobs
    <3>1. /\ cache # NoPipe /\ cache.model = want[t].model /\ want[t].model \in Models
      BY <1>c, CachedFits, KeyFields DEF PipeTypes
    <3>2. /\ pc' = [pc EXCEPT ![t] = "run"]
          /\ got' = [got EXCEPT ![t] = cache]
          /\ leases' = [leases EXCEPT ![want[t].model] = @ + 1]
      BY <1>c, <2>2 DEF Take
    <3>3. /\ got'[t] = cache'
          /\ \A j \in Jobs : j # t => got'[j] = got[j]
      BY <1>c, <3>2, TasksAre DEF PipeTypes
    <3>4. ~Holds(t) /\ pc[t] # "failed" BY <1>c DEF Holds
    <3>5. /\ \A m \in Models : Failed(m) => Failed(m)'
          /\ \A j \in Jobs : j # t => (Holds(j)' <=> Holds(j))
          /\ Holds(t)'
      BY <1>b, <1>c, <3>2, <3>4
    <3>. QED BY <1>c, <2>2, <3>1, <3>2, <3>3, <3>4, <3>5, LeaseCounted
  <2>. QED BY <2>1, <2>2
<1>1. ASSUME NEW t \in Tasks, Begin(t) PROVE CountInv'
  <2>1. PICK key \in {[want[t] EXCEPT !.device = device]} :
       /\ want' = [want EXCEPT ![t] = key]
       /\ IF Cached(key)
          THEN Take(t)
          ELSE /\ pc' = [pc EXCEPT ![t] = "wait"]
               /\ UNCHANGED <<leases, got, thread>>
    BY <1>1 DEF Begin
  <2>2. want[t] \in Keys /\ device \in 0..MaxEdits BY DEF PipeTypes
  <2>3. key \in Keys /\ key.model = want[t].model BY <2>1, <2>2, NewKey
  <2>4. want'[t] = key /\ \A x \in Tasks : x # t => want'[x] = want[x]
    BY <2>1 DEF PipeTypes
  <2>5. UNCHANGED <<cache, orphans>> /\ pc[t] = "idle" BY <1>1 DEF Begin
  <2>6. CASE Cached(key) BY <1>c, <2>1, <2>3, <2>4, <2>5, <2>6
  <2>7. CASE ~Cached(key) BY <2>1, <2>4, <2>5, <2>7, HoldsStay DEF Holds
  <2>. QED BY <2>6, <2>7
<1>2. ASSUME NEW t \in Tasks, HitUnderLock(t) PROVE CountInv'
  BY <1>c, <1>2 DEF HitUnderLock, PipeTypes, Cached
<1>3. ASSUME NEW t \in Tasks, Decline(t) PROVE CountInv'
  BY <1>3, HoldsStay DEF Decline, cacheVars, Holds
<1>4. ASSUME NEW t \in Tasks, StartLoad(t) PROVE CountInv'
  <2>1. /\ pc' = [pc EXCEPT ![t] = "load"] /\ pc[t] = "wait"
        /\ DropCounts /\ cache' = NoPipe /\ UNCHANGED <<want, got>>
    BY <1>4 DEF StartLoad
  <2>2. /\ \A m \in Models : Failed(m) => Failed(m)'
        /\ \A j \in Jobs : j # t => (Holds(j)' <=> Holds(j))
    BY <1>b, <2>1
  <2>3. ~Holds(t) /\ ~Holds(t)' BY <2>1 DEF Holds, PipeTypes
  <2>. QED BY <2>1, <2>2, <2>3, DropCounted
<1>5. ASSUME NEW t \in Tasks, GiveUpWait(t) PROVE CountInv'
  BY <1>5, HoldsStay DEF GiveUpWait, cacheVars, Holds
<1>6. ASSUME NEW t \in Tasks, Built(t) PROVE CountInv'
  <2>1. PICK p \in {[model |-> want[t].model, device |-> want[t].device, by |-> t]} :
          cache' = p /\ got' = [got EXCEPT ![t] = p]
    BY <1>6 DEF Built
  <2>2. p \in Pipes /\ p.model = want[t].model /\ p.by = t
    BY <2>1, NewPipe DEF PipeTypes
  <2>3. p # NoPipe /\ want[t].model \in Models BY <2>2, NoPipeIsNone, PipeFields
  <2>4. /\ cache = NoPipe /\ pc[t] = "load"
        /\ \A x \in Tasks : got[x] # p
    BY <1>6, <2>2, <2>3 DEF LoadInv, Built
  <2>5. /\ pc' = [pc EXCEPT ![t] = "register"] /\ UNCHANGED <<want, orphans>>
        /\ leases' = IF t \in Jobs
                     THEN [leases EXCEPT ![want[t].model] = @ + 1] ELSE leases
    BY <1>6 DEF Built
  <2>6. /\ \A m \in Models : Failed(m) => Failed(m)'
        /\ \A j \in Jobs : j # t => (Holds(j)' <=> Holds(j))
        /\ Holds(t)'
    BY <1>b, <2>4, <2>5
  <2>7. ~Holds(t) BY <2>4 DEF Holds
  <2>8. /\ got'[t] = p
        /\ \A j \in Tasks : j # t => got'[j] = got[j]
    BY <2>1 DEF PipeTypes
  <2>9. CASE t \in Jobs
    BY <2>1, <2>2, <2>3, <2>4, <2>5, <2>6, <2>7, <2>8, <2>9, TasksAre, LeaseCounted
  <2>10. CASE t \notin Jobs
    <3>. SUFFICES ASSUME NEW m \in Models PROVE CountsOf(m)' BY DEF CountInv, CountsOf
    <3>1. Holders(m)' = Holders(m)
      BY <2>6, <2>8, <2>10, TasksAre DEF Holders
    <3>2. \A j \in Holders(m) : got[j] # NoPipe /\ got[j] # p /\ got'[j] = got[j]
      BY <2>4, <2>8, <2>10, TasksAre DEF Holders, Holds, LoadInv
    <3>3. OnCache(m)' = {} /\ OnCache(m) = {}
      BY <2>1, <2>4, <3>1, <3>2 DEF OnCache
    <3>. QED BY <2>5, <2>6, <2>10, <3>1, <3>3, CountsStay
  <2>. QED BY <2>9, <2>10
<1>7. ASSUME NEW t \in Tasks, LoadEnds(t) PROVE CountInv'
  BY <1>7, HoldsStay DEF LoadEnds, Holds
<1>8. ASSUME NEW t \in Tasks, CancelRegister(t) PROVE CountInv'
  BY <1>8, HoldsStay DEF CancelRegister, cacheVars, Holds
<1>d. ASSUME NEW t \in Tasks, pc[t] \in {"register", "registerCancelled"}
      PROVE  /\ got[t] = cache /\ cache.model = want[t].model /\ cache # NoPipe
             /\ want[t].model \in Models /\ Holds(t)
  BY <1>d, KeyFields DEF LoadInv, PipeTypes, Holds
<1>9. ASSUME NEW t \in Tasks, Registered(t) PROVE CountInv'
  <2>1. /\ pc[t] \in {"register", "registerCancelled"}
        /\ UNCHANGED <<cache, orphans, want, got>>
    BY <1>9 DEF Registered
  <2>2. CASE t \in Jobs /\ pc[t] = "registerCancelled"
    <3>1. /\ pc' = [pc EXCEPT ![t] = "done"]
          /\ leases' = [leases EXCEPT ![want[t].model] = @ - 1]
      BY <1>9, <2>2 DEF Registered
    <3>2. /\ \A m \in Models : Failed(m) => Failed(m)'
          /\ \A j \in Jobs : j # t => (Holds(j)' <=> Holds(j))
      BY <1>b, <2>1, <3>1
    <3>3. ~Holds(t)' BY <3>1 DEF Holds, PipeTypes
    <3>. QED BY <1>d, <2>1, <2>2, <3>1, <3>2, <3>3, ReturnCounted
  <2>3. CASE t \notin Jobs
    BY <1>9, <2>1, <2>3, HoldsStay DEF Registered
  <2>4. CASE t \in Jobs /\ pc[t] = "register"
    BY <1>9, <2>1, <2>4, HoldsStay DEF Registered, Holds
  <2>. QED BY <2>1, <2>2, <2>3, <2>4
<1>10. ASSUME NEW t \in Tasks, RegisterFails(t) PROVE CountInv'
  <2>1. /\ pc[t] \in {"register", "registerCancelled"} /\ cache' = NoPipe
        /\ UNCHANGED <<orphans, want, got>> /\ pc' = [pc EXCEPT ![t] = "failed"]
        /\ leases' = IF t \in Jobs
                     THEN [leases EXCEPT ![want[t].model] = @ - 1] ELSE leases
    BY <1>10 DEF RegisterFails
  <2>2. /\ \A m \in Models : Failed(m) => Failed(m)'
        /\ \A j \in Jobs : j # t => (Holds(j)' <=> Holds(j))
        /\ \A m \in Models : want[t].model = m => Failed(m)'
    BY <1>b, <1>d, <2>1
  <2>2a. ~Holds(t)' BY <2>1 DEF Holds, PipeTypes
  <2>3. CASE t \in Jobs
    <3>1. PICK k \in Models : k = want[t].model BY <1>d, <2>1
    <3>. QED BY <1>d, <2>1, <2>2, <2>2a, <2>3, <3>1, ReturnCounted
  <2>4. CASE t \notin Jobs
    <3>. SUFFICES ASSUME NEW m \in Models PROVE CountsOf(m)' BY DEF CountInv, CountsOf
    <3>0. CountsOf(m) BY DEF PipeInv, CountInv, CountsOf
    <3>1. Holders(m)' = Holders(m) BY <2>1, <2>2, <2>4 DEF Holders
    <3>2. \A j \in Holders(m) : got[j] # NoPipe
      BY TasksAre DEF Holders, Holds, LoadInv
    <3>3. OnCache(m)' = {} BY <2>1, <3>1, <3>2 DEF OnCache
    <3>4. leases'[m] = leases[m] /\ orphans'[m] = orphans[m] BY <2>1, <2>4
    <3>5. CASE m = want[t].model
      <4>1. Cardinality(OnCache(m)') = 0 BY <3>3, FS_EmptySet
      <4>2. leases[m] \in Nat BY DEF PipeTypes
      <4>. QED BY <2>2, <3>0, <3>1, <3>4, <3>5, <4>1, <4>2 DEF CountsOf
    <3>6. CASE m # want[t].model
      <4>1. cache.model # m BY <1>d, <2>1, <3>6
      <4>2. OnCache(m) = {} BY <4>1 DEF OnCache, Holders
      <4>. QED BY <2>2, <3>1, <3>3, <3>4, <4>2, CountsStay
    <3>. QED BY <3>5, <3>6
  <2>. QED BY <2>3, <2>4
<1>11. ASSUME NEW j \in Jobs, Enter(j) \/ TurnBack(j) \/ Leave(j) \/ HandOff(j)
       PROVE  CountInv'
  BY <1>a, <1>11 DEF Enter, TurnBack, Leave, HandOff, cacheVars, taskVars
<1>12. ASSUME NEW j \in Jobs, Finish(j) PROVE CountInv'
  <2>1. /\ pc[j] = "run" /\ pc' = [pc EXCEPT ![j] = "done"]
        /\ Release(got[j].model, got[j]) /\ UNCHANGED <<want, got, cache>>
    BY <1>12 DEF Finish
  <2>2. /\ \A m \in Models : Failed(m) => Failed(m)'
        /\ \A x \in Jobs : x # j => (Holds(x)' <=> Holds(x))
    BY <1>b, <2>1, TasksAre
  <2>3. ~Holds(j)' BY <2>1, TasksAre DEF Holds, PipeTypes
  <2>. QED BY <2>1, <2>2, <2>3, ReleaseCounted
<1>13. ASSUME NEW j \in Jobs, CancelRun(j) PROVE CountInv'
  <2>1. /\ pc[j] = "run" /\ pc' = [pc EXCEPT ![j] = "cancelled"]
        /\ Release(got[j].model, got[j]) /\ UNCHANGED <<want, got, cache>>
    BY <1>13 DEF CancelRun
  <2>2. /\ \A m \in Models : Failed(m) => Failed(m)'
        /\ \A x \in Jobs : x # j => (Holds(x)' <=> Holds(x))
    BY <1>b, <2>1, TasksAre
  <2>3. ~Holds(j)' BY <2>1, TasksAre DEF Holds, PipeTypes
  <2>. QED BY <2>1, <2>2, <2>3, ReleaseCounted
<1>14. CASE Edit BY <1>a, <1>14 DEF Edit, cacheVars, taskVars
<1>e. ASSUME DropCounts, cache' = NoPipe, UNCHANGED <<pc, want, got>> PROVE CountInv'
  <2>1. /\ \A j \in Jobs : (Holds(j)' <=> Holds(j))
        /\ \A m \in Models : Failed(m) => Failed(m)'
    BY <1>e DEF Holds, Failed
  <2>. QED BY <1>e, <2>1, DropCounted
<1>15. CASE EditDrop BY <1>e, <1>15 DEF EditDrop, taskVars
<1>16. CASE IdleDrop BY <1>e, <1>16 DEF IdleDrop, taskVars
<1>. QED
  BY <1>1, <1>2, <1>3, <1>4, <1>5, <1>6, <1>7, <1>8, <1>9, <1>10, <1>11, <1>12,
     <1>13, <1>14, <1>15, <1>16 DEF Next

-----------------------------------------------------------------------------
(* The registry's rows.                                                        *)

RowOf(m) ==
  /\ Resident(cache, m) /\ lock = Free => m \in rows
  /\ m \in rows => \/ Resident(cache, m) \/ orphans[m] > 0 \/ m \in deferred
                   \/ Failed(m)
  /\ m \in deferred => lock # Free /\ want[lock].model = m

LEMMA RowsByModel == PipeTypes => (RowsInv <=> \A m \in Models : RowOf(m))
BY DEF PipeTypes, RowsInv, RowsMatch, RowOf, Failed

LEMMA RowsStep == PipeInv /\ Next => RowsInv'
<1>. SUFFICES ASSUME PipeInv, Next, NEW m \in Models PROVE RowOf(m)'
  BY TypesStep DEF RowsInv, RowsMatch, RowOf, Failed, PipeTypes
<1>0. PipeTypes /\ LoadInv BY DEF PipeInv
<1>00. RowOf(m) BY RowsByModel DEF PipeInv
<1>01. orphans[m] \in Nat /\ leases[m] \in Nat BY <1>0 DEF PipeTypes
<1>. USE <1>0
\* A step of one task that leaves the rows and the lock alone.
<1>a. ASSUME NEW t \in Tasks, NEW at, pc' = [pc EXCEPT ![t] = at], pc[t] # "failed",
             want'[t].model = want[t].model, \A x \in Tasks : x # t => want'[x] = want[x]
      PROVE  /\ Failed(m) => Failed(m)'
             /\ lock # Free => want'[lock].model = want[lock].model
  BY <1>a DEF PipeTypes, Failed
<1>b. ASSUME NEW t \in Tasks, NEW at, pc' = [pc EXCEPT ![t] = at], pc[t] # "failed",
             want'[t].model = want[t].model, \A x \in Tasks : x # t => want'[x] = want[x],
             UNCHANGED <<cache, lock, rows, orphans, deferred>>
      PROVE  RowOf(m)'
  <2>1. /\ Failed(m) => Failed(m)'
        /\ lock # Free => want'[lock].model = want[lock].model
    BY <1>a, <1>b
  <2>. QED BY <1>b, <1>00, <2>1 DEF RowOf
<1>c. ASSUME UNCHANGED <<pc, want, cache, lock, rows, orphans, deferred>>
      PROVE  RowOf(m)'
  BY <1>c, <1>00 DEF RowOf, Failed, Resident
\* The cached pipeline is dropped, with nobody under the lock.
<1>d. ASSUME DropCounts, cache' = NoPipe, lock = Free, UNCHANGED deferred,
             Failed(m) => Failed(m)'
      PROVE  RowOf(m)'
  <2>1. ~Resident(cache, m)' BY <1>d DEF Resident
  <2>2. m \notin deferred BY <1>d, <1>00 DEF RowOf
  <2>3. CASE Resident(cache, m)
    <3>1. /\ orphans'[m] = orphans[m] + leases[m]
          /\ m \in rows' => leases[m] + orphans[m] > 0
      BY <1>d, <2>3 DEF DropCounts, Resident, PipeTypes
    <3>. QED BY <1>d, <1>01, <2>1, <2>2, <3>1 DEF RowOf
  <2>4. CASE ~Resident(cache, m)
    <3>1. orphans'[m] = orphans[m] /\ (m \in rows' => m \in rows)
      BY <1>d, <2>4, PipeFields DEF DropCounts, Resident, PipeTypes
    <3>. QED BY <1>d, <1>00, <2>1, <2>2, <2>4, <3>1 DEF RowOf
  <2>. QED BY <2>3, <2>4
\* A run's release.
<1>e. ASSUME NEW j \in Jobs, NEW at, pc' = [pc EXCEPT ![j] = at], pc[j] = "run",
             Release(got[j].model, got[j]), UNCHANGED <<cache, lock, want>>
      PROVE  RowOf(m)'
  <2>1. Failed(m) => Failed(m)' BY <1>e, TasksAre DEF PipeTypes, Failed
  <2>2. got[j].model \in Models BY <1>e, TasksAre, PipeFields DEF LoadInv, PipeTypes
  <2>3. Resident(cache, m)' <=> Resident(cache, m) BY <1>e DEF Resident
  <2>4. CASE UNCHANGED <<orphans, rows, deferred>>
    BY <1>e, <1>00, <2>1, <2>3, <2>4 DEF RowOf
  <2>5. CASE orphans' = [orphans EXCEPT ![got[j].model] = @ - 1]
             /\ orphans[got[j].model] > 1 /\ UNCHANGED <<rows, deferred>>
    <3>1. orphans[m] > 0 => orphans'[m] > 0
      BY <1>01, <2>2, <2>5 DEF PipeTypes
    <3>. QED BY <1>e, <1>00, <2>1, <2>3, <2>5, <3>1 DEF RowOf
  <2>6. CASE orphans' = [orphans EXCEPT ![got[j].model] = @ - 1]
             /\ FreePipe(got[j].model)
    <3>1. CASE m # got[j].model
      <4>1. orphans'[m] = orphans[m] /\ (m \in rows' <=> m \in rows)
            /\ (m \in deferred' <=> m \in deferred)
        BY <2>2, <2>6, <3>1 DEF PipeTypes, FreePipe
      <4>. QED BY <1>e, <1>00, <2>1, <2>3, <4>1 DEF RowOf
    <3>2. CASE m = got[j].model
      <4>1. CASE Resident(cache, m)
        BY <1>e, <1>00, <2>3, <2>6, <3>2, <4>1 DEF FreePipe, RowOf
      <4>2. CASE ~Resident(cache, m) /\ Loading(m)
        BY <1>e, <1>00, <2>3, <2>6, <3>2, <4>2 DEF FreePipe, RowOf, Loading
      <4>3. CASE ~Resident(cache, m) /\ ~Loading(m)
        BY <1>e, <1>00, <2>3, <2>6, <3>2, <4>3 DEF FreePipe, RowOf, Loading
      <4>. QED BY <4>1, <4>2, <4>3
    <3>. QED BY <3>1, <3>2
  <2>7. orphans[got[j].model] \in Nat BY <2>2 DEF PipeTypes
  <2>. QED BY <1>e, <2>4, <2>5, <2>6, <2>7 DEF Release
<1>1. ASSUME NEW t \in Tasks, Begin(t) PROVE RowOf(m)'
  <2>1. PICK key \in {[want[t] EXCEPT !.device = device]} :
       /\ want' = [want EXCEPT ![t] = key]
       /\ IF Cached(key)
          THEN Take(t)
          ELSE /\ pc' = [pc EXCEPT ![t] = "wait"]
               /\ UNCHANGED <<leases, got, thread>>
    BY <1>1 DEF Begin
  <2>2. want[t] \in Keys /\ device \in 0..MaxEdits BY DEF PipeTypes
  <2>3. key.model = want[t].model BY <2>1, <2>2, NewKey
  <2>4. want'[t] = key /\ \A x \in Tasks : x # t => want'[x] = want[x]
    BY <2>1 DEF PipeTypes
  <2>5. UNCHANGED <<cache, lock, rows, orphans, deferred>> /\ pc[t] = "idle"
    BY <1>1 DEF Begin
  <2>6. \/ pc' = [pc EXCEPT ![t] = "wait"]
        \/ pc' = [pc EXCEPT ![t] = "run"]
        \/ pc' = [pc EXCEPT ![t] = "done"]
    BY <2>1 DEF Take
  <2>. QED BY <1>b, <2>3, <2>4, <2>5, <2>6
<1>2. ASSUME NEW t \in Tasks, HitUnderLock(t) PROVE RowOf(m)'
  <2>1. \/ pc' = [pc EXCEPT ![t] = "run"]
        \/ pc' = [pc EXCEPT ![t] = "done"]
    BY <1>2 DEF HitUnderLock, Take
  <2>. QED BY <1>b, <1>2, <2>1 DEF HitUnderLock
<1>3. ASSUME NEW t \in Tasks, Decline(t) PROVE RowOf(m)'
  BY <1>b, <1>3 DEF Decline, cacheVars
<1>4. ASSUME NEW t \in Tasks, StartLoad(t) PROVE RowOf(m)'
  <2>1. Failed(m) => Failed(m)' BY <1>a, <1>4 DEF StartLoad
  <2>3. /\ ~Resident(cache, m)' /\ m \notin deferred'
    BY <1>4, <1>00 DEF StartLoad, Resident, RowOf
  <2>4. m \in rows' => orphans'[m] > 0 \/ Failed(m)'
    <3>1. CASE Resident(cache, m)
      <4>1. /\ orphans'[m] = orphans[m] + leases[m]
            /\ m \in rows' => leases[m] + orphans[m] > 0
        BY <1>4, <3>1 DEF StartLoad, DropCounts, Resident, PipeTypes
      <4>. QED BY <1>01, <4>1
    <3>2. CASE ~Resident(cache, m)
      <4>1. orphans'[m] = orphans[m] /\ (m \in rows' => m \in rows)
        BY <1>4, <3>2, PipeFields DEF StartLoad, DropCounts, Resident, PipeTypes
      <4>. QED BY <1>4, <1>00, <2>1, <2>3, <3>2, <4>1 DEF RowOf, StartLoad
    <3>. QED BY <3>1, <3>2
  <2>. QED BY <2>3, <2>4 DEF RowOf
<1>5. ASSUME NEW t \in Tasks, GiveUpWait(t) PROVE RowOf(m)'
  BY <1>b, <1>5 DEF GiveUpWait, cacheVars
<1>6. ASSUME NEW t \in Tasks, Built(t) PROVE RowOf(m)'
  <2>1. PICK p \in {[model |-> want[t].model, device |-> want[t].device, by |-> t]} :
          cache' = p /\ got' = [got EXCEPT ![t] = p]
    BY <1>6 DEF Built
  <2>2. /\ pc' = [pc EXCEPT ![t] = "register"] /\ pc[t] = "load"
        /\ UNCHANGED <<orphans, rows, lock, deferred, want>>
    BY <1>6 DEF Built
  <2>3. (Failed(m) => Failed(m)') /\ cache = NoPipe /\ lock # Free
    BY <1>a, <2>2, TasksAre DEF LoadInv, Loader
  <2>4. ~Resident(cache, m) BY <2>3 DEF Resident
  <2>. QED BY <1>00, <2>2, <2>3, <2>4 DEF RowOf
<1>f. ASSUME NEW t \in Tasks, lock = t
      PROVE  m \in deferred => want[t].model = m
  BY <1>f, <1>00 DEF RowOf
<1>7. ASSUME NEW t \in Tasks, LoadEnds(t) PROVE RowOf(m)'
  <2>1. /\ Failed(m) => Failed(m)'
        /\ cache = NoPipe /\ cache' = cache /\ deferred' = {}
    BY <1>a, <1>7 DEF LoadEnds, LoadInv
  <2>2. ~Resident(cache, m) /\ ~Resident(cache, m)' BY <2>1 DEF Resident
  <2>3. m \in rows' => m \in rows /\ (m \in deferred => orphans'[m] # 0)
    BY <1>7 DEF LoadEnds, RedoDeferred
  <2>4. orphans' = orphans BY <1>7 DEF LoadEnds
  <2>. QED BY <1>00, <1>01, <2>1, <2>2, <2>3, <2>4 DEF RowOf
<1>8. ASSUME NEW t \in Tasks, CancelRegister(t) PROVE RowOf(m)'
  BY <1>b, <1>8 DEF CancelRegister, cacheVars
<1>9. ASSUME NEW t \in Tasks, Registered(t) PROVE RowOf(m)'
  <2>1. /\ pc[t] \in {"register", "registerCancelled"} /\ cache' = cache
        /\ rows' = rows \cup {want[t].model} /\ deferred' = {}
        /\ UNCHANGED <<want, orphans>>
    BY <1>9 DEF Registered
  <2>2. \/ pc' = [pc EXCEPT ![t] = "run"]
        \/ pc' = [pc EXCEPT ![t] = "done"]
    BY <1>9 DEF Registered
  <2>3. Failed(m) => Failed(m)' BY <1>a, <2>1, <2>2
  <2>4. lock = t /\ cache # NoPipe /\ cache.model = want[t].model
    BY <2>1 DEF LoadInv, Loader
  <2>5. Resident(cache, m)' <=> m = want[t].model BY <2>1, <2>4 DEF Resident
  <2>6. Resident(cache, m) <=> m = want[t].model BY <2>4 DEF Resident
  <2>. QED BY <1>00, <1>f, <2>1, <2>3, <2>4, <2>5, <2>6 DEF RowOf
<1>10. ASSUME NEW t \in Tasks, RegisterFails(t) PROVE RowOf(m)'
  <2>1. /\ pc[t] \in {"register", "registerCancelled"} /\ cache' = NoPipe
        /\ deferred' = {} /\ UNCHANGED <<want, orphans>>
        /\ pc' = [pc EXCEPT ![t] = "failed"]
        /\ m \in rows' => m \in rows
    BY <1>10 DEF RegisterFails, RedoDeferred
  <2>2. Failed(m) => Failed(m)' BY <1>a, <2>1
  <2>3. lock = t /\ cache # NoPipe /\ cache.model = want[t].model
    BY <2>1 DEF LoadInv, Loader
  <2>4. ~Resident(cache, m)' BY <2>1 DEF Resident
  <2>5. Resident(cache, m) <=> m = want[t].model BY <2>3 DEF Resident
  <2>6. m = want[t].model => Failed(m)'
    BY <2>1 DEF Failed, PipeTypes
  <2>. QED BY <1>00, <1>f, <2>1, <2>2, <2>3, <2>4, <2>5, <2>6 DEF RowOf
<1>11. ASSUME NEW j \in Jobs, Enter(j) \/ TurnBack(j) \/ Leave(j) \/ HandOff(j)
       PROVE  RowOf(m)'
  BY <1>c, <1>11 DEF Enter, TurnBack, Leave, HandOff, cacheVars, taskVars
<1>12. ASSUME NEW j \in Jobs, Finish(j) PROVE RowOf(m)'
  BY <1>e, <1>12 DEF Finish
<1>13. ASSUME NEW j \in Jobs, CancelRun(j) PROVE RowOf(m)'
  BY <1>e, <1>13 DEF CancelRun
<1>14. CASE Edit BY <1>c, <1>14 DEF Edit, cacheVars, taskVars
<1>15. CASE EditDrop
  <2>1. Failed(m) => Failed(m)' BY <1>15 DEF EditDrop, taskVars, Failed
  <2>. QED BY <1>d, <1>15, <2>1 DEF EditDrop
<1>16. CASE IdleDrop
  <2>1. Failed(m) => Failed(m)' BY <1>16 DEF IdleDrop, taskVars, Failed
  <2>. QED BY <1>d, <1>16, <2>1 DEF IdleDrop
<1>. QED
  BY <1>1, <1>2, <1>3, <1>4, <1>5, <1>6, <1>7, <1>8, <1>9, <1>10, <1>11, <1>12,
     <1>13, <1>14, <1>15, <1>16 DEF Next

-----------------------------------------------------------------------------
(* The threads and their files.                                                *)

ThreadOf(j) ==
  /\ mutex = j <=> thread[j] = "inside"
  /\ pc[j] = "run" => thread[j] # "none"
  /\ thread[j] = "none" => wav[j] = "none"
  /\ thread[j] # "none" => got[j] # NoPipe /\ pc[j] \in {"run", "cancelled", "done"}
  /\ thread[j] \in {"queued", "inside", "handing"} => pc[j] \in {"run", "cancelled"}
  /\ thread[j] \in {"queued", "inside"} => wav[j] = "none"
  /\ thread[j] = "over" /\ pc[j] = "run" => wav[j] \in {"none", "offered"}
  /\ thread[j] = "over" /\ pc[j] = "done" => wav[j] \in {"none", "caller"}
  /\ thread[j] = "over" /\ pc[j] = "cancelled" => wav[j] \in {"none", "unlinked"}

LEMMA ThreadStep == PipeInv /\ Next => ThreadInv'
<1>. SUFFICES ASSUME PipeInv, Next, NEW j \in Jobs PROVE ThreadOf(j)'
  BY DEF ThreadInv, ThreadOf
<1>0. PipeTypes /\ LoadInv BY DEF PipeInv
<1>00. \A x \in Jobs : ThreadOf(x) BY DEF PipeInv, ThreadInv, ThreadOf
<1>01. j \in Tasks BY TasksAre
<1>. USE <1>0, <1>01
\* A step that changes nothing of this job but perhaps its place before a run.
<1>a. ASSUME UNCHANGED <<mutex, thread, wav>>, got'[j] = got[j],
             \/ pc'[j] = pc[j]
             \/ thread[j] = "none" /\ pc'[j] # "run"
      PROVE  ThreadOf(j)'
  BY <1>a, <1>00 DEF ThreadOf
<1>b. ASSUME NEW t \in Tasks, NEW at, pc' = [pc EXCEPT ![t] = at],
             UNCHANGED <<mutex, thread, wav, got>>, at # "run",
             pc[t] \notin {"run", "cancelled", "done"}
      PROVE  ThreadOf(j)'
  <2>1. t = j => thread[j] = "none" BY <1>b, <1>00 DEF ThreadOf, PipeTypes
  <2>. QED BY <1>a, <1>b, <2>1 DEF PipeTypes
<1>c. ASSUME NEW t \in Tasks, pc[t] \in {"idle", "wait"}, Take(t), cache # NoPipe,
             UNCHANGED <<mutex, wav>>
      PROVE  ThreadOf(j)'
  <2>1. CASE t \notin Jobs BY <1>b, <1>c, <2>1 DEF Take
  <2>2. CASE t \in Jobs /\ t # j
    BY <1>c, <1>00, <2>2 DEF Take, PipeTypes, ThreadOf
  <2>3. CASE t = j
    <3>1. thread[j] = "none" BY <1>c, <1>00, <2>3 DEF ThreadOf, PipeTypes
    <3>. QED BY <1>c, <1>00, <2>3, <3>1 DEF Take, PipeTypes, ThreadOf
  <2>. QED BY <2>1, <2>2, <2>3
<1>1. ASSUME NEW t \in Tasks, Begin(t) PROVE ThreadOf(j)'
  <2>1. PICK key \in {[want[t] EXCEPT !.device = device]} :
       /\ want' = [want EXCEPT ![t] = key]
       /\ IF Cached(key)
          THEN Take(t)
          ELSE /\ pc' = [pc EXCEPT ![t] = "wait"]
               /\ UNCHANGED <<leases, got, thread>>
    BY <1>1 DEF Begin
  <2>2. want[t] \in Keys /\ device \in 0..MaxEdits BY DEF PipeTypes
  <2>3. key \in Keys BY <2>1, <2>2, NewKey
  <2>4. UNCHANGED <<mutex, wav>> /\ pc[t] = "idle" BY <1>1 DEF Begin
  <2>5. CASE Cached(key) BY <1>c, <2>1, <2>3, <2>4, <2>5, CachedFits DEF PipeTypes
  <2>6. CASE ~Cached(key) BY <1>b, <2>1, <2>4, <2>6
  <2>. QED BY <2>5, <2>6
<1>2. ASSUME NEW t \in Tasks, HitUnderLock(t) PROVE ThreadOf(j)'
  BY <1>c, <1>2, CachedFits DEF HitUnderLock, PipeTypes
<1>3. ASSUME NEW t \in Tasks,
             \/ Decline(t) \/ StartLoad(t) \/ GiveUpWait(t) \/ LoadEnds(t)
             \/ CancelRegister(t) \/ RegisterFails(t)
       PROVE  ThreadOf(j)'
  BY <1>b, <1>3 DEF Decline, StartLoad, GiveUpWait, LoadEnds, CancelRegister,
                    RegisterFails, runVars
<1>4. ASSUME NEW t \in Tasks, Built(t) PROVE ThreadOf(j)'
  <2>1. PICK p \in {[model |-> want[t].model, device |-> want[t].device, by |-> t]} :
          cache' = p /\ got' = [got EXCEPT ![t] = p]
    BY <1>4 DEF Built
  <2>2. pc' = [pc EXCEPT ![t] = "register"] /\ pc[t] = "load"
        /\ UNCHANGED <<mutex, thread, wav>>
    BY <1>4 DEF Built, runVars
  <2>3. CASE t = j
    <3>1. thread[j] = "none" BY <1>00, <2>2, <2>3 DEF ThreadOf
    <3>. QED BY <1>00, <2>2, <2>3, <3>1 DEF ThreadOf, PipeTypes
  <2>4. CASE t # j BY <1>a, <2>1, <2>2, <2>4 DEF PipeTypes
  <2>. QED BY <2>3, <2>4
<1>5. ASSUME NEW t \in Tasks, Registered(t) PROVE ThreadOf(j)'
  <2>1. /\ pc[t] \in {"register", "registerCancelled"} /\ UNCHANGED <<mutex, wav, got>>
    BY <1>5 DEF Registered
  <2>2. CASE t \in Jobs /\ pc[t] = "register"
    <3>1. /\ pc' = [pc EXCEPT ![t] = "run"]
          /\ thread' = [thread EXCEPT ![t] = "queued"]
      BY <1>5, <2>2 DEF Registered
    <3>2. CASE t # j BY <1>00, <2>1, <3>1, <3>2 DEF ThreadOf, PipeTypes
    <3>3. CASE t = j
      <4>1. thread[j] = "none" /\ got[j] # NoPipe
        BY <1>00, <2>1, <3>3 DEF ThreadOf, LoadInv, PipeTypes
      <4>. QED BY <1>00, <2>1, <3>1, <3>3, <4>1 DEF ThreadOf, PipeTypes
    <3>. QED BY <3>2, <3>3
  <2>3. CASE ~(t \in Jobs /\ pc[t] = "register")
    BY <1>b, <1>5, <2>1, <2>3 DEF Registered
  <2>. QED BY <2>2, <2>3
<1>6. ASSUME NEW x \in Jobs, Enter(x) PROVE ThreadOf(j)'
  BY <1>6, <1>00, TasksAre DEF Enter, ThreadOf, PipeTypes, cacheVars, taskVars
<1>7. ASSUME NEW x \in Jobs, TurnBack(x) PROVE ThreadOf(j)'
  BY <1>7, <1>00, TasksAre DEF TurnBack, ThreadOf, PipeTypes, cacheVars, taskVars
<1>8. ASSUME NEW x \in Jobs, Leave(x) PROVE ThreadOf(j)'
  BY <1>8, <1>00, TasksAre DEF Leave, ThreadOf, PipeTypes, cacheVars, taskVars
<1>9. ASSUME NEW x \in Jobs, HandOff(x) PROVE ThreadOf(j)'
  BY <1>9, <1>00, TasksAre DEF HandOff, ThreadOf, PipeTypes, cacheVars, taskVars
<1>10. ASSUME NEW x \in Jobs, Finish(x) PROVE ThreadOf(j)'
  BY <1>10, <1>00, TasksAre DEF Finish, ThreadOf, PipeTypes
<1>11. ASSUME NEW x \in Jobs, CancelRun(x) PROVE ThreadOf(j)'
  BY <1>11, <1>00, TasksAre DEF CancelRun, ThreadOf, PipeTypes
<1>12. CASE Edit \/ EditDrop \/ IdleDrop
  BY <1>a, <1>12 DEF Edit, EditDrop, IdleDrop, taskVars, runVars
<1>. QED
  BY <1>1, <1>2, <1>3, <1>4, <1>5, <1>6, <1>7, <1>8, <1>9, <1>10, <1>11, <1>12 DEF Next

LEMMA PipeStep == PipeInv /\ [Next]_vars => PipeInv'
<1>. SUFFICES ASSUME PipeInv, [Next]_vars PROVE PipeInv' OBVIOUS
<1>1. CASE Next
  BY <1>1, TypesStep, LoadStep, CountStep, RowsStep, ThreadStep DEF PipeInv
<1>2. CASE UNCHANGED vars
  <2>1. UNCHANGED <<device, drains, cache, leases, orphans, rows, lock, deferred, mutex,
                    pc, want, got, thread, wav>>
    BY <1>2 DEF vars, configVars, cacheVars, taskVars, runVars
  <2>2. PipeTypes' BY <2>1 DEF PipeInv, PipeTypes
  <2>3. LoadInv' BY <2>1 DEF PipeInv, LoadInv, Loader
  <2>4. CountInv' BY <2>1 DEF PipeInv, CountInv, Failed, OnCache, Holders, Holds
  <2>5. RowsInv' BY <2>1 DEF PipeInv, RowsInv, RowsMatch, Resident
  <2>6. ThreadInv' BY <2>1 DEF PipeInv, ThreadInv
  <2>. QED BY <2>2, <2>3, <2>4, <2>5, <2>6 DEF PipeInv
<1>. QED BY <1>1, <1>2

-----------------------------------------------------------------------------

LEMMA AccountedFor == PipeInv => TypeOK /\ LeaseAccounting /\ RowsMatch /\ FilesOwned
<1>. SUFFICES ASSUME PipeInv PROVE TypeOK /\ LeaseAccounting /\ RowsMatch /\ FilesOwned
  OBVIOUS
<1>0. PipeTypes /\ CountInv BY DEF PipeInv
<1>1. TypeOK
  <2>1. Cardinality(Jobs) \in Nat BY TasksAre, FS_CardinalityType
  <2>2. \A m \in Models : /\ leases[m] \in 0..Cardinality(Jobs)
                          /\ orphans[m] \in 0..Cardinality(Jobs)
    <3>. TAKE m \in Models
    <3>1. Cardinality(Holders(m)) <= Cardinality(Jobs)
      BY HoldersFinite, TasksAre, FS_Subset
    <3>. QED BY <1>0, <2>1, <3>1, HoldersFinite DEF PipeTypes, CountInv
  <2>. QED BY <1>0, <2>2 DEF PipeTypes, TypeOK
<1>2. LeaseAccounting BY <1>0 DEF LeaseAccounting, CountInv, OnCache
<1>3. RowsMatch BY DEF PipeInv, RowsInv
<1>4. FilesOwned
  <2>. SUFFICES ASSUME NEW j \in Jobs, pc[j] \in {"done", "cancelled"},
                       thread[j] \in {"none", "over"}
                PROVE  wav[j] \in IF pc[j] = "done" THEN {"none", "caller"}
                                  ELSE {"none", "unlinked"}
    BY DEF FilesOwned
  <2>. QED BY DEF PipeInv, ThreadInv
<1>. QED BY <1>1, <1>2, <1>3, <1>4

LEMMA DroppedIdle ==
  ASSUME PipeInv, Next, mutex # Free, got[mutex] = cache, cache' # cache
  PROVE  drains' # drains \/ lock' # lock
<1>0. PipeTypes /\ LoadInv BY DEF PipeInv
<1>1. mutex \in Jobs BY <1>0 DEF PipeTypes
<1>2. got[mutex] # NoPipe BY <1>1 DEF PipeInv, ThreadInv
<1>3. \/ \E t \in Tasks : StartLoad(t) \/ Built(t) \/ RegisterFails(t)
      \/ EditDrop \/ IdleDrop
  BY DEF Next, Begin, HitUnderLock, Decline, GiveUpWait, LoadEnds, CancelRegister,
         Registered, Enter, TurnBack, Leave, HandOff, Finish, CancelRun, Edit, cacheVars
<1>4. ASSUME NEW t \in Tasks, StartLoad(t) PROVE lock' # lock
  BY <1>4, TasksAre DEF StartLoad
<1>5. ASSUME NEW t \in Tasks, Built(t) PROVE FALSE
  BY <1>0, <1>2, <1>5 DEF Built, LoadInv
<1>6. ASSUME NEW t \in Tasks, RegisterFails(t) PROVE lock' # lock
  BY <1>0, <1>6, TasksAre DEF RegisterFails, LoadInv, Loader
<1>7. CASE EditDrop BY <1>0, <1>7 DEF EditDrop, PipeTypes
<1>8. CASE IdleDrop BY <1>8 DEF IdleDrop
<1>. QED BY <1>3, <1>4, <1>5, <1>6, <1>7, <1>8

LEMMA LoadsBesideNone ==
  ASSUME PipeInv, Next, NEW w \in Warmups, pc[w] = "wait", pc'[w] = "load", NEW j \in Jobs
  PROVE  /\ thread[j] # "inside"
         /\ pc[j] = "run" =>
              \/ got[j].model = want[w].model
              \/ \E t \in Tasks : pc[t] = "failed" /\ want[t].model = got[j].model
<1>0. PipeTypes /\ LoadInv /\ CountInv BY DEF PipeInv
<1>1. w \in Tasks /\ w \notin Jobs BY TasksAre
<1>2. StartLoad(w)
  <2>1. ASSUME NEW t \in Tasks, NEW at, pc' = [pc EXCEPT ![t] = at], at # "load" PROVE FALSE
    BY <1>0, <1>1, <2>1 DEF PipeTypes
  <2>2. ASSUME pc' = pc PROVE FALSE BY <2>2
  <2>3. ASSUME NEW t \in Tasks, StartLoad(t) PROVE t = w
    BY <1>0, <1>1, <2>3 DEF StartLoad, PipeTypes
  <2>4. ASSUME NEW t \in Tasks, Begin(t) PROVE FALSE
    BY <2>1, <2>4 DEF Begin, Take
  <2>5. ASSUME NEW t \in Tasks,
               \/ HitUnderLock(t) \/ Decline(t) \/ GiveUpWait(t) \/ Built(t)
               \/ LoadEnds(t) \/ CancelRegister(t) \/ Registered(t) \/ RegisterFails(t)
        PROVE  FALSE
    BY <2>1, <2>5 DEF HitUnderLock, Take, Decline, GiveUpWait, Built, LoadEnds,
       CancelRegister, Registered, RegisterFails
  <2>6. ASSUME NEW x \in Jobs, Finish(x) \/ CancelRun(x) PROVE FALSE
    BY <2>1, <2>6, TasksAre DEF Finish, CancelRun
  <2>7. ASSUME NEW x \in Jobs, Enter(x) \/ TurnBack(x) \/ Leave(x) \/ HandOff(x) PROVE FALSE
    BY <2>2, <2>7 DEF Enter, TurnBack, Leave, HandOff, taskVars
  <2>8. CASE Edit \/ EditDrop \/ IdleDrop
    BY <2>2, <2>8 DEF Edit, EditDrop, IdleDrop, taskVars
  <2>. QED BY <2>3, <2>4, <2>5, <2>6, <2>7, <2>8 DEF Next
<1>3. ~Busy(want[w].model) BY <1>2 DEF StartLoad
<1>4. thread[j] # "inside"
  <2>1. mutex = Free BY <1>3 DEF Busy
  <2>. QED BY <2>1, TasksAre DEF PipeInv, ThreadInv
<1>5. ASSUME pc[j] = "run", ~Failed(got[j].model) PROVE got[j].model = want[w].model
  <2>1. got[j].model \in Models /\ j \in Holders(got[j].model)
    BY <1>0, <1>5, TasksAre, PipeFields DEF LoadInv, PipeTypes, Holders, Holds
  <2>2. PICK m \in Models : m = got[j].model BY <2>1
  <2>3. Cardinality(Holders(m)) # 0 BY <2>1, <2>2, HoldersFinite, FS_EmptySet
  <2>4. orphans[m] = 0 BY <1>0, <1>3 DEF Busy, PipeTypes
  <2>5. leases[m] = Cardinality(Holders(m)) /\ leases[m] = Cardinality(OnCache(m))
    BY <1>0, <1>5, <2>2, <2>4 DEF CountInv, PipeTypes
  <2>6. OnCache(m) # {} BY <2>3, <2>5, FS_EmptySet
  <2>7. PICK x \in OnCache(m) : TRUE BY <2>6
  <2>8. cache # NoPipe /\ cache.model = m
    BY <1>0, <2>7, TasksAre DEF OnCache, Holders, Holds, LoadInv
  <2>9. leases[m] > 0 BY <2>3, <2>5, HoldersFinite
  <2>. QED BY <1>3, <2>2, <2>8, <2>9 DEF Busy
<1>. QED BY <1>4, <1>5 DEF Failed

-----------------------------------------------------------------------------
(* The translation models.                                                  *)

\* The task is in the load of its reference, from the start to the registration's end.
GgufLoads == {"load", "register", "rowing", "rowed", "rowedFree"}

\* The jobs that hold a lease of a reference, and the completions of an instance
\* that nobody has settled.
Leasers(r) == {j \in Jobs : G!Leasing(j) /\ ggufGot[j].ref = r}
Decodes(j) == ggufThread[j] = "inside" \/ (ggufPc[j] = "await" /\ ggufThread[j] = "queued")
Decoders(m) == {j \in Jobs : ggufGot[j] = m /\ Decodes(j)}

GgufTypes ==
  /\ params \in Nat
  /\ models \in [Refs -> G!Instances \cup {G!NoModel}]
  /\ active \in [Refs -> Int]
  /\ ggufRows \subseteq Refs
  /\ loading \in [Refs -> Tasks \cup {Free}]
  /\ ggufPc \in [Tasks -> {"idle", "wait", "load", "register", "rowing", "rowed", "rowedFree",
                           "run", "await", "done", "failed"}]
  /\ ggufWant \in [Tasks -> G!Instances \cup {G!NoModel}]
  /\ ggufGot \in [Tasks -> G!Instances \cup {G!NoModel}]
  /\ ggufThread \in [Tasks -> {"none", "queued", "inside", "replied"}]

\* What a task wants and holds, and where its thread is, by where it is.
GgufTaskInv ==
  \A t \in Tasks :
    /\ ggufPc[t] # "idle" => ggufWant[t] # G!NoModel /\ ggufWant[t].by = t
    /\ G!Leasing(t) \/ ggufThread[t] # "none" => t \in Jobs /\ ggufGot[t] # G!NoModel
    /\ ggufPc[t] \in {"register", "rowed"} => ggufGot[t] = ggufWant[t]
    /\ ggufPc[t] = "await" => ggufThread[t] # "none"
    /\ ggufThread[t] = "replied" => ggufPc[t] = "await"
    /\ ggufThread[t] # "none" => ggufPc[t] \in {"await", "done"}

\* A reference's load lock is its loader's.
GgufLockInv ==
  /\ \A t \in Tasks : ggufPc[t] \in GgufLoads => loading[ggufWant[t].ref] = t
  /\ \A r \in Refs : loading[r] # Free =>
       ggufPc[loading[r]] \in GgufLoads /\ ggufWant[loading[r]].ref = r

\* RowsMatch, and each model is cached under its own reference.
GgufOwnRefs == \A r \in Refs : models[r] # G!NoModel => models[r].ref = r
GgufRowInv == G!RowsMatch /\ GgufOwnRefs

\* What is cached under a reference whose load is under way, and its row.
GgufLoadRows ==
  \A t \in Tasks :
    LET r == ggufWant[t].ref IN
    /\ ggufPc[t] = "load" => models[r] = G!NoModel /\ r \notin ggufRows
    /\ ggufPc[t] \in {"register", "rowing"} =>
         models[r] \in {G!NoModel, ggufWant[t]} /\ r \notin ggufRows
    /\ ggufPc[t] \in {"rowed", "rowedFree"} =>
         /\ models[r] \in {G!NoModel, ggufWant[t]}
         /\ models[r] # G!NoModel => r \in ggufRows

\* CountsExact, and a count is kept of exactly the instances decoded on.
GgufLeaseCount == \A r \in Refs : active[r] = Cardinality(Leasers(r))
GgufDecodeCount ==
  /\ DOMAIN decoding = {m \in G!Instances : Decoders(m) # {}}
  /\ \A m \in DOMAIN decoding : decoding[m] = Cardinality(Decoders(m))

GgufInv ==
  /\ GgufTypes /\ GgufTaskInv /\ GgufLockInv /\ GgufRowInv /\ GgufLoadRows
  /\ GgufLeaseCount /\ GgufDecodeCount /\ G!NoUseAfterClose

-----------------------------------------------------------------------------

LEMMA GgufTasks ==
  /\ G!Tasks = Tasks /\ G!Free = Free
  /\ Jobs \subseteq Tasks /\ Free \notin Tasks /\ IsFiniteSet(Jobs)
BY StageAssumption DEF Tasks, G!Tasks, Free, G!Free

LEMMA NoModelIsNone == G!NoModel \notin G!Instances
BY DEF G!NoModel, G!Instances

LEMMA InstanceFields ==
  \A m \in G!Instances : m.ref \in Refs /\ m.by \in Tasks /\ m.params \in Nat
BY GgufTasks DEF G!Instances

LEMMA NewInstance ==
  ASSUME NEW r \in Refs, NEW p \in Nat, NEW t \in Tasks
  PROVE  [ref |-> r, params |-> p, by |-> t] \in G!Instances
BY GgufTasks DEF G!Instances

LEMMA CountsFinite ==
  /\ \A r : /\ IsFiniteSet(Leasers(r)) /\ Leasers(r) \subseteq Jobs
            /\ Cardinality(Leasers(r)) \in Nat
            /\ Cardinality(Leasers(r)) = 0 <=> Leasers(r) = {}
  /\ \A m : /\ IsFiniteSet(Decoders(m)) /\ Decoders(m) \subseteq Jobs
            /\ Cardinality(Decoders(m)) \in Nat
            /\ Cardinality(Decoders(m)) = 0 <=> Decoders(m) = {}
<1>1. \A S \in SUBSET Jobs : /\ IsFiniteSet(S) /\ Cardinality(S) \in Nat
                             /\ Cardinality(S) = 0 <=> S = {}
  BY GgufTasks, FS_Subset, FS_CardinalityType, FS_EmptySet
<1>2. \A r : Leasers(r) \in SUBSET Jobs BY DEF Leasers
<1>3. \A m : Decoders(m) \in SUBSET Jobs BY DEF Decoders
<1>. QED BY <1>1, <1>2, <1>3

LEMMA GgufStart == G!Init => GgufInv
<1>. SUFFICES ASSUME G!Init PROVE GgufInv OBVIOUS
<1>. USE DEF G!Init
<1>1. GgufTypes BY GgufTasks DEF GgufTypes
<1>2. GgufTaskInv BY GgufTasks DEF GgufTaskInv, G!Leasing
<1>3. GgufLockInv BY GgufTasks DEF GgufLockInv, GgufLoads
<1>4. GgufRowInv /\ GgufLoadRows BY GgufTasks DEF GgufRowInv, GgufOwnRefs, GgufLoadRows, G!RowsMatch, G!Cached
<1>5. GgufLeaseCount /\ GgufDecodeCount
  <2>1. \A r : Leasers(r) = {} BY GgufTasks DEF Leasers, G!Leasing
  <2>2. \A m : Decoders(m) = {} BY GgufTasks DEF Decoders, Decodes
  <2>3. DOMAIN decoding = {} OBVIOUS
  <2>. QED BY <2>1, <2>2, <2>3, FS_EmptySet DEF GgufLeaseCount, GgufDecodeCount
<1>6. G!NoUseAfterClose BY GgufTasks DEF G!NoUseAfterClose, G!Leasing
<1>. QED BY <1>1, <1>2, <1>3, <1>4, <1>5, <1>6 DEF GgufInv

\* What a task wants and holds is of a reference.
LEMMA GgufFieldsOf ==
  ASSUME GgufTypes, GgufTaskInv, NEW t \in Tasks
  PROVE  /\ ggufPc[t] # "idle" => ggufWant[t] \in G!Instances /\ ggufWant[t].ref \in Refs
         /\ G!Leasing(t) \/ ggufThread[t] # "none" =>
              ggufGot[t] \in G!Instances /\ ggufGot[t].ref \in Refs
BY InstanceFields DEF GgufTypes, GgufTaskInv

LEMMA GgufTypesKept ==
  ASSUME GgufTypes, GgufTaskInv, G!Next
  PROVE  GgufTypes'
<1>. USE GgufTasks, NewInstance, GgufFieldsOf DEF G!cacheVars, G!inferVars, G!taskVars,
     GgufTypes, G!Leasing
<1>1. ASSUME NEW t \in Tasks, G!Begin(t) PROVE GgufTypes'
  BY <1>1 DEF G!Hit, G!Begin
<1>2. ASSUME NEW t \in Tasks, G!Waited(t) PROVE GgufTypes'
<2>. DEFINE r == ggufWant[t].ref
  <2>1. r \in Refs BY <1>2 DEF G!Waited
  <2>2. CASE G!Hit(t, r) /\ UNCHANGED <<models, ggufRows, loading>>
    BY <1>2, <2>1, <2>2 DEF G!Waited, G!Hit
  <2>3. CASE G!Without({r} \cup G!Trimmed({r})) /\ loading' = [loading EXCEPT ![r] = t]
             /\ ggufPc' = [ggufPc EXCEPT ![t] = "load"] /\ UNCHANGED <<active, ggufGot>>
    <3>. HIDE DEF r
    <3>. QED BY <1>2, <2>1, <2>3 DEF G!Waited, G!Without
  <2>. QED BY <1>2, <2>2, <2>3 DEF G!Waited
<1>3. ASSUME NEW t \in Tasks, G!GiveUpWait(t) PROVE GgufTypes'
  BY <1>3 DEF G!GiveUpWait
<1>4. ASSUME NEW t \in Tasks, G!CancelLoad(t) PROVE GgufTypes'
  BY <1>4 DEF G!CancelLoad
<1>5. ASSUME NEW t \in Tasks, G!Built(t) PROVE GgufTypes'
  BY <1>5 DEF G!Built
<1>6. ASSUME NEW t \in Tasks, G!LoadFails(t) PROVE GgufTypes'
  BY <1>6 DEF G!LoadFails
<1>7. ASSUME NEW t \in Tasks, G!RowWritten(t) PROVE GgufTypes'
  BY <1>7 DEF G!RowWritten
<1>8. ASSUME NEW t \in Tasks, G!Registered(t) PROVE GgufTypes'
  BY <1>8 DEF G!Registered, G!Phantom
<1>9. ASSUME NEW t \in Tasks, G!RegisterFails(t) PROVE GgufTypes'
  BY <1>9 DEF G!RegisterFails
<1>10. ASSUME NEW j \in Jobs, G!Submit(j) PROVE GgufTypes'
  BY <1>10 DEF G!Submit
<1>11. ASSUME NEW j \in Jobs, G!Enter(j) PROVE GgufTypes'
  BY <1>11 DEF G!Enter, G!Claimed
<1>12. ASSUME NEW j \in Jobs, G!Leave(j) PROVE GgufTypes'
  BY <1>12 DEF G!Leave
<1>13. ASSUME NEW j \in Jobs, G!Reply(j) PROVE GgufTypes'
  BY <1>13 DEF G!Reply
<1>14. ASSUME NEW j \in Jobs, G!Finish(j) PROVE GgufTypes'
  BY <1>14 DEF G!Finish
<1>15. ASSUME NEW j \in Jobs, G!CancelCompletion(j) PROVE GgufTypes'
  BY <1>15 DEF G!CancelCompletion
<1>16. ASSUME NEW r \in Refs, G!Drop(r) PROVE GgufTypes'
  BY <1>16 DEF G!Without, G!Drop
<1>17. ASSUME G!Edit PROVE GgufTypes'
  BY <1>17 DEF G!Edit
<1>. QED BY <1>1, <1>2, <1>3, <1>4, <1>5, <1>6, <1>7, <1>8, <1>9, <1>10, <1>11, <1>12, <1>13,
     <1>14, <1>15, <1>16, <1>17, GgufTasks DEF G!Next

LEMMA GgufTaskInvKept ==
  ASSUME GgufTypes, GgufTaskInv, GgufRowInv, G!Next
  PROVE  GgufTaskInv'
<1>. USE GgufTasks, NoModelIsNone DEF G!cacheVars, G!inferVars, G!taskVars, GgufTypes,
     GgufTaskInv, G!Leasing
<1>1. ASSUME NEW t \in Tasks, G!Begin(t) PROVE GgufTaskInv'
  <2>. PICK r \in Refs : LET w == [ref |-> r, params |-> params, by |-> t] IN
         /\ ggufWant' = [ggufWant EXCEPT ![t] = w]
         /\ IF G!Cached(r) /\ (models[r].params = params \/ active[r] > 0)
            THEN G!Hit(t, r)
            ELSE ggufPc' = [ggufPc EXCEPT ![t] = "wait"] /\ UNCHANGED <<older, active, ggufGot>>
    BY <1>1 DEF G!Begin
  <2>1. [ref |-> r, params |-> params, by |-> t] # G!NoModel BY NewInstance
  <2>2. ggufWant'[t] # G!NoModel /\ ggufWant'[t].by = t BY <2>1
  <2>3. ggufPc'[t] \in {"wait", "run",
    "done"} /\ (ggufPc'[t] = "run" => t \in Jobs /\ ggufGot'[t] # G!NoModel)
    BY <1>1 DEF G!Begin, G!Hit, G!Cached
  <2>. QED BY <1>1, <2>2, <2>3 DEF G!Begin, G!Hit
<1>2. ASSUME NEW t \in Tasks, G!Waited(t) PROVE GgufTaskInv'
  BY <1>2 DEF G!Hit, G!Without, G!Cached, G!Waited
<1>3. ASSUME NEW t \in Tasks, G!GiveUpWait(t) PROVE GgufTaskInv'
  BY <1>3 DEF G!Cached, G!GiveUpWait
<1>4. ASSUME NEW t \in Tasks, G!CancelLoad(t) PROVE GgufTaskInv'
  BY <1>4 DEF G!Cached, G!CancelLoad
<1>5. ASSUME NEW t \in Tasks, G!Built(t) PROVE GgufTaskInv'
  BY <1>5 DEF G!Cached, G!Built
<1>6. ASSUME NEW t \in Tasks, G!LoadFails(t) PROVE GgufTaskInv'
  BY <1>6 DEF G!Cached, G!LoadFails
<1>7. ASSUME NEW t \in Tasks, G!RowWritten(t) PROVE GgufTaskInv'
  BY <1>7 DEF G!Cached, G!RowWritten
<1>8. ASSUME NEW t \in Tasks, G!Registered(t) PROVE GgufTaskInv'
  BY <1>8 DEF G!Cached, G!Registered
<1>9. ASSUME NEW t \in Tasks, G!RegisterFails(t) PROVE GgufTaskInv'
  BY <1>9 DEF G!Cached, G!RegisterFails
<1>10. ASSUME NEW j \in Jobs, G!Submit(j) PROVE GgufTaskInv'
  BY <1>10 DEF G!Cached, G!Submit
<1>11. ASSUME NEW j \in Jobs, G!Enter(j) PROVE GgufTaskInv'
  BY <1>11 DEF G!Enter, G!Claimed
<1>12. ASSUME NEW j \in Jobs, G!Leave(j) PROVE GgufTaskInv'
  BY <1>12 DEF G!Cached, G!Leave
<1>13. ASSUME NEW j \in Jobs, G!Reply(j) PROVE GgufTaskInv'
  BY <1>13 DEF G!Cached, G!Reply
<1>14. ASSUME NEW j \in Jobs, G!Finish(j) PROVE GgufTaskInv'
  BY <1>14 DEF G!Cached, G!Finish
<1>15. ASSUME NEW j \in Jobs, G!CancelCompletion(j) PROVE GgufTaskInv'
  BY <1>15 DEF G!Cached, G!CancelCompletion
<1>16. ASSUME NEW r \in Refs, G!Drop(r) PROVE GgufTaskInv'
  BY <1>16 DEF G!Without, G!Cached, G!Drop
<1>17. ASSUME G!Edit PROVE GgufTaskInv'
  BY <1>17 DEF G!Cached, G!Edit
<1>. QED BY <1>1, <1>2, <1>3, <1>4, <1>5, <1>6, <1>7, <1>8, <1>9, <1>10, <1>11, <1>12, <1>13,
     <1>14, <1>15, <1>16, <1>17, GgufTasks DEF G!Next

LEMMA GgufLockInvKept ==
  ASSUME GgufTypes, GgufTaskInv, GgufLockInv, G!Next
  PROVE  GgufLockInv'
<1>. USE GgufTasks DEF G!cacheVars, G!inferVars, G!taskVars, GgufTypes, GgufTaskInv,
     GgufLockInv, GgufLoads
<1>1. ASSUME NEW t \in Tasks, G!Begin(t) PROVE GgufLockInv'
  BY <1>1 DEF G!Hit, G!Begin
<1>2. ASSUME NEW t \in Tasks, G!Waited(t) PROVE GgufLockInv'
  <2>. DEFINE r == ggufWant[t].ref
  <2>1. r \in Refs BY <1>2, GgufFieldsOf DEF G!Waited
  <2>2. CASE G!Hit(t, r) /\ UNCHANGED <<models, ggufRows, loading>>
    BY <1>2, <2>1, <2>2 DEF G!Waited, G!Hit
  <2>3. CASE loading' = [loading EXCEPT ![r] = t] /\ ggufPc' = [ggufPc EXCEPT ![t] = "load"]
    BY <1>2, <2>1, <2>3 DEF G!Waited
  <2>. QED BY <1>2, <2>2, <2>3 DEF G!Waited
<1>3. ASSUME NEW t \in Tasks, G!GiveUpWait(t) PROVE GgufLockInv'
  BY <1>3 DEF G!GiveUpWait
<1>4. ASSUME NEW t \in Tasks, G!CancelLoad(t) PROVE GgufLockInv'
  BY <1>4 DEF G!CancelLoad
<1>5. ASSUME NEW t \in Tasks, G!Built(t) PROVE GgufLockInv'
  BY <1>5 DEF G!Built
<1>6. ASSUME NEW t \in Tasks, G!LoadFails(t) PROVE GgufLockInv'
  BY <1>6 DEF G!LoadFails
<1>7. ASSUME NEW t \in Tasks, G!RowWritten(t) PROVE GgufLockInv'
  BY <1>7 DEF G!RowWritten
<1>8. ASSUME NEW t \in Tasks, G!Registered(t) PROVE GgufLockInv'
  BY <1>8 DEF G!Registered
<1>9. ASSUME NEW t \in Tasks, G!RegisterFails(t) PROVE GgufLockInv'
  BY <1>9 DEF G!RegisterFails
<1>10. ASSUME NEW j \in Jobs, G!Submit(j) PROVE GgufLockInv'
  BY <1>10 DEF G!Submit
<1>11. ASSUME NEW j \in Jobs, G!Enter(j) PROVE GgufLockInv'
  BY <1>11 DEF G!Enter, G!Claimed
<1>12. ASSUME NEW j \in Jobs, G!Leave(j) PROVE GgufLockInv'
  BY <1>12 DEF G!Leave
<1>13. ASSUME NEW j \in Jobs, G!Reply(j) PROVE GgufLockInv'
  BY <1>13 DEF G!Reply
<1>14. ASSUME NEW j \in Jobs, G!Finish(j) PROVE GgufLockInv'
  BY <1>14 DEF G!Finish
<1>15. ASSUME NEW j \in Jobs, G!CancelCompletion(j) PROVE GgufLockInv'
  BY <1>15 DEF G!CancelCompletion
<1>16. ASSUME NEW r \in Refs, G!Drop(r) PROVE GgufLockInv'
  BY <1>16 DEF G!Without, G!Drop
<1>17. ASSUME G!Edit PROVE GgufLockInv'
  BY <1>17 DEF G!Edit
<1>. QED BY <1>1, <1>2, <1>3, <1>4, <1>5, <1>6, <1>7, <1>8, <1>9, <1>10, <1>11, <1>12, <1>13,
     <1>14, <1>15, <1>16, <1>17, GgufTasks DEF G!Next

LEMMA GgufRowsMatchKept ==
  ASSUME GgufTypes, GgufTaskInv, GgufLockInv, GgufRowInv, GgufLoadRows, G!Next
  PROVE  G!RowsMatch'
<1>. USE GgufTasks, GgufFieldsOf, NoModelIsNone DEF G!cacheVars, G!inferVars, G!taskVars,
     GgufTypes, GgufTaskInv, GgufLockInv, GgufRowInv, GgufOwnRefs, GgufLoadRows, G!RowsMatch, G!Cached,
       GgufLoads, G!Leasing
<1>1. ASSUME NEW t \in Tasks, G!Begin(t) PROVE G!RowsMatch'
  <2>1. UNCHANGED <<models, ggufRows, loading>> BY <1>1 DEF G!Begin, G!Hit
  <2>2. \A x \in Tasks : ggufPc[x] = "failed" => ggufPc'[x] = "failed"
    BY <1>1 DEF G!Begin, G!Hit
  <2>3. \A r \in Refs : G!Cached(r) => models[r].by \in Tasks BY InstanceFields
  <2>. QED BY <2>1, <2>2, <2>3
<1>2. ASSUME NEW t \in Tasks, G!Waited(t) PROVE G!RowsMatch'
  <2>. DEFINE r == ggufWant[t].ref
  <2>1. r \in Refs /\ t # Free BY <1>2 DEF G!Waited
  <2>2. \A x \in Refs : G!Cached(x) => models[x].by \in Tasks BY InstanceFields
  <2>3. \A x \in Tasks : ggufPc[x] = "failed" => ggufPc'[x] = "failed"
    BY <1>2 DEF G!Waited, G!Hit
  <2>4. CASE G!Hit(t, r) /\ UNCHANGED <<models, ggufRows, loading>>
    BY <2>2, <2>3, <2>4
  <2>5. CASE G!Without({r} \cup G!Trimmed({r})) /\ loading' = [loading EXCEPT ![r] = t]
    <3>. DEFINE gone == {r} \cup G!Trimmed({r})
    <3>1. G!Without(gone) BY <2>5
    <3>2. loading'[r] # Free /\ \A x \in Refs \ {r} : loading'[x] = loading[x] BY <2>1, <2>5
    <3>. HIDE DEF r, gone
    <3>. QED BY <2>2, <2>3, <3>1, <3>2 DEF G!Without
  <2>. QED BY <1>2, <2>4, <2>5 DEF G!Waited
<1>3. ASSUME NEW t \in Tasks, G!GiveUpWait(t) PROVE G!RowsMatch'
  BY <1>3 DEF G!GiveUpWait
<1>4. ASSUME NEW t \in Tasks, G!CancelLoad(t) PROVE G!RowsMatch'
  BY <1>4 DEF G!CancelLoad
<1>5. ASSUME NEW t \in Tasks, G!Built(t) PROVE G!RowsMatch'
  BY <1>5 DEF G!Built
<1>6. ASSUME NEW t \in Tasks, G!LoadFails(t) PROVE G!RowsMatch'
  BY <1>6 DEF G!LoadFails
<1>7. ASSUME NEW t \in Tasks, G!RowWritten(t) PROVE G!RowsMatch'
  BY <1>7 DEF G!RowWritten
<1>8. ASSUME NEW t \in Tasks, G!Registered(t) PROVE G!RowsMatch'
  BY <1>8 DEF G!Registered, G!Phantom
<1>9. ASSUME NEW t \in Tasks, G!RegisterFails(t) PROVE G!RowsMatch'
  BY <1>9 DEF G!RegisterFails
<1>10. ASSUME NEW j \in Jobs, G!Submit(j) PROVE G!RowsMatch'
  BY <1>10 DEF G!Submit
<1>11. ASSUME NEW j \in Jobs, G!Enter(j) PROVE G!RowsMatch'
  BY <1>11 DEF G!Enter, G!Claimed
<1>12. ASSUME NEW j \in Jobs, G!Leave(j) PROVE G!RowsMatch'
  BY <1>12 DEF G!Leave
<1>13. ASSUME NEW j \in Jobs, G!Reply(j) PROVE G!RowsMatch'
  BY <1>13 DEF G!Reply
<1>14. ASSUME NEW j \in Jobs, G!Finish(j) PROVE G!RowsMatch'
  BY <1>14 DEF G!Finish
<1>15. ASSUME NEW j \in Jobs, G!CancelCompletion(j) PROVE G!RowsMatch'
  BY <1>15 DEF G!CancelCompletion
<1>16. ASSUME NEW r \in Refs, G!Drop(r) PROVE G!RowsMatch'
  BY <1>16 DEF G!Without, G!Drop
<1>17. ASSUME G!Edit PROVE G!RowsMatch'
  BY <1>17 DEF G!Edit
<1>. QED BY <1>1, <1>2, <1>3, <1>4, <1>5, <1>6, <1>7, <1>8, <1>9, <1>10, <1>11, <1>12, <1>13,
     <1>14, <1>15, <1>16, <1>17, GgufTasks DEF G!Next

LEMMA GgufRefsKept ==
  ASSUME GgufTypes, GgufTaskInv, GgufRowInv, G!Next
  PROVE  GgufOwnRefs'
<1>. USE GgufTasks, GgufFieldsOf, NoModelIsNone DEF G!cacheVars, G!inferVars, G!taskVars,
     GgufTypes, GgufTaskInv, GgufRowInv, GgufOwnRefs, G!Cached
<1>1. ASSUME NEW t \in Tasks, G!Begin(t) PROVE GgufOwnRefs'
  BY <1>1 DEF G!Hit, G!Begin
<1>2. ASSUME NEW t \in Tasks, G!Waited(t) PROVE GgufOwnRefs'
  BY <1>2 DEF G!Hit, G!Without, G!Waited
<1>3. ASSUME NEW t \in Tasks, G!GiveUpWait(t) PROVE GgufOwnRefs'
  BY <1>3 DEF G!GiveUpWait
<1>4. ASSUME NEW t \in Tasks, G!CancelLoad(t) PROVE GgufOwnRefs'
  BY <1>4 DEF G!CancelLoad
<1>5. ASSUME NEW t \in Tasks, G!Built(t) PROVE GgufOwnRefs'
  BY <1>5 DEF G!Built
<1>6. ASSUME NEW t \in Tasks, G!LoadFails(t) PROVE GgufOwnRefs'
  BY <1>6 DEF G!LoadFails
<1>7. ASSUME NEW t \in Tasks, G!RowWritten(t) PROVE GgufOwnRefs'
  BY <1>7 DEF G!RowWritten
<1>8. ASSUME NEW t \in Tasks, G!Registered(t) PROVE GgufOwnRefs'
  BY <1>8 DEF G!Registered
<1>9. ASSUME NEW t \in Tasks, G!RegisterFails(t) PROVE GgufOwnRefs'
  BY <1>9 DEF G!RegisterFails
<1>10. ASSUME NEW j \in Jobs, G!Submit(j) PROVE GgufOwnRefs'
  BY <1>10 DEF G!Submit
<1>11. ASSUME NEW j \in Jobs, G!Enter(j) PROVE GgufOwnRefs'
  BY <1>11 DEF G!Enter, G!Claimed
<1>12. ASSUME NEW j \in Jobs, G!Leave(j) PROVE GgufOwnRefs'
  BY <1>12 DEF G!Leave
<1>13. ASSUME NEW j \in Jobs, G!Reply(j) PROVE GgufOwnRefs'
  BY <1>13 DEF G!Reply
<1>14. ASSUME NEW j \in Jobs, G!Finish(j) PROVE GgufOwnRefs'
  BY <1>14 DEF G!Finish
<1>15. ASSUME NEW j \in Jobs, G!CancelCompletion(j) PROVE GgufOwnRefs'
  BY <1>15 DEF G!CancelCompletion
<1>16. ASSUME NEW r \in Refs, G!Drop(r) PROVE GgufOwnRefs'
  BY <1>16 DEF G!Without, G!Drop
<1>17. ASSUME G!Edit PROVE GgufOwnRefs'
  BY <1>17 DEF G!Edit
<1>. QED BY <1>1, <1>2, <1>3, <1>4, <1>5, <1>6, <1>7, <1>8, <1>9, <1>10, <1>11, <1>12, <1>13,
     <1>14, <1>15, <1>16, <1>17, GgufTasks DEF G!Next

LEMMA GgufLoadRowsKept ==
  ASSUME GgufTypes, GgufTaskInv, GgufLockInv, GgufRowInv, GgufLoadRows, G!Next
  PROVE  GgufLoadRows'
<1>. USE GgufTasks, GgufFieldsOf, NoModelIsNone DEF G!cacheVars, G!inferVars, G!taskVars,
     GgufTypes, GgufTaskInv, GgufLockInv, G!RowsMatch, G!Cached, GgufLoads, G!Leasing,
       GgufLoadRows
<1>1. ASSUME NEW t \in Tasks, G!Begin(t) PROVE GgufLoadRows'
  BY <1>1 DEF GgufRowInv, GgufOwnRefs, G!Hit, G!Begin
<1>2. ASSUME NEW t \in Tasks, G!Waited(t) PROVE GgufLoadRows'
  <2>. DEFINE r == ggufWant[t].ref
  <2>1. r \in Refs /\ t # Free /\ loading[r] = Free BY <1>2 DEF G!Waited
  <2>2. UNCHANGED ggufWant BY <1>2 DEF G!Waited
  <2>3. CASE G!Hit(t, r) /\ UNCHANGED <<models, ggufRows, loading>>
    BY <1>2, <2>2, <2>3 DEF G!Hit
  <2>4. CASE G!Without({r} \cup G!Trimmed({r})) /\ ggufPc' = [ggufPc EXCEPT ![t] = "load"]
    <3>. DEFINE gone == {r} \cup G!Trimmed({r})
    <3>1. G!Without(gone) /\ r \in gone BY <2>4
    <3>2. r \in ggufRows => G!Cached(r) BY <2>1 DEF GgufRowInv, GgufOwnRefs
    <3>3. \A x \in Tasks \ {t} : ggufPc'[x] = ggufPc[x] BY <2>4
    <3>4. ggufPc'[t] = "load" BY <2>4
    <3>. DEFINE q(x) == ggufWant[x].ref
    <3>5. \A x \in Tasks : ggufPc'[x] \in GgufLoads => q(x) \in Refs
      BY <2>1, <3>3, <3>4
    <3>6. models'[r] = G!NoModel /\ r \notin ggufRows' BY <2>1, <3>1, <3>2 DEF G!Without
    <3>. HIDE DEF gone
    <3>7. ASSUME NEW y \in Refs
          PROVE  /\ models'[y] \in {G!NoModel, models[y]}
                 /\ y \notin ggufRows => y \notin ggufRows'
                 /\ models'[y] # G!NoModel /\ y \in ggufRows => y \in ggufRows'
      BY <3>1 DEF G!Without
    <3>8. SUFFICES ASSUME NEW x \in Tasks, ggufPc'[x] \in GgufLoads
                   PROVE  LET y == ggufWant[x].ref IN
                          /\ ggufPc'[x] = "load" => models'[y] = G!NoModel /\ y \notin ggufRows'
                          /\ ggufPc'[x] \in {"register", "rowing"} =>
                               models'[y] \in {G!NoModel, ggufWant[x]} /\ y \notin ggufRows'
                          /\ ggufPc'[x] \in {"rowed", "rowedFree"} =>
                               /\ models'[y] \in {G!NoModel, ggufWant[x]}
                               /\ models'[y] # G!NoModel => y \in ggufRows'
      BY <2>2
    <3>. HIDE DEF q
    <3>9. CASE x = t BY <3>4, <3>6, <3>9
    <3>10. CASE x # t
      <4>1. PICK y \in Refs : y = ggufWant[x].ref BY <3>5, <3>8 DEF q
      <4>2. ggufPc'[x] = ggufPc[x] BY <3>3, <3>10
      <4>3. /\ ggufPc[x] = "load" => models[y] = G!NoModel /\ y \notin ggufRows
            /\ ggufPc[x] \in {"register", "rowing"} =>
                 models[y] \in {G!NoModel, ggufWant[x]} /\ y \notin ggufRows
            /\ ggufPc[x] \in {"rowed", "rowedFree"} =>
                 /\ models[y] \in {G!NoModel, ggufWant[x]}
                 /\ models[y] # G!NoModel => y \in ggufRows
        BY <4>1
      <4>. HIDE DEF GgufTypes, GgufTaskInv, GgufLockInv, GgufLoadRows, G!RowsMatch
      <4>4. /\ models'[y] \in {G!NoModel, models[y]}
            /\ y \notin ggufRows => y \notin ggufRows'
            /\ models'[y] # G!NoModel /\ y \in ggufRows => y \in ggufRows'
        BY <3>7
      <4>5. /\ ggufPc'[x] = "load" => models'[y] = G!NoModel /\ y \notin ggufRows'
            /\ ggufPc'[x] \in {"register", "rowing"} =>
                 models'[y] \in {G!NoModel, ggufWant[x]} /\ y \notin ggufRows'
            /\ ggufPc'[x] \in {"rowed", "rowedFree"} =>
                 /\ models'[y] \in {G!NoModel, ggufWant[x]}
                 /\ models'[y] # G!NoModel => y \in ggufRows'
        BY <4>2, <4>3, <4>4
      <4>. QED BY <4>1, <4>5
    <3>. QED BY <3>9, <3>10
  <2>. QED BY <1>2, <2>3, <2>4 DEF G!Waited
<1>3. ASSUME NEW t \in Tasks, G!GiveUpWait(t) PROVE GgufLoadRows'
  BY <1>3 DEF GgufRowInv, GgufOwnRefs, G!GiveUpWait
<1>4. ASSUME NEW t \in Tasks, G!CancelLoad(t) PROVE GgufLoadRows'
  BY <1>4 DEF GgufRowInv, GgufOwnRefs, G!CancelLoad
<1>5. ASSUME NEW t \in Tasks, G!Built(t) PROVE GgufLoadRows'
  BY <1>5 DEF GgufRowInv, GgufOwnRefs, G!Built
<1>6. ASSUME NEW t \in Tasks, G!LoadFails(t) PROVE GgufLoadRows'
  BY <1>6 DEF GgufRowInv, GgufOwnRefs, G!LoadFails
<1>7. ASSUME NEW t \in Tasks, G!RowWritten(t) PROVE GgufLoadRows'
  BY <1>7 DEF GgufRowInv, GgufOwnRefs, G!RowWritten
<1>8. ASSUME NEW t \in Tasks, G!Registered(t) PROVE GgufLoadRows'
  BY <1>8 DEF G!Registered, G!Phantom
<1>9. ASSUME NEW t \in Tasks, G!RegisterFails(t) PROVE GgufLoadRows'
  BY <1>9 DEF GgufRowInv, GgufOwnRefs, G!RegisterFails
<1>10. ASSUME NEW j \in Jobs, G!Submit(j) PROVE GgufLoadRows'
  BY <1>10 DEF GgufRowInv, GgufOwnRefs, G!Submit
<1>11. ASSUME NEW j \in Jobs, G!Enter(j) PROVE GgufLoadRows'
  BY <1>11 DEF GgufRowInv, GgufOwnRefs, G!Enter
<1>12. ASSUME NEW j \in Jobs, G!Leave(j) PROVE GgufLoadRows'
  BY <1>12 DEF GgufRowInv, GgufOwnRefs, G!Leave
<1>13. ASSUME NEW j \in Jobs, G!Reply(j) PROVE GgufLoadRows'
  BY <1>13 DEF GgufRowInv, GgufOwnRefs, G!Reply
<1>14. ASSUME NEW j \in Jobs, G!Finish(j) PROVE GgufLoadRows'
  BY <1>14 DEF GgufRowInv, GgufOwnRefs, G!Finish
<1>15. ASSUME NEW j \in Jobs, G!CancelCompletion(j) PROVE GgufLoadRows'
  BY <1>15 DEF GgufRowInv, GgufOwnRefs, G!CancelCompletion
<1>16. ASSUME NEW r \in Refs, G!Drop(r) PROVE GgufLoadRows'
  BY <1>16 DEF GgufRowInv, GgufOwnRefs, G!Without, G!Drop
<1>17. ASSUME G!Edit PROVE GgufLoadRows'
  BY <1>17 DEF GgufRowInv, GgufOwnRefs, G!Edit
<1>. QED BY <1>1, <1>2, <1>3, <1>4, <1>5, <1>6, <1>7, <1>8, <1>9, <1>10, <1>11, <1>12, <1>13,
     <1>14, <1>15, <1>16, <1>17, GgufTasks DEF G!Next

\* A model that a job holds or decodes on is in use.
LEMMA HeldIsUsed ==
  ASSUME GgufTypes, GgufTaskInv, GgufLeaseCount, GgufDecodeCount, NEW j \in Jobs,
         G!Leasing(j) \/ ggufThread[j] = "inside"
  PROVE  G!InUse(ggufGot[j])
<1>1. ggufGot[j] \in G!Instances /\ ggufGot[j].ref \in Refs
  BY GgufFieldsOf, GgufTasks
<1>2. CASE G!Leasing(j)
  <2>1. j \in Leasers(ggufGot[j].ref) BY <1>2 DEF Leasers
  <2>2. active[ggufGot[j].ref] \in Nat /\ active[ggufGot[j].ref] # 0
    BY <1>1, <2>1, CountsFinite DEF GgufLeaseCount
  <2>. QED BY <2>2 DEF G!InUse
<1>3. CASE ggufThread[j] = "inside"
  <2>1. j \in Decoders(ggufGot[j]) BY <1>3 DEF Decoders, Decodes
  <2>. QED BY <1>1, <2>1 DEF GgufDecodeCount, G!InUse, G!Draining
<1>. QED BY <1>2, <1>3

LEMMA TrimmedFree ==
  ASSUME NEW gone \in SUBSET Refs
  PROVE  /\ G!Trimmed(gone) \subseteq Refs
         /\ \A r \in G!Trimmed(gone) : ~G!InUse(models[r])
BY DEF G!Trimmed

LEMMA LeasesStay ==
  ASSUME GgufLeaseCount, UNCHANGED active,
         \A j \in Jobs : /\ G!Leasing(j)' <=> G!Leasing(j)
                         /\ G!Leasing(j) => ggufGot'[j] = ggufGot[j]
  PROVE  GgufLeaseCount'
<1>1. ASSUME NEW r \in Refs PROVE Leasers(r)' = Leasers(r)
  <2>1. ASSUME NEW j \in Jobs PROVE j \in Leasers(r)' <=> j \in Leasers(r)
    BY DEF Leasers
  <2>2. Leasers(r) \subseteq Jobs /\ Leasers(r)' \subseteq Jobs BY DEF Leasers
  <2>. QED BY <2>1, <2>2
<1>. QED BY <1>1 DEF GgufLeaseCount

LEMMA LeaseTaken ==
  ASSUME GgufTypes, GgufLeaseCount, NEW t \in Jobs, NEW r \in Refs,
         active' = [active EXCEPT ![r] = @ + 1],
         ~G!Leasing(t), G!Leasing(t)', ggufGot'[t].ref = r,
         \A j \in Jobs \ {t} : /\ G!Leasing(j)' <=> G!Leasing(j)
                               /\ ggufGot'[j] = ggufGot[j]
  PROVE  GgufLeaseCount'
<1>1. Leasers(r)' = Leasers(r) \cup {t} /\ t \notin Leasers(r) BY DEF Leasers
<1>2. \A x \in Refs \ {r} : Leasers(x)' = Leasers(x) BY DEF Leasers
<1>3. Cardinality(Leasers(r)') = Cardinality(Leasers(r)) + 1
  BY <1>1, CountsFinite, FS_AddElement
<1>4. active'[r] = active[r] + 1 /\ \A x \in Refs \ {r} : active'[x] = active[x]
  BY DEF GgufTypes
<1>5. active'[r] = Cardinality(Leasers(r)') BY <1>3, <1>4 DEF GgufLeaseCount
<1>. QED BY <1>2, <1>4, <1>5 DEF GgufLeaseCount

LEMMA LeaseReturned ==
  ASSUME GgufTypes, GgufLeaseCount, NEW t \in Jobs, NEW r \in Refs,
         active' = [active EXCEPT ![r] = @ - 1],
         G!Leasing(t), ~G!Leasing(t)', ggufGot[t].ref = r,
         \A j \in Jobs \ {t} : /\ G!Leasing(j)' <=> G!Leasing(j)
                               /\ ggufGot'[j] = ggufGot[j]
  PROVE  GgufLeaseCount'
<1>1. Leasers(r)' = Leasers(r) \ {t} /\ t \in Leasers(r) BY DEF Leasers
<1>2. \A x \in Refs \ {r} : Leasers(x)' = Leasers(x) BY DEF Leasers
<1>3. Cardinality(Leasers(r)') = Cardinality(Leasers(r)) - 1
  BY <1>1, CountsFinite, FS_RemoveElement
<1>4. active'[r] = active[r] - 1 /\ \A x \in Refs \ {r} : active'[x] = active[x]
  BY DEF GgufTypes
<1>5. active'[r] = Cardinality(Leasers(r)') BY <1>3, <1>4 DEF GgufLeaseCount
<1>. QED BY <1>2, <1>4, <1>5 DEF GgufLeaseCount

LEMMA DecodesStay ==
  ASSUME GgufDecodeCount, UNCHANGED decoding,
         \A j \in Jobs : /\ Decodes(j)' <=> Decodes(j)
                         /\ Decodes(j) => ggufGot'[j] = ggufGot[j]
  PROVE  GgufDecodeCount'
<1>1. ASSUME NEW m \in G!Instances PROVE Decoders(m)' = Decoders(m)
  <2>1. ASSUME NEW j \in Jobs PROVE j \in Decoders(m)' <=> j \in Decoders(m)
    BY DEF Decoders
  <2>2. Decoders(m) \subseteq Jobs /\ Decoders(m)' \subseteq Jobs BY DEF Decoders
  <2>. QED BY <2>1, <2>2
<1>. QED BY <1>1 DEF GgufDecodeCount

\* Settling the completion of a job.
LEMMA DecodeSettled ==
  ASSUME GgufDecodeCount, NEW t \in Jobs, decoding' = G!Settle(ggufGot[t]),
    ggufGot[t] \in G!Instances,
         UNCHANGED ggufGot, Decodes(t), ~Decodes(t)',
         \A j \in Jobs \ {t} : Decodes(j)' <=> Decodes(j)
  PROVE  GgufDecodeCount'
<1>. DEFINE m == ggufGot[t]
<1>1. Decoders(m)' = Decoders(m) \ {t} /\ t \in Decoders(m) BY DEF Decoders
<1>2. \A x : x # m => Decoders(x)' = Decoders(x) BY DEF Decoders
<1>3. Cardinality(Decoders(m)') = Cardinality(Decoders(m)) - 1
  BY <1>1, CountsFinite, FS_RemoveElement
<1>4. m \in DOMAIN decoding /\ decoding[m] = Cardinality(Decoders(m)) BY <1>1 DEF GgufDecodeCount
<1>5. CASE decoding[m] = 1
  <2>1. Decoders(m)' = {}
    <3>1. Decoders(m)' \subseteq Jobs BY DEF Decoders
    <3>2. IsFiniteSet(Decoders(m)') BY <3>1, GgufTasks, FS_Subset
    <3>. QED BY <1>3, <1>4, <1>5, <3>2, FS_EmptySet
  <2>2. decoding' = [i \in DOMAIN decoding \ {m} |-> decoding[i]] BY <1>5 DEF G!Settle
  <2>. QED BY <1>2, <2>1, <2>2 DEF GgufDecodeCount
<1>6. CASE decoding[m] # 1
  <2>1. Decoders(m)' # {}
    <3>1. Cardinality(Decoders(m)) \in Nat BY CountsFinite
    <3>2. Cardinality(Decoders(m)') # 0
      <4>. HIDE DEF m
      <4>. QED BY <1>3, <1>4, <1>6, <3>1
    <3>. HIDE DEF m
    <3>. QED BY <3>2, FS_EmptySet
  <2>2. decoding' = [decoding EXCEPT ![m] = @ - 1] BY <1>6 DEF G!Settle
  <2>3. DOMAIN decoding' = DOMAIN decoding /\ decoding'[m] = decoding[m] - 1
        /\ \A i \in DOMAIN decoding \ {m} : decoding'[i] = decoding[i]
    BY <1>4, <2>2
  <2>4. DOMAIN decoding' = {i \in G!Instances : Decoders(i)' # {}}
    BY <1>2, <1>4, <2>1, <2>3 DEF GgufDecodeCount
  <2>. QED BY <1>2, <1>3, <1>4, <2>3, <2>4 DEF GgufDecodeCount
<1>. QED BY <1>5, <1>6

LEMMA DecodeSubmitted ==
  ASSUME GgufDecodeCount, NEW t \in Jobs, ggufGot[t] \in G!Instances, UNCHANGED ggufGot,
         decoding' = IF G!Draining(ggufGot[t])
                     THEN [decoding EXCEPT ![ggufGot[t]] = @ + 1]
                     ELSE [i \in DOMAIN decoding \cup {ggufGot[t]} |->
                             IF i = ggufGot[t] THEN 1 ELSE decoding[i]],
         ~Decodes(t), Decodes(t)', \A j \in Jobs \ {t} : Decodes(j)' <=> Decodes(j)
  PROVE  GgufDecodeCount'
<1>. DEFINE m == ggufGot[t]
<1>1. Decoders(m)' = Decoders(m) \cup {t} /\ t \notin Decoders(m) BY DEF Decoders
<1>2. \A x : x # m => Decoders(x)' = Decoders(x) BY DEF Decoders
<1>3. Cardinality(Decoders(m)') = Cardinality(Decoders(m)) + 1
  BY <1>1, CountsFinite, FS_AddElement
<1>4. /\ DOMAIN decoding' = DOMAIN decoding \cup {m}
      /\ \A i \in DOMAIN decoding \ {m} : decoding'[i] = decoding[i]
      /\ m \in DOMAIN decoding => decoding'[m] = decoding[m] + 1
      /\ m \notin DOMAIN decoding => decoding'[m] = 1
  BY DEF G!Draining
<1>5. m \notin DOMAIN decoding => Cardinality(Decoders(m)) = 0
  BY CountsFinite DEF GgufDecodeCount
<1>6. decoding'[m] = Cardinality(Decoders(m)')
  BY <1>3, <1>4, <1>5 DEF GgufDecodeCount
<1>7. DOMAIN decoding' = {i \in G!Instances : Decoders(i)' # {}}
  BY <1>1, <1>2, <1>4 DEF GgufDecodeCount
<1>. QED BY <1>2, <1>4, <1>6, <1>7 DEF GgufDecodeCount


Uses(j) == ggufThread[j] = "inside" \/ G!Leasing(j)

\* Models that nobody uses go, and others may come under references that have none.
LEMMA NoUseAfterDrops ==
  ASSUME GgufTypes, GgufTaskInv, GgufLeaseCount, GgufDecodeCount, G!NoUseAfterClose,
         NEW gone \in SUBSET Refs, \A r \in gone : ~G!InUse(models[r]),
         \A r \in Refs \ gone : models[r] # G!NoModel => models'[r] = models[r],
         \A j \in Jobs : /\ Uses(j)' => Uses(j) \/ models'[ggufGot'[j].ref] = ggufGot'[j]
                         /\ Uses(j) => ggufGot'[j] = ggufGot[j]
  PROVE  G!NoUseAfterClose'
<1>. SUFFICES ASSUME NEW j \in Jobs, Uses(j)
              PROVE  models'[ggufGot[j].ref] = ggufGot[j]
  <2>1. ASSUME NEW j \in Jobs, Uses(j)' PROVE models'[ggufGot'[j].ref] = ggufGot'[j]
    BY <2>1
  <2>. QED BY <2>1 DEF G!NoUseAfterClose, Uses
<1>. USE DEF Uses
<1>1. ggufGot[j] \in G!Instances /\ ggufGot[j].ref \in Refs BY GgufFieldsOf, GgufTasks
<1>2. models[ggufGot[j].ref] = ggufGot[j] BY DEF G!NoUseAfterClose
<1>3. G!InUse(ggufGot[j]) BY HeldIsUsed
<1>4. ggufGot[j].ref \notin gone BY <1>2, <1>3
<1>. QED BY <1>1, <1>2, <1>4, NoModelIsNone

LEMMA GgufNoUseKept ==
  ASSUME GgufTypes, GgufTaskInv, GgufLockInv, GgufRowInv, GgufLoadRows, GgufLeaseCount,
    GgufDecodeCount,
         G!NoUseAfterClose, G!Next
  PROVE  G!NoUseAfterClose'
<1>. USE GgufTasks, GgufFieldsOf, NoModelIsNone
     DEF G!cacheVars, G!inferVars, G!taskVars, GgufTypes, GgufTaskInv, GgufRowInv, GgufOwnRefs,
       G!NoUseAfterClose, G!Leasing
<1>1. ASSUME NEW t \in Tasks, G!Begin(t) PROVE G!NoUseAfterClose'
  BY <1>1 DEF G!Hit, G!Cached, G!Begin
<1>2. ASSUME NEW t \in Tasks, G!Waited(t) PROVE G!NoUseAfterClose'
  <2>. DEFINE r == ggufWant[t].ref
  <2>1. r \in Refs BY <1>2 DEF G!Waited
  <2>2. CASE G!Hit(t, r) /\ G!Cached(r) /\ UNCHANGED models
    <3>. HIDE DEF r
    <3>. QED BY <1>2, <2>1, <2>2 DEF G!Waited, G!Hit, G!Cached
  <2>3. CASE /\ G!Without({r} \cup G!Trimmed({r})) /\ ~(G!Cached(r) /\ G!InUse(models[r]))
             /\ ggufPc' = [ggufPc EXCEPT ![t] = "load"] /\ UNCHANGED ggufGot
    <3>. DEFINE gone == {x \in {r} \cup G!Trimmed({r}) : G!Cached(x)}
    <3>1. gone \in SUBSET Refs /\ \A x \in gone : ~G!InUse(models[x])
      BY <2>1, <2>3, TrimmedFree
    <3>2. \A x \in Refs \ gone : models[x] # G!NoModel => models'[x] = models[x]
      BY <2>3 DEF G!Without, G!Cached
    <3>3. \A j \in Jobs : Uses(j)' <=> Uses(j) BY <1>2, <2>3 DEF G!Waited, Uses
    <3>4. UNCHANGED ggufGot BY <2>3
    <3>. HIDE DEF GgufTypes, GgufTaskInv, GgufRowInv, GgufOwnRefs, G!NoUseAfterClose, gone
    <3>. QED BY <3>1, <3>2, <3>3, <3>4, NoUseAfterDrops
  <2>. QED BY <1>2, <2>2, <2>3 DEF G!Waited
<1>3. ASSUME NEW t \in Tasks, G!GiveUpWait(t) PROVE G!NoUseAfterClose'
  BY <1>3 DEF G!Cached, G!GiveUpWait
<1>4. ASSUME NEW t \in Tasks, G!CancelLoad(t) PROVE G!NoUseAfterClose'
  BY <1>4 DEF G!Cached, G!CancelLoad
<1>5. ASSUME NEW t \in Tasks, G!Built(t) PROVE G!NoUseAfterClose'
  <2>. DEFINE w == ggufWant[t]
              gone == G!Trimmed({})
  <2>1. w \in G!Instances /\ w.ref \in Refs /\ models[w.ref] = G!NoModel
    BY <1>5 DEF G!Built, GgufLoadRows
  <2>2. gone \in SUBSET Refs /\ \A x \in gone : ~G!InUse(models[x]) BY TrimmedFree
  <2>. HIDE DEF gone
  <2>3. models' = [r \in Refs |-> IF r = w.ref THEN w
                                 ELSE IF r \in gone THEN G!NoModel ELSE models[r]]
    BY <1>5 DEF G!Built, gone
  <2>4. \A x \in Refs \ gone : models[x] # G!NoModel => models'[x] = models[x]
    BY <2>1, <2>3
  <2>5. /\ ggufGot' = [ggufGot EXCEPT ![t] = w] /\ ggufPc[t] = "load" /\ UNCHANGED ggufThread
        /\ ggufPc' = [ggufPc EXCEPT ![t] = IF t \in Jobs /\ t \notin unstopped
                                            THEN "register" ELSE "rowing"]
    BY <1>5 DEF G!Built
  <2>6. models'[w.ref] = w BY <2>1, <2>3
  <2>7. \A j \in Jobs : /\ Uses(j)' => Uses(j) \/ models'[ggufGot'[j].ref] = ggufGot'[j]
                        /\ Uses(j) => ggufGot'[j] = ggufGot[j]
    BY <2>5, <2>6 DEF Uses
  <2>. HIDE DEF GgufTypes, GgufTaskInv, GgufRowInv, GgufOwnRefs, G!NoUseAfterClose
  <2>. QED BY <2>2, <2>4, <2>7, NoUseAfterDrops
<1>6. ASSUME NEW t \in Tasks, G!LoadFails(t) PROVE G!NoUseAfterClose'
  BY <1>6 DEF G!Cached, G!LoadFails
<1>7. ASSUME NEW t \in Tasks, G!RowWritten(t) PROVE G!NoUseAfterClose'
  BY <1>7 DEF G!Cached, G!RowWritten
<1>8. ASSUME NEW t \in Tasks, G!Registered(t) PROVE G!NoUseAfterClose'
  BY <1>8 DEF G!Cached, G!Registered
<1>9. ASSUME NEW t \in Tasks, G!RegisterFails(t) PROVE G!NoUseAfterClose'
  BY <1>9 DEF G!Cached, G!RegisterFails
<1>10. ASSUME NEW j \in Jobs, G!Submit(j) PROVE G!NoUseAfterClose'
  BY <1>10 DEF G!Cached, G!Submit
<1>11. ASSUME NEW j \in Jobs, G!Enter(j) PROVE G!NoUseAfterClose'
  BY <1>11 DEF G!Enter, G!Claimed
<1>12. ASSUME NEW j \in Jobs, G!Leave(j) PROVE G!NoUseAfterClose'
  BY <1>12 DEF G!Cached, G!Leave
<1>13. ASSUME NEW j \in Jobs, G!Reply(j) PROVE G!NoUseAfterClose'
  BY <1>13 DEF G!Cached, G!Reply
<1>14. ASSUME NEW j \in Jobs, G!Finish(j) PROVE G!NoUseAfterClose'
  BY <1>14 DEF G!Cached, G!Finish
<1>15. ASSUME NEW j \in Jobs, G!CancelCompletion(j) PROVE G!NoUseAfterClose'
  BY <1>15 DEF G!Cached, G!CancelCompletion
<1>16. ASSUME NEW r \in Refs, G!Drop(r) PROVE G!NoUseAfterClose'
  <2>1. ~G!InUse(models[r]) /\ UNCHANGED <<ggufPc, ggufThread, ggufGot>>
    BY <1>16 DEF G!Drop
  <2>2. \A x \in Refs \ {r} : models'[x] = models[x] BY <1>16 DEF G!Drop, G!Without
  <2>3. \A j \in Jobs : (Uses(j)' <=> Uses(j)) /\ ggufGot'[j] = ggufGot[j] BY <2>1 DEF Uses
  <2>. DEFINE gone == {r}
  <2>4. /\ gone \in SUBSET Refs /\ \A x \in gone : ~G!InUse(models[x])
        /\ \A x \in Refs \ gone : models[x] # G!NoModel => models'[x] = models[x]
    BY <2>1, <2>2
  <2>. HIDE DEF GgufTypes, GgufTaskInv, GgufRowInv, GgufOwnRefs, G!NoUseAfterClose, gone
  <2>. QED BY <2>3, <2>4, NoUseAfterDrops
<1>17. ASSUME G!Edit PROVE G!NoUseAfterClose'
  BY <1>17 DEF G!Cached, G!Edit
<1>. QED BY <1>1, <1>2, <1>3, <1>4, <1>5, <1>6, <1>7, <1>8, <1>9, <1>10, <1>11, <1>12, <1>13,
     <1>14, <1>15, <1>16, <1>17, GgufTasks DEF G!Next

LEMMA HitCounted ==
  ASSUME GgufTypes, GgufTaskInv, GgufRowInv, GgufLeaseCount, NEW t \in Tasks, NEW r \in Refs,
    G!Cached(r), G!Hit(t, r),
         ~G!Leasing(t)
  PROVE  GgufLeaseCount'
<1>1. models[r].ref = r BY DEF GgufRowInv, GgufOwnRefs, G!Cached
<1>2. ggufGot' = [ggufGot EXCEPT ![t] = models[r]] BY DEF G!Hit
<1>3. CASE t \in Jobs
  BY <1>1, <1>2, <1>3, LeaseTaken, GgufTasks DEF G!Hit, G!Leasing, GgufTypes
<1>4. CASE t \notin Jobs
  BY <1>2, <1>4, LeasesStay, GgufTasks DEF G!Hit, G!Leasing, GgufTypes
<1>. QED BY <1>3, <1>4

LEMMA GgufLeaseCountKept ==
  ASSUME GgufTypes, GgufTaskInv, GgufRowInv, GgufLeaseCount, G!Next
  PROVE  GgufLeaseCount'
<1>. USE GgufTasks, GgufFieldsOf, NoModelIsNone, LeasesStay DEF G!cacheVars, G!inferVars,
     G!taskVars, GgufTypes, GgufTaskInv, GgufRowInv, GgufOwnRefs, G!Leasing
<1>1. ASSUME NEW t \in Tasks, G!Begin(t) PROVE GgufLeaseCount'
  <2>. PICK r \in Refs :
         IF G!Cached(r) /\ (models[r].params = params \/ active[r] > 0)
         THEN G!Hit(t, r)
         ELSE ggufPc' = [ggufPc EXCEPT ![t] = "wait"] /\ UNCHANGED <<older, active, ggufGot>>
    BY <1>1 DEF G!Begin
  <2>1. CASE G!Cached(r) /\ G!Hit(t, r)
    BY <1>1, <2>1, HitCounted DEF G!Begin
  <2>2. CASE ggufPc' = [ggufPc EXCEPT ![t] = "wait"] /\ UNCHANGED <<older, active, ggufGot>>
    BY <1>1, <2>2 DEF G!Begin
  <2>. QED BY <2>1, <2>2
<1>2. ASSUME NEW t \in Tasks, G!Waited(t) PROVE GgufLeaseCount'
  <2>. DEFINE r == ggufWant[t].ref
  <2>1. r \in Refs BY <1>2 DEF G!Waited
  <2>2. CASE G!Cached(r) /\ G!Hit(t, r)
    BY <1>2, <2>1, <2>2, HitCounted DEF G!Waited
  <2>3. CASE ggufPc' = [ggufPc EXCEPT ![t] = "load"] /\ UNCHANGED <<active, ggufGot>>
    BY <1>2, <2>3 DEF G!Waited
  <2>. QED BY <1>2, <2>2, <2>3 DEF G!Waited
<1>3. ASSUME NEW t \in Tasks, G!GiveUpWait(t) PROVE GgufLeaseCount'
  BY <1>3 DEF G!Cached, G!GiveUpWait
<1>4. ASSUME NEW t \in Tasks, G!CancelLoad(t) PROVE GgufLeaseCount'
  BY <1>4 DEF G!Cached, G!CancelLoad
<1>5. ASSUME NEW t \in Tasks, G!Built(t) PROVE GgufLeaseCount'
  <2>1. CASE t \in Jobs /\ t \notin unstopped
    BY <1>5, <2>1, LeaseTaken DEF G!Built
  <2>2. CASE ~(t \in Jobs /\ t \notin unstopped)
    BY <1>5, <2>2 DEF G!Built
  <2>. QED BY <2>1, <2>2
<1>6. ASSUME NEW t \in Tasks, G!LoadFails(t) PROVE GgufLeaseCount'
  BY <1>6 DEF G!Cached, G!LoadFails
<1>7. ASSUME NEW t \in Tasks, G!RowWritten(t) PROVE GgufLeaseCount'
  BY <1>7 DEF G!Cached, G!RowWritten
<1>8. ASSUME NEW t \in Tasks, G!Registered(t) PROVE GgufLeaseCount'
  <2>1. CASE ggufPc[t] = "rowed" /\ t \in unstopped
    BY <1>8, <2>1, LeaseReturned DEF G!Registered
  <2>2. CASE ~(ggufPc[t] = "rowed" /\ t \in unstopped)
    BY <1>8, <2>2 DEF G!Registered
  <2>. QED BY <2>1, <2>2
<1>9. ASSUME NEW t \in Tasks, G!RegisterFails(t) PROVE GgufLeaseCount'
  <2>1. CASE ggufPc[t] = "register"
    BY <1>9, <2>1, LeaseReturned DEF G!RegisterFails
  <2>2. CASE ggufPc[t] # "register"
    BY <1>9, <2>2 DEF G!RegisterFails
  <2>. QED BY <2>1, <2>2
<1>10. ASSUME NEW j \in Jobs, G!Submit(j) PROVE GgufLeaseCount'
  BY <1>10 DEF G!Cached, G!Submit
<1>11. ASSUME NEW j \in Jobs, G!Enter(j) PROVE GgufLeaseCount'
  BY <1>11 DEF G!Cached, G!Enter
<1>12. ASSUME NEW j \in Jobs, G!Leave(j) PROVE GgufLeaseCount'
  BY <1>12 DEF G!Cached, G!Leave
<1>13. ASSUME NEW j \in Jobs, G!Reply(j) PROVE GgufLeaseCount'
  BY <1>13 DEF G!Cached, G!Reply
<1>14. ASSUME NEW j \in Jobs, G!Finish(j) PROVE GgufLeaseCount'
  <2>. DEFINE r == ggufGot[j].ref
  <2>1. /\ r \in Refs /\ active' = [active EXCEPT ![r] = @ - 1]
        /\ G!Leasing(j) /\ ~G!Leasing(j)' /\ UNCHANGED ggufGot
        /\ \A x \in Jobs \ {j} : G!Leasing(x)' <=> G!Leasing(x)
    BY <1>14 DEF G!Finish
  <2>. HIDE DEF r, GgufTypes, GgufTaskInv, GgufRowInv, GgufOwnRefs, G!Leasing
  <2>. QED BY <2>1, LeaseReturned DEF r
<1>15. ASSUME NEW j \in Jobs, G!CancelCompletion(j) PROVE GgufLeaseCount'
  <2>. DEFINE r == ggufGot[j].ref
  <2>1. /\ r \in Refs /\ active' = [active EXCEPT ![r] = @ - 1]
        /\ G!Leasing(j) /\ ~G!Leasing(j)' /\ UNCHANGED ggufGot
        /\ \A x \in Jobs \ {j} : G!Leasing(x)' <=> G!Leasing(x)
    BY <1>15 DEF G!CancelCompletion
  <2>. HIDE DEF r, GgufTypes, GgufTaskInv, GgufRowInv, GgufOwnRefs, G!Leasing
  <2>. QED BY <2>1, LeaseReturned DEF r
<1>16. ASSUME NEW r \in Refs, G!Drop(r) PROVE GgufLeaseCount'
  BY <1>16 DEF G!Without, G!Cached, G!Drop
<1>17. ASSUME G!Edit PROVE GgufLeaseCount'
  BY <1>17 DEF G!Cached, G!Edit
<1>. QED BY <1>1, <1>2, <1>3, <1>4, <1>5, <1>6, <1>7, <1>8, <1>9, <1>10, <1>11, <1>12, <1>13,
     <1>14, <1>15, <1>16, <1>17, GgufTasks DEF G!Next

LEMMA GgufDecodeCountKept ==
  ASSUME GgufTypes, GgufTaskInv, GgufDecodeCount, G!Next
  PROVE  GgufDecodeCount'
<1>. USE GgufTasks, GgufFieldsOf, NoModelIsNone, DecodesStay DEF G!cacheVars, G!inferVars,
     G!taskVars, GgufTypes, GgufTaskInv, G!Leasing, Decodes
<1>1. ASSUME NEW t \in Tasks, G!Begin(t) PROVE GgufDecodeCount'
  BY <1>1 DEF G!Hit, G!Begin
<1>2. ASSUME NEW t \in Tasks, G!Waited(t) PROVE GgufDecodeCount'
  BY <1>2 DEF G!Hit, G!Without, G!Waited
<1>3. ASSUME NEW t \in Tasks, G!GiveUpWait(t) PROVE GgufDecodeCount'
  BY <1>3 DEF G!GiveUpWait
<1>4. ASSUME NEW t \in Tasks, G!CancelLoad(t) PROVE GgufDecodeCount'
  BY <1>4 DEF G!CancelLoad
<1>5. ASSUME NEW t \in Tasks, G!Built(t) PROVE GgufDecodeCount'
  BY <1>5 DEF G!Built
<1>6. ASSUME NEW t \in Tasks, G!LoadFails(t) PROVE GgufDecodeCount'
  BY <1>6 DEF G!LoadFails
<1>7. ASSUME NEW t \in Tasks, G!RowWritten(t) PROVE GgufDecodeCount'
  BY <1>7 DEF G!RowWritten
<1>8. ASSUME NEW t \in Tasks, G!Registered(t) PROVE GgufDecodeCount'
  BY <1>8 DEF G!Registered
<1>9. ASSUME NEW t \in Tasks, G!RegisterFails(t) PROVE GgufDecodeCount'
  BY <1>9 DEF G!RegisterFails
<1>10. ASSUME NEW j \in Jobs, G!Submit(j) PROVE GgufDecodeCount'
  <2>1. /\ ggufGot[j] \in G!Instances /\ UNCHANGED ggufGot
        /\ ~Decodes(j) /\ Decodes(j)' /\ \A x \in Jobs \ {j} : Decodes(x)' <=> Decodes(x)
    BY <1>10 DEF G!Submit
  <2>2. decoding' = IF G!Draining(ggufGot[j])
                    THEN [decoding EXCEPT ![ggufGot[j]] = @ + 1]
                    ELSE [i \in DOMAIN decoding \cup {ggufGot[j]} |->
                            IF i = ggufGot[j] THEN 1 ELSE decoding[i]]
    BY <1>10 DEF G!Submit
  <2>. HIDE DEF GgufTypes, GgufTaskInv, G!Leasing, Decodes
  <2>. QED BY <2>1, <2>2, DecodeSubmitted
<1>11. ASSUME NEW j \in Jobs, G!Enter(j) PROVE GgufDecodeCount'
  BY <1>11 DEF G!Enter, G!Claimed
<1>12. ASSUME NEW j \in Jobs, G!Leave(j) PROVE GgufDecodeCount'
  <2>1. Decodes(j) /\ ggufGot[j] \in G!Instances BY <1>12 DEF G!Leave
  <2>2. G!Draining(ggufGot[j])
    <3>1. j \in Decoders(ggufGot[j]) BY <2>1 DEF Decoders
    <3>. QED BY <2>1, <3>1 DEF GgufDecodeCount, G!Draining
  <2>. QED BY <1>12, <2>1, <2>2, DecodeSettled DEF G!Leave
<1>13. ASSUME NEW j \in Jobs, G!Reply(j) PROVE GgufDecodeCount'
  BY <1>13 DEF G!Reply
<1>14. ASSUME NEW j \in Jobs, G!Finish(j) PROVE GgufDecodeCount'
  BY <1>14 DEF G!Finish
<1>15. ASSUME NEW j \in Jobs, G!CancelCompletion(j) PROVE GgufDecodeCount'
  <2>1. CASE ggufThread[j] = "queued"
    BY <1>15, <2>1, DecodeSettled DEF G!CancelCompletion
  <2>2. CASE ggufThread[j] # "queued"
    BY <1>15, <2>2 DEF G!CancelCompletion
  <2>. QED BY <2>1, <2>2
<1>16. ASSUME NEW r \in Refs, G!Drop(r) PROVE GgufDecodeCount'
  BY <1>16 DEF G!Without, G!Drop
<1>17. ASSUME G!Edit PROVE GgufDecodeCount'
  BY <1>17 DEF G!Edit
<1>. QED BY <1>1, <1>2, <1>3, <1>4, <1>5, <1>6, <1>7, <1>8, <1>9, <1>10, <1>11, <1>12, <1>13,
     <1>14, <1>15, <1>16, <1>17, GgufTasks DEF G!Next

\* Steps of the cache keep the invariant.
LEMMA GgufKept == GgufInv /\ [G!Next]_ggufVars => GgufInv'
<1>. SUFFICES ASSUME GgufInv, [G!Next]_ggufVars PROVE GgufInv' OBVIOUS
<1>1. CASE G!Next
  BY <1>1, GgufTypesKept, GgufTaskInvKept, GgufLockInvKept, GgufRowsMatchKept, GgufRefsKept,
    GgufLoadRowsKept,
     GgufLeaseCountKept, GgufDecodeCountKept, GgufNoUseKept DEF GgufInv, GgufRowInv, GgufOwnRefs
<1>2. CASE UNCHANGED ggufVars
  <2>. USE <1>2 DEF ggufVars, GgufInv
  <2>1. /\ GgufTypes' /\ GgufTaskInv' /\ GgufLockInv'
        /\ GgufRowInv' /\ GgufLoadRows' /\ G!NoUseAfterClose'
    BY DEF GgufTypes, GgufTaskInv, GgufLockInv, GgufRowInv, GgufOwnRefs, GgufLoadRows, G!NoUseAfterClose,
      G!Leasing,
           G!RowsMatch, G!Cached
  <2>2. \A j \in Jobs : (G!Leasing(j)' <=> G!Leasing(j)) /\ (Decodes(j)' <=> Decodes(j))
    BY DEF G!Leasing, Decodes
  <2>. QED BY <2>1, <2>2, LeasesStay, DecodesStay
<1>. QED BY <1>1, <1>2

\* GgufAccounted: no native context is closed under a thread, every lease and
\* completion is given back exactly once, the registry lists the loaded models,
\* for any references, jobs, warm-ups, cap and edits (_drop_locked, _settle).
THEOREM GgufModelsAccounted == StagesSpec => []GgufAccounted
<1>1. StagesInit => GgufInv BY GgufStart DEF StagesInit
<1>2. GgufInv /\ [PipelineStep \/ GgufStep \/ RequestStep]_allVars => GgufInv'
  <2>. SUFFICES ASSUME GgufInv, [PipelineStep \/ GgufStep \/ RequestStep]_allVars PROVE GgufInv'
    OBVIOUS
  <2>1. [G!Next]_ggufVars BY DEF PipelineStep, GgufStep, RequestStep, allVars
  <2>. QED BY <2>1, GgufKept
<1>3. GgufInv => GgufAccounted
  <2>. SUFFICES ASSUME GgufInv PROVE G!CountsExact BY DEF GgufInv, GgufRowInv, GgufOwnRefs, GgufAccounted
  <2>1. \A S : G!Cardinality(S) = Cardinality(S) BY DEF G!Cardinality, Cardinality
  <2>2. /\ \A r \in Refs : active[r] = G!Cardinality(Leasers(r))
        /\ \A m \in DOMAIN decoding : decoding[m] = G!Cardinality(Decoders(m))
    BY <2>1 DEF GgufInv, GgufLeaseCount, GgufDecodeCount
  <2>. QED BY <2>2 DEF G!CountsExact, Leasers, Decoders, Decodes
<1>. QED BY <1>1, <1>2, <1>3, PTL DEF StagesSpec

-----------------------------------------------------------------------------
(* A request's way through the stages.                                         *)

\* Where a request is: nothing made yet, no input yet, over the upload or the
\* link's audio, and behind its finally blocks.
Early == {"row", "load", "form"}
Fetching == {"probe", "reuse", "download", "pipecopy"}
ToSeparation == {"spool", "retain", "register", "input", "roll", "plan"}
Separating == {"transcode", "sepslot", "separate"}
ToDecode == {"decslot", "decode"}
ToDiarization == {"diargate", "diarslot", "diarize", "assign"}
ToTranslation == {"trgate", "trslot", "translate"}
ToAnswer == {"capgate", "disk", "capture", "answer", "keep"}
Over == {"finish", "rates", "done"}
Decoding == Early \cup Fetching \cup ToSeparation \cup Separating \cup ToDecode
Behind == ToDiarization \cup ToTranslation \cup ToAnswer
Fed == (Decoding \ (Early \cup Fetching)) \cup Behind
Running == Decoding \cup Behind

Places == {"idle", "rmtree"} \cup Running \cup Over
Files == {"spool", "copy", "vocals", "dir", "retained", "sepwav", "stray"}
Outcomes == {"none", "ran", "failed", "skipped"}
Notes == Q!Stages \cup {"retain", "media"}
Wishes == UNION UNION {Asks(r) : r \in Requests}
Records == [pc : Places, ask : SUBSET Wishes, status : {"ok", "error", "cancelled"},
            leases : Int, inFlight : Int, jobs : Int,
            leased : BOOLEAN, inner : BOOLEAN, slot : BOOLEAN,
            files : SUBSET Files, tmp : Files \cup {"none"},
            out : [Q!Stages -> Outcomes], warned : SUBSET Notes,
            media : {"none", "kept", "gone"}, text : {"none", "silence", "speech"},
            answered : BOOLEAN, cancel : BOOLEAN,
            dropped : SUBSET Places, threads : SUBSET Places]

(* What holds of request q suspended at await at, in five parts.               *)

\* The counters: one lease, one in-flight entry and one job row, all given back
\* behind the outer finally block.
Counted(q, at) ==
  /\ at = "idle" => q = Q!Idle
  /\ at \in Over => q.leases = 0 /\ q.inFlight = 0 /\ q.jobs = 0
  /\ at \in Running \cup {"rmtree"} =>
       q.leases = (IF q.leased THEN 1 ELSE 0) /\ q.inFlight = 1 /\ q.jobs = 1

\* The files: none before the inner try, one input from then on, and behind the
\* finally blocks only what a thread no longer waited for may leave.
Owned(q, at) ==
  /\ at \in Early => ~q.inner /\ q.files = {} /\ q.tmp = "none"
  /\ at \in Fetching \cup Fed \cup {"rmtree"} => q.inner
  /\ at \in Fetching => q.tmp = "none" /\ q.files \subseteq {"dir"}
  /\ at \in Fed =>
       /\ q.tmp \in {"spool", "copy", "vocals"} /\ q.tmp \in q.files
       /\ q.files \subseteq {q.tmp, "dir", "retained"}
                            \cup (IF at \in Separating THEN {"sepwav"} ELSE {})
  /\ at = "rmtree" => q.files \subseteq {"dir"} \cup Q!MayLeave(q)
  /\ at \in Over => q.files \subseteq Q!MayLeave(q)
  /\ q.threads \subseteq q.dropped
  /\ q.threads # {} => at \in Over \cup {"rmtree"}

\* A stage that is behind the request and was asked for has an outcome, and one
\* that is not "ran" has a warning.
Decided(q, at) ==
  /\ \A s \in Q!Stages : q.out[s] # "none" => q.out[s] = "ran" \/ s \in q.warned
  /\ at \in ToDecode \cup Behind /\ "separating" \in q.ask => q.out["separating"] # "none"
  /\ at \in ToTranslation \cup ToAnswer /\ "diarizing" \in q.ask =>
       q.out["diarizing"] # "none"
  /\ at \in ToAnswer /\ "translating" \in q.ask => q.out["translating"] # "none"

\* The retained copy: of an upload only, made or warned of, and offered by no
\* request that answers with the text alone.
Retaining(q, at) ==
  /\ ~({"url", "retain"} \subseteq q.ask)
  /\ at \in Running => ~({"retain", "text"} \subseteq q.ask)
  /\ at \in Fetching \cup {"register"} => "url" \in q.ask
  /\ at = "retain" => "retain" \in q.ask
  /\ at \in Fed /\ "retained" \in q.files => "retain" \in q.ask
  /\ at = "keep" => "retained" \in q.files
  /\ at \in Fed \ {"spool", "retain", "register"} /\ "retain" \in q.ask =>
       "retained" \in q.files \/ "retain" \in q.warned
  /\ ~q.answered /\ q.media # "none" => "url" \in q.ask

\* Explained, of one request that was answered.
ExplainedOf(q) ==
    /\ \A s \in Q!Stages \cap q.ask :
         q.out[s] # "none" /\ (q.out[s] # "ran" => s \in q.warned)
    /\ "retain" \in q.ask => q.media = "kept" \/ "retain" \in q.warned
    /\ q.media # "gone" \/ "text" \in q.ask

\* The transcript: there behind the decode, and the answer's unless the request
\* was cancelled.
Answered(q, at) ==
  /\ at \in Running => ~q.answered /\ q.status = "ok"
  /\ at \in Decoding => q.text = "none"
  /\ at \in Over \cup {"rmtree"} /\ q.text # "none" /\ ~q.cancel /\ q.dropped = {} =>
       q.answered /\ q.status = "ok"
  /\ q.answered => ExplainedOf(q)

Good(q, at) ==
  /\ at \in Places
  /\ Counted(q, at) /\ Owned(q, at) /\ Decided(q, at) /\ Retaining(q, at) /\ Answered(q, at)

\* The awaits at which a request holds its slot of the GPU semaphore.
Suspended == {"separate", "decode", "diarize", "translate"}
Fine(q) == q \in Records /\ Good(q, q.pc) /\ (q.slot => q.pc \in Suspended)

-----------------------------------------------------------------------------
(* Records.                                                                    *)

\* Fields of a record may take any values of their types.
LEMMA FieldTypes ==
  ASSUME NEW q \in Records
  PROVE  /\ \A x \in Places :
              [q EXCEPT !.pc = x] \in Records
         /\ \A x \in {"ok", "error", "cancelled"} :
              [q EXCEPT !.status = x] \in Records
         /\ \A x \in BOOLEAN :
              [q EXCEPT !.slot = x] \in Records
         /\ \A x \in BOOLEAN :
              [q EXCEPT !.answered = x] \in Records
         /\ \A x \in BOOLEAN :
              [q EXCEPT !.cancel = x] \in Records
         /\ \A x \in SUBSET Files :
              [q EXCEPT !.files = x] \in Records
         /\ \A x \in SUBSET Wishes, y \in Int, z \in Int, u \in Places :
              [q EXCEPT !.ask = x, !.inFlight = y, !.jobs = z, !.pc = u] \in Records
         /\ \A x \in Places, y \in BOOLEAN, z \in Int :
              [q EXCEPT !.pc = x, !.leased = y, !.leases = z] \in Records
         /\ \A x \in BOOLEAN, y \in Places, z \in SUBSET Files, u \in Files \cup {"none"} :
              [q EXCEPT !.inner = x, !.pc = y, !.files = z, !.tmp = u] \in Records
         /\ \A x \in Places, y \in SUBSET Files :
              [q EXCEPT !.pc = x, !.files = y] \in Records
         /\ \A x \in Places, y \in SUBSET Files, z \in Files \cup {"none"}, u \in {"none", "kept", "gone"} :
              [q EXCEPT !.pc = x, !.files = y, !.tmp = z, !.media = u] \in Records
         /\ \A x \in Places, y \in SUBSET Files, z \in Files \cup {"none"} :
              [q EXCEPT !.pc = x, !.files = y, !.tmp = z] \in Records
         /\ \A x \in Places, y \in {"none", "kept", "gone"} :
              [q EXCEPT !.pc = x, !.media = y] \in Records
         /\ \A x \in Places, y \in SUBSET Notes :
              [q EXCEPT !.pc = x, !.warned = y] \in Records
         /\ \A x \in Places, y \in SUBSET Wishes :
              [q EXCEPT !.pc = x, !.ask = y] \in Records
         /\ \A x \in Places, y \in {"none", "silence", "speech"} :
              [q EXCEPT !.pc = x, !.text = y] \in Records
         /\ \A x \in SUBSET Notes :
              [q EXCEPT !.warned = x] \in Records
         /\ \A x \in {"none", "kept", "gone"}, y \in SUBSET Notes :
              [q EXCEPT !.media = x, !.warned = y] \in Records
         /\ \A x \in {"none", "kept", "gone"}, y \in SUBSET Files :
              [q EXCEPT !.media = x, !.files = y] \in Records
         /\ \A x \in {"none", "kept", "gone"} :
              [q EXCEPT !.media = x] \in Records
         /\ \A x \in SUBSET Places, y \in SUBSET Files :
              [q EXCEPT !.threads = x, !.files = y] \in Records
         /\ \A x \in {"ok", "error", "cancelled"}, y \in SUBSET Files :
              [q EXCEPT !.status = x, !.files = y] \in Records
         /\ \A x \in SUBSET Wishes, y \in Int, z \in Int :
              [q EXCEPT !.ask = x, !.inFlight = y, !.jobs = z] \in Records
         /\ \A x \in BOOLEAN :
              [q EXCEPT !.inner = x] \in Records
<1>1. ASSUME NEW x \in Places
      PROVE  [q EXCEPT !.pc = x] \in Records
  BY DEF Records
<1>2. ASSUME NEW x \in {"ok", "error", "cancelled"}
      PROVE  [q EXCEPT !.status = x] \in Records
  BY DEF Records
<1>3. ASSUME NEW x \in BOOLEAN
      PROVE  [q EXCEPT !.slot = x] \in Records
  BY DEF Records
<1>4. ASSUME NEW x \in BOOLEAN
      PROVE  [q EXCEPT !.answered = x] \in Records
  BY DEF Records
<1>5. ASSUME NEW x \in BOOLEAN
      PROVE  [q EXCEPT !.cancel = x] \in Records
  BY DEF Records
<1>6. ASSUME NEW x \in SUBSET Files
      PROVE  [q EXCEPT !.files = x] \in Records
  BY DEF Records
<1>7. ASSUME NEW x \in SUBSET Wishes, NEW y \in Int, NEW z \in Int, NEW u \in Places
      PROVE  [q EXCEPT !.ask = x, !.inFlight = y, !.jobs = z, !.pc = u] \in Records
  BY DEF Records
<1>8. ASSUME NEW x \in Places, NEW y \in BOOLEAN, NEW z \in Int
      PROVE  [q EXCEPT !.pc = x, !.leased = y, !.leases = z] \in Records
  BY DEF Records
<1>9. ASSUME NEW x \in BOOLEAN, NEW y \in Places, NEW z \in SUBSET Files, NEW u \in Files \cup {"none"}
      PROVE  [q EXCEPT !.inner = x, !.pc = y, !.files = z, !.tmp = u] \in Records
  BY DEF Records
<1>10. ASSUME NEW x \in Places, NEW y \in SUBSET Files
      PROVE  [q EXCEPT !.pc = x, !.files = y] \in Records
  BY DEF Records
<1>11. ASSUME NEW x \in Places, NEW y \in SUBSET Files, NEW z \in Files \cup {"none"}, NEW u \in {"none", "kept", "gone"}
      PROVE  [q EXCEPT !.pc = x, !.files = y, !.tmp = z, !.media = u] \in Records
  BY DEF Records
<1>12. ASSUME NEW x \in Places, NEW y \in SUBSET Files, NEW z \in Files \cup {"none"}
      PROVE  [q EXCEPT !.pc = x, !.files = y, !.tmp = z] \in Records
  BY DEF Records
<1>13. ASSUME NEW x \in Places, NEW y \in {"none", "kept", "gone"}
      PROVE  [q EXCEPT !.pc = x, !.media = y] \in Records
  BY DEF Records
<1>14. ASSUME NEW x \in Places, NEW y \in SUBSET Notes
      PROVE  [q EXCEPT !.pc = x, !.warned = y] \in Records
  BY DEF Records
<1>15. ASSUME NEW x \in Places, NEW y \in SUBSET Wishes
      PROVE  [q EXCEPT !.pc = x, !.ask = y] \in Records
  BY DEF Records
<1>16. ASSUME NEW x \in Places, NEW y \in {"none", "silence", "speech"}
      PROVE  [q EXCEPT !.pc = x, !.text = y] \in Records
  BY DEF Records
<1>17. ASSUME NEW x \in SUBSET Notes
      PROVE  [q EXCEPT !.warned = x] \in Records
  BY DEF Records
<1>18. ASSUME NEW x \in {"none", "kept", "gone"}, NEW y \in SUBSET Notes
      PROVE  [q EXCEPT !.media = x, !.warned = y] \in Records
  BY DEF Records
<1>19. ASSUME NEW x \in {"none", "kept", "gone"}, NEW y \in SUBSET Files
      PROVE  [q EXCEPT !.media = x, !.files = y] \in Records
  BY DEF Records
<1>20. ASSUME NEW x \in {"none", "kept", "gone"}
      PROVE  [q EXCEPT !.media = x] \in Records
  BY DEF Records
<1>21. ASSUME NEW x \in SUBSET Places, NEW y \in SUBSET Files
      PROVE  [q EXCEPT !.threads = x, !.files = y] \in Records
  BY DEF Records
<1>22. ASSUME NEW x \in {"ok", "error", "cancelled"}, NEW y \in SUBSET Files
      PROVE  [q EXCEPT !.status = x, !.files = y] \in Records
  BY DEF Records
<1>23. ASSUME NEW x \in SUBSET Wishes, NEW y \in Int, NEW z \in Int
      PROVE  [q EXCEPT !.ask = x, !.inFlight = y, !.jobs = z] \in Records
  BY DEF Records
<1>24. ASSUME NEW x \in BOOLEAN
      PROVE  [q EXCEPT !.inner = x] \in Records
  BY DEF Records
<1>25. QED
  BY <1>1, <1>2, <1>3, <1>4, <1>5, <1>6, <1>7, <1>8, <1>9, <1>10, <1>11, <1>12, <1>13,
     <1>14, <1>15, <1>16, <1>17, <1>18, <1>19, <1>20, <1>21, <1>22, <1>23, <1>24

USE DEF Early, Fetching, ToSeparation, Separating, ToDecode, ToDiarization, ToTranslation,
        ToAnswer, Over, Decoding, Behind, Fed, Running, Places

\* The transformers of the handler keep the type.
LEMMA StageTypes ==
  ASSUME NEW q \in Records, NEW s \in Q!Stages
  PROVE  /\ Q!Ran(q, s) \in Records
         /\ Q!Skip(q, s) \in Records
         /\ Q!SoftFail(q, s) \in Records
<1>1. q.warned \cup {s} \in SUBSET Notes BY DEF Records, Notes
<1>2. ASSUME NEW x \in Outcomes PROVE [q.out EXCEPT ![s] = x] \in [Q!Stages -> Outcomes]
  BY DEF Records
<1>3. ASSUME NEW x \in [Q!Stages -> Outcomes] PROVE [q EXCEPT !.out = x] \in Records
  BY DEF Records
<1>4. ASSUME NEW x \in [Q!Stages -> Outcomes], NEW y \in SUBSET Notes
      PROVE  [q EXCEPT !.out = x, !.warned = y] \in Records
  BY DEF Records
<1>5. {"ran", "failed", "skipped"} \subseteq Outcomes BY DEF Outcomes
<1>6. Q!Ran(q, s) \in Records BY <1>2, <1>3, <1>5 DEF Q!Ran
<1>7. Q!Skip(q, s) \in Records BY <1>1, <1>2, <1>4, <1>5 DEF Q!Skip
<1>8. Q!SoftFail(q, s) \in Records BY <1>1, <1>2, <1>4, <1>5 DEF Q!SoftFail
<1>9. QED BY <1>6, <1>7, <1>8

LEMMA FileTypes ==
  ASSUME NEW q \in Records
  PROVE  /\ Q!NoSepWav(q) \in Records
         /\ Q!Vocals(q) \in Records
<1>1. q.files \ {"sepwav"} \in SUBSET Files BY DEF Records
<1>2. (q.files \ {q.tmp}) \cup {"vocals"} \in SUBSET Files BY DEF Records, Files
<1>3. ASSUME NEW x \in SUBSET Files, NEW y \in Files \cup {"none"}
      PROVE  [q EXCEPT !.files = x, !.tmp = y] \in Records
  BY ZenonT(40) DEF Records
<1>4. "vocals" \in Files BY DEF Files
<1>5. Q!NoSepWav(q) \in Records BY <1>1, FieldTypes DEF Q!NoSepWav
<1>6. Q!Vocals(q) \in Records BY <1>2, <1>3, <1>4 DEF Q!Vocals
<1>7. QED BY <1>5, <1>6

\* Going on to an await.
LEMMA AtGood ==
  ASSUME NEW q \in Records, NEW to \in Places, Good(q, to), to # "idle"
  PROVE  /\ Q!At(q, to) \in Records
         /\ Q!At(q, to).pc = to
         /\ Q!At(q, to).slot = q.slot
         /\ Good(Q!At(q, to), to)
<1> DEFINE p == Q!At(q, to)
<1>1. p \in Records BY FieldTypes DEF Q!At
<1>2. p.pc = to /\ p.slot = q.slot BY DEF Q!At, Records
<1>3. Counted(p, to) BY DEF Q!At, Records, Good, Counted
<1>4. Owned(p, to) BY DEF Q!At, Records, Good, Owned, Q!MayLeave
<1>5. Decided(p, to) BY DEF Q!At, Records, Good, Decided
<1>6. Retaining(p, to) BY DEF Q!At, Records, Good, Retaining
<1>7. Answered(p, to) BY DEF Q!At, Records, Good, Answered, ExplainedOf
<1>8. QED BY <1>1, <1>2, <1>3, <1>4, <1>5, <1>6, <1>7 DEF Good

LEMMA SlotGood ==
  ASSUME NEW q \in Records, NEW b \in BOOLEAN, NEW at \in Places, at # "idle", Good(q, at)
  PROVE  /\ [q EXCEPT !.slot = b] \in Records
         /\ [q EXCEPT !.slot = b].pc = q.pc
         /\ [q EXCEPT !.slot = b].slot = b
         /\ Good([q EXCEPT !.slot = b], at)
<1> DEFINE p == [q EXCEPT !.slot = b]
<1>1. p \in Records BY FieldTypes
<1>2. p.pc = q.pc /\ p.slot = b BY DEF Records
<1>3. Counted(p, at) BY DEF Records, Good, Counted
<1>4. Owned(p, at) BY DEF Records, Good, Owned, Q!MayLeave
<1>5. Decided(p, at) BY DEF Records, Good, Decided
<1>6. Retaining(p, at) BY DEF Records, Good, Retaining
<1>7. Answered(p, at) BY DEF Records, Good, Answered, ExplainedOf
<1>8. QED BY <1>1, <1>2, <1>3, <1>4, <1>5, <1>6, <1>7 DEF Good

-----------------------------------------------------------------------------
(* The ends.                                                                   *)

\* What a request must bring to its finally blocks.
Leaving(q) ==
  /\ q.leases = (IF q.leased THEN 1 ELSE 0) /\ q.inFlight = 1 /\ q.jobs = 1
  /\ IF q.inner THEN q.files \ {q.tmp, "retained", "dir"} \subseteq Q!MayLeave(q)
                ELSE q.files = {}
  /\ ~({"url", "retain"} \subseteq q.ask)
  /\ \A s \in Q!Stages : q.out[s] # "none" => q.out[s] = "ran" \/ s \in q.warned
  /\ ~q.answered /\ q.media # "none" => "url" \in q.ask
  /\ q.threads \subseteq q.dropped
  /\ q.text # "none" /\ ~q.cancel /\ q.dropped = {} => q.answered /\ q.status = "ok"
  /\ q.answered => ExplainedOf(q)

LEMMA OuterGood ==
  ASSUME NEW q \in Records, Leaving(q), q.files \subseteq Q!MayLeave(q)
  PROVE  /\ Q!Outer(q) \in Records
         /\ Q!Outer(q).pc = "finish"
         /\ Q!Outer(q).slot = q.slot
         /\ Good(Q!Outer(q), "finish")
<1> DEFINE p == Q!Outer(q)
<1>1. p \in Records
  <2>1. ASSUME NEW l \in Int, NEW i \in Int, NEW j \in Int
        PROVE  [q EXCEPT !.leases = l, !.inFlight = i, !.jobs = j, !.pc = "finish"] \in Records
    BY ZenonT(40) DEF Records
  <2>2. (IF q.leased THEN q.leases - 1 ELSE q.leases) \in Int /\ q.inFlight - 1 \in Int /\ q.jobs - 1 \in Int
    BY DEF Records
  <2>3. QED BY <2>1, <2>2 DEF Q!Outer
<1>2. p.pc = "finish" /\ p.slot = q.slot BY DEF Q!Outer, Records
<1>3. Counted(p, "finish") BY DEF Q!Outer, Records, Leaving, Counted
<1>4. Owned(p, "finish") BY DEF Q!Outer, Records, Leaving, Owned, Q!MayLeave
<1>5. Decided(p, "finish") BY DEF Q!Outer, Records, Leaving, Decided
<1>6. Retaining(p, "finish") BY DEF Q!Outer, Records, Leaving, Retaining
<1>7. Answered(p, "finish") BY DEF Q!Outer, Records, Leaving, Answered, ExplainedOf
<1>8. QED BY <1>1, <1>2, <1>3, <1>4, <1>5, <1>6, <1>7 DEF Good

LEMMA InnerGood ==
  ASSUME NEW q \in Records, Leaving(q), q.inner
  PROVE  /\ Q!Inner(q) \in Records
         /\ Q!Inner(q).pc \in {"rmtree", "finish"}
         /\ Q!Inner(q).slot = q.slot
         /\ Good(Q!Inner(q), Q!Inner(q).pc)
<1> DEFINE tidy == [q EXCEPT !.files = q.files \ {q.tmp, "retained"}]
           p == [tidy EXCEPT !.pc = "rmtree"]
<1>1. tidy \in Records
  <2>1. q.files \ {q.tmp, "retained"} \in SUBSET Files BY DEF Records
  <2>2. QED BY <2>1, FieldTypes
<1>2. Leaving(tidy) BY DEF Leaving, Records, Q!MayLeave, ExplainedOf
<1>3. tidy.slot = q.slot BY DEF Records
<1>4. CASE "dir" \in q.files
  <2>1. Q!Inner(q) = p BY <1>4 DEF Q!Inner
  <2>2. p \in Records BY <1>1, FieldTypes
  <2>3. p.pc = "rmtree" /\ p.slot = q.slot BY <1>1, <1>3 DEF Records
  <2>4. Counted(p, "rmtree") BY <1>1, <1>2 DEF Records, Leaving, Counted
  <2>5. Owned(p, "rmtree") BY DEF Records, Leaving, Owned, Q!MayLeave
  <2>6. Decided(p, "rmtree") BY <1>1, <1>2 DEF Records, Leaving, Decided
  <2>7. Retaining(p, "rmtree") BY <1>1, <1>2 DEF Records, Leaving, Retaining
  <2>8. Answered(p, "rmtree") BY <1>1, <1>2 DEF Records, Leaving, Answered, ExplainedOf
  <2>9. Good(p, "rmtree") BY <2>4, <2>5, <2>6, <2>7, <2>8 DEF Good
  <2>10. QED BY <2>1, <2>2, <2>3, <2>9
<1>5. CASE "dir" \notin q.files
  <2>1. tidy.files \subseteq Q!MayLeave(tidy) BY <1>5 DEF Leaving, Records, Q!MayLeave
  <2>2. Q!Inner(q) = Q!Outer(tidy) BY <1>5 DEF Q!Inner
  <2>3. QED BY <1>1, <1>2, <1>3, <2>1, <2>2, OuterGood
<1>6. QED BY <1>4, <1>5

LEMMA LeaveGood ==
  ASSUME NEW q \in Records, Leaving(q)
  PROVE  /\ Q!Leave(q) \in Records
         /\ Q!Leave(q).pc \in {"rmtree", "finish"}
         /\ Q!Leave(q).slot = q.slot
         /\ Good(Q!Leave(q), Q!Leave(q).pc)
<1>1. CASE q.inner BY <1>1, InnerGood DEF Q!Leave
<1>2. CASE ~q.inner
  <2>1. q.files \subseteq Q!MayLeave(q) BY <1>2 DEF Leaving
  <2>2. QED BY <1>2, <2>1, OuterGood DEF Q!Leave
<1>3. QED BY <1>1, <1>2

\* A run that ends before its decode, by its client's cancellation or by being
\* dropped, is ready for its finally blocks.
LEMMA RaiseGood ==
  ASSUME NEW q \in Records, NEW at \in Running, Good(q, at), NEW status \in {"ok", "error", "cancelled"},
         at \in Decoding \/ q.cancel, "sepwav" \notin q.files
  PROVE  /\ Q!Raise(q, status) \in Records
         /\ Q!Raise(q, status).pc \in {"rmtree", "finish"}
         /\ Q!Raise(q, status).slot = q.slot
         /\ Good(Q!Raise(q, status), Q!Raise(q, status).pc)
<1> DEFINE p == [q EXCEPT !.status = status]
<1>1. p \in Records /\ p.slot = q.slot
  <2>1. p \in Records BY FieldTypes
  <2>2. p.slot = q.slot BY DEF Records
  <2>3. QED BY <2>1, <2>2
<1>2. IF p.inner THEN p.files \ {p.tmp, "retained", "dir"} \subseteq Q!MayLeave(p)
                 ELSE p.files = {}
  <2>1. p.inner = q.inner /\ p.files = q.files /\ p.tmp = q.tmp BY DEF Records
  <2>2. at \in Early => ~q.inner /\ q.files = {} BY DEF Good, Owned
  <2>3. at \notin Early => q.inner BY DEF Good, Owned
  <2>4. at \notin Early => q.files \ {q.tmp, "retained", "dir"} = {} BY DEF Good, Owned
  <2>5. QED BY <2>1, <2>2, <2>3, <2>4
<1>3. p.text # "none" /\ ~p.cancel /\ p.dropped = {} => FALSE
  BY DEF Good, Answered, Records
<1>4. Leaving(p)
  <2>1. p.leases = (IF p.leased THEN 1 ELSE 0) /\ p.inFlight = 1 /\ p.jobs = 1
    BY DEF Records, Good, Counted
  <2>2. p.threads \subseteq p.dropped BY DEF Records, Good, Owned
  <2>3. /\ ~({"url", "retain"} \subseteq p.ask)
        /\ ~p.answered /\ p.media # "none" => "url" \in p.ask
    BY DEF Records, Good, Retaining
  <2>4. \A s \in Q!Stages : p.out[s] # "none" => p.out[s] = "ran" \/ s \in p.warned
    BY DEF Records, Good, Decided
  <2>5. ~p.answered BY DEF Records, Good, Answered
  <2>6. QED BY <1>2, <1>3, <2>1, <2>2, <2>3, <2>4, <2>5 DEF Leaving
<1>5. QED BY <1>1, <1>4, LeaveGood DEF Q!Raise

LEMMA EnterGood ==
  ASSUME NEW q \in Records, NEW to \in Running, Good(q, to), "sepwav" \notin q.files, NEW p,
         p = Q!Enter(q, to)
  PROVE  p \in Records /\ Good(p, p.pc) /\ p.slot = q.slot /\ p.pc \in {to, "rmtree", "finish"}
<1>1. to \in Places /\ to # "idle" OBVIOUS
<1>2. CASE q.cancel BY <1>2, RaiseGood DEF Q!Enter
<1>3. CASE ~q.cancel BY <1>1, <1>3, AtGood DEF Q!Enter
<1>4. QED BY <1>2, <1>3

-----------------------------------------------------------------------------
(* What a step of one request does to the table and to the semaphore.          *)

RequestTable ==
  /\ run \in [Requests -> Records] /\ free \in Int
  /\ \A r \in Requests : Fine(run[r])

\* r's record alone changes, into a fine one, and the semaphore's free places
\* with its slot.
Served(r) ==
  /\ run' = [run EXCEPT ![r] = run'[r]]
  /\ Fine(run'[r])
  /\ free' = free + (IF run[r].slot THEN 1 ELSE 0) - (IF run'[r].slot THEN 1 ELSE 0)

LEMMA StepServed ==
  ASSUME RequestTable, NEW r \in Requests, NEW from, from \notin Suspended,
         NEW p \in Records, Good(p, p.pc), p.slot = run[r].slot, Q!Step(r, from, p)
  PROVE  Served(r)
<1>1. run' = [run EXCEPT ![r] = p] /\ free' = free /\ run[r].pc = from BY DEF Q!Step
<1>2. run'[r] = p BY <1>1 DEF RequestTable
<1>3. ~run[r].slot BY <1>1 DEF RequestTable, Fine
<1>4. Fine(p) BY <1>3 DEF Fine
<1>5. QED BY <1>1, <1>2, <1>3, <1>4 DEF Served, RequestTable

LEMMA ReleaseServed ==
  ASSUME RequestTable, NEW r \in Requests, NEW from, NEW p \in Records, Good(p, p.pc),
         p.pc # "idle", Q!Release(r, from, p)
  PROVE  Served(r)
<1> DEFINE x == [p EXCEPT !.slot = FALSE]
<1>1. /\ run' = [run EXCEPT ![r] = x]
      /\ free' = IF run[r].slot THEN free + 1 ELSE free
  BY DEF Q!Release
<1>2. run'[r] = x BY <1>1 DEF RequestTable
<1>3. p.pc \in Places BY DEF Records
<1>4. x \in Records /\ x.pc = p.pc /\ x.slot = FALSE /\ Good(x, p.pc) BY <1>3, SlotGood
<1>5. Fine(x) BY <1>4 DEF Fine
<1>6. x.slot = FALSE BY <1>4
<1> HIDE DEF x
<1>7. QED BY <1>1, <1>2, <1>5, <1>6 DEF Served, RequestTable

LEMMA AcquireServed ==
  ASSUME RequestTable, NEW r \in Requests, NEW from, from \notin Suspended, NEW to \in Suspended,
         Good(run[r], from) => Good(run[r], to), Q!Acquire(r, from, to)
  PROVE  Served(r)
<1> DEFINE q == run[r]
           a == [q EXCEPT !.slot = TRUE]
           x == [q EXCEPT !.slot = TRUE, !.pc = to]
<1>1. /\ run' = [run EXCEPT ![r] = x] /\ free' = free - 1 /\ q.pc = from
  BY DEF Q!Acquire
<1>2. run'[r] = x BY <1>1 DEF RequestTable
<1>3. q \in Records /\ Good(q, from) /\ ~q.slot BY <1>1 DEF RequestTable, Fine
<1>4. to \in Places /\ to # "idle" BY DEF Suspended
<1>5. a \in Records /\ Good(a, to) /\ a.slot BY <1>3, <1>4, SlotGood
<1>6. x = Q!At(a, to) BY <1>3 DEF Q!At, Records
<1>7. x \in Records /\ Good(x, to) /\ x.pc = to /\ x.slot = a.slot
  <2> HIDE DEF a, x
  <2>1. QED BY <1>4, <1>5, <1>6, AtGood
<1>8. Fine(x) /\ x.slot
  <2> HIDE DEF a, x
  <2>1. QED BY <1>5, <1>7 DEF Fine
<1> HIDE DEF x, q
<1>9. q = run[r] BY DEF q
<1>10. QED BY <1>1, <1>2, <1>3, <1>8, <1>9 DEF Served, RequestTable

-----------------------------------------------------------------------------
(* Before the stages.                                                          *)

LEMMA ArrivedGood ==
  ASSUME NEW q \in Records, Good(q, "idle"),
         NEW ask \in SUBSET Wishes,
         ~({"url", "retain"} \subseteq ask), ~({"retain", "text"} \subseteq ask),
         NEW p, p = [q EXCEPT !.ask = ask, !.inFlight = 1, !.jobs = 1, !.pc = "row"]
  PROVE  p \in Records /\ p.pc = "row" /\ p.slot = q.slot /\ Good(p, "row")
<1>0. /\ q.leases = 0 /\ q.leased = FALSE /\ q.files = {} /\ q.inner = FALSE /\ q.threads = {}
      /\ q.tmp = "none"
      /\ q.out = [s \in Q!Stages |-> "none"] /\ q.media = "none" /\ q.text = "none"
      /\ q.answered = FALSE /\ q.status = "ok"
  BY DEF Good, Counted, Q!Idle
<1>1. p \in Records
  <2>1. ask \in SUBSET Wishes /\ 1 \in Int /\ 1 \in Int /\ "row" \in Places
    BY DEF Records, Files, Notes
  <2>2. QED BY <2>1, FieldTypes
<1>2. p.pc = "row" /\ p.slot = q.slot BY DEF Records
<1>3. Good(p, "row")
  <2>1. Counted(p, "row") BY <1>0 DEF Records, Good, Counted
  <2>2. Owned(p, "row") BY <1>0 DEF Records, Good, Owned, Q!MayLeave
  <2>3. Decided(p, "row") BY <1>0 DEF Records, Good, Decided
  <2>4. Retaining(p, "row") BY <1>0 DEF Records, Good, Retaining, Owned
  <2>5. Answered(p, "row") BY <1>0 DEF Records, Good, Answered, ExplainedOf
  <2>6. QED BY <2>1, <2>2, <2>3, <2>4, <2>5 DEF Good
<1>4. QED BY <1>1, <1>2, <1>3

LEMMA ModelLoadedGood ==
  ASSUME NEW q \in Records, Good(q, "load"),
         NEW p, p = [q EXCEPT !.pc = "form", !.leased = TRUE, !.leases = 1]
  PROVE  p \in Records /\ p.pc = "form" /\ p.slot = q.slot /\ Good(p, "form")
<1>1. p \in Records
  <2>1. "form" \in Places /\ TRUE \in BOOLEAN /\ 1 \in Int
    BY DEF Records, Files, Notes
  <2>2. QED BY <2>1, FieldTypes
<1>2. p.pc = "form" /\ p.slot = q.slot BY DEF Records
<1>3. Good(p, "form")
  <2>1. Counted(p, "form") BY DEF Records, Good, Counted
  <2>2. Owned(p, "form") BY DEF Records, Good, Owned, Q!MayLeave
  <2>3. Decided(p, "form") BY DEF Records, Good, Decided
  <2>4. Retaining(p, "form") BY DEF Records, Good, Retaining, Owned
  <2>5. Answered(p, "form") BY DEF Records, Good, Answered, ExplainedOf
  <2>6. QED BY <2>1, <2>2, <2>3, <2>4, <2>5 DEF Good
<1>4. QED BY <1>1, <1>2, <1>3

LEMMA SpoolingGood ==
  ASSUME NEW q \in Records, Good(q, "form"),
         "url" \notin q.ask,
         NEW p, p = [q EXCEPT !.inner = TRUE, !.pc = "spool", !.files = {"spool"}, !.tmp = "spool"]
  PROVE  p \in Records /\ p.pc = "spool" /\ p.slot = q.slot /\ Good(p, "spool")
<1>1. p \in Records
  <2>1. TRUE \in BOOLEAN /\ "spool" \in Places /\ {"spool"} \in SUBSET Files /\ "spool" \in Files \cup {"none"}
    BY DEF Records, Files, Notes
  <2>2. QED BY <2>1, FieldTypes
<1>2. p.pc = "spool" /\ p.slot = q.slot BY DEF Records
<1>3. Good(p, "spool")
  <2>1. Counted(p, "spool") BY DEF Records, Good, Counted
  <2>2. Owned(p, "spool") BY DEF Records, Good, Owned, Q!MayLeave
  <2>3. Decided(p, "spool") BY DEF Records, Good, Decided
  <2>4. Retaining(p, "spool") BY DEF Records, Good, Retaining, Owned
  <2>5. Answered(p, "spool") BY DEF Records, Good, Answered, ExplainedOf
  <2>6. QED BY <2>1, <2>2, <2>3, <2>4, <2>5 DEF Good
<1>4. QED BY <1>1, <1>2, <1>3

LEMMA DownloadingGood ==
  ASSUME NEW q \in Records, Good(q, "probe"),
         NEW p, p = [q EXCEPT !.pc = "download", !.files = q.files \cup {"dir"}]
  PROVE  p \in Records /\ p.pc = "download" /\ p.slot = q.slot /\ Good(p, "download")
<1>1. p \in Records
  <2>1. "download" \in Places /\ q.files \cup {"dir"} \in SUBSET Files
    BY DEF Records, Files, Notes
  <2>2. QED BY <2>1, FieldTypes
<1>2. p.pc = "download" /\ p.slot = q.slot BY DEF Records
<1>3. Good(p, "download")
  <2>1. Counted(p, "download") BY DEF Records, Good, Counted
  <2>2. Owned(p, "download") BY DEF Records, Good, Owned, Q!MayLeave
  <2>3. Decided(p, "download") BY DEF Records, Good, Decided
  <2>4. Retaining(p, "download") BY DEF Records, Good, Retaining, Owned
  <2>5. Answered(p, "download") BY DEF Records, Good, Answered, ExplainedOf
  <2>6. QED BY <2>1, <2>2, <2>3, <2>4, <2>5 DEF Good
<1>4. QED BY <1>1, <1>2, <1>3

LEMMA ReusedGood ==
  ASSUME NEW q \in Records, Good(q, "reuse"),
         NEW media \in {"none", "kept"},
         NEW p, p = [q EXCEPT !.pc = "input", !.files = q.files \cup {"copy"}, !.tmp = "copy", !.media = media]
  PROVE  p \in Records /\ p.pc = "input" /\ p.slot = q.slot /\ Good(p, "input")
<1>1. p \in Records
  <2>1. "input" \in Places /\ q.files \cup {"copy"} \in SUBSET Files /\ "copy" \in Files \cup {"none"} /\ media \in {"none", "kept", "gone"}
    BY DEF Records, Files, Notes
  <2>2. QED BY <2>1, FieldTypes
<1>2. p.pc = "input" /\ p.slot = q.slot BY DEF Records
<1>3. Good(p, "input")
  <2>1. Counted(p, "input") BY DEF Records, Good, Counted
  <2>2. Owned(p, "input") BY DEF Records, Good, Owned, Q!MayLeave
  <2>3. Decided(p, "input") BY DEF Records, Good, Decided
  <2>4. Retaining(p, "input") BY DEF Records, Good, Retaining, Owned
  <2>5. Answered(p, "input") BY DEF Records, Good, Answered, ExplainedOf
  <2>6. QED BY <2>1, <2>2, <2>3, <2>4, <2>5 DEF Good
<1>4. QED BY <1>1, <1>2, <1>3

LEMMA CopiedGood ==
  ASSUME NEW q \in Records, Good(q, "pipecopy"),
         NEW p, p = [q EXCEPT !.pc = "register", !.files = q.files \cup {"copy"}, !.tmp = "copy"]
  PROVE  p \in Records /\ p.pc = "register" /\ p.slot = q.slot /\ Good(p, "register")
<1>1. p \in Records
  <2>1. "register" \in Places /\ q.files \cup {"copy"} \in SUBSET Files /\ "copy" \in Files \cup {"none"}
    BY DEF Records, Files, Notes
  <2>2. QED BY <2>1, FieldTypes
<1>2. p.pc = "register" /\ p.slot = q.slot BY DEF Records
<1>3. Good(p, "register")
  <2>1. Counted(p, "register") BY DEF Records, Good, Counted
  <2>2. Owned(p, "register") BY DEF Records, Good, Owned, Q!MayLeave
  <2>3. Decided(p, "register") BY DEF Records, Good, Decided
  <2>4. Retaining(p, "register") BY DEF Records, Good, Retaining, Owned
  <2>5. Answered(p, "register") BY DEF Records, Good, Answered, ExplainedOf
  <2>6. QED BY <2>1, <2>2, <2>3, <2>4, <2>5 DEF Good
<1>4. QED BY <1>1, <1>2, <1>3

LEMMA RegisteredGood ==
  ASSUME NEW q \in Records, Good(q, "register"),
         NEW media \in {"none", "kept"},
         NEW p, p = [q EXCEPT !.pc = "input", !.media = media]
  PROVE  p \in Records /\ p.pc = "input" /\ p.slot = q.slot /\ Good(p, "input")
<1>1. p \in Records
  <2>1. "input" \in Places /\ media \in {"none", "kept", "gone"}
    BY DEF Records, Files, Notes
  <2>2. QED BY <2>1, FieldTypes
<1>2. p.pc = "input" /\ p.slot = q.slot BY DEF Records
<1>3. Good(p, "input")
  <2>1. Counted(p, "input") BY DEF Records, Good, Counted
  <2>2. Owned(p, "input") BY DEF Records, Good, Owned, Q!MayLeave
  <2>3. Decided(p, "input") BY DEF Records, Good, Decided
  <2>4. Retaining(p, "input") BY DEF Records, Good, Retaining, Owned
  <2>5. Answered(p, "input") BY DEF Records, Good, Answered, ExplainedOf
  <2>6. QED BY <2>1, <2>2, <2>3, <2>4, <2>5 DEF Good
<1>4. QED BY <1>1, <1>2, <1>3

LEMMA RetainDeclinedGood ==
  ASSUME NEW q \in Records, Good(q, "spool"),
         NEW p, p = [q EXCEPT !.pc = "input", !.warned = q.warned \cup {"retain"}]
  PROVE  p \in Records /\ p.pc = "input" /\ p.slot = q.slot /\ Good(p, "input")
<1>1. p \in Records
  <2>1. "input" \in Places /\ q.warned \cup {"retain"} \in SUBSET Notes
    BY DEF Records, Files, Notes
  <2>2. QED BY <2>1, FieldTypes
<1>2. p.pc = "input" /\ p.slot = q.slot BY DEF Records
<1>3. Good(p, "input")
  <2>1. Counted(p, "input") BY DEF Records, Good, Counted
  <2>2. Owned(p, "input") BY DEF Records, Good, Owned, Q!MayLeave
  <2>3. Decided(p, "input") BY DEF Records, Good, Decided
  <2>4. Retaining(p, "input") BY DEF Records, Good, Retaining, Owned
  <2>5. Answered(p, "input") BY DEF Records, Good, Answered, ExplainedOf
  <2>6. QED BY <2>1, <2>2, <2>3, <2>4, <2>5 DEF Good
<1>4. QED BY <1>1, <1>2, <1>3

LEMMA RetainedGood ==
  ASSUME NEW q \in Records, Good(q, "retain"),
         NEW p, p = [q EXCEPT !.pc = "input", !.files = q.files \cup {"retained"}]
  PROVE  p \in Records /\ p.pc = "input" /\ p.slot = q.slot /\ Good(p, "input")
<1>1. p \in Records
  <2>1. "input" \in Places /\ q.files \cup {"retained"} \in SUBSET Files
    BY DEF Records, Files, Notes
  <2>2. QED BY <2>1, FieldTypes
<1>2. p.pc = "input" /\ p.slot = q.slot BY DEF Records
<1>3. Good(p, "input")
  <2>1. Counted(p, "input") BY DEF Records, Good, Counted
  <2>2. Owned(p, "input") BY DEF Records, Good, Owned, Q!MayLeave
  <2>3. Decided(p, "input") BY DEF Records, Good, Decided
  <2>4. Retaining(p, "input") BY DEF Records, Good, Retaining, Owned
  <2>5. Answered(p, "input") BY DEF Records, Good, Answered, ExplainedOf
  <2>6. QED BY <2>1, <2>2, <2>3, <2>4, <2>5 DEF Good
<1>4. QED BY <1>1, <1>2, <1>3

LEMMA RetainFailedGood ==
  ASSUME NEW q \in Records, Good(q, "retain"),
         NEW p, p = [q EXCEPT !.pc = "input", !.warned = q.warned \cup {"retain"}]
  PROVE  p \in Records /\ p.pc = "input" /\ p.slot = q.slot /\ Good(p, "input")
<1>1. p \in Records
  <2>1. "input" \in Places /\ q.warned \cup {"retain"} \in SUBSET Notes
    BY DEF Records, Files, Notes
  <2>2. QED BY <2>1, FieldTypes
<1>2. p.pc = "input" /\ p.slot = q.slot BY DEF Records
<1>3. Good(p, "input")
  <2>1. Counted(p, "input") BY DEF Records, Good, Counted
  <2>2. Owned(p, "input") BY DEF Records, Good, Owned, Q!MayLeave
  <2>3. Decided(p, "input") BY DEF Records, Good, Decided
  <2>4. Retaining(p, "input") BY DEF Records, Good, Retaining, Owned
  <2>5. Answered(p, "input") BY DEF Records, Good, Answered, ExplainedOf
  <2>6. QED BY <2>1, <2>2, <2>3, <2>4, <2>5 DEF Good
<1>4. QED BY <1>1, <1>2, <1>3

LEMMA RolledGood ==
  ASSUME NEW q \in Records, Good(q, "roll"),
         NEW ask \in {q.ask, q.ask \ {"capture"}},
         NEW p, p = [q EXCEPT !.pc = "plan", !.ask = ask]
  PROVE  p \in Records /\ p.pc = "plan" /\ p.slot = q.slot /\ Good(p, "plan")
<1>1. p \in Records
  <2>1. "plan" \in Places /\ ask \in SUBSET Wishes
    BY DEF Records, Files, Notes
  <2>2. QED BY <2>1, FieldTypes
<1>2. p.pc = "plan" /\ p.slot = q.slot BY DEF Records
<1>3. Good(p, "plan")
  <2>1. Counted(p, "plan") BY DEF Records, Good, Counted
  <2>2. Owned(p, "plan") BY DEF Records, Good, Owned, Q!MayLeave
  <2>3. Decided(p, "plan") BY DEF Records, Good, Decided
  <2>4. Retaining(p, "plan") BY DEF Records, Good, Retaining, Owned
  <2>5. Answered(p, "plan") BY DEF Records, Good, Answered, ExplainedOf
  <2>6. QED BY <2>1, <2>2, <2>3, <2>4, <2>5 DEF Good
<1>4. QED BY <1>1, <1>2, <1>3

-----------------------------------------------------------------------------
(* The stages.                                                                 *)

LEMMA TranscodingGood ==
  ASSUME NEW q \in Records, Good(q, "plan"),
         NEW p, p = [q EXCEPT !.pc = "transcode", !.files = q.files \cup {"sepwav"}]
  PROVE  p \in Records /\ p.pc = "transcode" /\ p.slot = q.slot /\ Good(p, "transcode")
<1>1. p \in Records
  <2>1. "transcode" \in Places /\ q.files \cup {"sepwav"} \in SUBSET Files
    BY DEF Records, Files, Notes
  <2>2. QED BY <2>1, FieldTypes
<1>2. p.pc = "transcode" /\ p.slot = q.slot BY DEF Records
<1>3. Good(p, "transcode")
  <2>1. Counted(p, "transcode") BY DEF Records, Good, Counted
  <2>2. Owned(p, "transcode") BY DEF Records, Good, Owned, Q!MayLeave
  <2>3. Decided(p, "transcode") BY DEF Records, Good, Decided
  <2>4. Retaining(p, "transcode") BY DEF Records, Good, Retaining, Owned
  <2>5. Answered(p, "transcode") BY DEF Records, Good, Answered, ExplainedOf
  <2>6. QED BY <2>1, <2>2, <2>3, <2>4, <2>5 DEF Good
<1>4. QED BY <1>1, <1>2, <1>3

LEMMA DecodedGood ==
  ASSUME NEW q \in Records, Good(q, "decode"),
         NEW text \in {"silence", "speech"},
         NEW p, p = [q EXCEPT !.pc = "diargate", !.text = text]
  PROVE  p \in Records /\ p.pc = "diargate" /\ p.slot = q.slot /\ Good(p, "diargate")
<1>1. p \in Records
  <2>1. "diargate" \in Places /\ text \in {"none", "silence", "speech"}
    BY DEF Records, Files, Notes
  <2>2. QED BY <2>1, FieldTypes
<1>2. p.pc = "diargate" /\ p.slot = q.slot BY DEF Records
<1>3. Good(p, "diargate")
  <2>1. Counted(p, "diargate") BY DEF Records, Good, Counted
  <2>2. Owned(p, "diargate") BY DEF Records, Good, Owned, Q!MayLeave
  <2>3. Decided(p, "diargate") BY DEF Records, Good, Decided
  <2>4. Retaining(p, "diargate") BY DEF Records, Good, Retaining, Owned
  <2>5. Answered(p, "diargate") BY DEF Records, Good, Answered, ExplainedOf
  <2>6. QED BY <2>1, <2>2, <2>3, <2>4, <2>5 DEF Good
<1>4. QED BY <1>1, <1>2, <1>3

\* A stage that ran, was skipped or failed softly is settled, wherever the request is.
LEMMA SettleGood ==
  ASSUME NEW q \in Records, NEW at \in Running, Good(q, at), NEW s \in Q!Stages,
         NEW p, p \in {Q!Ran(q, s), Q!Skip(q, s), Q!SoftFail(q, s)}
  PROVE  /\ p \in Records /\ Good(p, at) /\ p.out[s] # "none"
         /\ p.pc = q.pc /\ p.slot = q.slot /\ p.files = q.files /\ p.ask = q.ask
<1> DEFINE Kept ==
             /\ p.pc = q.pc /\ p.slot = q.slot /\ p.files = q.files /\ p.ask = q.ask
             /\ p.leases = q.leases /\ p.leased = q.leased /\ p.inFlight = q.inFlight
             /\ p.jobs = q.jobs /\ p.inner = q.inner /\ p.tmp = q.tmp /\ p.media = q.media
             /\ p.text = q.text /\ p.answered = q.answered /\ p.cancel = q.cancel
             /\ p.dropped = q.dropped /\ p.threads = q.threads /\ p.status = q.status
           Settled ==
             /\ \A x \in Q!Stages \ {s} : p.out[x] = q.out[x]
             /\ p.out[s] = "ran" \/ (p.out[s] # "none" /\ s \in p.warned)
             /\ q.warned \subseteq p.warned
<1>1. p \in Records BY StageTypes
<1>2. ASSUME p = Q!Ran(q, s) PROVE Kept /\ Settled
  <2>1. Kept BY <1>2 DEF Records, Q!Ran
  <2>2. Settled BY <1>2 DEF Records, Q!Ran
  <2>3. QED BY <2>1, <2>2
<1>3. ASSUME p = Q!Skip(q, s) PROVE Kept /\ Settled
  <2>1. Kept BY <1>3 DEF Records, Q!Skip
  <2>2. Settled BY <1>3 DEF Records, Q!Skip
  <2>3. QED BY <2>1, <2>2
<1>4. ASSUME p = Q!SoftFail(q, s) PROVE Kept /\ Settled
  <2>1. Kept BY <1>4 DEF Records, Q!SoftFail
  <2>2. Settled BY <1>4 DEF Records, Q!SoftFail
  <2>3. QED BY <2>1, <2>2
<1>5. Kept /\ Settled BY <1>2, <1>3, <1>4
<1>6. Good(p, at)
  <2>1. Counted(p, at) BY <1>5 DEF Good, Counted
  <2>2. Owned(p, at) BY <1>5 DEF Good, Owned, Q!MayLeave
  <2>3. Decided(p, at) BY <1>5 DEF Good, Decided, Q!Stages
  <2>4. Retaining(p, at) BY <1>5 DEF Good, Retaining
  <2>5. Answered(p, at) BY <1>5 DEF Good, Answered
  <2>6. QED BY <2>1, <2>2, <2>3, <2>4, <2>5 DEF Good
<1>7. p.out[s] # "none" BY <1>5
<1>8. QED BY <1>1, <1>5, <1>6, <1>7

LEMMA NoSepWavGood ==
  ASSUME NEW q \in Records, NEW at \in Running, Good(q, at)
  PROVE  LET p == Q!NoSepWav(q)
         IN  /\ p \in Records /\ Good(p, at) /\ "sepwav" \notin p.files
             /\ p.pc = q.pc /\ p.slot = q.slot /\ p.ask = q.ask /\ p.cancel = q.cancel
             /\ p.out = q.out
<1> DEFINE p == Q!NoSepWav(q)
<1> USE DEF Q!NoSepWav
<1>1. p \in Records BY FileTypes
<1>2. /\ p.pc = q.pc /\ p.slot = q.slot /\ p.ask = q.ask /\ "sepwav" \notin p.files
      /\ p.cancel = q.cancel /\ p.out = q.out
  BY DEF Records
<1>3. Good(p, at)
  <2>1. Counted(p, at) BY DEF Records, Good, Counted
  <2>2. Owned(p, at) BY DEF Records, Good, Owned, Q!MayLeave
  <2>3. Decided(p, at) BY DEF Records, Good, Decided
  <2>4. Retaining(p, at) BY DEF Records, Good, Retaining
  <2>5. Answered(p, at) BY DEF Records, Good, Answered, ExplainedOf
  <2>6. QED BY <2>1, <2>2, <2>3, <2>4, <2>5 DEF Good
<1>4. QED BY <1>1, <1>2, <1>3

LEMMA VocalsGood ==
  ASSUME NEW q \in Records, NEW at \in Separating, Good(q, at)
  PROVE  LET p == Q!Vocals(q)
         IN  /\ p \in Records /\ Good(p, at) /\ p.pc = q.pc /\ p.slot = q.slot
             /\ "sepwav" \notin q.files => "sepwav" \notin p.files
<1> DEFINE p == Q!Vocals(q)
<1> USE DEF Q!Vocals
<1>1. p \in Records BY FileTypes
<1>2. /\ p.pc = q.pc /\ p.slot = q.slot
      /\ "sepwav" \notin q.files => "sepwav" \notin p.files
  BY DEF Records
<1>3. Good(p, at)
  <2>1. Counted(p, at) BY DEF Records, Good, Counted
  <2>2. Owned(p, at) BY DEF Records, Good, Owned, Q!MayLeave
  <2>3. Decided(p, at) BY DEF Records, Good, Decided
  <2>4. Retaining(p, at) BY DEF Records, Good, Retaining, Owned
  <2>5. Answered(p, at) BY DEF Records, Good, Answered, ExplainedOf
  <2>6. QED BY <2>1, <2>2, <2>3, <2>4, <2>5 DEF Good
<1>4. QED BY <1>1, <1>2, <1>3

\* What holds at one await holds at the next.
LEMMA OnwardGood ==
  ASSUME NEW q \in Records
  PROVE  /\ Good(q, "row") => Good(q, "load")
         /\ Good(q, "probe") => Good(q, "reuse")
         /\ Good(q, "download") => Good(q, "pipecopy")
         /\ Good(q, "reuse") => Good(q, "probe")
         /\ Good(q, "spool") /\ "retain" \in q.ask => Good(q, "retain")
         /\ Good(q, "spool") /\ "retain" \notin q.ask => Good(q, "input")
         /\ Good(q, "input") => Good(q, "roll")
         /\ Good(q, "input") => Good(q, "plan")
         /\ Good(q, "plan") /\ ("separating" \notin q.ask \/ q.out["separating"] # "none") => Good(q, "decslot")
         /\ Good(q, "plan") => Good(q, "sepslot")
         /\ Good(q, "transcode") => Good(q, "sepslot")
         /\ Good(q, "transcode") /\ q.out["separating"] # "none" /\ "sepwav" \notin q.files => Good(q, "decslot")
         /\ Good(q, "separate") /\ q.out["separating"] # "none" /\ "sepwav" \notin q.files => Good(q, "decslot")
         /\ Good(q, "sepslot") => Good(q, "separate")
         /\ Good(q, "decslot") => Good(q, "decode")
         /\ Good(q, "diargate") /\ ("diarizing" \notin q.ask \/ q.out["diarizing"] # "none") => Good(q, "trgate")
         /\ Good(q, "diargate") => Good(q, "diarslot")
         /\ Good(q, "diarslot") => Good(q, "diarize")
         /\ Good(q, "diarize") => Good(q, "assign")
         /\ Good(q, "diarize") /\ q.out["diarizing"] # "none" => Good(q, "trgate")
         /\ Good(q, "assign") /\ q.out["diarizing"] # "none" => Good(q, "trgate")
         /\ Good(q, "trgate") => Good(q, "trslot")
         /\ Good(q, "trgate") => Good(q, "translate")
         /\ Good(q, "trslot") => Good(q, "translate")
         /\ Good(q, "trgate") /\ ("translating" \notin q.ask \/ q.out["translating"] # "none") => Good(q, "capgate")
         /\ Good(q, "translate") /\ q.out["translating"] # "none" => Good(q, "capgate")
         /\ Good(q, "capgate") => Good(q, "disk")
         /\ Good(q, "capgate") => Good(q, "answer")
         /\ Good(q, "disk") => Good(q, "capture")
         /\ Good(q, "disk") => Good(q, "answer")
         /\ Good(q, "capture") => Good(q, "answer")
         /\ Good(q, "answer") /\ "retained" \in q.files => Good(q, "keep")
         /\ Good(q, "finish") => Good(q, "rates")
         /\ Good(q, "rates") => Good(q, "done")
         /\ Good(q, "finish") => Good(q, "done")
<1> USE DEF Good, Counted, Owned, Decided, Retaining, Answered
<1>1. Good(q, "row") => Good(q, "load") OBVIOUS
<1>2. Good(q, "probe") => Good(q, "reuse") OBVIOUS
<1>3. Good(q, "download") => Good(q, "pipecopy") OBVIOUS
<1>4. Good(q, "reuse") => Good(q, "probe") OBVIOUS
<1>5. Good(q, "spool") /\ "retain" \in q.ask => Good(q, "retain") OBVIOUS
<1>6. Good(q, "spool") /\ "retain" \notin q.ask => Good(q, "input") OBVIOUS
<1>7. Good(q, "input") => Good(q, "roll") OBVIOUS
<1>8. Good(q, "input") => Good(q, "plan") OBVIOUS
<1>9. Good(q, "plan") /\ ("separating" \notin q.ask \/ q.out["separating"] # "none") => Good(q, "decslot") OBVIOUS
<1>10. Good(q, "plan") => Good(q, "sepslot") OBVIOUS
<1>11. Good(q, "transcode") => Good(q, "sepslot") OBVIOUS
<1>12. Good(q, "transcode") /\ q.out["separating"] # "none" /\ "sepwav" \notin q.files => Good(q, "decslot") OBVIOUS
<1>13. Good(q, "separate") /\ q.out["separating"] # "none" /\ "sepwav" \notin q.files => Good(q, "decslot") OBVIOUS
<1>14. Good(q, "sepslot") => Good(q, "separate") OBVIOUS
<1>15. Good(q, "decslot") => Good(q, "decode") OBVIOUS
<1>16. Good(q, "diargate") /\ ("diarizing" \notin q.ask \/ q.out["diarizing"] # "none") => Good(q, "trgate") OBVIOUS
<1>17. Good(q, "diargate") => Good(q, "diarslot") OBVIOUS
<1>18. Good(q, "diarslot") => Good(q, "diarize") OBVIOUS
<1>19. Good(q, "diarize") => Good(q, "assign") OBVIOUS
<1>20. Good(q, "diarize") /\ q.out["diarizing"] # "none" => Good(q, "trgate") OBVIOUS
<1>21. Good(q, "assign") /\ q.out["diarizing"] # "none" => Good(q, "trgate") OBVIOUS
<1>22. Good(q, "trgate") => Good(q, "trslot") OBVIOUS
<1>23. Good(q, "trgate") => Good(q, "translate") OBVIOUS
<1>24. Good(q, "trslot") => Good(q, "translate") OBVIOUS
<1>25. Good(q, "trgate") /\ ("translating" \notin q.ask \/ q.out["translating"] # "none") => Good(q, "capgate") OBVIOUS
<1>26. Good(q, "translate") /\ q.out["translating"] # "none" => Good(q, "capgate") OBVIOUS
<1>27. Good(q, "capgate") => Good(q, "disk") OBVIOUS
<1>28. Good(q, "capgate") => Good(q, "answer") OBVIOUS
<1>29. Good(q, "disk") => Good(q, "capture") OBVIOUS
<1>30. Good(q, "disk") => Good(q, "answer") OBVIOUS
<1>31. Good(q, "capture") => Good(q, "answer") OBVIOUS
<1>32. Good(q, "answer") /\ "retained" \in q.files => Good(q, "keep") OBVIOUS
<1>33. Good(q, "finish") => Good(q, "rates") OBVIOUS
<1>34. Good(q, "rates") => Good(q, "done") OBVIOUS
<1>35. Good(q, "finish") => Good(q, "done") OBVIOUS
<1>36. QED
  BY ZenonT(40), <1>1, <1>2, <1>3, <1>4, <1>5, <1>6, <1>7, <1>8, <1>9, <1>10, <1>11, <1>12, <1>13,
     <1>14, <1>15, <1>16, <1>17, <1>18, <1>19, <1>20, <1>21, <1>22, <1>23, <1>24, <1>25,
     <1>26, <1>27, <1>28, <1>29, <1>30, <1>31, <1>32, <1>33, <1>34, <1>35

-----------------------------------------------------------------------------
(* The answer and the cancellations.                                           *)

\* Sent: what is behind the answer is explained, and the finally blocks find
\* what they expect.
LEMMA SentGood ==
  ASSUME NEW q \in Records, NEW at \in {"answer", "keep"}, Good(q, at), NEW p \in Records,
         /\ p.leases = q.leases /\ p.leased = q.leased /\ p.inFlight = q.inFlight
         /\ p.jobs = q.jobs /\ p.inner = q.inner /\ p.tmp = q.tmp /\ p.slot = q.slot
         /\ p.ask = q.ask /\ p.out = q.out /\ p.threads = q.threads /\ p.text = q.text
         /\ p.dropped = q.dropped /\ p.cancel = q.cancel /\ p.status = q.status,
         p.files \subseteq q.files, q.warned \subseteq p.warned, ExplainedOf(p)
  PROVE  /\ Q!Sent(p) \in Records /\ Good(Q!Sent(p), Q!Sent(p).pc)
         /\ Q!Sent(p).slot = q.slot /\ Q!Sent(p).pc # "idle"
<1> DEFINE x == [p EXCEPT !.answered = TRUE]
<1>1. x \in Records BY FieldTypes
<1>2. x.inner /\ x.slot = q.slot BY DEF Records, Good, Owned
<1>3. Leaving(x)
  <2>1. x.leases = (IF x.leased THEN 1 ELSE 0) /\ x.inFlight = 1 /\ x.jobs = 1
    BY DEF Records, Good, Counted
  <2>2. x.files \ {x.tmp, "retained", "dir"} \subseteq Q!MayLeave(x)
    BY DEF Records, Good, Owned
  <2>3. ~({"url", "retain"} \subseteq x.ask) BY DEF Records, Good, Retaining
  <2>4. \A s \in Q!Stages : x.out[s] # "none" => x.out[s] = "ran" \/ s \in x.warned
    BY DEF Records, Good, Decided
  <2>5. x.threads \subseteq x.dropped BY DEF Records, Good, Owned
  <2>6. x.answered /\ x.status = "ok" BY DEF Records, Good, Answered
  <2>7. ExplainedOf(x) BY DEF Records, ExplainedOf
  <2>8. QED BY <1>2, <2>1, <2>2, <2>3, <2>4, <2>5, <2>6, <2>7 DEF Leaving
<1>4. QED BY <1>1, <1>2, <1>3, InnerGood DEF Q!Sent

\* The stages are settled by then.
LEMMA StagesExplained ==
  ASSUME NEW q \in Records, NEW at \in ToAnswer, Good(q, at)
  PROVE  \A s \in Q!Stages \cap q.ask :
           q.out[s] # "none" /\ (q.out[s] # "ran" => s \in q.warned)
BY DEF Good, Decided, Q!Stages

LEMMA AnswerGood ==
  ASSUME NEW q \in Records, Good(q, "answer"), q.pc = "answer", NEW p,
         p = IF Q!Asked(q, "text") THEN Q!Sent(q)
             ELSE IF "retained" \in q.files THEN Q!At(q, "keep")
             ELSE IF q.media = "gone"
                  THEN Q!Sent([q EXCEPT !.media = "none", !.warned = @ \cup {"media"}])
             ELSE Q!Sent(q)
  PROVE  p \in Records /\ Good(p, p.pc) /\ p.slot = q.slot
<1>1. \A s \in Q!Stages \cap q.ask :
        q.out[s] # "none" /\ (q.out[s] # "ran" => s \in q.warned)
  BY StagesExplained
<1>2. CASE Q!Asked(q, "text")
  <2>1. ExplainedOf(q) BY <1>1, <1>2 DEF ExplainedOf, Q!Asked, Good, Retaining
  <2>2. QED BY <1>2, <2>1, SentGood
<1>3. CASE ~Q!Asked(q, "text") /\ "retained" \in q.files
  <2>1. Good(q, "keep") BY <1>3, OnwardGood
  <2>2. QED BY <1>3, <2>1, AtGood
<1>4. CASE ~Q!Asked(q, "text") /\ "retained" \notin q.files /\ q.media = "gone"
  <2> DEFINE x == [q EXCEPT !.media = "none", !.warned = @ \cup {"media"}]
  <2>1. x \in Records
    <3>1. "none" \in {"none", "kept", "gone"} /\ q.warned \cup {"media"} \in SUBSET Notes
      BY DEF Records, Notes
    <3>2. QED BY <3>1, FieldTypes
  <2>2. ExplainedOf(x) BY <1>1, <1>4 DEF ExplainedOf, Good, Retaining, Records
  <2>3. /\ x.leases = q.leases /\ x.leased = q.leased /\ x.inFlight = q.inFlight
        /\ x.jobs = q.jobs /\ x.inner = q.inner /\ x.tmp = q.tmp /\ x.slot = q.slot
        /\ x.ask = q.ask /\ x.out = q.out /\ x.threads = q.threads /\ x.text = q.text
        /\ x.dropped = q.dropped /\ x.cancel = q.cancel /\ x.status = q.status
        /\ x.files \subseteq q.files /\ q.warned \subseteq x.warned
    BY DEF Records
  <2>4. p = Q!Sent(x) BY <1>4
  <2> HIDE DEF x
  <2>5. QED BY <2>1, <2>2, <2>3, <2>4, SentGood
<1>5. CASE ~Q!Asked(q, "text") /\ "retained" \notin q.files /\ q.media # "gone"
  <2>1. ExplainedOf(q) BY <1>1, <1>5 DEF ExplainedOf, Good, Retaining
  <2>2. QED BY <1>5, <2>1, SentGood
<1>6. QED BY <1>2, <1>3, <1>4, <1>5

LEMMA KeptGood ==
  ASSUME NEW q \in Records, Good(q, "keep"), NEW x,
         x \in {[q EXCEPT !.media = "kept", !.files = @ \ {"retained"}],
                [q EXCEPT !.warned = @ \cup {"retain"}]}
  PROVE  Q!Sent(x) \in Records /\ Good(Q!Sent(x), Q!Sent(x).pc) /\ Q!Sent(x).slot = q.slot
<1>1. \A s \in Q!Stages \cap q.ask :
        q.out[s] # "none" /\ (q.out[s] # "ran" => s \in q.warned)
  BY StagesExplained
<1>2. "retain" \in q.ask /\ q.media = "none"
  BY DEF Good, Retaining, Answered
<1>3. CASE x = [q EXCEPT !.media = "kept", !.files = @ \ {"retained"}]
  <2>1. x \in Records
    <3>1. "kept" \in {"none", "kept", "gone"} /\ q.files \ {"retained"} \in SUBSET Files
      BY DEF Records
    <3>2. QED BY <1>3, <3>1, FieldTypes
  <2>2. ExplainedOf(x) BY <1>1, <1>3 DEF ExplainedOf, Records
  <2>3. /\ x.leases = q.leases /\ x.leased = q.leased /\ x.inFlight = q.inFlight
        /\ x.jobs = q.jobs /\ x.inner = q.inner /\ x.tmp = q.tmp /\ x.slot = q.slot
        /\ x.ask = q.ask /\ x.out = q.out /\ x.threads = q.threads /\ x.text = q.text
        /\ x.dropped = q.dropped /\ x.cancel = q.cancel /\ x.status = q.status
        /\ x.files \subseteq q.files /\ q.warned \subseteq x.warned
    BY <1>3 DEF Records
  <2>4. QED BY <2>1, <2>2, <2>3, SentGood
<1>4. CASE x = [q EXCEPT !.warned = @ \cup {"retain"}]
  <2>1. x \in Records
    <3>1. q.warned \cup {"retain"} \in SUBSET Notes BY DEF Records, Notes
    <3>2. QED BY <1>4, <3>1, FieldTypes
  <2>2. ExplainedOf(x) BY <1>1, <1>2, <1>4 DEF ExplainedOf, Records
  <2>3. /\ x.leases = q.leases /\ x.leased = q.leased /\ x.inFlight = q.inFlight
        /\ x.jobs = q.jobs /\ x.inner = q.inner /\ x.tmp = q.tmp /\ x.slot = q.slot
        /\ x.ask = q.ask /\ x.out = q.out /\ x.threads = q.threads /\ x.text = q.text
        /\ x.dropped = q.dropped /\ x.cancel = q.cancel /\ x.status = q.status
        /\ x.files \subseteq q.files /\ q.warned \subseteq x.warned
    BY <1>4 DEF Records
  <2>4. QED BY <2>1, <2>2, <2>3, SentGood
<1>5. QED BY <1>3, <1>4

\* The unwinding of an await and the finally blocks behind it.
LEMMA UnwoundGood ==
  ASSUME NEW q \in Records, NEW at \in Running, q.pc = at, Good(q, at)
  PROVE  LET p == Q!Raise(Q!Unwound(q), "cancelled")
         IN  p \in Records /\ Good(p, p.pc) /\ p.pc # "idle" /\ ~p.slot
<1> DEFINE d == [q EXCEPT !.dropped = @ \cup {at}, !.slot = FALSE,
                          !.threads = IF at \in Q!Threaded THEN {at} ELSE {}]
           u == IF at \in {"sepslot", "separate"} THEN Q!NoSepWav(d) ELSE d
           x == [u EXCEPT !.status = "cancelled"]
<1>1. u = Q!Unwound(q) BY DEF Q!Unwound
<1>2. d \in Records
  <2>1. ASSUME NEW y \in SUBSET Places, NEW z \in SUBSET Places
        PROVE  [q EXCEPT !.dropped = y, !.slot = FALSE, !.threads = z] \in Records
    BY ZenonT(40) DEF Records
  <2>2. q.dropped \cup {at} \in SUBSET Places BY DEF Records
  <2>3. (IF at \in Q!Threaded THEN {at} ELSE {}) \in SUBSET Places OBVIOUS
  <2>4. QED BY <2>1, <2>2, <2>3
<1>3. x \in Records BY ZenonT(40), <1>2, FileTypes, FieldTypes
<1>4. /\ x.leases = q.leases /\ x.leased = q.leased /\ x.inFlight = q.inFlight
      /\ x.jobs = q.jobs /\ x.inner = q.inner /\ x.tmp = q.tmp /\ x.slot = FALSE
  BY DEF Records, Q!NoSepWav
<1>5. /\ x.ask = q.ask /\ x.out = q.out /\ x.warned = q.warned /\ x.media = q.media
      /\ x.answered = q.answered
  BY DEF Records, Q!NoSepWav
<1>6. /\ x.dropped = q.dropped \cup {at} /\ x.threads \subseteq {at}
      /\ x.files = IF at \in {"sepslot", "separate"} THEN q.files \ {"sepwav"} ELSE q.files
  BY DEF Records, Q!NoSepWav
<1> HIDE DEF d, u, x
<1>7. Leaving(x)
  <2>1. x.leases = (IF x.leased THEN 1 ELSE 0) /\ x.inFlight = 1 /\ x.jobs = 1
    BY <1>4 DEF Good, Counted
  <2>2. IF x.inner THEN x.files \ {x.tmp, "retained", "dir"} \subseteq Q!MayLeave(x)
                   ELSE x.files = {}
    <3>1. at \in Early => ~q.inner /\ q.files = {} BY DEF Good, Owned
    <3>2. at \notin Early => q.inner BY DEF Good, Owned
    <3>3. at \notin Early =>
            q.files \ {q.tmp, "retained", "dir"} \subseteq
              IF at \in Separating THEN {"sepwav"} ELSE {}
      BY DEF Good, Owned
    <3>4. at = "transcode" => "sepwav" \in Q!MayLeave(x) BY <1>6 DEF Q!MayLeave
    <3>5. QED BY <1>4, <1>6, <3>1, <3>2, <3>3, <3>4
  <2>3. /\ ~({"url", "retain"} \subseteq x.ask)
        /\ ~x.answered /\ x.media # "none" => "url" \in x.ask
    BY <1>5 DEF Good, Retaining
  <2>4. \A s \in Q!Stages : x.out[s] # "none" => x.out[s] = "ran" \/ s \in x.warned
    BY <1>5 DEF Good, Decided
  <2>5. x.threads \subseteq x.dropped /\ x.dropped # {} BY <1>6
  <2>6. ~x.answered BY <1>5 DEF Good, Answered
  <2>7. QED BY <2>1, <2>2, <2>3, <2>4, <2>5, <2>6 DEF Leaving
<1>8. Q!Raise(Q!Unwound(q), "cancelled") = Q!Leave(x) BY <1>1 DEF Q!Raise, x
<1>9. QED BY <1>3, <1>4, <1>7, <1>8, LeaveGood

\* Dropped while the download's directory is deleted, or behind the outer finally.
LEMMA DroppedLateGood ==
  ASSUME NEW q \in Records, q.pc \in {"rmtree", "finish", "rates"}, Good(q, q.pc), ~q.slot
  PROVE  LET p == Q!Dropped(q)
         IN  p \in Records /\ Good(p, p.pc) /\ p.pc # "idle" /\ ~p.slot
<1> DEFINE p == Q!Dropped(q)
<1>1. q.dropped \cup {q.pc} \in SUBSET Places BY DEF Records
<1>2. CASE q.pc = "rmtree"
  <2> DEFINE u == [q EXCEPT !.dropped = @ \cup {q.pc}, !.slot = FALSE, !.threads = {}]
             x == [u EXCEPT !.status = "cancelled", !.files = @ \ {"dir"}]
  <2>1. Q!Unwound(q) = u BY <1>2 DEF Q!Unwound, Q!Threaded, Q!Copying
  <2>2. u \in Records
    <3>1. ASSUME NEW y \in SUBSET Places, NEW z \in SUBSET Places
          PROVE  [q EXCEPT !.dropped = y, !.slot = FALSE, !.threads = z] \in Records
      BY DEF Records
    <3>2. QED BY <1>1, <3>1
  <2>3. x \in Records
    <3>1. u.files \ {"dir"} \in SUBSET Files /\ "cancelled" \in {"ok", "error", "cancelled"}
      BY <2>2 DEF Records
    <3>2. QED BY <2>2, <3>1, FieldTypes
  <2>4. /\ x.leases = q.leases /\ x.leased = q.leased /\ x.inFlight = q.inFlight
        /\ x.jobs = q.jobs /\ x.slot = FALSE /\ x.threads = {}
        /\ x.dropped = q.dropped \cup {q.pc} /\ x.files = q.files \ {"dir"}
    BY DEF Records
  <2>5. /\ x.ask = q.ask /\ x.out = q.out /\ x.warned = q.warned /\ x.media = q.media
        /\ x.answered = q.answered /\ x.inner = q.inner
    BY DEF Records
  <2>6. p = Q!Outer(x) BY <1>2, <2>1 DEF Q!Dropped
  <2> HIDE DEF u, x
  <2>7. x.files \subseteq Q!MayLeave(x)
    BY <1>2, <2>4 DEF Good, Owned, Q!MayLeave
  <2>8. Good(Q!Outer(x), "finish") /\ Q!Outer(x) \in Records /\ Q!Outer(x).pc = "finish"
        /\ Q!Outer(x).slot = FALSE
    <3>1. x.leases = (IF x.leased THEN 1 ELSE 0) /\ x.inFlight = 1 /\ x.jobs = 1
      BY <1>2, <2>4 DEF Good, Counted
    <3>2. /\ ~({"url", "retain"} \subseteq x.ask)
          /\ ~x.answered /\ x.media # "none" => "url" \in x.ask
      BY <2>5 DEF Good, Retaining
    <3>3. \A s \in Q!Stages : x.out[s] # "none" => x.out[s] = "ran" \/ s \in x.warned
      BY <2>5 DEF Good, Decided
    <3>4. x.answered => ExplainedOf(x) BY <2>5 DEF Good, Answered, ExplainedOf
    <3>5. x.dropped # {} BY <2>4
    <3>6. x.inner /\ x.files \ {x.tmp, "retained", "dir"} \subseteq Q!MayLeave(x)
      BY <1>2, <2>5, <2>7 DEF Good, Owned
    <3>7. Leaving(x) BY <2>4, <3>1, <3>2, <3>3, <3>4, <3>5, <3>6 DEF Leaving
    <3>8. QED BY <2>3, <2>4, <2>7, <3>7, OuterGood
  <2>9. QED BY <2>6, <2>8
<1>3. CASE q.pc \in {"finish", "rates"}
  <2> DEFINE x == [q EXCEPT !.dropped = @ \cup {q.pc}]
  <2>1. x \in Records
    <3>1. ASSUME NEW y \in SUBSET Places PROVE [q EXCEPT !.dropped = y] \in Records
      BY DEF Records
    <3>2. QED BY <1>1, <3>1
  <2>2. x.slot = FALSE BY DEF Records
  <2>3. Good(x, "done")
    <3>1. Counted(x, "done") BY <1>3 DEF Good, Counted, Records
    <3>2. Owned(x, "done") BY <1>3 DEF Good, Owned, Records, Q!MayLeave
    <3>3. Decided(x, "done") BY <1>3 DEF Good, Decided, Records
    <3>4. Retaining(x, "done") BY <1>3 DEF Good, Retaining, Records
    <3>5. Answered(x, "done") BY <1>3 DEF Good, Answered, ExplainedOf, Records
    <3>6. QED BY <3>1, <3>2, <3>3, <3>4, <3>5 DEF Good
  <2>4. p = Q!At(x, "done") BY <1>3 DEF Q!Dropped
  <2> HIDE DEF x
  <2>5. QED BY <2>1, <2>2, <2>3, <2>4, AtGood
<1>4. QED BY <1>2, <1>3

\* What changes beside the await a request stands at: its link's audio leaves the
\* store, its client cancels, a thread it no longer waits for ends.
LEMMA GoneGood ==
  ASSUME NEW q \in Records, Good(q, q.pc), q.media = "kept", ~q.answered,
         NEW p, p = [q EXCEPT !.media = "gone"]
  PROVE  p \in Records /\ Good(p, p.pc) /\ p.pc = q.pc /\ p.slot = q.slot
<1>1. q.pc # "idle"
  <2>1. Q!Idle.media = "none" BY DEF Q!Idle
  <2>2. QED BY <2>1 DEF Good, Counted
<1>2. p \in Records
  <2>1. "gone" \in {"none", "kept", "gone"} OBVIOUS
  <2>2. QED BY <2>1, FieldTypes
<1>3. p.pc = q.pc /\ p.slot = q.slot BY DEF Records
<1>4. Good(p, q.pc)
  <2>1. Counted(p, q.pc) BY <1>1 DEF Records, Good, Counted
  <2>2. Owned(p, q.pc) BY DEF Records, Good, Owned, Q!MayLeave
  <2>3. Decided(p, q.pc) BY DEF Records, Good, Decided
  <2>4. Retaining(p, q.pc) BY DEF Records, Good, Retaining
  <2>5. Answered(p, q.pc) BY DEF Records, Good, Answered
  <2>6. QED BY <2>1, <2>2, <2>3, <2>4, <2>5 DEF Good
<1>5. QED BY <1>2, <1>3, <1>4

LEMMA FlaggedGood ==
  ASSUME NEW q \in Records, Good(q, q.pc), q.pc # "idle",
         NEW p, p = [q EXCEPT !.cancel = TRUE]
  PROVE  p \in Records /\ Good(p, p.pc) /\ p.pc = q.pc /\ p.slot = q.slot
<1>1. p \in Records BY FieldTypes
<1>2. p.pc = q.pc /\ p.slot = q.slot BY DEF Records
<1>3. Good(p, q.pc)
  <2>1. Counted(p, q.pc) BY DEF Records, Good, Counted
  <2>2. Owned(p, q.pc) BY DEF Records, Good, Owned, Q!MayLeave
  <2>3. Decided(p, q.pc) BY DEF Records, Good, Decided
  <2>4. Retaining(p, q.pc) BY DEF Records, Good, Retaining
  <2>5. Answered(p, q.pc) BY DEF Records, Good, Answered, ExplainedOf
  <2>6. QED BY <2>1, <2>2, <2>3, <2>4, <2>5 DEF Good
<1>4. QED BY <1>1, <1>2, <1>3

LEMMA ThreadOverGood ==
  ASSUME NEW q \in Records, Good(q, q.pc), NEW t \in q.threads,
         NEW made \in SUBSET (IF t \in Q!Copying THEN {"stray"} ELSE {}),
         NEW p, p = [q EXCEPT !.threads = {}, !.files = @ \cup made]
  PROVE  p \in Records /\ Good(p, p.pc) /\ p.pc = q.pc /\ p.slot = q.slot
<1>1. p \in Records
  <2>1. q.files \cup made \in SUBSET Files BY DEF Records, Files
  <2>2. {} \in SUBSET Places OBVIOUS
  <2>3. QED BY <2>1, <2>2, FieldTypes
<1>2. p.pc = q.pc /\ p.slot = q.slot BY DEF Records
<1>3. q.pc \in Over \cup {"rmtree"} /\ t \in q.dropped BY DEF Good, Owned
<1>4. Good(p, q.pc)
  <2>1. Counted(p, q.pc) BY <1>3 DEF Records, Good, Counted
  <2>2. Owned(p, q.pc)
    <3>1. p.files = q.files \cup made /\ p.threads = {} /\ p.dropped = q.dropped
          /\ p.inner = q.inner
      BY DEF Records
    <3>2. Q!MayLeave(p) = Q!MayLeave(q) /\ made \subseteq Q!MayLeave(p)
      BY <1>3, <3>1 DEF Q!MayLeave
    <3>3. QED BY <1>3, <3>1, <3>2 DEF Good, Owned
  <2>3. Decided(p, q.pc) BY DEF Records, Good, Decided
  <2>4. Retaining(p, q.pc) BY <1>3 DEF Records, Good, Retaining
  <2>5. Answered(p, q.pc) BY <1>3 DEF Records, Good, Answered, ExplainedOf
  <2>6. QED BY <2>1, <2>2, <2>3, <2>4, <2>5 DEF Good
<1>5. QED BY <1>2, <1>1, <1>4

-----------------------------------------------------------------------------
(* The handler's steps, one by one.                                            *)

LEMMA Standing ==
  ASSUME RequestTable, NEW r \in Requests
  PROVE  run[r] \in Records /\ Good(run[r], run[r].pc)
BY DEF RequestTable, Fine

LEMMA MoveServed ==
  ASSUME RequestTable, NEW r \in Requests, NEW from, from \notin Suspended,
         NEW to \in Places, to # "idle", Good(run[r], from) => Good(run[r], to),
         Q!Step(r, from, Q!At(run[r], to))
  PROVE  Served(r)
<1>1. run[r].pc = from BY DEF Q!Step
<1>2. run[r] \in Records /\ Good(run[r], to) BY <1>1, Standing
<1>3. QED BY <1>2, AtGood, StepServed

LEMMA EnterServed ==
  ASSUME RequestTable, NEW r \in Requests, NEW from, from \notin Suspended,
         NEW q \in Records, q.slot = run[r].slot, NEW to \in Running, Good(q, to),
         "sepwav" \notin q.files, Q!Step(r, from, Q!Enter(q, to))
  PROVE  Served(r)
<1>1. Q!Enter(q, to) \in Records /\ Good(Q!Enter(q, to), Q!Enter(q, to).pc)
      /\ Q!Enter(q, to).slot = q.slot
  BY EnterGood
<1>2. QED BY <1>1, StepServed

LEMMA FailsServed ==
  ASSUME RequestTable, NEW r \in Requests, NEW from \in Decoding \ Separating,
         Q!Fails(r, from)
  PROVE  Served(r)
<1> DEFINE p == Q!Raise(run[r], "error")
<1>1. run[r].pc = from /\ Q!Release(r, from, p) BY DEF Q!Fails, Q!Release
<1>2. run[r] \in Records /\ Good(run[r], from) BY <1>1, Standing
<1>3. "sepwav" \notin run[r].files BY <1>2 DEF Good, Owned
<1>4. p \in Records /\ p.pc \in {"rmtree", "finish"} /\ Good(p, p.pc)
  BY <1>2, <1>3, RaiseGood
<1> HIDE DEF p
<1>5. QED BY <1>1, <1>4, ReleaseServed

LEMMA CancelledServed ==
  ASSUME RequestTable, NEW r \in Requests, NEW from \in Running \ Separating,
         Q!Cancelled(r, from)
  PROVE  Served(r)
<1> DEFINE p == Q!Raise(run[r], "cancelled")
<1>1. run[r].pc = from /\ Q!Release(r, from, p) /\ run[r].cancel
  BY DEF Q!Cancelled, Q!Release
<1>2. run[r] \in Records /\ Good(run[r], from) BY <1>1, Standing
<1>3. "sepwav" \notin run[r].files BY <1>2 DEF Good, Owned
<1>4. p \in Records /\ p.pc \in {"rmtree", "finish"} /\ Good(p, p.pc)
  BY <1>1, <1>2, <1>3, RaiseGood
<1> HIDE DEF p
<1>5. QED BY <1>1, <1>4, ReleaseServed

LEMMA AsideServed ==
  ASSUME RequestTable, NEW r \in Requests,
         NEW p \in Records, Good(p, p.pc), p.pc = run[r].pc, p.slot = run[r].slot,
         run' = [run EXCEPT ![r] = p], free' = free
  PROVE  Served(r)
<1>1. run'[r] = p BY DEF RequestTable
<1>2. Fine(p) BY DEF Fine, RequestTable
<1>3. p.slot \in BOOLEAN BY DEF Records
<1>4. QED BY <1>1, <1>2, <1>3 DEF Served, RequestTable

LEMMA RemovedGood ==
  ASSUME NEW q \in Records, Good(q, "rmtree"), NEW x, x = [q EXCEPT !.files = @ \ {"dir"}]
  PROVE  x \in Records /\ x.slot = q.slot /\ Leaving(x) /\ x.files \subseteq Q!MayLeave(x)
<1>1. x \in Records
  <2>1. q.files \ {"dir"} \in SUBSET Files BY DEF Records
  <2>2. QED BY <2>1, FieldTypes
<1>2. x.slot = q.slot /\ x.files \subseteq Q!MayLeave(x) BY DEF Records, Good, Owned,
                                                            Q!MayLeave
<1>3. Leaving(x)
  <2>1. x.leases = (IF x.leased THEN 1 ELSE 0) /\ x.inFlight = 1 /\ x.jobs = 1
    BY DEF Good, Counted, Records
  <2>2. x.inner /\ x.threads \subseteq x.dropped BY DEF Good, Owned, Records
  <2>3. /\ ~({"url", "retain"} \subseteq x.ask)
        /\ ~x.answered /\ x.media # "none" => "url" \in x.ask
    BY DEF Good, Retaining, Records
  <2>4. \A s \in Q!Stages : x.out[s] # "none" => x.out[s] = "ran" \/ s \in x.warned
    BY DEF Good, Decided, Records
  <2>5. x.text # "none" /\ ~x.cancel /\ x.dropped = {} => x.answered /\ x.status = "ok"
    BY DEF Good, Answered, Records
  <2>6. x.answered => ExplainedOf(x) BY DEF Good, Answered, ExplainedOf, Records
  <2>7. QED BY <1>2, <2>1, <2>2, <2>3, <2>4, <2>5, <2>6 DEF Leaving
<1>4. QED BY <1>1, <1>2, <1>3

\* Until the input is there.
LEMMA BeforeServed ==
  ASSUME RequestTable, NEW r \in Requests,
         \/ Q!Arrive(r) \/ Q!RowStarted(r) \/ Q!TooLarge(r) \/ Q!ModelLoaded(r)
         \/ Q!LoadFailed(r) \/ Q!FormRead(r) \/ Q!FormRefused(r) \/ Q!Probed(r)
         \/ Q!ProbeFailed(r) \/ Q!Reused(r) \/ Q!ReuseFailed(r) \/ Q!Downloaded(r)
         \/ Q!DownloadFailed(r) \/ Q!DownloadCancelled(r) \/ Q!Copied(r)
         \/ Q!CopyFailed(r) \/ Q!Registered(r) \/ Q!Spooled(r) \/ Q!SpoolTooLarge(r)
         \/ Q!RetainDeclined(r) \/ Q!Retained(r) \/ Q!RetainFailed(r)
         \/ Q!InputTaken(r) \/ Q!InputRefused(r) \/ Q!Rolled(r)
  PROVE  Served(r)
<1> DEFINE q == run[r]
<1> USE DEF Suspended
<1>a. q \in Records /\ Good(q, q.pc) BY Standing
<1>1. ASSUME Q!Arrive(r) PROVE Served(r)
  <2>1. PICK ask \in Asks(r) :
          LET x == [q EXCEPT !.ask = ask, !.inFlight = 1, !.jobs = 1]
          IN  Q!Step(r, "idle", IF {"retain", "text"} \subseteq ask THEN Q!Raise(x, "error")
                                ELSE Q!At(x, "row"))
    BY <1>1 DEF Q!Arrive
  <2> DEFINE x == [q EXCEPT !.ask = ask, !.inFlight = 1, !.jobs = 1]
             refused == [x EXCEPT !.status = "error"]
  <2>2. q = Q!Idle BY <2>1, Standing DEF Q!Step, Good, Counted
  <2>3. ask \in SUBSET Wishes BY DEF Wishes
  <2>4. ~({"url", "retain"} \subseteq ask) BY RequestAssumption
  <2>5. x \in Records
    <3>1. 1 \in Int OBVIOUS
    <3>2. QED BY <1>a, <2>3, <3>1, FieldTypes
  <2>6. CASE {"retain", "text"} \subseteq ask
    <3>1. refused \in Records
      <4> HIDE DEF x
      <4>1. QED BY <2>5, FieldTypes
    <3>2. Leaving(refused) BY <2>2, <2>4 DEF Leaving, Q!Idle, ExplainedOf, Q!MayLeave
    <3>3. refused.slot = q.slot BY <1>a DEF Records
    <3>4. Q!Step(r, "idle", Q!Leave(refused)) BY <2>1, <2>6 DEF Q!Raise
    <3> HIDE DEF refused
    <3>5. QED BY <3>1, <3>2, <3>3, <3>4, LeaveGood, StepServed
  <2>7. CASE ~({"retain", "text"} \subseteq ask)
    <3> DEFINE p == [q EXCEPT !.ask = ask, !.inFlight = 1, !.jobs = 1, !.pc = "row"]
    <3>1. Q!At(x, "row") = p BY <1>a DEF Q!At, Records
    <3>2. Q!Step(r, "idle", p) BY <2>1, <2>7, <3>1
    <3>3. Good(q, "idle") BY <2>1, <1>a DEF Q!Step
    <3>4. p \in Records /\ Good(p, p.pc) /\ p.slot = q.slot
      <4>1. p = [q EXCEPT !.ask = ask, !.inFlight = 1, !.jobs = 1, !.pc = "row"] OBVIOUS
      <4> HIDE DEF q, p, x, refused
      <4>2. p \in Records /\ p.pc = "row" /\ p.slot = q.slot /\ Good(p, "row")
        BY <1>a, <2>3, <2>4, <2>7, <3>3, <4>1, ArrivedGood
      <4>3. QED BY <4>2
    <3> HIDE DEF p
    <3>5. QED BY <3>2, <3>4, StepServed
  <2>8. QED BY <2>6, <2>7
<1>2. ASSUME Q!RowStarted(r) PROVE Served(r)
  <2>1. Q!Step(r, "row", Q!At(q, "load")) BY <1>2 DEF Q!RowStarted
  <2>2. Good(q, "row") => Good(q, "load") BY <1>a, OnwardGood
  <2>3. QED BY <2>1, <2>2, MoveServed
<1>3. ASSUME Q!TooLarge(r) PROVE Served(r)
  BY <1>3, FailsServed DEF Q!TooLarge
<1>4. ASSUME Q!ModelLoaded(r) PROVE Served(r)
  <2> DEFINE p == [q EXCEPT !.pc = "form", !.leased = TRUE, !.leases = 1]
  <2>1. Q!Step(r, "load", p) BY <1>4 DEF Q!ModelLoaded
  <2>2. Good(q, "load") BY <2>1, Standing DEF Q!Step
  <2>3. p \in Records /\ Good(p, p.pc) /\ p.slot = q.slot BY <1>a, <2>2, ModelLoadedGood
  <2> HIDE DEF p
  <2>4. QED BY <2>1, <2>3, StepServed
<1>5. ASSUME Q!LoadFailed(r) PROVE Served(r)
  BY <1>5, FailsServed DEF Q!LoadFailed
<1>6. ASSUME Q!FormRead(r) PROVE Served(r)
  <2> DEFINE f == [q EXCEPT !.inner = TRUE]
             p == [q EXCEPT !.inner = TRUE, !.pc = "spool", !.files = {"spool"},
                            !.tmp = "spool"]
  <2>1. Q!Step(r, "form", IF Q!Asked(f, "url") THEN Q!Enter(f, "probe")
                          ELSE [f EXCEPT !.pc = "spool", !.files = {"spool"}, !.tmp = "spool"])
    BY <1>6 DEF Q!FormRead
  <2>2. Good(q, "form") BY <2>1, <1>a DEF Q!Step
  <2>3. f \in Records /\ f.slot = q.slot /\ f.ask = q.ask /\ f.files = {}
    <3>1. f \in Records BY <1>a, FieldTypes
    <3>2. f.slot = q.slot /\ f.ask = q.ask /\ f.files = q.files BY <1>a DEF Records
    <3>3. QED BY <2>2, <3>1, <3>2 DEF Good, Owned
  <2>4. CASE "url" \in q.ask
    <3>1. Good(f, "probe")
      <4>1. Counted(f, "probe") BY <1>a, <2>2 DEF Records, Good, Counted
      <4>2. Owned(f, "probe") BY <1>a, <2>2 DEF Records, Good, Owned, Q!MayLeave
      <4>3. Decided(f, "probe") BY <1>a, <2>2 DEF Records, Good, Decided
      <4>4. Retaining(f, "probe") BY <1>a, <2>2, <2>4 DEF Records, Good, Retaining
      <4>5. Answered(f, "probe") BY <1>a, <2>2 DEF Records, Good, Answered, ExplainedOf
      <4>6. QED BY <4>1, <4>2, <4>3, <4>4, <4>5 DEF Good
    <3>2. Q!Step(r, "form", Q!Enter(f, "probe")) BY <2>1, <2>3, <2>4 DEF Q!Asked
    <3> HIDE DEF f
    <3>3. QED BY <2>3, <3>1, <3>2, EnterServed
  <2>5. CASE "url" \notin q.ask
    <3>1. p = [f EXCEPT !.pc = "spool", !.files = {"spool"}, !.tmp = "spool"]
      BY <1>a DEF Records
    <3>2. Q!Step(r, "form", p) BY <2>1, <2>3, <2>5, <3>1 DEF Q!Asked
    <3>3. p \in Records /\ Good(p, p.pc) /\ p.slot = q.slot
      BY <1>a, <2>2, <2>5, SpoolingGood
    <3> HIDE DEF p
    <3>4. QED BY <3>2, <3>3, StepServed
  <2>6. QED BY <2>4, <2>5
<1>7. ASSUME Q!FormRefused(r) PROVE Served(r)
  BY <1>7, FailsServed DEF Q!FormRefused
<1>8. ASSUME Q!Probed(r) PROVE Served(r)
  <2>1. CASE "reuse" \in q.ask
    <3>1. Q!Step(r, "probe", Q!At(q, "reuse")) BY <1>8, <2>1 DEF Q!Probed, Q!Asked
    <3>2. Good(q, "probe") => Good(q, "reuse") BY <1>a, OnwardGood
    <3>3. QED BY <3>1, <3>2, MoveServed
  <2>2. CASE "reuse" \notin q.ask
    <3> DEFINE p == [q EXCEPT !.pc = "download", !.files = @ \cup {"dir"}]
    <3>1. Q!Step(r, "probe", p) BY <1>8, <2>2 DEF Q!Probed, Q!Downloading, Q!Asked
    <3>2. Good(q, "probe") BY <1>a, <3>1, OnwardGood DEF Q!Step
    <3>3. p \in Records /\ Good(p, p.pc) /\ p.slot = q.slot BY <1>a, <3>2, DownloadingGood
    <3> HIDE DEF p
    <3>4. QED BY <3>1, <3>3, StepServed
  <2>3. QED BY <2>1, <2>2
<1>9. ASSUME Q!ProbeFailed(r) PROVE Served(r)
  BY <1>9, FailsServed DEF Q!ProbeFailed
<1>10. ASSUME Q!Reused(r) PROVE Served(r)
  <2>1. PICK media \in {"none", "kept"} :
        Q!Step(r, "reuse", [q EXCEPT !.pc = "input", !.files = @ \cup {"copy"}, !.tmp = "copy", !.media = media])
    BY <1>10 DEF Q!Reused
  <2> DEFINE p == [q EXCEPT !.pc = "input", !.files = @ \cup {"copy"}, !.tmp = "copy",
  !.media = media]
  <2>2. Good(q, "reuse") BY <2>1, Standing DEF Q!Step
  <2>3. p \in Records /\ Good(p, p.pc) /\ p.slot = q.slot BY <1>a, <2>1, <2>2, ReusedGood
  <2> HIDE DEF p
  <2>4. Q!Step(r, "reuse", p) BY <2>1 DEF p
  <2>5. QED BY <2>3, <2>4, StepServed
<1>11. ASSUME Q!ReuseFailed(r) PROVE Served(r)
  <2>2. TRUE OBVIOUS
  <2>3. QED
    <3> DEFINE p == [q EXCEPT !.pc = "download", !.files = @ \cup {"dir"}]
    <3>1. Q!Step(r, "reuse", p) BY <1>11, <2>2 DEF Q!ReuseFailed, Q!Downloading, Q!Asked
    <3>2. Good(q, "probe") BY <1>a, <3>1, OnwardGood DEF Q!Step
    <3>3. p \in Records /\ Good(p, p.pc) /\ p.slot = q.slot BY <1>a, <3>2, DownloadingGood
    <3> HIDE DEF p
    <3>4. QED BY <3>1, <3>3, StepServed
<1>12. ASSUME Q!Downloaded(r) PROVE Served(r)
  <2>1. Q!Step(r, "download", Q!At(q, "pipecopy")) BY <1>12 DEF Q!Downloaded
  <2>2. Good(q, "download") => Good(q, "pipecopy") BY <1>a, OnwardGood
  <2>3. QED BY <2>1, <2>2, MoveServed
<1>13. ASSUME Q!DownloadFailed(r) PROVE Served(r)
  BY <1>13, FailsServed DEF Q!DownloadFailed
<1>14. ASSUME Q!DownloadCancelled(r) PROVE Served(r)
  BY <1>14, CancelledServed DEF Q!DownloadCancelled
<1>15. ASSUME Q!Copied(r) PROVE Served(r)
  <2> DEFINE p == [q EXCEPT !.pc = "register", !.files = @ \cup {"copy"}, !.tmp = "copy"]
  <2>1. Q!Step(r, "pipecopy", p) BY <1>15 DEF Q!Copied
  <2>2. Good(q, "pipecopy") BY <2>1, Standing DEF Q!Step
  <2>3. p \in Records /\ Good(p, p.pc) /\ p.slot = q.slot BY <1>a, <2>2, CopiedGood
  <2> HIDE DEF p
  <2>4. QED BY <2>1, <2>3, StepServed
<1>16. ASSUME Q!CopyFailed(r) PROVE Served(r)
  BY <1>16, FailsServed DEF Q!CopyFailed
<1>17. ASSUME Q!Registered(r) PROVE Served(r)
  <2>1. PICK media \in {"none", "kept"} :
        Q!Step(r, "register", [q EXCEPT !.pc = "input", !.media = media])
    BY <1>17 DEF Q!Registered
  <2> DEFINE p == [q EXCEPT !.pc = "input", !.media = media]
  <2>2. Good(q, "register") BY <2>1, Standing DEF Q!Step
  <2>3. p \in Records /\ Good(p, p.pc) /\ p.slot = q.slot BY <1>a, <2>1, <2>2,
                                                             RegisteredGood
  <2> HIDE DEF p
  <2>4. Q!Step(r, "register", p) BY <2>1 DEF p
  <2>5. QED BY <2>3, <2>4, StepServed
<1>18. ASSUME Q!Spooled(r) PROVE Served(r)
  <2>1. CASE "retain" \in q.ask
    <3>1. Q!Step(r, "spool", Q!At(q, "retain")) BY <1>18, <2>1 DEF Q!Spooled, Q!Asked
    <3>2. Good(q, "spool") => Good(q, "retain") BY <1>a, <2>1, OnwardGood
    <3>3. QED BY <3>1, <3>2, MoveServed
  <2>2. CASE "retain" \notin q.ask
    <3>1. Q!Step(r, "spool", Q!At(q, "input")) BY <1>18, <2>2 DEF Q!Spooled, Q!Asked
    <3>2. Good(q, "spool") => Good(q, "input") BY <1>a, <2>2, OnwardGood
    <3>3. QED BY <3>1, <3>2, MoveServed
  <2>3. QED BY <2>1, <2>2
<1>19. ASSUME Q!SpoolTooLarge(r) PROVE Served(r)
  BY <1>19, FailsServed DEF Q!SpoolTooLarge
<1>20. ASSUME Q!RetainDeclined(r) PROVE Served(r)
  <2> DEFINE p == [q EXCEPT !.pc = "input", !.warned = @ \cup {"retain"}]
  <2>1. Q!Step(r, "spool", p) BY <1>20 DEF Q!RetainDeclined
  <2>2. Good(q, "spool") BY <2>1, Standing DEF Q!Step
  <2>3. p \in Records /\ Good(p, p.pc) /\ p.slot = q.slot BY <1>a, <2>2, RetainDeclinedGood
  <2> HIDE DEF p
  <2>4. QED BY <2>1, <2>3, StepServed
<1>21. ASSUME Q!Retained(r) PROVE Served(r)
  <2> DEFINE p == [q EXCEPT !.pc = "input", !.files = @ \cup {"retained"}]
  <2>1. Q!Step(r, "retain", p) BY <1>21 DEF Q!Retained
  <2>2. Good(q, "retain") BY <2>1, Standing DEF Q!Step
  <2>3. p \in Records /\ Good(p, p.pc) /\ p.slot = q.slot BY <1>a, <2>2, RetainedGood
  <2> HIDE DEF p
  <2>4. QED BY <2>1, <2>3, StepServed
<1>22. ASSUME Q!RetainFailed(r) PROVE Served(r)
  <2> DEFINE p == [q EXCEPT !.pc = "input", !.warned = @ \cup {"retain"}]
  <2>1. Q!Step(r, "retain", p) BY <1>22 DEF Q!RetainFailed
  <2>2. Good(q, "retain") BY <2>1, Standing DEF Q!Step
  <2>3. p \in Records /\ Good(p, p.pc) /\ p.slot = q.slot BY <1>a, <2>2, RetainFailedGood
  <2> HIDE DEF p
  <2>4. QED BY <2>1, <2>3, StepServed
<1>23. ASSUME Q!InputTaken(r) PROVE Served(r)
  <2>1. CASE "capture" \in q.ask
    <3>1. Q!Step(r, "input", Q!At(q, "roll")) BY <1>23, <2>1 DEF Q!InputTaken, Q!Asked
    <3>2. Good(q, "input") => Good(q, "roll") BY <1>a, OnwardGood
    <3>3. QED BY <3>1, <3>2, MoveServed
  <2>2. CASE "capture" \notin q.ask
    <3>1. Q!Step(r, "input", Q!At(q, "plan")) BY <1>23, <2>2 DEF Q!InputTaken, Q!Asked
    <3>2. Good(q, "input") => Good(q, "plan") BY <1>a, OnwardGood
    <3>3. QED BY <3>1, <3>2, MoveServed
  <2>3. QED BY <2>1, <2>2
<1>24. ASSUME Q!InputRefused(r) PROVE Served(r)
  BY <1>24, FailsServed DEF Q!InputRefused
<1>25. ASSUME Q!Rolled(r) PROVE Served(r)
  <2>1. PICK ask \in {q.ask, q.ask \ {"capture"}} :
        Q!Step(r, "roll", [q EXCEPT !.pc = "plan", !.ask = ask])
    BY <1>25 DEF Q!Rolled
  <2> DEFINE p == [q EXCEPT !.pc = "plan", !.ask = ask]
  <2>2. Good(q, "roll") BY <2>1, Standing DEF Q!Step
  <2>3. p \in Records /\ Good(p, p.pc) /\ p.slot = q.slot BY <1>a, <2>1, <2>2, RolledGood
  <2> HIDE DEF p
  <2>4. Q!Step(r, "roll", p) BY <2>1 DEF p
  <2>5. QED BY <2>3, <2>4, StepServed
<1>z. QED
  BY <1>1, <1>2, <1>3, <1>4, <1>5, <1>6, <1>7, <1>8, <1>9, <1>10, <1>11, <1>12, <1>13,
     <1>14, <1>15, <1>16, <1>17, <1>18, <1>19, <1>20, <1>21, <1>22, <1>23, <1>24, <1>25

\* The stages.
LEMMA StagesServed ==
  ASSUME RequestTable, NEW r \in Requests,
         \/ Q!Planned(r) \/ Q!Transcoded(r) \/ Q!TranscodeFailed(r)
         \/ Q!TranscodeRefused(r) \/ Q!SepSlot(r) \/ Q!SepCancelled(r)
         \/ Q!Separated(r) \/ Q!SeparationFailed(r) \/ Q!DecodeSlot(r)
         \/ Q!DecodeCancelled(r) \/ Q!Decoded(r) \/ Q!DecodeFailed(r) \/ Q!DiarGate(r)
         \/ Q!DiarSlot(r) \/ Q!Diarized(r) \/ Q!DiarFailed(r) \/ Q!DiarCancelled(r)
         \/ Q!Assigned(r) \/ Q!AssignFailed(r) \/ Q!TrGate(r) \/ Q!TrSlot(r)
         \/ Q!Translated(r) \/ Q!TranslationFailed(r) \/ Q!TranslationCancelled(r)
  PROVE  Served(r)
<1> DEFINE q == run[r]
<1> USE DEF Suspended
<1>a. q \in Records /\ Good(q, q.pc) BY Standing
<1>b. {"separating", "diarizing", "translating"} = Q!Stages BY DEF Q!Stages
<1>1. ASSUME Q!Planned(r) PROVE Served(r)
  <2>1. PICK refused \in SUBSET (q.ask \cap {"separating", "diarizing"}),
  enabled \in BOOLEAN :
          LET d == IF "diarizing" \in refused THEN Q!Skip(q, "diarizing") ELSE q
              x == IF "separating" \in refused THEN Q!Skip(d, "separating") ELSE d
          IN  Q!Step(r, "plan",
                IF ~Q!Asked(x, "separating") \/ "separating" \in refused THEN Q!Enter(x, "decslot")
                ELSE IF ~enabled THEN Q!Enter(Q!Skip(x, "separating"), "decslot")
                ELSE IF x.cancel \/ Q!Asked(x, "wav") THEN Q!Enter(x, "sepslot")
                ELSE [x EXCEPT !.pc = "transcode", !.files = @ \cup {"sepwav"}])
    BY <1>1 DEF Q!Planned
  <2> DEFINE d == IF "diarizing" \in refused THEN Q!Skip(q, "diarizing") ELSE q
             x == IF "separating" \in refused THEN Q!Skip(d, "separating") ELSE d
             y == Q!Skip(x, "separating")
             t == [x EXCEPT !.pc = "transcode", !.files = @ \cup {"sepwav"}]
  <2>2. Good(q, "plan") BY <1>a, <2>1 DEF Q!Step
  <2>3. "sepwav" \notin q.files BY <2>2 DEF Good, Owned
  <2>4. /\ d \in Records /\ Good(d, "plan") /\ d.slot = q.slot /\ d.files = q.files
        /\ d.ask = q.ask
    BY <1>a, <1>b, <2>2, SettleGood
  <2>5. /\ x \in Records /\ Good(x, "plan") /\ x.slot = q.slot /\ x.files = q.files
        /\ x.ask = q.ask /\ ("separating" \in refused => x.out["separating"] # "none")
    <3> HIDE DEF d
    <3>1. QED BY <1>b, <2>4, SettleGood
  <2> HIDE DEF d, x
  <2>6. /\ y \in Records /\ Good(y, "plan") /\ y.slot = q.slot /\ y.files = q.files
        /\ y.out["separating"] # "none"
    BY <1>b, <2>5, SettleGood
  <2> HIDE DEF y
  <2>7. \/ /\ Q!Step(r, "plan", Q!Enter(x, "decslot"))
           /\ ~Q!Asked(x, "separating") \/ "separating" \in refused
        \/ Q!Step(r, "plan", Q!Enter(y, "decslot"))
        \/ Q!Step(r, "plan", Q!Enter(x, "sepslot"))
        \/ Q!Step(r, "plan", t)
    BY <2>1 DEF d, x, y
  <2>8. CASE /\ Q!Step(r, "plan", Q!Enter(x, "decslot"))
             /\ ~Q!Asked(x, "separating") \/ "separating" \in refused
    <3>1. Good(x, "decslot") BY <2>5, <2>8, OnwardGood DEF Q!Asked
    <3>2. QED BY <2>3, <2>5, <2>8, <3>1, EnterServed
  <2>9. CASE Q!Step(r, "plan", Q!Enter(y, "decslot"))
    <3>1. Good(y, "decslot") BY <2>6, OnwardGood
    <3>2. QED BY <2>3, <2>6, <2>9, <3>1, EnterServed
  <2>10. CASE Q!Step(r, "plan", Q!Enter(x, "sepslot"))
    <3>1. Good(x, "sepslot") BY <2>5, OnwardGood
    <3>2. QED BY <2>3, <2>5, <2>10, <3>1, EnterServed
  <2>11. CASE Q!Step(r, "plan", t)
    <3>1. t = [x EXCEPT !.pc = "transcode", !.files = x.files \cup {"sepwav"}] OBVIOUS
    <3> HIDE DEF t
    <3>2. t \in Records /\ t.pc = "transcode" /\ t.slot = x.slot /\ Good(t, "transcode")
      BY <2>5, <3>1, TranscodingGood
    <3>3. QED BY <2>5, <2>11, <3>2, StepServed
  <2>12. QED BY <2>7, <2>8, <2>9, <2>10, <2>11
<1>2. ASSUME Q!Transcoded(r) PROVE Served(r)
  <2> DEFINE x == q
  <2>1. Q!Step(r, "transcode", Q!ToSeparator(x)) BY <1>2 DEF Q!Transcoded
  <2>2. Good(q, "transcode") BY <1>a, <2>1 DEF Q!Step
  <2>3. x \in Records /\ Good(x, "transcode") /\ x.slot = q.slot
    BY <1>a, <2>2, NoSepWavGood
  <2> HIDE DEF x
  <2>4. CASE x.cancel
    <3> DEFINE y == Q!NoSepWav(x)
               p == Q!Raise(y, "cancelled")
    <3>1. Q!Step(r, "transcode", p) BY <2>1, <2>4 DEF Q!ToSeparator
    <3>2. /\ y \in Records /\ Good(y, "transcode")
          /\ "sepwav" \notin y.files /\ y.slot = q.slot
      BY <2>3, NoSepWavGood
    <3> HIDE DEF y
    <3>3. p \in Records /\ Good(p, p.pc) /\ p.slot = q.slot BY <3>2, RaiseGood
    <3> HIDE DEF p
    <3>4. QED BY <3>1, <3>3, StepServed
  <2>5. CASE ~x.cancel
    <3> DEFINE p == Q!At(x, "sepslot")
    <3>1. Q!Step(r, "transcode", p) BY <2>1, <2>5 DEF Q!ToSeparator
    <3>2. Good(x, "sepslot") BY <2>3, OnwardGood
    <3>3. p \in Records /\ Good(p, p.pc) /\ p.slot = q.slot BY <2>3, <3>2, AtGood
    <3> HIDE DEF p
    <3>4. QED BY <3>1, <3>3, StepServed
  <2>6. QED BY <2>4, <2>5
<1>3. ASSUME Q!TranscodeFailed(r) PROVE Served(r)
  <2> DEFINE x == Q!NoSepWav(q)
  <2>1. Q!Step(r, "transcode", Q!ToSeparator(x)) BY <1>3 DEF Q!TranscodeFailed
  <2>2. Good(q, "transcode") BY <1>a, <2>1 DEF Q!Step
  <2>3. x \in Records /\ Good(x, "transcode") /\ x.slot = q.slot
    BY <1>a, <2>2, NoSepWavGood
  <2> HIDE DEF x
  <2>4. CASE x.cancel
    <3> DEFINE y == Q!NoSepWav(x)
               p == Q!Raise(y, "cancelled")
    <3>1. Q!Step(r, "transcode", p) BY <2>1, <2>4 DEF Q!ToSeparator
    <3>2. /\ y \in Records /\ Good(y, "transcode")
          /\ "sepwav" \notin y.files /\ y.slot = q.slot
      BY <2>3, NoSepWavGood
    <3> HIDE DEF y
    <3>3. p \in Records /\ Good(p, p.pc) /\ p.slot = q.slot BY <3>2, RaiseGood
    <3> HIDE DEF p
    <3>4. QED BY <3>1, <3>3, StepServed
  <2>5. CASE ~x.cancel
    <3> DEFINE p == Q!At(x, "sepslot")
    <3>1. Q!Step(r, "transcode", p) BY <2>1, <2>5 DEF Q!ToSeparator
    <3>2. Good(x, "sepslot") BY <2>3, OnwardGood
    <3>3. p \in Records /\ Good(p, p.pc) /\ p.slot = q.slot BY <2>3, <3>2, AtGood
    <3> HIDE DEF p
    <3>4. QED BY <3>1, <3>3, StepServed
  <2>6. QED BY <2>4, <2>5
<1>4. ASSUME Q!TranscodeRefused(r) PROVE Served(r)
  <2> DEFINE x == Q!NoSepWav(q)
             y == Q!SoftFail(x, "separating")
  <2>1. Q!Step(r, "transcode", Q!Enter(y, "decslot")) BY <1>4 DEF Q!TranscodeRefused
  <2>2. Good(q, "transcode") BY <1>a, <2>1 DEF Q!Step
  <2>3. x \in Records /\ Good(x, "transcode") /\ x.slot = q.slot /\ "sepwav" \notin x.files
    BY <1>a, <2>2, NoSepWavGood
  <2> HIDE DEF x
  <2>4. /\ y \in Records /\ Good(y, "transcode")
        /\ y.slot = q.slot /\ "sepwav" \notin y.files
        /\ y.out["separating"] # "none"
    BY <1>b, <2>3, SettleGood
  <2> HIDE DEF y
  <2>5. Good(y, "decslot") BY <2>4, OnwardGood
  <2>6. QED BY <2>1, <2>4, <2>5, EnterServed
<1>5. ASSUME Q!SepSlot(r) PROVE Served(r)
  <2>1. Q!Acquire(r, "sepslot", "separate") BY <1>5 DEF Q!SepSlot
  <2>2. Good(q, "sepslot") => Good(q, "separate") BY <1>a, OnwardGood
  <2>3. QED BY <2>1, <2>2, AcquireServed
<1>6. ASSUME Q!SepCancelled(r) PROVE Served(r)
  <2> DEFINE x == Q!NoSepWav(q)
             p == Q!Raise(x, "cancelled")
  <2>1. PICK from \in {"sepslot", "separate"} : q.cancel /\ Q!Release(r, from, p)
    BY <1>6 DEF Q!SepCancelled
  <2>2. Good(q, from) BY <1>a, <2>1 DEF Q!Release
  <2>3. x \in Records /\ Good(x, from) /\ "sepwav" \notin x.files
    BY <1>a, <2>2, NoSepWavGood
  <2> HIDE DEF x
  <2>4. p \in Records /\ Good(p, p.pc) /\ p.pc # "idle" BY <2>3, RaiseGood
  <2> HIDE DEF p
  <2>5. QED BY <2>1, <2>4, ReleaseServed
<1>7. ASSUME Q!Separated(r) PROVE Served(r)
  <2> DEFINE x == Q!NoSepWav(q)
             v == Q!Vocals(x)
             y == Q!Ran(v, "separating")
             p == Q!Enter(y, "decslot")
  <2>1. Q!Release(r, "separate", p) BY <1>7 DEF Q!Separated
  <2>2. Good(q, "separate") BY <1>a, <2>1 DEF Q!Release
  <2>3. x \in Records /\ Good(x, "separate") /\ "sepwav" \notin x.files
    BY <1>a, <2>2, NoSepWavGood
  <2> HIDE DEF x
  <2>4. v \in Records /\ Good(v, "separate") /\ "sepwav" \notin v.files BY <2>3, VocalsGood
  <2> HIDE DEF v
  <2>5. /\ y \in Records /\ Good(y, "separate") /\ "sepwav" \notin y.files
        /\ y.out["separating"] # "none"
    BY <1>b, <2>4, SettleGood
  <2> HIDE DEF y
  <2>6. Good(y, "decslot") BY <2>5, OnwardGood
  <2>7. p \in Records /\ Good(p, p.pc) /\ p.pc # "idle" BY <2>5, <2>6, EnterGood
  <2> HIDE DEF p
  <2>8. QED BY <2>1, <2>7, ReleaseServed
<1>8. ASSUME Q!SeparationFailed(r) PROVE Served(r)
  <2> DEFINE x == Q!NoSepWav(q)
             y == Q!SoftFail(x, "separating")
             p == Q!Enter(y, "decslot")
  <2>1. Q!Release(r, "separate", p) BY <1>8 DEF Q!SeparationFailed
  <2>2. Good(q, "separate") BY <1>a, <2>1 DEF Q!Release
  <2>3. x \in Records /\ Good(x, "separate") /\ "sepwav" \notin x.files
    BY <1>a, <2>2, NoSepWavGood
  <2> HIDE DEF x
  <2>4. /\ y \in Records /\ Good(y, "separate") /\ "sepwav" \notin y.files
        /\ y.out["separating"] # "none"
    BY <1>b, <2>3, SettleGood
  <2> HIDE DEF y
  <2>5. Good(y, "decslot") BY <2>4, OnwardGood
  <2>6. p \in Records /\ Good(p, p.pc) /\ p.pc # "idle" BY <2>4, <2>5, EnterGood
  <2> HIDE DEF p
  <2>7. QED BY <2>1, <2>6, ReleaseServed
<1>9. ASSUME Q!DecodeSlot(r) PROVE Served(r)
  <2>1. Q!Acquire(r, "decslot", "decode") BY <1>9 DEF Q!DecodeSlot
  <2>2. Good(q, "decslot") => Good(q, "decode") BY <1>a, OnwardGood
  <2>3. QED BY <2>1, <2>2, AcquireServed
<1>10. ASSUME Q!DecodeCancelled(r) PROVE Served(r)
  <2>1. Q!Cancelled(r, "decslot") \/ Q!Cancelled(r, "decode") BY <1>10 DEF Q!DecodeCancelled
  <2>2. QED BY <2>1, CancelledServed
<1>11. ASSUME Q!Decoded(r) PROVE Served(r)
  <2>1. PICK text \in {"silence", "speech"} :
          Q!Release(r, "decode", [q EXCEPT !.pc = "diargate", !.text = text])
    BY <1>11 DEF Q!Decoded
  <2> DEFINE p == [q EXCEPT !.pc = "diargate", !.text = text]
  <2>2. Good(q, "decode") BY <1>a, <2>1 DEF Q!Release
  <2>3. p \in Records /\ Good(p, p.pc) /\ p.pc # "idle" BY <1>a, <2>2, DecodedGood
  <2>4. Q!Release(r, "decode", p) BY <2>1
  <2> HIDE DEF p
  <2>5. QED BY <2>3, <2>4, ReleaseServed
<1>12. ASSUME Q!DecodeFailed(r) PROVE Served(r)
  BY <1>12, FailsServed DEF Q!DecodeFailed
<1>13. ASSUME Q!DiarGate(r) PROVE Served(r)
  <2> DEFINE s == Q!Skip(q, "diarizing")
  <2>1. PICK run1 \in {"diarslot"} :
          \/ Q!Step(r, "diargate", Q!At(q, "trgate")) /\ (~Q!Asked(q, "diarizing") \/ q.out["diarizing"] # "none")
          \/ Q!Step(r, "diargate", Q!At(s, "trgate"))
          \/ Q!Step(r, "diargate", Q!Enter(q, run1))
    BY <1>13 DEF Q!DiarGate, Q!Gate
  <2>2. Good(q, "diargate") BY <1>a, <2>1 DEF Q!Step
  <2>3. "sepwav" \notin q.files BY <2>2 DEF Good, Owned
  <2>4. CASE Q!Step(r, "diargate", Q!At(q, "trgate")) /\
             (~Q!Asked(q, "diarizing") \/ q.out["diarizing"] # "none")
    <3>1. Good(q, "trgate") BY <1>a, <2>2, <2>4, OnwardGood DEF Q!Asked
    <3>2. QED BY <2>4, <3>1, MoveServed
  <2>5. CASE Q!Step(r, "diargate", Q!At(s, "trgate"))
    <3>1. /\ s \in Records /\ Good(s, "diargate")
          /\ s.out["diarizing"] # "none" /\ s.slot = q.slot
      BY <1>a, <1>b, <2>2, SettleGood
    <3> HIDE DEF s
    <3>2. Good(s, "trgate") BY <3>1, OnwardGood
    <3>3. Q!At(s, "trgate") \in Records /\ Good(Q!At(s, "trgate"), Q!At(s, "trgate").pc)
          /\ Q!At(s, "trgate").slot = q.slot
      BY <3>1, <3>2, AtGood
    <3>4. QED BY <2>5, <3>3, StepServed
  <2>6. CASE Q!Step(r, "diargate", Q!Enter(q, run1))
    <3>1. Good(q, run1) BY <1>a, <2>2, OnwardGood
    <3>2. QED BY <1>a, <2>3, <2>6, <3>1, EnterServed
  <2>7. QED BY <2>1, <2>4, <2>5, <2>6
<1>14. ASSUME Q!DiarSlot(r) PROVE Served(r)
  <2>1. Q!Acquire(r, "diarslot", "diarize") BY <1>14 DEF Q!DiarSlot
  <2>2. Good(q, "diarslot") => Good(q, "diarize") BY <1>a, OnwardGood
  <2>3. QED BY <2>1, <2>2, AcquireServed
<1>15. ASSUME Q!Diarized(r) PROVE Served(r)
  <2> DEFINE p == Q!At(q, "assign")
  <2>1. Q!Release(r, "diarize", p) BY <1>15 DEF Q!Diarized
  <2>2. Good(q, "diarize") BY <1>a, <2>1 DEF Q!Release
  <2>3. Good(q, "assign") BY <1>a, <2>2, OnwardGood
  <2>4. p \in Records /\ Good(p, p.pc) /\ p.pc # "idle" BY <1>a, <2>3, AtGood
  <2> HIDE DEF p
  <2>5. QED BY <2>1, <2>4, ReleaseServed
<1>16. ASSUME Q!DiarFailed(r) PROVE Served(r)
  <2> DEFINE s == Q!SoftFail(q, "diarizing")
             p == Q!At(s, "trgate")
  <2>1. Q!Release(r, "diarize", p) BY <1>16 DEF Q!DiarFailed
  <2>2. Good(q, "diarize") BY <1>a, <2>1 DEF Q!Release
  <2>3. s \in Records /\ Good(s, "diarize") /\ s.out["diarizing"] # "none"
    BY <1>a, <1>b, <2>2, SettleGood
  <2> HIDE DEF s
  <2>4. Good(s, "trgate") BY <2>3, OnwardGood
  <2>5. p \in Records /\ Good(p, p.pc) /\ p.pc # "idle" BY <2>3, <2>4, AtGood
  <2> HIDE DEF p
  <2>6. QED BY <2>1, <2>5, ReleaseServed
<1>17. ASSUME Q!DiarCancelled(r) PROVE Served(r)
  <2>1. Q!Cancelled(r, "diarslot") \/ Q!Cancelled(r, "diarize") BY <1>17 DEF Q!DiarCancelled
  <2>2. QED BY <2>1, CancelledServed
<1>18. ASSUME Q!Assigned(r) PROVE Served(r)
  <2> DEFINE s == Q!Ran(q, "diarizing")
             p == Q!At(s, "trgate")
  <2>1. Q!Step(r, "assign", p) BY <1>18 DEF Q!Assigned
  <2>2. Good(q, "assign") BY <1>a, <2>1 DEF Q!Step
  <2>3. s \in Records /\ Good(s, "assign") /\ s.out["diarizing"] # "none" /\ s.slot = q.slot
    BY <1>a, <1>b, <2>2, SettleGood
  <2> HIDE DEF s
  <2>4. Good(s, "trgate") BY <2>3, OnwardGood
  <2>5. p \in Records /\ Good(p, p.pc) /\ p.slot = q.slot BY <2>3, <2>4, AtGood
  <2> HIDE DEF p
  <2>6. QED BY <2>1, <2>5, StepServed
<1>19. ASSUME Q!AssignFailed(r) PROVE Served(r)
  <2> DEFINE s == Q!SoftFail(q, "diarizing")
             p == Q!At(s, "trgate")
  <2>1. Q!Step(r, "assign", p) BY <1>19 DEF Q!AssignFailed
  <2>2. Good(q, "assign") BY <1>a, <2>1 DEF Q!Step
  <2>3. s \in Records /\ Good(s, "assign") /\ s.out["diarizing"] # "none" /\ s.slot = q.slot
    BY <1>a, <1>b, <2>2, SettleGood
  <2> HIDE DEF s
  <2>4. Good(s, "trgate") BY <2>3, OnwardGood
  <2>5. p \in Records /\ Good(p, p.pc) /\ p.slot = q.slot BY <2>3, <2>4, AtGood
  <2> HIDE DEF p
  <2>6. QED BY <2>1, <2>5, StepServed
<1>20. ASSUME Q!TrGate(r) PROVE Served(r)
  <2> DEFINE s == Q!Skip(q, "translating")
  <2>1. PICK run1 \in {"trslot", "translate"} :
          \/ Q!Step(r, "trgate", Q!At(q, "capgate")) /\ (~Q!Asked(q, "translating") \/ q.out["translating"] # "none")
          \/ Q!Step(r, "trgate", Q!At(s, "capgate"))
          \/ Q!Step(r, "trgate", Q!Enter(q, run1))
    BY <1>20 DEF Q!TrGate, Q!Gate
  <2>2. Good(q, "trgate") BY <1>a, <2>1 DEF Q!Step
  <2>3. "sepwav" \notin q.files BY <2>2 DEF Good, Owned
  <2>4. CASE Q!Step(r, "trgate", Q!At(q, "capgate")) /\
             (~Q!Asked(q, "translating") \/ q.out["translating"] # "none")
    <3>1. Good(q, "capgate") BY <1>a, <2>2, <2>4, OnwardGood DEF Q!Asked
    <3>2. QED BY <2>4, <3>1, MoveServed
  <2>5. CASE Q!Step(r, "trgate", Q!At(s, "capgate"))
    <3>1. /\ s \in Records /\ Good(s, "trgate")
          /\ s.out["translating"] # "none" /\ s.slot = q.slot
      BY <1>a, <1>b, <2>2, SettleGood
    <3> HIDE DEF s
    <3>2. Good(s, "capgate") BY <3>1, OnwardGood
    <3>3. Q!At(s, "capgate") \in Records /\ Good(Q!At(s, "capgate"), Q!At(s, "capgate").pc)
          /\ Q!At(s, "capgate").slot = q.slot
      BY <3>1, <3>2, AtGood
    <3>4. QED BY <2>5, <3>3, StepServed
  <2>6. CASE Q!Step(r, "trgate", Q!Enter(q, run1))
    <3>1. Good(q, run1) BY <1>a, <2>2, OnwardGood
    <3>2. QED BY <1>a, <2>3, <2>6, <3>1, EnterServed
  <2>7. QED BY <2>1, <2>4, <2>5, <2>6
<1>21. ASSUME Q!TrSlot(r) PROVE Served(r)
  <2>1. Q!Acquire(r, "trslot", "translate") BY <1>21 DEF Q!TrSlot
  <2>2. Good(q, "trslot") => Good(q, "translate") BY <1>a, OnwardGood
  <2>3. QED BY <2>1, <2>2, AcquireServed
<1>22. ASSUME Q!Translated(r) PROVE Served(r)
  <2> DEFINE s == Q!Ran(q, "translating")
             p == Q!At(s, "capgate")
  <2>1. Q!Release(r, "translate", p) BY <1>22 DEF Q!Translated
  <2>2. Good(q, "translate") BY <1>a, <2>1 DEF Q!Release
  <2>3. s \in Records /\ Good(s, "translate") /\ s.out["translating"] # "none"
    BY <1>a, <1>b, <2>2, SettleGood
  <2> HIDE DEF s
  <2>4. Good(s, "capgate") BY <2>3, OnwardGood
  <2>5. p \in Records /\ Good(p, p.pc) /\ p.pc # "idle" BY <2>3, <2>4, AtGood
  <2> HIDE DEF p
  <2>6. QED BY <2>1, <2>5, ReleaseServed
<1>23. ASSUME Q!TranslationFailed(r) PROVE Served(r)
  <2> DEFINE s == Q!SoftFail(q, "translating")
             p == Q!At(s, "capgate")
  <2>1. Q!Release(r, "translate", p) BY <1>23 DEF Q!TranslationFailed
  <2>2. Good(q, "translate") BY <1>a, <2>1 DEF Q!Release
  <2>3. s \in Records /\ Good(s, "translate") /\ s.out["translating"] # "none"
    BY <1>a, <1>b, <2>2, SettleGood
  <2> HIDE DEF s
  <2>4. Good(s, "capgate") BY <2>3, OnwardGood
  <2>5. p \in Records /\ Good(p, p.pc) /\ p.pc # "idle" BY <2>3, <2>4, AtGood
  <2> HIDE DEF p
  <2>6. QED BY <2>1, <2>5, ReleaseServed
<1>24. ASSUME Q!TranslationCancelled(r) PROVE Served(r)
  <2>1. Q!Cancelled(r, "trslot") \/ Q!Cancelled(r, "translate")
    BY <1>24 DEF Q!TranslationCancelled
  <2>2. QED BY <2>1, CancelledServed
<1>z. QED
  BY <1>1, <1>2, <1>3, <1>4, <1>5, <1>6, <1>7, <1>8, <1>9, <1>10, <1>11, <1>12, <1>13,
     <1>14, <1>15, <1>16, <1>17, <1>18, <1>19, <1>20, <1>21, <1>22, <1>23, <1>24

\* The answer, and what happens beside.
LEMMA AnswerServed ==
  ASSUME RequestTable, NEW r \in Requests,
         \/ Q!CapGate(r) \/ Q!DiskSeen(r) \/ Q!Captured(r) \/ Q!Answer(r)
         \/ Q!KeptUpload(r) \/ Q!KeepFailed(r) \/ Q!LeavesStore(r) \/ Q!Removed(r)
         \/ Q!Finished(r) \/ Q!Learned(r) \/ Q!CancelRequest(r) \/ Q!Drop(r)
         \/ Q!ThreadEnds(r)
  PROVE  Served(r)
<1> DEFINE q == run[r]
<1> USE DEF Suspended
<1>a. q \in Records /\ Good(q, q.pc) BY Standing
<1>1. ASSUME Q!CapGate(r) PROVE Served(r)
  <2>1. PICK to \in {"disk", "answer"} : Q!Step(r, "capgate", Q!At(q, to))
    BY <1>1 DEF Q!CapGate
  <2>2. Good(q, "capgate") => Good(q, to) BY <1>a, OnwardGood
  <2>3. QED BY <2>1, <2>2, MoveServed
<1>2. ASSUME Q!DiskSeen(r) PROVE Served(r)
  <2>1. PICK to \in {"capture", "answer"} : Q!Step(r, "disk", Q!At(q, to))
    BY <1>2 DEF Q!DiskSeen
  <2>2. Good(q, "disk") => Good(q, to) BY <1>a, OnwardGood
  <2>3. QED BY <2>1, <2>2, MoveServed
<1>3. ASSUME Q!Captured(r) PROVE Served(r)
  <2>1. Q!Step(r, "capture", Q!At(q, "answer")) BY <1>3 DEF Q!Captured
  <2>2. Good(q, "capture") => Good(q, "answer") BY <1>a, OnwardGood
  <2>3. QED BY <2>1, <2>2, MoveServed
<1>4. ASSUME Q!Answer(r) PROVE Served(r)
  <2> DEFINE p == IF Q!Asked(q, "text") THEN Q!Sent(q)
                  ELSE IF "retained" \in q.files THEN Q!At(q, "keep")
                  ELSE IF q.media = "gone"
                       THEN Q!Sent([q EXCEPT !.media = "none", !.warned = @ \cup {"media"}])
                  ELSE Q!Sent(q)
  <2>1. Q!Step(r, "answer", p) BY <1>4 DEF Q!Answer
  <2>2. q.pc = "answer" BY <2>1 DEF Q!Step
  <2>3. p \in Records /\ Good(p, p.pc) /\ p.slot = q.slot BY <1>a, <2>2, AnswerGood
  <2> HIDE DEF p
  <2>4. QED BY <2>1, <2>3, StepServed
<1>5. ASSUME Q!KeptUpload(r) PROVE Served(r)
  <2> DEFINE x == [q EXCEPT !.media = "kept", !.files = @ \ {"retained"}]
  <2>1. Q!Step(r, "keep", Q!Sent(x)) BY <1>5 DEF Q!KeptUpload
  <2>2. Good(q, "keep") BY <1>a, <2>1 DEF Q!Step
  <2>3. Q!Sent(x) \in Records /\ Good(Q!Sent(x), Q!Sent(x).pc) /\ Q!Sent(x).slot = q.slot
    BY <1>a, <2>2, KeptGood
  <2> HIDE DEF x
  <2>4. QED BY <2>1, <2>3, StepServed
<1>6. ASSUME Q!KeepFailed(r) PROVE Served(r)
  <2> DEFINE x == [q EXCEPT !.warned = @ \cup {"retain"}]
  <2>1. Q!Step(r, "keep", Q!Sent(x)) BY <1>6 DEF Q!KeepFailed
  <2>2. Good(q, "keep") BY <1>a, <2>1 DEF Q!Step
  <2>3. Q!Sent(x) \in Records /\ Good(Q!Sent(x), Q!Sent(x).pc) /\ Q!Sent(x).slot = q.slot
    BY <1>a, <2>2, KeptGood
  <2> HIDE DEF x
  <2>4. QED BY <2>1, <2>3, StepServed
<1>7. ASSUME Q!LeavesStore(r) PROVE Served(r)
  <2> DEFINE p == [q EXCEPT !.media = "gone"]
  <2>1. p \in Records /\ Good(p, p.pc) /\ p.pc = q.pc /\ p.slot = q.slot
    BY <1>7, <1>a, GoneGood DEF Q!LeavesStore
  <2>2. run' = [run EXCEPT ![r] = p] /\ free' = free BY <1>7 DEF Q!LeavesStore
  <2> HIDE DEF p
  <2>3. QED BY <2>1, <2>2, AsideServed
<1>8. ASSUME Q!Removed(r) PROVE Served(r)
  <2> DEFINE x == [q EXCEPT !.files = @ \ {"dir"}]
  <2>1. Q!Step(r, "rmtree", Q!Outer(x)) BY <1>8 DEF Q!Removed
  <2>2. Good(q, "rmtree") BY <1>a, <2>1 DEF Q!Step
  <2>3. x \in Records /\ x.slot = q.slot /\ Leaving(x) /\ x.files \subseteq Q!MayLeave(x)
    BY <1>a, <2>2, RemovedGood
  <2> HIDE DEF x
  <2>4. /\ Q!Outer(x) \in Records /\ Good(Q!Outer(x), Q!Outer(x).pc)
        /\ Q!Outer(x).slot = q.slot
    BY <2>3, OuterGood
  <2>5. QED BY <2>1, <2>4, StepServed
<1>9. ASSUME Q!Finished(r) PROVE Served(r)
  <2>1. Q!Step(r, "finish", Q!At(q, "rates")) BY <1>9 DEF Q!Finished
  <2>2. Good(q, "finish") => Good(q, "rates") BY <1>a, OnwardGood
  <2>3. QED BY <2>1, <2>2, MoveServed
<1>10. ASSUME Q!Learned(r) PROVE Served(r)
  <2>1. Q!Step(r, "rates", Q!At(q, "done")) BY <1>10 DEF Q!Learned
  <2>2. Good(q, "rates") => Good(q, "done") BY <1>a, OnwardGood
  <2>3. QED BY <2>1, <2>2, MoveServed
<1>11. ASSUME Q!CancelRequest(r) PROVE Served(r)
  <2> DEFINE p == [q EXCEPT !.cancel = TRUE]
  <2>1. p \in Records /\ Good(p, p.pc) /\ p.pc = q.pc /\ p.slot = q.slot
    BY <1>11, <1>a, FlaggedGood DEF Q!CancelRequest
  <2>2. run' = [run EXCEPT ![r] = p] /\ free' = free BY <1>11 DEF Q!CancelRequest
  <2> HIDE DEF p
  <2>3. QED BY <2>1, <2>2, AsideServed
<1>12. ASSUME Q!Drop(r) PROVE Served(r)
  <2> DEFINE p == Q!Dropped(q)
  <2>1. /\ q.pc \in Q!Awaits /\ run' = [run EXCEPT ![r] = p]
        /\ free' = IF q.slot THEN free + 1 ELSE free
    BY <1>12 DEF Q!Drop
  <2>2. q.pc \in Running \cup {"rmtree", "finish", "rates"}
    BY <2>1 DEF Q!Awaits, Q!Threaded, Q!Copying
  <2>3. p \in Records /\ Good(p, p.pc) /\ p.pc # "idle" /\ ~p.slot
    <3>1. CASE q.pc \in Running
      <4>1. p = Q!Raise(Q!Unwound(q), "cancelled") BY <3>1 DEF Q!Dropped
      <4>2. QED BY <1>a, <3>1, <4>1, UnwoundGood
    <3>2. CASE q.pc \in {"rmtree", "finish", "rates"}
      <4>1. ~q.slot BY <3>2 DEF RequestTable, Fine
      <4>2. QED BY <1>a, <3>2, <4>1, DroppedLateGood
    <3>3. QED BY <2>2, <3>1, <3>2
  <2>4. Fine(p) BY <2>3 DEF Fine
  <2> HIDE DEF p
  <2>5. run'[r] = p BY <2>1 DEF RequestTable
  <2>6. QED BY <2>1, <2>3, <2>4, <2>5 DEF Served, RequestTable
<1>13. ASSUME Q!ThreadEnds(r) PROVE Served(r)
  <2>0. PICK t \in q.threads : \E made \in SUBSET (IF t \in Q!Copying THEN {"stray"} ELSE {}) :
          /\ run' = [run EXCEPT ![r].threads = {}, ![r].files = @ \cup made]
          /\ free' = free
    BY <1>13 DEF Q!ThreadEnds
  <2>1. PICK made \in SUBSET (IF t \in Q!Copying THEN {"stray"} ELSE {}) :
          /\ run' = [run EXCEPT ![r].threads = {}, ![r].files = @ \cup made]
          /\ free' = free
    BY <2>0
  <2> DEFINE p == [q EXCEPT !.threads = {}, !.files = @ \cup made]
  <2>2. p \in Records /\ Good(p, p.pc) /\ p.pc = q.pc /\ p.slot = q.slot
    BY <1>a, ThreadOverGood
  <2>3. run' = [run EXCEPT ![r] = p] BY <1>a, <2>1 DEF RequestTable
  <2> HIDE DEF p
  <2>4. QED BY <2>1, <2>2, <2>3, AsideServed
<1>z. QED
  BY <1>1, <1>2, <1>3, <1>4, <1>5, <1>6, <1>7, <1>8, <1>9, <1>10, <1>11, <1>12, <1>13

-----------------------------------------------------------------------------
(* The table of requests and the semaphore.                                    *)

LEMMA RequestsServed ==
  ASSUME RequestTable, Q!RequestNext
  PROVE  \E r \in Requests : Served(r)
<1>1. PICK r \in Requests :
        \/ Q!Arrive(r) \/ Q!RowStarted(r) \/ Q!TooLarge(r) \/ Q!ModelLoaded(r)
        \/ Q!LoadFailed(r) \/ Q!FormRead(r) \/ Q!FormRefused(r) \/ Q!Probed(r)
        \/ Q!ProbeFailed(r) \/ Q!Reused(r) \/ Q!ReuseFailed(r) \/ Q!Downloaded(r)
        \/ Q!DownloadFailed(r) \/ Q!DownloadCancelled(r) \/ Q!Copied(r) \/ Q!CopyFailed(r)
        \/ Q!Registered(r) \/ Q!Spooled(r) \/ Q!SpoolTooLarge(r) \/ Q!RetainDeclined(r)
        \/ Q!Retained(r) \/ Q!RetainFailed(r) \/ Q!InputTaken(r) \/ Q!InputRefused(r)
        \/ Q!Rolled(r)
        \/ Q!Planned(r) \/ Q!Transcoded(r) \/ Q!TranscodeFailed(r) \/ Q!TranscodeRefused(r)
        \/ Q!SepSlot(r) \/ Q!SepCancelled(r) \/ Q!Separated(r) \/ Q!SeparationFailed(r)
        \/ Q!DecodeSlot(r) \/ Q!DecodeCancelled(r) \/ Q!Decoded(r) \/ Q!DecodeFailed(r)
        \/ Q!DiarGate(r) \/ Q!DiarSlot(r) \/ Q!Diarized(r) \/ Q!DiarFailed(r)
        \/ Q!DiarCancelled(r) \/ Q!Assigned(r) \/ Q!AssignFailed(r) \/ Q!TrGate(r)
        \/ Q!TrSlot(r) \/ Q!Translated(r) \/ Q!TranslationFailed(r)
        \/ Q!TranslationCancelled(r)
        \/ Q!CapGate(r) \/ Q!DiskSeen(r) \/ Q!Captured(r) \/ Q!Answer(r) \/ Q!KeptUpload(r)
        \/ Q!KeepFailed(r) \/ Q!LeavesStore(r) \/ Q!Removed(r) \/ Q!Finished(r)
        \/ Q!Learned(r) \/ Q!CancelRequest(r) \/ Q!Drop(r) \/ Q!ThreadEnds(r)
  BY ZenonT(60) DEF Q!RequestNext
<1>2. QED BY <1>1, BeforeServed, StagesServed, AnswerServed

\* The inductive invariant of the batch requests.
RequestInv ==
  /\ RequestTable
  /\ free = Slots - Cardinality({r \in Requests : run[r].slot})

LEMMA RequestStart == Q!RequestInit => RequestInv
<1> SUFFICES ASSUME Q!RequestInit PROVE RequestInv OBVIOUS
<1>1. run = [r \in Requests |-> Q!Idle] /\ free = Slots BY DEF Q!RequestInit
<1>2. Q!Idle \in Records
  <2>1. [s \in Q!Stages |-> "none"] \in [Q!Stages -> Outcomes] BY DEF Outcomes
  <2>2. QED BY <2>1 DEF Q!Idle, Records
<1>3. Good(Q!Idle, "idle") /\ Q!Idle.pc = "idle" /\ Q!Idle.slot = FALSE
  BY DEF Q!Idle, Good, Counted, Owned, Decided, Retaining, Answered, Q!Stages
<1>4. RequestTable BY <1>1, <1>2, <1>3, RequestAssumption DEF RequestTable, Fine
<1>5. {r \in Requests : run[r].slot} = {} BY <1>1, <1>3
<1>6. Cardinality({r \in Requests : run[r].slot}) = 0 BY <1>5, FS_EmptySet
<1>7. QED BY <1>1, <1>4, <1>6, RequestAssumption DEF RequestInv

\* A step of one request moves the semaphore by what its slot moves.
LEMMA ServedStep ==
  ASSUME RequestInv, NEW r \in Requests, Served(r)
  PROVE  RequestInv'
<1> DEFINE Held == {x \in Requests : run[x].slot}
           HeldAfter == {x \in Requests : run'[x].slot}
<1>1. /\ run \in [Requests -> Records] /\ free \in Int
      /\ \A x \in Requests : Fine(run[x])
      /\ free = Slots - Cardinality(Held)
  BY DEF RequestInv, RequestTable
<1>2. /\ run' \in [Requests -> Records] /\ free' \in Int
      /\ \A x \in Requests : Fine(run'[x])
  <2>1. run'[r] \in Records BY DEF Served, Fine
  <2>2. run' \in [Requests -> Records] BY <1>1, <2>1 DEF Served
  <2>3. ASSUME NEW x \in Requests PROVE Fine(run'[x])
    <3>1. CASE x = r BY <3>1 DEF Served
    <3>2. CASE x # r
      <4>1. run'[x] = run[x] BY <1>1, <3>2 DEF Served
      <4>2. QED BY <1>1, <4>1
    <3>3. QED BY <3>1, <3>2
  <2>4. free' \in Int BY <1>1 DEF Served
  <2>5. QED BY <2>2, <2>3, <2>4
<1>3. \A x \in Requests \ {r} : run'[x] = run[x] BY <1>1 DEF Served
<1>4. IsFiniteSet(Held) /\ IsFiniteSet(HeldAfter)
  BY RequestAssumption, FS_Subset
<1>5. run[r].slot \in BOOLEAN /\ run'[r].slot \in BOOLEAN BY <1>1, <1>2 DEF Records
<1>6. free' = Slots - Cardinality(HeldAfter)
  <2>1. CASE run[r].slot = run'[r].slot
    <3>1. Held = HeldAfter BY <1>3, <2>1
    <3>2. free' = free BY <1>1, <1>5, <2>1 DEF Served
    <3>3. QED BY <1>1, <3>1, <3>2
  <2>2. CASE run[r].slot /\ ~run'[r].slot
    <3>1. HeldAfter = Held \ {r} /\ r \in Held BY <1>3, <2>2
    <3>2. Cardinality(HeldAfter) = Cardinality(Held) - 1 BY <1>4, <3>1, FS_RemoveElement
    <3>3. free' = free + 1 BY <1>1, <2>2 DEF Served
    <3>4. Cardinality(Held) \in Nat BY <1>4, FS_CardinalityType
    <3>5. QED BY <1>1, <3>2, <3>3, <3>4, RequestAssumption
  <2>3. CASE ~run[r].slot /\ run'[r].slot
    <3>1. HeldAfter = Held \cup {r} /\ r \notin Held BY <1>3, <2>3
    <3>2. Cardinality(HeldAfter) = Cardinality(Held) + 1 BY <1>4, <3>1, FS_AddElement
    <3>3. free' = free - 1 BY <1>1, <2>3 DEF Served
    <3>4. Cardinality(Held) \in Nat BY <1>4, FS_CardinalityType
    <3>5. QED BY <1>1, <3>2, <3>3, <3>4, RequestAssumption
  <2>4. QED BY <1>5, <2>1, <2>2, <2>3
<1>7. QED BY <1>2, <1>6 DEF RequestInv, RequestTable, Fine, Good, Counted, Owned, Decided,
             Retaining, Answered, ExplainedOf, Records

LEMMA RequestInvariant == StagesSpec => []RequestInv
<1>1. StagesInit => RequestInv BY RequestStart DEF StagesInit
<1>2. RequestInv /\ [PipelineStep \/ GgufStep \/ RequestStep]_allVars => RequestInv'
  <2> SUFFICES ASSUME RequestInv, [PipelineStep \/ GgufStep \/ RequestStep]_allVars
               PROVE  RequestInv'
    OBVIOUS
  <2>1. CASE RequestStep
    <3>1. PICK r \in Requests : Served(r)
      BY SMTT(30), <2>1, RequestsServed DEF RequestStep, RequestInv
    <3>2. QED BY <3>1, ServedStep
  <2>2. CASE UNCHANGED batchVars
    <3>1. run' = run /\ free' = free BY <2>2 DEF batchVars
    <3>2. QED BY SMTT(20), <3>1 DEF RequestInv, RequestTable, Fine, Good, Counted, Owned, Decided,
                          Retaining, Answered, ExplainedOf, Records
  <2>3. QED BY <2>1, <2>2 DEF PipelineStep, GgufStep, allVars
<1>3. QED BY <1>1, <1>2, PTL DEF StagesSpec

LEMMA SameCardinality == \A S : Q!Cardinality(S) = Cardinality(S)
BY DEF Q!Cardinality, Cardinality

\* Whatever await a batch request is cancelled at and whichever stage fails, it
\* gives back its lease, its slot, its counters and its files, each once, but for
\* the file of a thread it no longer waits for; and no stage reads a file that is
\* gone (transcribe's two finally blocks, the swap of tmp_path). RequestsGiveBack
\* is what the run checks of two requests.
THEOREM RequestsReturn == StagesSpec => []RequestsGiveBack
<1>1. RequestInv => RequestsGiveBack
  <2> SUFFICES ASSUME RequestInv PROVE Q!GivenBack /\ Q!InputThere
    BY DEF RequestsGiveBack
  <2>1. \A r \in Requests : run[r] \in Records /\ Fine(run[r])
    BY DEF RequestInv, RequestTable
  <2>2. free = Slots - Q!Cardinality({r \in Requests : run[r].slot})
    BY SameCardinality DEF RequestInv
  <2>3. \A r \in Requests : run[r].slot => Q!Suspended(r)
    BY <2>1 DEF Fine, Suspended, Q!Suspended
  <2>4. ASSUME NEW r \in Requests, run[r].pc = "done"
        PROVE  /\ run[r].leases = 0 /\ run[r].inFlight = 0 /\ run[r].jobs = 0
               /\ run[r].files \subseteq Q!MayLeave(run[r])
    BY <2>1, <2>4 DEF Fine, Good, Counted, Owned
  <2>5. Q!InputThere BY <2>1 DEF Q!InputThere, Q!Reading, Fine, Good, Owned
  <2>6. QED BY <2>2, <2>3, <2>4, <2>5 DEF Q!GivenBack
<1>2. QED BY <1>1, RequestInvariant, PTL

\* An answer tells of every stage asked for that it ran or that it did not, hands
\* out no id of audio that left the store, and nothing behind the decode but a
\* cancellation costs the transcript (_soft_fail_stage, _skip).
THEOREM AnswersTell == StagesSpec => []AnswersExplained
<1>1. RequestInv => AnswersExplained
  <2> SUFFICES ASSUME RequestInv PROVE Q!Explained /\ Q!TranscriptKept
    BY DEF AnswersExplained
  <2>1. \A r \in Requests : Fine(run[r]) BY DEF RequestInv, RequestTable
  <2>2. Q!Explained BY <2>1 DEF Q!Explained, Fine, Good, Answered, ExplainedOf
  <2>3. Q!TranscriptKept BY <2>1 DEF Q!TranscriptKept, Fine, Good, Answered
  <2>4. QED BY <2>2, <2>3
<1>2. QED BY <1>1, RequestInvariant, PTL

-----------------------------------------------------------------------------
(* The pipelines.                                                              *)

PipelineInv == part = "pipeline" => PipeInv

LEMMA PipelineInvariant == StagesSpec => []PipelineInv
<1>1. StagesInit => PipelineInv BY PipeStart DEF StagesInit, PipelineInv
<1>2. PipelineInv /\ [PipelineStep \/ GgufStep \/ RequestStep]_allVars => PipelineInv'
  BY PipeStep DEF PipelineInv, PipelineStep, GgufStep, RequestStep, allVars
<1>. QED BY <1>1, <1>2, PTL DEF StagesSpec

\* No lease, orphan count or registry row of a single-pipeline cache is lost or
\* left behind, and a vocals file has one owner, whatever is cancelled or fails in
\* a load, a registration, a run or a release, and however drops and edits fall
\* between (_release_locked, _drop_locked, register_through_latch).
THEOREM PipelinesAccountedFor == StagesSpec => []PipelineAccounted
<1>1. PipelineInv => PipelineAccounted
  BY AccountedFor DEF PipelineInv, PipelineAccounted
<1>. QED BY <1>1, PipelineInvariant, PTL

\* An eviction takes no pipeline from under a thread, and a preload starts its load
\* beside no thread and beside no job of another model but the ones busy cannot see
\* (_drop_locked, _infer_mutex, busy).
THEOREM ThreadsLeftAlone == StagesSpec => ThreadsUndisturbed
<1>1. ASSUME PipelineInv, [PipelineStep \/ GgufStep \/ RequestStep]_allVars
      PROVE  [mutex # Free /\ got[mutex] = cache /\ cache' # cache
               => drains' # drains \/ lock' # lock]_vars
  <2>1. CASE PipelineStep
    BY <1>1, <2>1, DroppedIdle DEF PipelineInv, PipelineStep
  <2>2. CASE UNCHANGED vars BY <2>2
  <2>. QED BY <1>1, <2>1, <2>2 DEF GgufStep, RequestStep, allVars
<1>2. ASSUME PipelineInv, [PipelineStep \/ GgufStep \/ RequestStep]_allVars
      PROVE  [\A w \in Warmups :
                pc[w] = "wait" /\ pc'[w] = "load" =>
                  \A j \in Jobs :
                    /\ thread[j] # "inside"
                    /\ pc[j] = "run" =>
                         \/ got[j].model = want[w].model
                         \/ \E t \in Tasks :
                              pc[t] = "failed" /\ want[t].model = got[j].model]_vars
  <2>1. CASE PipelineStep
    BY <1>2, <2>1, LoadsBesideNone DEF PipelineInv, PipelineStep
  <2>2. CASE UNCHANGED vars BY <2>2
  <2>. QED BY <1>2, <2>1, <2>2 DEF GgufStep, RequestStep, allVars
<1>. QED
  BY <1>1, <1>2, PipelineInvariant, PTL
  DEF StagesSpec, ThreadsUndisturbed, NoFreeUnderThread, WarmupLoadsAlone
=============================================================================
