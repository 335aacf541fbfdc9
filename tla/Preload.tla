------------------------------ MODULE Preload ------------------------------
(* Model preloading (runtime/preload.py): plans that name the models a job     *)
(* will need, the warm set that spares those from the idle evictors, the queue *)
(* of models to load and its one worker. register_plan, the sweeper and the    *)
(* worker run on the event loop; on_stage_start runs on the threads a job      *)
(* reports its progress from, and hands its item to the loop.                  *)
EXTENDS Integers, FiniteSets, SequencesExt

CONSTANTS
  Requests,   \* the registrations to choose from
  Stage,      \* per model, a number: the stage of its family in the pipeline
  Family,     \* per model: its family
  Singletons, \* families that cache a single model
  MaxPlans,   \* _MAX_PLANS
  MaxQueue,   \* _MAX_QUEUE
  MaxRegs,    \* bound: registrations
  MaxStops,   \* bound: restarts of the lifespan
  MaxUses     \* bound: models taken by jobs

Models == DOMAIN Stage

ASSUME PreloadAssumption ==
  /\ Cardinality(Models) \in Nat
  /\ Models = 1..Cardinality(Models)
  /\ Stage \in [Models -> 0..3]
  /\ \A m, n \in Models : m < n => Stage[m] <= Stage[n]
  /\ DOMAIN Family = Models
  /\ Requests \subseteq [user : STRING, id : STRING \X (0..MaxPlans),
                         models : SUBSET Models, ahead : BOOLEAN, job : BOOLEAN]
  /\ {MaxPlans, MaxQueue} \subseteq Nat \ {0}
  /\ {MaxRegs, MaxStops, MaxUses} \subseteq Nat

\* Plan ids: a client's own, and the chain derived from its user, longer than
\* the registry can hold.
Derived(u) == [i \in 1..MaxPlans + 1 |-> <<u, i - 1>>]
Users == {r.user : r \in Requests}
Ids == {r.id : r \in Requests} \cup (Users \X (0..MaxPlans))

NoPlan == [owner |-> "none"]
Idle == [phase |-> "idle"]
Off == [phase |-> "off"]

VARIABLES
  plans,    \* _plans
  rows,     \* plans with a job row open
  warm,     \* _warm
  hand,     \* items marked in flight and not yet on the queue
  queue,
  worker,
  resident, \* models loaded, in any family
  used,     \* models a job holds
  regs, stops, uses

planVars == <<plans, rows, warm>>
cacheVars == <<resident, used, uses>>
vars == <<planVars, hand, queue, worker, cacheVars, regs, stops>>

Live(ps) == {p \in Ids : ps[p] # NoPlan}
WarmOf(ps) == UNION {ps[p].entries : p \in Live(ps)}
Peers(m) == {n \in Models \ {m} : Family[n] = Family[m]}
Single(m) == Family[m] \in Singletons

Init ==
  /\ plans = [p \in Ids |-> NoPlan]
  /\ rows = {}
  /\ warm = {}
  /\ hand = <<>>
  /\ queue = <<>>
  /\ worker = Idle
  /\ resident = {}
  /\ used = {}
  /\ regs = 0 /\ stops = 0 /\ uses = 0

-----------------------------------------------------------------------------
(* The plan registry.                                                          *)

\* Nothing in flight, and nothing left that a stage still to come would retry.
Settled(plan) ==
  /\ plan.inflight = {}
  /\ plan.ahead => \A m \in plan.entries \ plan.warmed : Stage[m] <= plan.cursor

StillOpen(p, plan) == IF Settled(plan) THEN rows \ {p} ELSE rows

\* The first id of the chain that is free or the user's own.
OwnedId(u, p) ==
  LET chain == <<p>> \o Derived(u)
      mine == {i \in DOMAIN chain :
                 plans[chain[i]] = NoPlan \/ plans[chain[i]].owner = u}
  IN chain[CHOOSE i \in mine : \A k \in mine : i <= k]

\* Room in the registry: a plan is dropped for a new one when it is full.
Evicted(p) ==
  IF plans[p] = NoPlan /\ Cardinality(Live(plans)) >= MaxPlans
  THEN {{q} : q \in Live(plans)} ELSE {{}}

Without(m, plan) == [plan EXCEPT !.warmed = @ \ {m}]
MarkedAt(m, idx, plan) ==
  [plan EXCEPT !.warmed = @ \ {m}, !.inflight = @ \cup {m}, !.cursor = idx]

\* What a registration of ms makes of the plan before any entry is admitted.
Merged(u, p, ms, ahead, job) ==
  IF plans[p] = NoPlan
  THEN [owner |-> u, entries |-> ms, cursor |-> -1, ahead |-> ahead,
        warmed |-> {}, inflight |-> {}]
  ELSE [plans[p] EXCEPT
          !.entries = @ \cup ms,
          !.cursor = IF job THEN -1 ELSE @,
          !.ahead = @ \/ ahead,
          !.warmed = @ \cap resident]

\* Each entry is admitted in turn: resident, deferred (whatever the ladder
\* says), or marked and enqueued as long as the queue has room.
RegisterUnder(u, p, ms, ahead, job) ==
  LET base == Merged(u, p, ms, ahead, job)
      todo == ms \ (base.inflight \cup base.warmed \cup resident)
  IN \E out \in Evicted(p), go \in SUBSET todo :
       LET plan == [base EXCEPT
                      !.warmed = @ \cup ((ms \cap resident) \ base.inflight),
                      !.inflight = @ \cup go]
           kept == [q \in Ids |-> IF q \in out THEN NoPlan ELSE plans[q]]
       IN /\ Len(queue) + Cardinality(go) <= MaxQueue \/ go = {}
          /\ plans' = [kept EXCEPT ![p] = plan]
          /\ rows' = IF Settled(plan) THEN rows \ (out \cup {p})
                     ELSE (rows \ out) \cup {p}
          /\ warm' = WarmOf(plans')
          /\ hand' = hand \o [i \in 1..Cardinality(go) |->
                                <<p, SetToSeq(go)[i]>>]

\* A client's POST, under its own id, another's it knows, or one derived for
\* it; or a job's own binding.
Register ==
  /\ regs < MaxRegs
  /\ regs' = regs + 1
  /\ \E r \in Requests :
       RegisterUnder(r.user, OwnedId(r.user, r.id), r.models, r.ahead, r.job)
  /\ UNCHANGED <<queue, worker, cacheVars, stops>>

\* register_plan failed half-way: every plan of the caller's under the ids it
\* could have used goes.
RegisterFails ==
  /\ regs < MaxRegs
  /\ regs' = regs + 1
  /\ \E r \in Requests :
       LET out == {q \in {r.id, Derived(r.user)[1], OwnedId(r.user, r.id)} :
                     plans[q] # NoPlan /\ plans[q].owner = r.user}
       IN /\ plans' = [q \in Ids |-> IF q \in out THEN NoPlan ELSE plans[q]]
          /\ rows' = rows \ out
          /\ warm' = WarmOf(plans')
  /\ UNCHANGED <<hand, queue, worker, cacheVars, stops>>

\* Mutant: the sweep leaves the warm set to the next registration.
SweepLazy(p) ==
  /\ plans[p] # NoPlan
  /\ plans' = [plans EXCEPT ![p] = NoPlan]
  /\ rows' = rows \ {p}
  /\ UNCHANGED warm
  /\ UNCHANGED <<hand, queue, worker, cacheVars, regs, stops>>

\* A plan reached its time to live.
Sweep(p) ==
  /\ plans[p] # NoPlan
  /\ plans' = [plans EXCEPT ![p] = NoPlan]
  /\ rows' = rows \ {p}
  /\ warm' = WarmOf(plans')
  /\ UNCHANGED <<hand, queue, worker, cacheVars, regs, stops>>

-----------------------------------------------------------------------------
(* Stage starts, from a job's progress reports.                                *)

\* The nearest entry ahead of stage idx that is neither in flight nor warm.
NextAhead(plan, idx) ==
  LET ahead == {m \in plan.entries :
                  /\ Stage[m] > idx
                  /\ m \notin plan.inflight
                  /\ ~(m \in plan.warmed /\ m \in resident)}
  IN {m \in ahead : \A n \in ahead : m <= n}

\* The cursor moves on with nothing to warm.
StageOnly(p, idx) ==
  /\ plans[p] # NoPlan
  /\ plans[p].ahead /\ idx > plans[p].cursor
  /\ NextAhead(plans[p], idx) = {}
  /\ \E plan \in {[plans[p] EXCEPT !.cursor = idx]} :
       /\ plans' = [plans EXCEPT ![p] = plan]
       /\ rows' = StillOpen(p, plan)
  /\ UNCHANGED <<warm, hand, queue, worker, cacheVars, regs, stops>>

\* The queue is full: the cursor stays, so that the next tick tries again.
StageFull(p, idx) ==
  /\ plans[p] # NoPlan
  /\ plans[p].ahead /\ idx > plans[p].cursor
  /\ Len(queue) >= MaxQueue
  /\ \E m \in NextAhead(plans[p], idx) :
       /\ m \in plans[p].warmed
       /\ plans' = [plans EXCEPT ![p] = Without(m, @)]
  /\ UNCHANGED <<rows, warm, hand, queue, worker, cacheVars, regs, stops>>

StageWarms(p, idx) ==
  /\ plans[p] # NoPlan
  /\ plans[p].ahead /\ idx > plans[p].cursor
  /\ Len(queue) < MaxQueue
  /\ \E m \in NextAhead(plans[p], idx) :
       /\ plans' = [plans EXCEPT ![p] = MarkedAt(m, idx, @)]
       /\ hand' = Append(hand, <<p, m>>)
  /\ UNCHANGED <<rows, warm, queue, worker, cacheVars, regs, stops>>

\* call_soon_threadsafe lands: the item is on the queue.
Put ==
  /\ \E i \in DOMAIN hand :
       /\ queue' = Append(queue, hand[i])
       /\ hand' = RemoveAt(hand, i)
  /\ UNCHANGED <<planVars, worker, cacheVars, regs, stops>>

\* What an item leaves of its plan, if there still is one.
After(m, plan, warmed, cold) ==
  IF plan = NoPlan THEN NoPlan
  ELSE [plan EXCEPT !.inflight = @ \ {m}, !.warmed = (@ \ cold) \cup warmed]

Ended(item, warmed, cold) == [plans EXCEPT ![item[1]] = After(item[2], @, warmed, cold)]

Closing(item, ps) ==
  IF ps[item[1]] # NoPlan /\ Settled(ps[item[1]]) THEN rows \ {item[1]} ELSE rows

\* The loop is closed: the item is dropped and its mark undone.
DropItem ==
  /\ worker = Off
  /\ \E i \in DOMAIN hand :
       /\ hand' = RemoveAt(hand, i)
       /\ plans' = Ended(hand[i], {}, {})
       /\ rows' = Closing(hand[i], Ended(hand[i], {}, {}))
  /\ UNCHANGED <<warm, queue, worker, cacheVars, regs, stops>>

-----------------------------------------------------------------------------
(* The worker: one item at a time, re-admitted when it is taken.               *)

\* Mutant: the row is left to the next registration.
FinishKeepsRow(item, warmed, cold) ==
  /\ plans' = Ended(item, warmed, cold)
  /\ UNCHANGED rows
  /\ worker' = Idle

\* Mutant: the mark goes only with a model that was loaded.
FinishKeepsMark(item, warmed, cold) ==
  /\ plans' = IF warmed = {} THEN plans ELSE Ended(item, warmed, cold)
  /\ UNCHANGED rows
  /\ worker' = Idle

\* _handle returns or raises: the mark goes, and the row of a settled plan.
\* warmed, cold: what the item has warmed, and what its plan's mark of was stale.
Finish(item, warmed, cold) ==
  /\ plans' = Ended(item, warmed, cold)
  /\ rows' = Closing(item, Ended(item, warmed, cold))
  /\ worker' = Idle

Taken(m) == queue # <<>> /\ worker = Idle /\ Head(queue)[2] = m

\* The plan is gone, or the model is loaded already, or the ladder defers it; a
\* stale warmed mark is dropped first.
TakeAndSkip(m) ==
  /\ Taken(m)
  /\ queue' = Tail(queue)
  /\ UNCHANGED <<resident, used, uses>>
  /\ Finish(Head(queue), {m} \cap resident, {m} \ resident)
  /\ UNCHANGED <<warm, hand, regs, stops>>

\* Admitted: the model is not loaded, no job is in the way, and another model
\* that holds a singleton's place is idle and cold.
Admissible(m) ==
  /\ m \notin resident
  /\ Single(m) => Peers(m) \cap resident \cap (used \cup warm) = {}

TakeAndAdmit(m) ==
  /\ Taken(m)
  /\ plans[Head(queue)[1]] # NoPlan
  /\ Admissible(m)
  /\ queue' = Tail(queue)
  /\ plans' = [plans EXCEPT ![Head(queue)[1]] = Without(m, @)]
  /\ \E peers \in {{}} \cup {{n} : n \in (Peers(m) \cap resident) \ (used \cup warm)} :
       worker' = [phase |-> IF peers = {} THEN "load" ELSE "evict",
                  item |-> Head(queue), peers |-> peers]
  /\ UNCHANGED <<rows, warm, hand, cacheVars, regs, stops>>

\* Mutant: the peer is dropped without a look at its leases.
EvictPeerAny(m) ==
  /\ worker.phase = "evict" /\ worker.item[2] = m
  /\ resident' = resident \ worker.peers
  /\ worker' = [worker EXCEPT !.phase = "load", !.peers = {}]
  /\ UNCHANGED <<planVars, hand, queue, used, uses, regs, stops>>

\* Under the family's lock at last: a singleton drops whatever it caches by
\* now, the others the peer that was chosen; never one in use.
EvictPeer(m) ==
  /\ worker.phase = "evict" /\ worker.item[2] = m
  /\ resident' = resident \ ((IF Single(m) THEN Peers(m) \cup {m}
                              ELSE worker.peers) \ used)
  /\ worker' = [worker EXCEPT !.phase = "load", !.peers = {}]
  /\ UNCHANGED <<planVars, hand, queue, used, uses, regs, stops>>

\* A singleton's load drops the other model it caches.
Loaded(m) ==
  /\ worker.phase = "load" /\ worker.item[2] = m
  /\ ~(Single(m) /\ Peers(m) \cap used # {})
  /\ resident' = (resident \ (IF Single(m) THEN Peers(m) ELSE {})) \cup {m}
  /\ Finish(worker.item, {m}, {})
  /\ UNCHANGED <<warm, hand, queue, used, uses, regs, stops>>

\* It raised, or a singleton declined: a job holds its place.
NotLoaded(m) ==
  /\ worker.phase = "load" /\ worker.item[2] = m
  /\ UNCHANGED resident
  /\ Finish(worker.item, {}, {})
  /\ UNCHANGED <<warm, hand, queue, used, uses, regs, stops>>

WorkerBusy == worker.phase \in {"evict", "load"}

\* stop() cancels the worker, wherever it is; its finally still runs.
Stop ==
  /\ worker # Off /\ stops < MaxStops
  /\ stops' = stops + 1
  /\ worker' = Off
  /\ IF WorkerBusy
     THEN /\ plans' = Ended(worker.item, {}, {})
          /\ rows' = Closing(worker.item, Ended(worker.item, {}, {}))
     ELSE UNCHANGED <<plans, rows>>
  /\ UNCHANGED <<warm, hand, queue, cacheVars, regs>>

\* Mutant: a new lifespan's queue leaves the old one's marks.
StartForgetful ==
  /\ worker = Off
  /\ worker' = Idle
  /\ queue' = <<>>
  /\ hand' = <<>>
  /\ UNCHANGED <<plans, rows>>
  /\ UNCHANGED <<warm, cacheVars, regs, stops>>

\* start() on a new loop: a fresh queue, and the marks of what the old one held
\* go with it. An item already handed to the old loop is lost.
Start ==
  /\ worker = Off
  /\ worker' = Idle
  /\ queue' = <<>>
  /\ hand' \in {<<>>, hand}
  /\ plans' = [p \in Ids |-> IF plans[p] = NoPlan THEN NoPlan
                             ELSE [plans[p] EXCEPT !.inflight = {}]]
  /\ rows' = {p \in rows : ~Settled(plans'[p])}
  /\ UNCHANGED <<warm, cacheVars, regs, stops>>

-----------------------------------------------------------------------------
(* The caches, as jobs and the idle evictors move them.                        *)

\* A job takes a model, loading it if need be; its need comes before warmth, so
\* idle peers may go.
JobTakes(m) ==
  /\ uses < MaxUses
  /\ uses' = uses + 1
  /\ m \notin used
  /\ used' = used \cup {m}
  /\ \E gone \in {{}, Peers(m) \ used} :
       /\ Single(m) => gone = Peers(m) \ used
       /\ resident' = (resident \ gone) \cup {m}
  /\ UNCHANGED <<planVars, hand, queue, worker, regs, stops>>

JobEnds(m) ==
  /\ m \in used
  /\ used' = used \ {m}
  /\ UNCHANGED <<planVars, hand, queue, worker, resident, uses, regs, stops>>

IdleEvict(m) ==
  /\ m \in resident \ (used \cup warm)
  /\ resident' = resident \ {m}
  /\ UNCHANGED <<planVars, hand, queue, worker, used, uses, regs, stops>>

WorkerStep ==
  \/ Put
  \/ \E m \in Models :
       TakeAndSkip(m) \/ TakeAndAdmit(m) \/ EvictPeer(m) \/ Loaded(m) \/ NotLoaded(m)

Next ==
  \/ Register \/ RegisterFails
  \/ \E p \in Ids :
       \/ Sweep(p)
       \/ \E idx \in {0} \cup {Stage[m] : m \in Models} :
            StageOnly(p, idx) \/ StageFull(p, idx) \/ StageWarms(p, idx)
  \/ DropItem \/ Stop \/ Start
  \/ \E m \in Models : JobTakes(m) \/ JobEnds(m) \/ IdleEvict(m)
  \/ WorkerStep

\* The event loop runs what is handed to it, and the worker takes its items.
WorkerRuns ==
  \/ []<>((hand = <<>> /\ queue = <<>> /\ ~WorkerBusy) \/ worker = Off)
  \/ []<><<WorkerStep>>_vars

Spec == Init /\ [][Next]_vars
FairSpec == Spec /\ WorkerRuns

-----------------------------------------------------------------------------

Plans == [owner : Users, entries : SUBSET Models, cursor : -1..3, ahead : BOOLEAN,
          warmed : SUBSET Models, inflight : SUBSET Models]

TypeOK ==
  /\ \A p \in Live(plans) : plans[p] \in Plans
  /\ rows \subseteq Ids /\ warm \subseteq Models
  /\ hand \in Seq(Ids \X Models) /\ queue \in Seq(Ids \X Models)
  /\ worker.phase \in {"idle", "off", "evict", "load"}
  /\ resident \subseteq Models /\ used \subseteq Models

\* The warm set is the union of the registered plans, so a plan that ends gives
\* up its models' warmth and no other's: no leak that would pin a model against
\* the idle evictors (_recompute_warm_locked).
WarmIsUnion == warm = WarmOf(plans)

Handled == IF WorkerBusy THEN {worker.item} ELSE {}

\* A key marked in flight has its item on the way: with a progress thread, on
\* the queue or with the worker. A mark left behind would answer "queued" to
\* every later POST and be skipped by every stage start, so that nothing ever
\* loads the model (_forget_inflight, start, the worker's finally).
NoStuckMark ==
  \A p \in Live(plans) : \A m \in plans[p].inflight :
    <<p, m>> \in Range(hand) \cup Range(queue) \cup Handled

\* A job row in /stats belongs to a registered plan with something still to
\* load: it is closed by whichever of the worker, a stage start, a dropped item,
\* an eviction or a restart settles the plan.
RowsEnd == \A p \in rows : plans[p] # NoPlan /\ ~Settled(plans[p])

\* A peer chosen before the wait for its family's lock is looked at again under it:
\* no model that a job holds is dropped (_evict).
UsedStay == used \subseteq resident

\* What is warm follows the plans, no mark is in flight without its item, no stats
\* row is open without work left to do, and no model in use is dropped, however long
\* ago it was chosen (_recompute_warm_locked, _forget_inflight,
\* _end_job_if_settled_locked, _evict).
PlansAccounted == TypeOK /\ WarmIsUnion /\ NoStuckMark /\ RowsEnd /\ UsedStay

\* What is marked in flight is acted on: again and again nothing is in flight,
\* unless the worker is stopped. (Registrations and stage starts are finite in
\* the model, so this says that each mark is resolved.)
MarksResolved ==
  []<>(worker = Off \/ \A p \in Live(plans) : plans[p].inflight = {})

=============================================================================
