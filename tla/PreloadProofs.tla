---------------------------- MODULE PreloadProofs ----------------------------
(***************************************************************************)
(* Theorems about Preload, for any models, families, users and requests,   *)
(* any caps, and any number of registrations, restarts and jobs.           *)
(***************************************************************************)
EXTENDS Preload, FiniteSetTheorems, FunctionTheorems, SequenceTheorems,
        WellFoundedInduction, TLAPS

Items == Ids \X Models
Registry == [Ids -> Plans \cup {NoPlan}]
Working == [phase : {"evict", "load"}, item : Items, peers : SUBSET Models]

OnTheWay == Range(hand) \cup Range(queue) \cup Handled

\* The registry never holds more than _MAX_PLANS, so that the chain of ids
\* derived for a user has one that is free.
Bounded == IsFiniteSet(Live(plans)) /\ Cardinality(Live(plans)) <= MaxPlans

PlanInv == plans \in Registry /\ Bounded /\ WarmIsUnion
WayInv ==
  /\ hand \in Seq(Items) /\ queue \in Seq(Items)
  /\ worker \in {Idle, Off} \cup Working
  /\ NoStuckMark
RowInv == rows \subseteq Ids /\ RowsEnd
CacheInv == resident \subseteq Models /\ used \subseteq resident

IInv == PlanInv /\ WayInv /\ RowInv /\ CacheInv

-----------------------------------------------------------------------------
(* A plan and what is done to it.                                          *)

LEMMA PlanIsAPlan == NoPlan \notin Plans
<1>1. ASSUME NoPlan \in Plans PROVE FALSE
  <2>1. "entries" \in DOMAIN NoPlan
    BY <1>1 DEF Plans
  <2>2. "entries" \notin DOMAIN NoPlan
    BY DEF NoPlan
  <2>3. QED
    BY <2>1, <2>2
<1>2. QED
  BY <1>1

LEMMA Unwarmed ==
  ASSUME NEW plan \in Plans, NEW m \in Models
  PROVE  /\ Without(m, plan) \in Plans
         /\ Without(m, plan).entries = plan.entries
         /\ Without(m, plan).inflight = plan.inflight
         /\ Settled(Without(m, plan)) => Settled(plan)
<1>1. /\ Without(m, plan) \in Plans
      /\ Without(m, plan).entries = plan.entries
      /\ Without(m, plan).ahead = plan.ahead
      /\ Without(m, plan).cursor = plan.cursor
      /\ Without(m, plan).warmed = plan.warmed \ {m}
      /\ Without(m, plan).inflight = plan.inflight
  BY DEF Plans, Without
<1>2. QED
  BY <1>1 DEF Settled

\* Of every plan but the item's nothing changes, of the item's its mark goes.
Unmarks(item, ps) ==
  /\ ps \in Registry
  /\ \A q \in Ids :
       /\ ps[q] = NoPlan <=> plans[q] = NoPlan
       /\ q # item[1] => ps[q] = plans[q]
       /\ plans[q] # NoPlan =>
            /\ ps[q].entries = plans[q].entries
            /\ ps[q].inflight \subseteq plans[q].inflight
            /\ q = item[1] => ps[q].inflight = plans[q].inflight \ {item[2]}

\* A plan from which the mark of its item m is gone.
Unmarked(m, plan, new) ==
  /\ new \in Plans /\ new # NoPlan
  /\ new.entries = plan.entries
  /\ new.inflight = plan.inflight \ {m}

LEMMA AfterFields ==
  ASSUME NEW plan \in Plans, NEW m \in Models, NEW ms \in SUBSET Models, NEW cs \in SUBSET Models
  PROVE  Unmarked(m, plan, After(m, plan, ms, cs))
<1> DEFINE new == [plan EXCEPT !.inflight = @ \ {m}, !.warmed = (@ \ cs) \cup ms]
<1>1. plan # NoPlan
  BY PlanIsAPlan
<1>2. After(m, plan, ms, cs) = new
  BY <1>1 DEF After
<1>3. new \in Plans /\ new.entries = plan.entries /\ new.inflight = plan.inflight \ {m}
  BY DEF Plans
<1>4. QED
  BY <1>2, <1>3, PlanIsAPlan DEF Unmarked

LEMMA EndedUnmarks ==
  ASSUME plans \in Registry, NEW item \in Items, NEW ms \in SUBSET Models, NEW cs \in SUBSET Models
  PROVE  Unmarks(item, Ended(item, ms, cs))
<1> DEFINE p == item[1]
           m == item[2]
<1>0. p \in Ids /\ m \in Models
  BY DEF Items
<1>1. Ended(item, ms, cs) = [plans EXCEPT ![p] = After(m, plans[p], ms, cs)]
  BY DEF Ended
<1>2. CASE plans[p] = NoPlan
  BY <1>0, <1>1, <1>2 DEF Unmarks, Registry, After
<1>3. CASE plans[p] # NoPlan
  <2>1. plans[p] \in Plans
    BY <1>0, <1>3 DEF Registry
  <2>2. PICK plan \in Plans : plan = plans[p]
    BY <2>1
  <2>3. Unmarked(m, plan, After(m, plan, ms, cs))
    BY <1>0, AfterFields
  <2>4. QED
    BY <1>0, <1>1, <1>3, <2>1, <2>2, <2>3 DEF Unmarks, Unmarked, Registry
<1>4. QED
  BY <1>2, <1>3

-----------------------------------------------------------------------------
(* Where items are, as they move.                                          *)

LEMMA InRange ==
  ASSUME NEW s \in Seq(Items)
  PROVE  /\ Len(s) \in Nat
         /\ \A x : x \in Range(s) <=> \E i \in 1..Len(s) : s[i] = x
BY LenProperties DEF Range

LEMMA RangeAppend ==
  ASSUME NEW s \in Seq(Items), NEW x \in Items
  PROVE  Append(s, x) \in Seq(Items) /\ Range(Append(s, x)) = Range(s) \cup {x}
<1>1. /\ Append(s, x) \in Seq(Items)
      /\ Len(s) \in Nat
      /\ Len(Append(s, x)) = Len(s) + 1
      /\ Append(s, x)[Len(s) + 1] = x
      /\ \A i \in 1..Len(s) : Append(s, x)[i] = s[i]
  BY AppendProperties, LenProperties
<1>2. ASSUME NEW y
      PROVE  y \in Range(Append(s, x)) <=> y \in Range(s) \cup {x}
  <2>1. y \in Range(s) <=> \E i \in 1..Len(s) : s[i] = y
    BY InRange
  <2>2. y \in Range(Append(s, x)) <=>
          \E i \in 1..Len(s) + 1 : Append(s, x)[i] = y
    BY ZenonT(40), <1>1, InRange
  <2>3. QED
    BY <1>1, <2>1, <2>2
<1>3. QED
  BY <1>1, <1>2

LEMMA RangeTail ==
  ASSUME NEW s \in Seq(Items), s # <<>>
  PROVE  /\ Head(s) \in Items /\ Tail(s) \in Seq(Items)
         /\ Range(s) = Range(Tail(s)) \cup {Head(s)}
<1>1. /\ Head(s) \in Items /\ Head(s) = s[1]
      /\ Tail(s) \in Seq(Items)
      /\ Len(s) \in Nat \ {0}
      /\ Len(Tail(s)) = Len(s) - 1
      /\ \A i \in 1..Len(Tail(s)) : Tail(s)[i] = s[i + 1]
  BY HeadTailProperties, EmptySeq
<1>2. ASSUME NEW y
      PROVE  y \in Range(s) <=> y \in Range(Tail(s)) \cup {Head(s)}
  <2>1. y \in Range(s) <=> \E i \in 1..Len(s) : s[i] = y
    BY InRange
  <2>2. y \in Range(Tail(s)) <=> \E j \in 1..Len(Tail(s)) : s[1 + j] = y
    <3>1. y \in Range(Tail(s)) <=> \E j \in 1..Len(Tail(s)) : Tail(s)[j] = y
      BY <1>1, InRange
    <3>2. \A j \in 1..Len(Tail(s)) : Tail(s)[j] = s[1 + j]
      BY <1>1
    <3>3. QED
      BY <3>1, <3>2
  <2>3. ASSUME NEW i \in 1..Len(s), s[i] = y
        PROVE  y \in Range(Tail(s)) \cup {Head(s)}
    <3>1. i = 1 \/ (i - 1 \in 1..Len(Tail(s)) /\ s[1 + (i - 1)] = y)
      BY <1>1, <2>3
    <3>2. QED
      BY <1>1, <2>2, <2>3, <3>1
  <2>4. QED
    BY <1>1, <2>1, <2>2, <2>3
<1>3. QED
  BY <1>1, <1>2

LEMMA RangeRemoveAt ==
  ASSUME NEW s \in Seq(Items), NEW i \in DOMAIN s
  PROVE  /\ s[i] \in Items /\ RemoveAt(s, i) \in Seq(Items)
         /\ Range(s) = Range(RemoveAt(s, i)) \cup {s[i]}
<1> DEFINE a == SubSeq(s, 1, i - 1)
           b == SubSeq(s, i + 1, Len(s))
<1>1. Len(s) \in Nat /\ i \in 1..Len(s) /\ \A j \in 1..Len(s) : s[j] \in Items
  BY LenProperties, ElementOfSeq
<1>2. /\ a \in Seq(Items) /\ Len(a) = i - 1
      /\ \A j \in 1..i - 1 : a[j] = s[j]
  <2>1. \A j \in 1..i - 1 : s[j] \in Items
    BY <1>1
  <2>2. QED
    BY <1>1, <2>1, SubSeqProperties
<1>3. /\ b \in Seq(Items) /\ Len(b) = Len(s) - i
      /\ \A j \in 1..Len(s) - i : b[j] = s[i + j]
  <2>1. \A j \in i + 1..Len(s) : s[j] \in Items
    BY <1>1
  <2>2. /\ b \in Seq(Items)
        /\ Len(b) = IF i + 1 <= Len(s) THEN Len(s) - (i + 1) + 1 ELSE 0
        /\ \A j \in 1..Len(s) - (i + 1) + 1 : b[j] = s[i + 1 + j - 1]
    BY <1>1, <2>1, SubSeqProperties
  <2>3. QED
    BY <1>1, <2>2
<1>4. /\ RemoveAt(s, i) \in Seq(Items)
      /\ Range(RemoveAt(s, i)) = Range(a) \cup Range(b)
  BY ZenonT(40), <1>2, <1>3, ConcatProperties, RangeConcatenation DEF RemoveAt
<1>5. ASSUME NEW y
      PROVE  /\ y \in Range(s) <=> \E j \in 1..Len(s) : s[j] = y
             /\ y \in Range(a) <=> \E j \in 1..i - 1 : s[0 + j] = y
             /\ y \in Range(b) <=> \E j \in 1..Len(s) - i : s[i + j] = y
  <2> HIDE DEF a, b
  <2>1. y \in Range(s) <=> \E j \in 1..Len(s) : s[j] = y
    BY InRange
  <2>2. y \in Range(a) <=> \E j \in 1..Len(a) : s[0 + j] = y
    <3>1. y \in Range(a) <=> \E j \in 1..Len(a) : a[j] = y
      BY <1>2, InRange
    <3>2. \A j \in 1..Len(a) : a[j] = s[0 + j]
      BY <1>1, <1>2
    <3>3. QED
      BY <3>1, <3>2
  <2>3. y \in Range(b) <=> \E j \in 1..Len(b) : s[i + j] = y
    <3>1. y \in Range(b) <=> \E j \in 1..Len(b) : b[j] = y
      BY <1>3, InRange
    <3>2. QED
      BY <1>3, <3>1
  <2>4. QED
    BY <1>2, <1>3, <2>1, <2>2, <2>3
<1> HIDE DEF a, b
<1>6. ASSUME NEW y, NEW j \in 1..Len(s), s[j] = y
      PROVE  y \in Range(a) \cup Range(b) \cup {s[i]}
  <2>1. CASE j < i
    BY <1>1, <1>5, <1>6, <2>1
  <2>2. CASE j > i
    <3>1. j - i \in 1..Len(s) - i /\ s[i + (j - i)] = y
      BY <1>1, <1>6, <2>2
    <3>2. QED
      BY <1>5, <3>1
  <2>3. CASE j = i
    BY <1>6, <2>3
  <2>4. QED
    BY <1>1, <2>1, <2>2, <2>3
<1>7. ASSUME NEW y \in Range(a) \cup Range(b) \cup {s[i]}
      PROVE  y \in Range(s)
  <2>1. /\ \A j \in 1..i - 1 : j \in 1..Len(s) /\ 0 + j = j
        /\ \A j \in 1..Len(s) - i : i + j \in 1..Len(s)
    BY <1>1
  <2>2. CASE y \in Range(a)
    BY <1>5, <2>1, <2>2
  <2>3. CASE y \in Range(b)
    <3>1. PICK j \in 1..Len(s) - i : s[i + j] = y
      BY <1>5, <2>3
    <3>2. QED
      BY <1>5, <2>1, <3>1
  <2>4. QED
    BY <1>1, <1>5, <1>7, <2>2, <2>3
<1>8. Range(s) = Range(a) \cup Range(b) \cup {s[i]}
  BY <1>5, <1>6, <1>7
<1>9. QED
  BY <1>1, <1>4, <1>8

\* The items of a registration, in whatever order they are handed over.
LEMMA RangeOfBatch ==
  ASSUME NEW p \in Ids, NEW go \in SUBSET Models
  PROVE  LET batch == [i \in 1..Cardinality(go) |-> <<p, SetToSeq(go)[i]>>]
         IN batch \in Seq(Items) /\ Range(batch) = {p} \X go
<1> DEFINE n == Cardinality(go)
           f == SetToSeq(go)
           batch == [i \in 1..n |-> <<p, f[i]>>]
<1>1. IsFiniteSet(go)
  <2>1. IsFiniteSet(Models)
    BY PreloadAssumption, FS_Interval
  <2>2. QED
    BY <2>1, FS_Subset
<1>2. n \in Nat /\ ExistsBijection(1..n, go)
  BY <1>1, FS_CardinalityType
<1>3. f \in [1..n -> go] /\ IsInjective(f)
  <2>1. PICK g : g \in Bijection(1..n, go)
    BY <1>2 DEF ExistsBijection
  <2>2. g \in [1..n -> go] /\ IsInjective(g)
    BY <2>1, Fun_BijectionProperties DEF IsInjective, Bijection, Injection
  <2>3. QED
    BY <2>2 DEF SetToSeq
<1>4. f \in Injection(1..n, go)
  BY <1>3 DEF Injection
<1>5. IsFiniteSet(1..n) /\ Cardinality(1..n) = n
  BY <1>2, FS_Interval
<1>6. f \in Surjection(1..n, go)
  BY <1>1, <1>4, <1>5, FS_Injection
<1>7. \A m \in go : \E i \in 1..n : f[i] = m
  BY <1>6 DEF Surjection
<1> HIDE DEF f, n
<1>8. batch \in Seq(Items)
  BY <1>2, <1>3, IsASeq DEF Items
<1>9. Range(batch) = {p} \X go
  BY <1>3, <1>7 DEF Range
<1>10. QED
  BY <1>8, <1>9 DEF f, n

-----------------------------------------------------------------------------
(* The invariants under what the actions do.                               *)

\* The plans stay, with their entries.
LEMMA PlansStay ==
  ASSUME PlanInv, plans' \in Registry, warm' = warm,
         \A q \in Ids :
           /\ plans'[q] = NoPlan <=> plans[q] = NoPlan
           /\ plans[q] # NoPlan => plans'[q].entries = plans[q].entries
  PROVE  PlanInv'
<1>1. Live(plans') = Live(plans)
  BY DEF Live
<1>2. \A q \in Live(plans) : plans'[q].entries = plans[q].entries
  BY DEF Live
<1>3. {plans'[q].entries : q \in Live(plans')} = {plans[q].entries : q \in Live(plans)}
  BY <1>1, <1>2
<1>4. WarmOf(plans') = WarmOf(plans)
  BY <1>3 DEF WarmOf
<1>5. QED
  BY <1>1, <1>4 DEF PlanInv, Bounded, WarmIsUnion

\* Some plans go.
LEMMA PlansGo ==
  ASSUME PlanInv, plans' \in Registry, warm' = WarmOf(plans'),
         \A q \in Ids : plans[q] = NoPlan => plans'[q] = NoPlan
  PROVE  PlanInv'
<1>1. Live(plans') \subseteq Live(plans)
  BY DEF Live
<1>2. /\ IsFiniteSet(Live(plans')) /\ Cardinality(Live(plans')) <= Cardinality(Live(plans))
      /\ Cardinality(Live(plans)) \in Nat /\ Cardinality(Live(plans')) \in Nat
  BY <1>1, FS_Subset, FS_CardinalityType DEF PlanInv, Bounded
<1>3. QED
  BY <1>2, PreloadAssumption DEF PlanInv, Bounded, WarmIsUnion

\* No mark is new, and no item is gone.
LEMMA MarksStay ==
  ASSUME NoStuckMark,
         OnTheWay \subseteq OnTheWay',
         \A q \in Ids : plans'[q] # NoPlan =>
           plans[q] # NoPlan /\ plans'[q].inflight \subseteq plans[q].inflight
  PROVE  NoStuckMark'
BY DEF NoStuckMark, OnTheWay, Live

\* An item is gone, and its mark with it.
LEMMA MarkGoes ==
  ASSUME NoStuckMark, NEW item \in Items, Unmarks(item, plans'),
         OnTheWay \subseteq OnTheWay' \cup {item}
  PROVE  NoStuckMark'
<1> SUFFICES ASSUME NEW q \in Ids, plans'[q] # NoPlan,
                    NEW m \in plans'[q].inflight
             PROVE  <<q, m>> \in OnTheWay'
  BY DEF NoStuckMark, OnTheWay, Live
<1>1. plans[q] # NoPlan /\ m \in plans[q].inflight
  BY DEF Unmarks
<1>2. <<q, m>> \in OnTheWay
  BY <1>1 DEF NoStuckMark, OnTheWay, Live
<1>3. <<q, m>> # item
  <2>1. CASE q = item[1]
    BY <1>1, <2>1 DEF Unmarks
  <2>2. CASE q # item[1]
    BY <2>2
  <2>3. QED
    BY <2>1, <2>2
<1>4. QED
  BY <1>2, <1>3

\* The row of a plan that is settled goes with its last mark.
LEMMA RowGoes ==
  ASSUME RowInv, NEW item \in Items, Unmarks(item, plans'),
         rows' = Closing(item, plans')
  PROVE  RowInv'
BY DEF RowInv, RowsEnd, Unmarks, Closing

\* A plan as it was, or with a mark that is not undone.
LEMMA RowsStay ==
  ASSUME RowInv, rows' \subseteq rows,
         \A q \in rows' : plans[q] # NoPlan =>
           plans'[q] # NoPlan /\ (Settled(plans'[q]) => Settled(plans[q]))
  PROVE  RowInv'
BY DEF RowInv, RowsEnd

LEMMA WayStays ==
  ASSUME UNCHANGED <<hand, queue>>, Handled' = Handled
  PROVE  OnTheWay' = OnTheWay
BY DEF OnTheWay

-----------------------------------------------------------------------------
(* Whose plan a registration joins.                                        *)

LEMMA OwnedIsFree ==
  ASSUME PlanInv, NEW u \in Users, NEW p \in Ids
  PROVE  /\ OwnedId(u, p) \in Ids
         /\ \/ plans[OwnedId(u, p)] = NoPlan
            \/ plans[OwnedId(u, p)].owner = u
<1> DEFINE n == MaxPlans + 1
           chain == <<p>> \o Derived(u)
           mine == {i \in DOMAIN chain :
                      plans[chain[i]] = NoPlan \/ plans[chain[i]].owner = u}
<1>1. MaxPlans \in Nat
  BY PreloadAssumption
<1>2. Derived(u) \in Seq(Ids) /\ Len(Derived(u)) = n /\ <<p>> \in Seq(Ids)
  <2>1. Derived(u) \in [1..n -> Ids]
    BY <1>1 DEF Derived, Ids
  <2>2. QED
    BY <1>1, <2>1
<1>3. /\ chain \in Seq(Ids) /\ DOMAIN chain = 1..n + 1
      /\ \A i \in 1..n : chain[i + 1] = Derived(u)[i]
  BY <1>1, <1>2, ConcatProperties, LenProperties
<1>4. mine # {}
  <2>0. SUFFICES ASSUME mine = {} PROVE FALSE
    OBVIOUS
  <2>1. ASSUME NEW i \in 1..n PROVE plans[Derived(u)[i]] # NoPlan
    <3>1. i + 1 \in DOMAIN chain /\ chain[i + 1] = Derived(u)[i]
      BY <1>1, <1>3
    <3> HIDE DEF chain
    <3>2. QED
      BY <2>0, <3>1
  <2>2. Derived(u) \in Injection(1..n, Live(plans))
    <3>1. \A i \in 1..n : Derived(u)[i] = <<u, i - 1>>
      BY DEF Derived
    <3>2. DOMAIN Derived(u) = 1..n
      BY DEF Derived
    <3>3. Derived(u) \in [1..n -> Live(plans)]
      BY <1>2, <2>1, <3>2 DEF Live
    <3>4. IsInjective(Derived(u))
      BY <1>1, <3>1, <3>2 DEF IsInjective
    <3>5. QED
      BY <3>3, <3>4 DEF Injection
  <2>3. Cardinality(1..n) = n
    BY <1>1, FS_Interval
  <2>4. n <= Cardinality(Live(plans))
    BY <2>2, <2>3, FS_Injection DEF PlanInv, Bounded
  <2>5. QED
    BY <1>1, <2>4, FS_CardinalityType DEF PlanInv, Bounded
<1>5. \E i \in mine : \A k \in mine : i <= k
  <2>1. mine \subseteq Nat
    BY <1>1, <1>3
  <2> HIDE DEF mine
  <2>2. PICK i \in mine : \A k \in mine : <<k, i>> \notin OpToRel(<, Nat)
    BY <1>4, <2>1, WFMin, NatLessThanWellFounded
  <2>3. \A k \in mine : ~(k < i)
    BY <2>1, <2>2 DEF OpToRel
  <2>4. QED
    BY <2>1, <2>3
<1>6. (CHOOSE i \in mine : \A k \in mine : i <= k) \in mine
  BY <1>5
<1>7. OwnedId(u, p) = chain[CHOOSE i \in mine : \A k \in mine : i <= k]
  BY DEF OwnedId
<1>8. \A i \in mine : chain[i] \in Ids /\ (plans[chain[i]] = NoPlan \/ plans[chain[i]].owner = u)
  BY <1>3, ElementOfSeq, LenProperties
<1> HIDE DEF mine, chain
<1>9. QED
  BY <1>6, <1>7, <1>8

-----------------------------------------------------------------------------
(* Registrations, expiry, stage starts.                                    *)

LEMMA MergedFields ==
  ASSUME plans \in Registry, resident \subseteq Models,
         NEW u \in Users, NEW p \in Ids, NEW ms \in SUBSET Models,
         NEW ahead \in BOOLEAN, NEW job \in BOOLEAN
  PROVE  LET base == Merged(u, p, ms, ahead, job)
         IN /\ base \in Plans
            /\ base.inflight = IF plans[p] = NoPlan THEN {} ELSE plans[p].inflight
<1>1. CASE plans[p] = NoPlan
  BY <1>1 DEF Merged, Plans
<1>2. CASE plans[p] # NoPlan
  <2>1. plans[p] \in Plans
    BY <1>2 DEF Registry
  <2> DEFINE es == plans[p].entries \cup ms
             c == IF job THEN -1 ELSE plans[p].cursor
             a == plans[p].ahead \/ ahead
             ws == plans[p].warmed \cap resident
  <2>2. es \in SUBSET Models /\ c \in -1..3 /\ ws \in SUBSET Models
    BY <2>1 DEF Plans
  <2>3. a \in BOOLEAN
    BY Zenon
  <2>4. Merged(u, p, ms, ahead, job) =
          [plans[p] EXCEPT !.entries = es, !.cursor = c, !.ahead = a, !.warmed = ws]
    BY <1>2 DEF Merged
  <2> HIDE DEF es, c, a, ws
  <2>5. QED
    BY <1>2, <2>1, <2>2, <2>3, <2>4 DEF Plans
<1>3. QED
  BY <1>1, <1>2

LEMMA RegisterKeeps ==
  ASSUME IInv, NEW u \in Users, NEW p \in Ids, NEW ms \in SUBSET Models,
         NEW ahead \in BOOLEAN, NEW job \in BOOLEAN,
         RegisterUnder(u, p, ms, ahead, job),
         UNCHANGED <<queue, worker, cacheVars>>
  PROVE  IInv'
<1> DEFINE base == Merged(u, p, ms, ahead, job)
           todo == ms \ (base.inflight \cup base.warmed \cup resident)
           batch(go) == [i \in 1..Cardinality(go) |-> <<p, SetToSeq(go)[i]>>]
           grown(go) == [base EXCEPT !.warmed = @ \cup ((ms \cap resident) \ base.inflight),
                                     !.inflight = @ \cup go]
           kept(out) == [q \in Ids |-> IF q \in out THEN NoPlan ELSE plans[q]]
<1>1. PICK out \in Evicted(p), go \in SUBSET todo :
        /\ plans' = [kept(out) EXCEPT ![p] = grown(go)]
        /\ rows' = IF Settled(grown(go)) THEN rows \ (out \cup {p})
                   ELSE (rows \ out) \cup {p}
        /\ warm' = WarmOf(plans')
        /\ hand' = hand \o batch(go)
  BY DEF RegisterUnder
<1>2. /\ base \in Plans
      /\ base.inflight = IF plans[p] = NoPlan THEN {} ELSE plans[p].inflight
  BY MergedFields DEF IInv, PlanInv, CacheInv
<1> HIDE DEF base
<1>3. go \in SUBSET Models
  OBVIOUS
<1>4. grown(go) \in Plans /\ grown(go).inflight = base.inflight \cup go
  BY <1>2, <1>3 DEF Plans
<1>5. grown(go) # NoPlan
  BY <1>4, PlanIsAPlan
<1> DEFINE plan == grown(go)
<1> HIDE DEF grown, todo
<1>6. /\ plans' \in Registry
      /\ plans'[p] = plan
      /\ \A q \in Ids \ {p} : plans'[q] = IF q \in out THEN NoPlan ELSE plans[q]
  BY <1>1, <1>4 DEF Registry, IInv, PlanInv
<1>7. PlanInv'
  <2>1. /\ IsFiniteSet(Live(plans)) /\ Cardinality(Live(plans)) \in Nat
        /\ Cardinality(Live(plans)) <= MaxPlans /\ MaxPlans \in Nat \ {0}
    BY FS_CardinalityType, PreloadAssumption DEF IInv, PlanInv, Bounded
  <2>2. ASSUME NEW S, IsFiniteSet(S), Cardinality(S) < MaxPlans \/ p \in S,
               Cardinality(S) <= MaxPlans,
               Live(plans') \subseteq S \cup {p}
        PROVE  Bounded'
    <3>1. /\ IsFiniteSet(S \cup {p}) /\ Cardinality(S) \in Nat
          /\ Cardinality(S \cup {p}) = IF p \in S THEN Cardinality(S) ELSE Cardinality(S) + 1
      BY <2>2, FS_AddElement, FS_CardinalityType
    <3>2. Cardinality(S \cup {p}) <= MaxPlans
      BY <2>1, <2>2, <3>1
    <3>3. /\ IsFiniteSet(Live(plans'))
          /\ Cardinality(Live(plans')) <= Cardinality(S \cup {p})
          /\ Cardinality(Live(plans')) \in Nat
      BY <2>2, <3>1, FS_Subset, FS_CardinalityType
    <3>4. QED
      BY <2>1, <3>1, <3>2, <3>3 DEF Bounded
  <2>3. Live(plans') \subseteq (Live(plans) \ out) \cup {p}
    BY <1>6 DEF Live
  <2>4. CASE plans[p] # NoPlan \/ Cardinality(Live(plans)) < MaxPlans
    <3>1. p \in Live(plans) \/ Cardinality(Live(plans)) < MaxPlans
      BY <2>4 DEF Live
    <3>2. Bounded'
      BY <2>1, <2>2, <2>3, <3>1
    <3>3. QED
      BY <1>1, <1>6, <3>2 DEF PlanInv, WarmIsUnion
  <2>5. CASE plans[p] = NoPlan /\ ~(Cardinality(Live(plans)) < MaxPlans)
    <3>1. PICK q \in Live(plans) : out = {q}
      BY <2>1, <2>5 DEF Evicted
    <3>2. /\ IsFiniteSet(Live(plans) \ {q})
          /\ Cardinality(Live(plans) \ {q}) = Cardinality(Live(plans)) - 1
      BY <2>1, FS_RemoveElement
    <3>3. Bounded'
      BY <2>1, <2>2, <2>3, <3>1, <3>2
    <3>4. QED
      BY <1>1, <1>6, <3>3 DEF PlanInv, WarmIsUnion
  <2>6. QED
    BY <2>4, <2>5
<1>8. WayInv'
  <2>1. /\ batch(go) \in Seq(Items) /\ Range(batch(go)) = {p} \X go
    BY <1>3, RangeOfBatch
  <2> HIDE DEF batch
  <2>2. hand' \in Seq(Items) /\ Range(hand') = Range(hand) \cup ({p} \X go)
    BY <1>1, <2>1, ConcatProperties, RangeConcatenation DEF IInv, WayInv
  <2>3. Handled' = Handled
    BY DEF Handled, WorkerBusy
  <2>4. ASSUME NEW q \in Ids, plans'[q] # NoPlan, NEW m \in plans'[q].inflight
        PROVE  <<q, m>> \in OnTheWay'
    <3>1. OnTheWay' = OnTheWay \cup ({p} \X go)
      BY <2>2, <2>3 DEF OnTheWay
    <3>2. CASE q = p /\ m \in go
      BY <3>1, <3>2
    <3>3. CASE plans[q] # NoPlan /\ m \in plans[q].inflight
      BY <3>1, <3>3 DEF IInv, WayInv, NoStuckMark, OnTheWay, Live
    <3>4. QED
      BY <1>2, <1>4, <1>6, <2>4, <3>2, <3>3
  <2>5. NoStuckMark'
    BY <2>4 DEF NoStuckMark, OnTheWay, Live
  <2>6. QED
    BY <2>2, <2>5 DEF IInv, WayInv
<1>9. RowInv'
  <2>1. ASSUME NEW q \in rows' PROVE plans'[q] # NoPlan /\ ~Settled(plans'[q])
    <3>1. CASE q = p
      BY <1>1, <1>5, <1>6, <3>1
    <3>2. CASE q # p
      BY <1>1, <1>6, <3>2 DEF IInv, RowInv, RowsEnd
    <3>3. QED
      BY <3>1, <3>2
  <2>2. rows' \subseteq Ids
    BY <1>1 DEF IInv, RowInv
  <2>3. QED
    BY <2>1, <2>2 DEF RowInv, RowsEnd
<1>10. QED
  BY <1>7, <1>8, <1>9 DEF IInv, CacheInv, cacheVars

\* Plans are dropped, with their rows.
LEMMA DropKeeps ==
  ASSUME IInv, NEW out \in SUBSET Ids,
         plans' = [q \in Ids |-> IF q \in out THEN NoPlan ELSE plans[q]],
         rows' = rows \ out, warm' = WarmOf(plans'),
         UNCHANGED <<hand, queue, worker, cacheVars>>
  PROVE  IInv'
<1>1. plans' \in Registry
  BY DEF Registry, IInv, PlanInv
<1>2. PlanInv'
  BY <1>1, PlansGo DEF IInv
<1>3. NoStuckMark'
  <2>1. OnTheWay' = OnTheWay
    BY WayStays DEF Handled, WorkerBusy
  <2>2. QED
    BY <2>1, MarksStay DEF IInv, WayInv
<1>4. RowInv'
  BY RowsStay DEF IInv, RowInv
<1>5. QED
  BY <1>2, <1>3, <1>4 DEF IInv, WayInv, CacheInv, cacheVars

LEMMA RegisterFailsKeeps == ASSUME IInv, RegisterFails PROVE IInv'
<1>1. PICK r \in Requests :
        LET out == {q \in {r.id, Derived(r.user)[1], OwnedId(r.user, r.id)} :
                     plans[q] # NoPlan /\ plans[q].owner = r.user}
        IN /\ plans' = [q \in Ids |-> IF q \in out THEN NoPlan ELSE plans[q]]
           /\ rows' = rows \ out
           /\ warm' = WarmOf(plans')
  BY DEF RegisterFails
<1> DEFINE out == {q \in {r.id, Derived(r.user)[1], OwnedId(r.user, r.id)} :
                     plans[q] # NoPlan /\ plans[q].owner = r.user}
<1>2. plans' = [q \in Ids |-> IF q \in out \cap Ids THEN NoPlan ELSE plans[q]]
  BY <1>1
<1>3. rows' = rows \ (out \cap Ids)
  BY <1>1 DEF IInv, RowInv
<1> HIDE DEF out
<1>4. QED
  BY <1>1, <1>2, <1>3, DropKeeps DEF RegisterFails

LEMMA SweepKeeps == ASSUME IInv, NEW p \in Ids, Sweep(p) PROVE IInv'
<1>1. plans' = [q \in Ids |-> IF q \in {p} THEN NoPlan ELSE plans[q]]
  BY DEF Sweep, Registry, IInv, PlanInv
<1>2. QED
  BY <1>1, DropKeeps DEF Sweep

LEMMA StageTypes ==
  ASSUME NEW idx \in {0} \cup {Stage[m] : m \in Models}
  PROVE  idx \in 0..3
BY PreloadAssumption

LEMMA StageOnlyKeeps ==
  ASSUME IInv, NEW p \in Ids, NEW idx \in 0..3, StageOnly(p, idx)
  PROVE  IInv'
<1> DEFINE plan == [plans[p] EXCEPT !.cursor = idx]
<1>1. /\ plans' = [plans EXCEPT ![p] = plan] /\ rows' = StillOpen(p, plan)
      /\ plans[p] # NoPlan
      /\ UNCHANGED <<warm, hand, queue, worker, cacheVars>>
  BY DEF StageOnly
<1>2. plans[p] \in Plans
  BY <1>1 DEF IInv, PlanInv, Registry
<1>3. plan \in Plans /\ plan.entries = plans[p].entries /\ plan.inflight = plans[p].inflight
  BY <1>2 DEF Plans
<1>4. plan # NoPlan
  BY <1>3, PlanIsAPlan
<1> HIDE DEF plan
<1>5. /\ plans' \in Registry
      /\ \A q \in Ids : /\ plans'[q] = IF q = p THEN plan ELSE plans[q]
  BY <1>1, <1>3 DEF IInv, PlanInv, Registry
<1>6. PlanInv'
  BY <1>1, <1>3, <1>4, <1>5, PlansStay DEF IInv
<1>7. NoStuckMark'
  <2>1. OnTheWay' = OnTheWay
    BY <1>1, WayStays DEF Handled, WorkerBusy
  <2>2. QED
    BY <1>1, <1>3, <1>5, <2>1, MarksStay DEF IInv, WayInv
<1>8. RowInv'
  <2>1. rows' \subseteq rows /\ (Settled(plan) => p \notin rows')
    BY <1>1 DEF StillOpen
  <2>2. ASSUME NEW q \in rows'
        PROVE  plans'[q] # NoPlan /\ (Settled(plans'[q]) => Settled(plans[q]))
    BY <1>4, <1>5, <2>1, <2>2 DEF IInv, RowInv, RowsEnd
  <2>3. QED
    BY <2>1, <2>2, RowsStay DEF IInv
<1>9. QED
  BY <1>1, <1>6, <1>7, <1>8 DEF IInv, WayInv, CacheInv, cacheVars

LEMMA UnwarmKeeps ==
  ASSUME IInv, NEW p \in Ids, NEW m \in Models, plans[p] # NoPlan,
         plans' = [plans EXCEPT ![p] = Without(m, @)],
         UNCHANGED <<rows, warm>>, OnTheWay \subseteq OnTheWay'
  PROVE  PlanInv' /\ NoStuckMark' /\ RowInv'
<1> DEFINE plan == Without(m, plans[p])
<1>2. plans[p] \in Plans
  BY DEF IInv, PlanInv, Registry
<1>3. /\ plan \in Plans /\ plan.entries = plans[p].entries
      /\ plan.inflight = plans[p].inflight /\ (Settled(plan) => Settled(plans[p]))
  BY <1>2, Unwarmed
<1>4. plan # NoPlan
  BY <1>3, PlanIsAPlan
<1> HIDE DEF plan
<1>5. /\ plans' \in Registry
      /\ \A q \in Ids : plans'[q] = IF q = p THEN plan ELSE plans[q]
  BY <1>3 DEF plan, IInv, PlanInv, Registry
<1>6. PlanInv'
  BY <1>3, <1>4, <1>5, PlansStay DEF IInv
<1>7. NoStuckMark'
  BY <1>3, <1>5, MarksStay DEF IInv, WayInv
<1>8. RowInv'
  BY <1>3, <1>4, <1>5, RowsStay DEF IInv, RowInv
<1>9. QED
  BY <1>6, <1>7, <1>8

LEMMA StageFullKeeps ==
  ASSUME IInv, NEW p \in Ids, NEW idx \in 0..3, StageFull(p, idx)
  PROVE  IInv'
<1>1. PICK m \in NextAhead(plans[p], idx) : plans' = [plans EXCEPT ![p] = Without(m, @)]
  BY DEF StageFull
<1>2. plans[p] # NoPlan /\ UNCHANGED <<rows, warm, hand, queue, worker, cacheVars>>
  BY DEF StageFull
<1>3. m \in Models
  BY <1>1, <1>2 DEF NextAhead, IInv, PlanInv, Registry, Plans
<1>4. OnTheWay' = OnTheWay
  BY <1>2, WayStays DEF Handled, WorkerBusy
<1>5. QED
  BY <1>1, <1>2, <1>3, <1>4, UnwarmKeeps DEF IInv, WayInv, CacheInv, cacheVars

LEMMA StageWarmsKeeps ==
  ASSUME IInv, NEW p \in Ids, NEW idx \in 0..3, StageWarms(p, idx)
  PROVE  IInv'
<1>1. PICK m \in NextAhead(plans[p], idx) :
        /\ plans' = [plans EXCEPT ![p] = MarkedAt(m, idx, @)]
        /\ hand' = Append(hand, <<p, m>>)
  BY DEF StageWarms
<1>2. plans[p] # NoPlan /\ UNCHANGED <<rows, warm, queue, worker, cacheVars>>
  BY DEF StageWarms
<1> DEFINE plan == MarkedAt(m, idx, plans[p])
<1>3. plans[p] \in Plans
  BY <1>2 DEF IInv, PlanInv, Registry
<1>4. m \in Models
  BY <1>1, <1>3 DEF NextAhead, Plans
<1>5. /\ plan \in Plans /\ plan.entries = plans[p].entries
      /\ plan.inflight = plans[p].inflight \cup {m}
  <2> DEFINE ws == plans[p].warmed \ {m}
             fs == plans[p].inflight \cup {m}
  <2>1. ws \in SUBSET Models /\ fs \in SUBSET Models /\ idx \in -1..3
    BY <1>3, <1>4 DEF Plans
  <2>2. plan = [plans[p] EXCEPT !.warmed = ws, !.inflight = fs, !.cursor = idx]
    BY DEF MarkedAt
  <2>3. /\ plan \in Plans /\ plan.entries = plans[p].entries
        /\ plan.inflight = fs
    <3> HIDE DEF ws, fs, plan
    <3>1. QED
      BY <1>3, <2>1, <2>2 DEF Plans
  <2>4. QED
    BY <2>3
<1>6. plan # NoPlan /\ ~Settled(plan)
  BY <1>5, PlanIsAPlan DEF Settled
<1> HIDE DEF plan
<1>7. /\ plans' \in Registry
      /\ \A q \in Ids : plans'[q] = IF q = p THEN plan ELSE plans[q]
  BY <1>1, <1>5 DEF plan, IInv, PlanInv, Registry
<1>8. PlanInv'
  BY <1>2, <1>5, <1>6, <1>7, PlansStay DEF IInv
<1>9. /\ hand' \in Seq(Items)
      /\ OnTheWay' = OnTheWay \cup {<<p, m>>}
  <2>1. <<p, m>> \in Items
    BY <1>4 DEF Items
  <2>2. Handled' = Handled
    BY <1>2 DEF Handled, WorkerBusy
  <2>3. hand' \in Seq(Items) /\ Range(hand') = Range(hand) \cup {<<p, m>>}
    BY <1>1, <2>1, RangeAppend DEF IInv, WayInv
  <2>4. QED
    BY <1>2, <2>2, <2>3 DEF OnTheWay
<1>10. NoStuckMark'
  <2>1. ASSUME NEW q \in Ids, plans'[q] # NoPlan, NEW n \in plans'[q].inflight
        PROVE  <<q, n>> \in OnTheWay'
    <3>1. CASE q = p /\ n = m
      BY <1>9, <3>1
    <3>2. CASE ~(q = p /\ n = m)
      <4>1. plans[q] # NoPlan /\ n \in plans[q].inflight
        BY <1>2, <1>5, <1>7, <2>1, <3>2
      <4>2. QED
        BY <1>9, <4>1 DEF IInv, WayInv, NoStuckMark, OnTheWay, Live
    <3>3. QED
      BY <3>1, <3>2
  <2>2. QED
    BY <2>1 DEF NoStuckMark, OnTheWay, Live
<1>11. RowInv'
  BY <1>2, <1>6, <1>7, RowsStay DEF IInv, RowInv
<1>12. QED
  BY <1>2, <1>8, <1>9, <1>10, <1>11 DEF IInv, WayInv, CacheInv, cacheVars

-----------------------------------------------------------------------------
(* Items on their way, the worker, restarts.                               *)

LEMMA PutKeeps == ASSUME IInv, Put PROVE IInv'
<1>1. PICK i \in DOMAIN hand :
        queue' = Append(queue, hand[i]) /\ hand' = RemoveAt(hand, i)
  BY DEF Put
<1>2. UNCHANGED <<planVars, worker, cacheVars>>
  BY DEF Put
<1>3. /\ hand[i] \in Items /\ hand' \in Seq(Items)
      /\ Range(hand) = Range(hand') \cup {hand[i]}
  BY <1>1, RangeRemoveAt DEF IInv, WayInv
<1>4. queue' \in Seq(Items) /\ Range(queue') = Range(queue) \cup {hand[i]}
  BY <1>1, <1>3, RangeAppend DEF IInv, WayInv
<1>5. OnTheWay' = OnTheWay
  BY <1>2, <1>3, <1>4 DEF OnTheWay, Handled, WorkerBusy
<1>6. NoStuckMark'
  BY <1>2, <1>5, MarksStay DEF planVars, IInv, WayInv
<1>7. PlanInv' /\ RowInv'
  BY <1>2 DEF planVars, IInv, PlanInv, Bounded, WarmIsUnion, RowInv, RowsEnd
<1>8. QED
  BY <1>2, <1>3, <1>4, <1>6, <1>7 DEF IInv, WayInv, CacheInv, cacheVars

\* An item ends: the worker is done with it, or it never gets there.
LEMMA ItemEnds ==
  ASSUME IInv, NEW item \in Items, NEW ms \in SUBSET Models, NEW cs \in SUBSET Models,
         plans' = Ended(item, ms, cs), rows' = Closing(item, Ended(item, ms, cs)),
         warm' = warm,
         OnTheWay \subseteq OnTheWay' \cup {item}
  PROVE  PlanInv' /\ NoStuckMark' /\ RowInv'
<1>1. Unmarks(item, plans')
  BY EndedUnmarks DEF IInv, PlanInv
<1>2. rows' = Closing(item, plans')
  OBVIOUS
<1> HIDE DEF Ended
<1>3. PlanInv'
  BY <1>1, PlansStay DEF Unmarks, IInv
<1>4. NoStuckMark'
  BY <1>1, MarkGoes DEF IInv, WayInv
<1>5. RowInv'
  BY <1>1, <1>2, RowGoes DEF IInv
<1>6. QED
  BY <1>3, <1>4, <1>5

LEMMA DropItemKeeps == ASSUME IInv, DropItem PROVE IInv'
<1>1. PICK i \in DOMAIN hand :
        /\ hand' = RemoveAt(hand, i)
        /\ plans' = Ended(hand[i], {}, {})
        /\ rows' = Closing(hand[i], Ended(hand[i], {}, {}))
  BY DEF DropItem
<1>2. UNCHANGED <<warm, queue, worker, cacheVars>>
  BY DEF DropItem
<1>3. /\ hand[i] \in Items /\ hand' \in Seq(Items)
      /\ Range(hand) = Range(hand') \cup {hand[i]}
  BY <1>1, RangeRemoveAt DEF IInv, WayInv
<1>4. OnTheWay \subseteq OnTheWay' \cup {hand[i]}
  BY <1>2, <1>3 DEF OnTheWay, Handled, WorkerBusy
<1>5. QED
  BY <1>1, <1>2, <1>3, <1>4, ItemEnds DEF IInv, WayInv, CacheInv, cacheVars

LEMMA TakeAndSkipKeeps == ASSUME IInv, NEW m \in Models, TakeAndSkip(m) PROVE IInv'
<1> DEFINE item == Head(queue)
           ms == {m} \cap resident
           cs == {m} \ resident
<1>1. /\ queue # <<>> /\ worker = Idle /\ queue' = Tail(queue)
      /\ Finish(item, ms, cs)
      /\ UNCHANGED <<warm, hand, resident, used>>
  BY DEF TakeAndSkip, Taken
<1>2. /\ item \in Items /\ queue' \in Seq(Items)
      /\ Range(queue) = Range(queue') \cup {item}
  BY <1>1, RangeTail DEF IInv, WayInv
<1>3. ms \in SUBSET Models /\ cs \in SUBSET Models
  OBVIOUS
<1> HIDE DEF item, ms, cs
<1>4. OnTheWay \subseteq OnTheWay' \cup {item}
  BY <1>1, <1>2 DEF OnTheWay, Handled, WorkerBusy, Idle
<1>5. PlanInv' /\ NoStuckMark' /\ RowInv'
  BY <1>1, <1>2, <1>3, <1>4, ItemEnds DEF Finish
<1>6. QED
  BY <1>1, <1>2, <1>5 DEF Finish, IInv, WayInv, CacheInv

LEMMA TakeAndAdmitKeeps == ASSUME IInv, NEW m \in Models, TakeAndAdmit(m) PROVE IInv'
<1> DEFINE item == Head(queue)
<1>1. /\ queue # <<>> /\ worker = Idle /\ queue' = Tail(queue)
      /\ plans[item[1]] # NoPlan
      /\ plans' = [plans EXCEPT ![item[1]] = Without(m, @)]
      /\ UNCHANGED <<rows, warm, hand, cacheVars>>
  BY DEF TakeAndAdmit, Taken
<1>2. PICK peers \in {{}} \cup {{n} : n \in (Peers(m) \cap resident) \ (used \cup warm)} :
        worker' = [phase |-> IF peers = {} THEN "load" ELSE "evict",
                   item |-> item, peers |-> peers]
  BY DEF TakeAndAdmit
<1>3. /\ item \in Items /\ queue' \in Seq(Items)
      /\ Range(queue) = Range(queue') \cup {item}
  BY <1>1, RangeTail DEF IInv, WayInv
<1> HIDE DEF item
<1>4. peers \in SUBSET Models
  BY <1>2 DEF Peers
<1>5. worker' \in Working /\ worker'.item = item /\ worker'.phase \in {"evict", "load"}
  BY <1>2, <1>3, <1>4 DEF Working
<1>6. OnTheWay' = OnTheWay
  BY <1>1, <1>3, <1>5 DEF OnTheWay, Handled, WorkerBusy, Idle
<1>7. item[1] \in Ids
  BY <1>3 DEF Items
<1>8. PlanInv' /\ NoStuckMark' /\ RowInv'
  BY <1>1, <1>6, <1>7, UnwarmKeeps
<1>9. QED
  BY <1>1, <1>3, <1>5, <1>8 DEF IInv, WayInv, CacheInv, cacheVars

LEMMA BusyWorker ==
  ASSUME IInv, WorkerBusy
  PROVE  worker \in Working /\ worker.item \in Items
BY DEF IInv, WayInv, WorkerBusy, Idle, Off, Working

LEMMA EvictPeerKeeps == ASSUME IInv, NEW m \in Models, EvictPeer(m) PROVE IInv'
<1>1. /\ WorkerBusy
      /\ worker' = [worker EXCEPT !.phase = "load", !.peers = {}]
      /\ UNCHANGED <<planVars, hand, queue, used>>
      /\ \E gone : resident' = resident \ (gone \ used)
  BY DEF EvictPeer, WorkerBusy
<1>2. worker' \in Working /\ worker'.item = worker.item /\ worker'.phase = "load"
  BY <1>1, BusyWorker DEF Working
<1>3. OnTheWay' = OnTheWay
  BY <1>1, <1>2, WayStays DEF Handled, WorkerBusy
<1>4. NoStuckMark'
  BY <1>1, <1>3, MarksStay DEF planVars, IInv, WayInv
<1>5. PlanInv' /\ RowInv'
  BY <1>1 DEF planVars, IInv, PlanInv, Bounded, WarmIsUnion, RowInv, RowsEnd
<1>6. QED
  BY <1>1, <1>2, <1>4, <1>5 DEF IInv, WayInv, CacheInv

LEMMA WorkerEnds ==
  ASSUME IInv, WorkerBusy, NEW ms \in SUBSET Models, NEW cs \in SUBSET Models,
         Finish(worker.item, ms, cs) \/ (/\ plans' = Ended(worker.item, {}, {})
                                     /\ rows' = Closing(worker.item, Ended(worker.item, {}, {}))
                                     /\ worker' = Off),
         UNCHANGED <<warm, hand, queue>>
  PROVE  PlanInv' /\ WayInv' /\ RowInv'
<1>1. worker.item \in Items
  BY BusyWorker
<1>2. worker' \in {Idle, Off}
  BY DEF Finish
<1>3. OnTheWay \subseteq OnTheWay' \cup {worker.item}
  BY DEF OnTheWay, Handled
<1>4. PlanInv' /\ NoStuckMark' /\ RowInv'
  BY <1>1, <1>3, ItemEnds DEF Finish
<1>5. QED
  BY <1>2, <1>4 DEF IInv, WayInv

LEMMA LoadKeeps ==
  ASSUME IInv, NEW m \in Models, Loaded(m) \/ NotLoaded(m)
  PROVE  IInv'
<1>1. PICK ms \in SUBSET Models : Finish(worker.item, ms, {})
  BY DEF Loaded, NotLoaded
<1>2. WorkerBusy /\ UNCHANGED <<warm, hand, queue, used>>
  BY DEF Loaded, NotLoaded, WorkerBusy
<1>3. PlanInv' /\ WayInv' /\ RowInv'
  BY <1>1, <1>2, WorkerEnds
<1>4. CacheInv'
  BY <1>2 DEF Loaded, NotLoaded, Peers, IInv, CacheInv
<1>5. QED
  BY <1>3, <1>4 DEF IInv

LEMMA StopKeeps == ASSUME IInv, Stop PROVE IInv'
<1>1. worker' = Off /\ UNCHANGED <<warm, hand, queue, cacheVars>>
  BY DEF Stop
<1>2. CASE WorkerBusy
  BY <1>1, <1>2, WorkerEnds DEF Stop, IInv, CacheInv, cacheVars
<1>3. CASE ~WorkerBusy
  <2>1. UNCHANGED <<plans, rows>>
    BY <1>3 DEF Stop
  <2>2. OnTheWay \subseteq OnTheWay'
    BY <1>1, <1>3 DEF OnTheWay, Handled
  <2>3. NoStuckMark'
    BY <2>1, <2>2, MarksStay DEF IInv, WayInv
  <2>4. PlanInv' /\ RowInv'
    BY <1>1, <2>1 DEF IInv, PlanInv, Bounded, WarmIsUnion, RowInv, RowsEnd
  <2>5. QED
    BY <1>1, <2>3, <2>4 DEF IInv, WayInv, CacheInv, cacheVars
<1>4. QED
  BY <1>2, <1>3

LEMMA StartKeeps == ASSUME IInv, Start PROVE IInv'
<1> DEFINE cleared(q) == [plans[q] EXCEPT !.inflight = {}]
<1>1. /\ worker' = Idle /\ queue' = <<>> /\ hand' \in {<<>>, hand}
      /\ plans' = [q \in Ids |-> IF plans[q] = NoPlan THEN NoPlan ELSE cleared(q)]
      /\ rows' = {q \in rows : ~Settled(plans'[q])}
      /\ UNCHANGED <<warm, cacheVars>>
  BY DEF Start
<1>2. ASSUME NEW q \in Ids, plans[q] # NoPlan
      PROVE  /\ cleared(q) \in Plans /\ cleared(q) # NoPlan
             /\ cleared(q).entries = plans[q].entries /\ cleared(q).inflight = {}
  <2>1. plans[q] \in Plans
    BY <1>2 DEF IInv, PlanInv, Registry
  <2>2. QED
    BY <2>1, PlanIsAPlan DEF Plans
<1> HIDE DEF cleared
<1>3. /\ plans' \in Registry
      /\ \A q \in Ids : plans'[q] = IF plans[q] = NoPlan THEN NoPlan ELSE cleared(q)
  BY <1>1, <1>2 DEF Registry
<1>4. PlanInv'
  BY <1>1, <1>2, <1>3, PlansStay DEF IInv
<1>5. NoStuckMark'
  BY <1>2, <1>3 DEF NoStuckMark, Live
<1>6. RowInv'
  BY <1>1, <1>2, <1>3 DEF IInv, RowInv, RowsEnd
<1>7. hand' \in Seq(Items) /\ queue' \in Seq(Items)
  BY <1>1, EmptySeq DEF IInv, WayInv
<1>8. QED
  BY <1>1, <1>4, <1>5, <1>6, <1>7 DEF IInv, WayInv, CacheInv, cacheVars

LEMMA CacheKeeps ==
  ASSUME IInv, NEW m \in Models, JobTakes(m) \/ JobEnds(m) \/ IdleEvict(m)
  PROVE  IInv'
<1>1. UNCHANGED <<planVars, hand, queue, worker>>
  BY DEF JobTakes, JobEnds, IdleEvict
<1>2. CacheInv'
  BY DEF JobTakes, JobEnds, IdleEvict, Peers, IInv, CacheInv
<1>3. QED
  BY <1>1, <1>2 DEF planVars, IInv, PlanInv, Bounded, WarmIsUnion, WayInv, NoStuckMark,
    Handled, WorkerBusy, RowInv, RowsEnd

-----------------------------------------------------------------------------
LEMMA NextIInv == IInv /\ [Next]_vars => IInv'
<1> SUFFICES ASSUME IInv, [Next]_vars PROVE IInv'
  OBVIOUS
<1>1. CASE Register
  <2>1. PICK r \in Requests :
          RegisterUnder(r.user, OwnedId(r.user, r.id), r.models, r.ahead, r.job)
    BY <1>1 DEF Register
  <2>2. /\ r.user \in Users /\ r.id \in Ids /\ r.models \in SUBSET Models
        /\ r.ahead \in BOOLEAN /\ r.job \in BOOLEAN
    BY PreloadAssumption DEF Users, Ids
  <2>3. OwnedId(r.user, r.id) \in Ids
    BY <2>2, OwnedIsFree DEF IInv
  <2>4. QED
    BY <1>1, <2>1, <2>2, <2>3, RegisterKeeps DEF Register
<1>2. CASE RegisterFails
  BY <1>2, RegisterFailsKeeps
<1>3. ASSUME NEW p \in Ids, Sweep(p) PROVE IInv'
  BY <1>3, SweepKeeps
<1>4. ASSUME NEW p \in Ids, NEW idx \in {0} \cup {Stage[m] : m \in Models},
             StageOnly(p, idx) \/ StageFull(p, idx) \/ StageWarms(p, idx)
      PROVE  IInv'
  BY <1>4, StageTypes, StageOnlyKeeps, StageFullKeeps, StageWarmsKeeps
<1>5. CASE DropItem
  BY <1>5, DropItemKeeps
<1>6. CASE Stop
  BY <1>6, StopKeeps
<1>7. CASE Start
  BY <1>7, StartKeeps
<1>8. ASSUME NEW m \in Models, JobTakes(m) \/ JobEnds(m) \/ IdleEvict(m) PROVE IInv'
  BY <1>8, CacheKeeps
<1>9. CASE WorkerStep
  BY <1>9, PutKeeps, TakeAndSkipKeeps, TakeAndAdmitKeeps, EvictPeerKeeps, LoadKeeps
     DEF WorkerStep
<1>10. CASE UNCHANGED vars
  BY <1>10 DEF vars, planVars, cacheVars, IInv, PlanInv, Bounded, WarmIsUnion, WayInv,
    NoStuckMark, Handled, WorkerBusy, RowInv, RowsEnd, CacheInv
<1>11. QED
  BY <1>1, <1>2, <1>3, <1>4, <1>5, <1>6, <1>7, <1>8, <1>9, <1>10 DEF Next

LEMMA InitIInv == Init => IInv
<1> SUFFICES ASSUME Init PROVE IInv
  OBVIOUS
<1>1. Live(plans) = {}
  BY DEF Init, Live
<1>2. PlanInv
  <2>1. Bounded
    BY <1>1, FS_EmptySet, PreloadAssumption DEF Bounded
  <2>2. plans \in Registry
    BY DEF Init, Registry
  <2>3. WarmIsUnion
    BY <1>1 DEF Init, WarmIsUnion, WarmOf
  <2>4. QED
    BY <2>1, <2>2, <2>3 DEF PlanInv
<1>3. WayInv
  BY <1>1 DEF Init, WayInv, NoStuckMark
<1>4. QED
  BY <1>2, <1>3 DEF Init, IInv, RowInv, RowsEnd, CacheInv

LEMMA Invariance == Spec => []IInv
BY InitIInv, NextIInv, PTL DEF Spec

\* Whatever plans are registered, merged, evicted, failed, swept or restarted,
\* what is warm is what the plans name, every mark in flight has its item on the
\* way and every open stats row has work left (runtime/preload.py).
THEOREM PlansAreAccounted == Spec => []PlansAccounted
<1>1. IInv => PlansAccounted
  <2> SUFFICES ASSUME IInv PROVE PlansAccounted
    OBVIOUS
  <2>1. \A p \in Live(plans) : plans[p] \in Plans
    BY DEF Live, IInv, PlanInv, Registry
  <2>2. warm \subseteq Models
    BY <2>1 DEF IInv, PlanInv, WarmIsUnion, WarmOf, Plans
  <2>3. worker.phase \in {"idle", "off", "evict", "load"}
    BY DEF IInv, WayInv, Idle, Off, Working
  <2>4. QED
    BY <2>1, <2>2, <2>3
       DEF IInv, PlanInv, WayInv, RowInv, CacheInv, Items, TypeOK, UsedStay, PlansAccounted
<1>2. QED
  BY <1>1, Invariance, PTL
=============================================================================
