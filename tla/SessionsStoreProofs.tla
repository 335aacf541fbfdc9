------------------------ MODULE SessionsStoreProofs ------------------------
(***************************************************************************)
(* Theorems about SessionsStore, for any workers, sessions and streams and *)
(* any number of failures.                                                 *)
(***************************************************************************)
EXTENDS SessionsStore, TLAPS

Writing == {"login.rebuild", "logout.rebuild", "login.write", "logout.write"}
Probing == {"probe.lock", "probe.rebuild"}
Authenticating == {"auth", "auth.rebuild", "auth.index"}

\* What the event loop has at hand, by what it is in the middle of.
Loops ==
  \A w \in Workers :
    /\ at[w] \in Writing => token[w] \in Tokens
    /\ IF at[w] \in Probing \cup Authenticating
         THEN subject[w] \in Streams /\ Home[subject[w]] = w
         ELSE subject[w] = NoStream

\* No worker is ahead of the counter.
CountersBehind ==
  \A w \in Workers :
    lastRevGen[w] <= revocations /\ revGen[w] <= revocations
      /\ gen[w] <= revocations

\* What a worker's index still honours is not signed out.
Reflected(w) == \A t \in index[w] : ~SignedOut(t)

\* The probe adopts a counter only when the index reflects it.
AdoptedIsReflected ==
  \A w \in Workers : revGen[w] = revocations => Reflected(w)

SInv ==
  /\ TypeOK
  /\ Loops
  /\ CountersBehind
  /\ StaleIsUnseen
  /\ LiveIsFound
  /\ CountedIsReflected
  /\ AdoptedIsReflected

\* Until a read fails, an open stream is served by a worker that knows the
\* counter, and a signed-out one has its end coming even while its worker still
\* looks at the counter.
Sampled ==
  mishaps = 0 =>
    \A w \in Workers :
      /\ probeThrottled[w] => revGen[w] >= 0 \/ at[w] \in Probing
      /\ at[w] \in Authenticating => revGen[w] >= 0
      /\ \A s \in Streams :
           Home[s] = w /\ stream[s] = "open" => revGen[w] >= 0

EndDue ==
  mishaps = 0 =>
    \A s \in Streams :
      stream[s] = "open" /\ SignedOut(cookie[s]) =>
        \/ revGen[Home[s]] # revocations
        \/ behind[s]
        \/ subject[Home[s]] = s /\ at[Home[s]] \in Authenticating

\* A stream under way has its cookie.
Clients == \A s \in Streams : stream[s] # "closed" => cookie[s] \in Tokens

CInv == SInv /\ Clients /\ Sampled /\ EndDue

-----------------------------------------------------------------------------
(* The initial states, and the types.                                       *)

LEMMA InitCInv == Init => CInv
BY HomeAssumption, NullAssumption, MishapsAssumption
DEF Init, CInv, SInv, TypeOK, Loops, CountersBehind, StaleIsUnseen, LiveIsFound,
    CountedIsReflected, AdoptedIsReflected, Reflected, Sampled, EndDue,
    Clients, LiveRows, Rebuilding, Writing, Probing, Authenticating

\* The types of the event loop's and the streams' variables.
LoopTypes ==
  /\ at \in [Workers -> Rebuilding \cup
               {"idle", "login.write", "logout.write", "probe.lock", "auth",
                "auth.index"}]
  /\ token \in [Workers -> Tokens \cup {NoToken}]
  /\ subject \in [Workers -> Streams \cup {NoStream}]
  /\ gen \in [Workers -> Nat]

StreamTypes ==
  /\ stream \in [Streams -> {"closed", "opening", "open"}]
  /\ cookie \in [Streams -> Tokens \cup {NoToken}]
  /\ behind \in [Streams -> BOOLEAN]

SeenTypes == unseen \in [Workers -> BOOLEAN] /\ missed \in [Workers -> BOOLEAN]

\* A failure is counted within its bound.
LEMMA MishapCounted ==
  ASSUME TypeOK, NEW failed, MishapIf(failed) \/ Mishap \/ NoMishap
  PROVE  mishaps' \in 0 .. MaxMishaps
BY MishapsAssumption DEF TypeOK, MishapIf, Mishap, NoMishap

\* What the comparison of data_version leaves behind.
LEMMA CompareTypes ==
  ASSUME TypeOK, NEW w \in Workers, Snapshot(w) \/ NotMoved(w)
  PROVE  missed' \in [Workers -> BOOLEAN] /\ mishaps' \in 0 .. MaxMishaps
<1>1. CASE Snapshot(w)
  <2>1. PICK stays \in {FALSE, unseen[w]} :
          missed' = [missed EXCEPT ![w] = stays] /\ MishapIf(stays)
    BY <1>1 DEF Snapshot
  <2>2. stays \in BOOLEAN /\ missed \in [Workers -> BOOLEAN]
    BY DEF TypeOK
  <2>. QED BY <2>1, <2>2, MishapCounted
<1>2. CASE NotMoved(w)
  BY <1>2, MishapCounted DEF NotMoved, TypeOK
<1>. QED BY <1>1, <1>2

LEMMA LockTypes ==
  ASSUME TypeOK, NEW w \in Workers, NEW holder \in {"loop", "pool"},
         LockAndCompare(w, holder)
  PROVE  /\ missed' \in [Workers -> BOOLEAN] /\ mishaps' \in 0 .. MaxMishaps
         /\ lock' \in [Workers -> {"free", "loop", "pool"}]
BY CompareTypes DEF LockAndCompare, TypeOK

\* The effects that several operations share.
LEMMA ReindexTypes ==
  ASSUME TypeOK, NEW w \in Workers, Reindex(w)
  PROVE  index' \in [Workers -> SUBSET Tokens] /\ SeenTypes'
BY DEF TypeOK, Reindex, LiveRows, SeenTypes

LEMMA CommitTypes ==
  ASSUME TypeOK, NEW w \in Workers, Commit(w)
  PROVE  SeenTypes'
BY DEF TypeOK, Commit, ReadingRows, SeenTypes

LEMMA AbandonTypes ==
  ASSUME TypeOK, NEW w \in Workers, Abandon(w)
  PROVE  SeenTypes' /\ lock' \in [Workers -> {"free", "loop", "pool"}]
BY DEF TypeOK, Abandon, Free, SeenTypes

LEMMA FinishTypes ==
  ASSUME TypeOK, NEW w \in Workers, Finish(w)
  PROVE  LoopTypes'
BY DEF TypeOK, LoopTypes, Finish, Rebuilding

LEMMA BumpTypes ==
  ASSUME TypeOK, NEW w \in Workers, Bump(w)
  PROVE  behind' \in [Streams -> BOOLEAN]
BY DEF TypeOK, Bump, Served

LEMMA ClosedTypes ==
  ASSUME TypeOK, NEW s, Closed(s)
  PROVE  StreamTypes'
BY DEF TypeOK, StreamTypes, Closed

LEMMA AdoptTypes ==
  ASSUME TypeOK, NEW w \in Workers, NEW g \in Nat \cup {-1}, Adopt(w, g)
  PROVE  revGen' \in [Workers -> Nat \cup {-1}]
BY DEF TypeOK, Adopt

LEMMA DecideTypes ==
  ASSUME TypeOK, NEW s \in Streams, NEW bumped \in BOOLEAN, Decide(s, bumped)
  PROVE  LoopTypes' /\ behind' \in [Streams -> BOOLEAN]
<1>1. behind' \in [Streams -> BOOLEAN]
  BY DEF TypeOK, Decide, Served
<1>2. CASE Finish(Home[s])
  BY <1>1, <1>2, HomeAssumption, FinishTypes
<1>3. CASE ~Finish(Home[s])
  BY <1>1, <1>3, HomeAssumption
  DEF TypeOK, Decide, LoopTypes, GoTo, Rebuilding
<1>. QED BY <1>2, <1>3

\* A stream is let in or refused.
LEMMA VerdictTypes ==
  ASSUME TypeOK, NEW w \in Workers, Accepted(w) \/ Refused(w)
  PROVE  LoopTypes' /\ StreamTypes'
<1>1. CASE Accepted(w)
  BY <1>1, FinishTypes DEF TypeOK, Accepted, StreamTypes
<1>2. CASE Refused(w)
  BY <1>2, FinishTypes, ClosedTypes DEF Refused
<1>. QED BY <1>1, <1>2

LEMMA StepType ==
  ASSUME TypeOK, Loops, Next
  PROVE  TypeOK'
<1>1. ASSUME NEW w \in Workers, WriteRebuilt(w) PROVE TypeOK'
  BY <1>1, ReindexTypes
  DEF TypeOK, SeenTypes, WriteRebuilt, GoTo, Rebuilding, dbVars, probeVars,
      streamVars, pastVars
<1>2. ASSUME NEW w \in Workers, WriteRebuildFails(w) PROVE TypeOK'
  BY <1>2, MishapCounted, AbandonTypes, FinishTypes
  DEF TypeOK, LoopTypes, SeenTypes, WriteRebuildFails, dbVars, indexVars,
      probeVars, streamVars
<1>3. ASSUME NEW w \in Workers, Insert(w) PROVE TypeOK'
  <2>1. token[w] \in Tokens
    BY <1>3 DEF Insert, Loops, Writing
  <2>. QED BY <1>3, <2>1, CommitTypes, FinishTypes
    DEF TypeOK, LoopTypes, SeenTypes, Insert, Indexed, Free, probeVars,
      streamVars, pastVars
<1>4. ASSUME NEW w \in Workers, InsertFails(w) PROVE TypeOK'
  BY <1>4, MishapCounted, FinishTypes
  DEF TypeOK, LoopTypes, InsertFails, Free, dbVars, indexVars, seenVars,
      probeVars, streamVars
<1>5. ASSUME NEW w \in Workers, Revoke(w) PROVE TypeOK'
  <2>1. /\ lastRevGen' \in [Workers -> Nat \cup {-1}]
        /\ index' \in [Workers -> SUBSET Tokens]
    BY <1>5 DEF Revoke, Popped, TypeOK
  <2>2. LoopTypes' /\ SeenTypes' /\ behind' \in [Streams -> BOOLEAN]
    BY <1>5, CommitTypes, FinishTypes, BumpTypes DEF Revoke
  <2>3. rows' \in [Tokens -> {"unborn", "live", "revoked", "purged", "lapsed"}]
    BY <1>5 DEF Revoke, TypeOK
  <2>4. revocations' \in Nat
    BY <1>5 DEF Revoke, TypeOK
  <2>. QED BY <1>5, <2>1, <2>2, <2>3, <2>4
    DEF TypeOK, LoopTypes, SeenTypes, Revoke, Free, probeVars, pastVars
<1>6. ASSUME NEW w \in Workers, RevokeNothing(w) PROVE TypeOK'
  BY <1>6, FinishTypes
  DEF TypeOK, LoopTypes, RevokeNothing, Popped, Free, dbVars, seenVars,
      probeVars, streamVars, pastVars
<1>7. ASSUME NEW w \in Workers, RevokeFails(w) PROVE TypeOK'
  <2>1. unrecorded' \subseteq Workers \X Tokens
    BY <1>7 DEF RevokeFails, TypeOK, Loops, Writing
  <2>. QED BY <1>7, <2>1, MishapCounted, FinishTypes
    DEF TypeOK, LoopTypes, RevokeFails, Popped, Free, dbVars, seenVars,
      probeVars, streamVars
<1>8. ASSUME NEW w \in Workers, ProbeLocks(w) PROVE TypeOK'
  BY <1>8, CompareTypes
  DEF TypeOK, ProbeLocks, GoTo, Rebuilding, dbVars, probeVars, streamVars
<1>9. ASSUME NEW w \in Workers, ProbeRebuilt(w) PROVE TypeOK'
  <2>1. subject[w] \in Streams /\ gen[w] \in Nat
    BY <1>9 DEF ProbeRebuilt, TypeOK, Loops, Probing
  <2>2. LoopTypes' /\ behind' \in [Streams -> BOOLEAN]
    BY <1>9, <2>1, DecideTypes DEF ProbeRebuilt, Bumps
  <2>3. revGen' \in [Workers -> Nat \cup {-1}]
    BY <1>9, <2>1, AdoptTypes DEF ProbeRebuilt
  <2>. QED BY <1>9, <2>1, <2>2, <2>3, ReindexTypes
    DEF TypeOK, LoopTypes, SeenTypes, ProbeRebuilt, Free, dbVars, pastVars
<1>10. ASSUME NEW w \in Workers, ProbeRebuildFails(w) PROVE TypeOK'
  <2>1. subject[w] \in Streams
    BY <1>10 DEF ProbeRebuildFails, Loops, Probing
  <2>2. LoopTypes' /\ behind' \in [Streams -> BOOLEAN]
    BY <1>10, <2>1, DecideTypes DEF ProbeRebuildFails
  <2>. QED BY <1>10, <2>2, MishapCounted, AbandonTypes
    DEF TypeOK, LoopTypes, SeenTypes, ProbeRebuildFails, dbVars, indexVars,
      probeVars
<1>11. ASSUME NEW w \in Workers, AuthRefresh(w) PROVE TypeOK'
  <2>1. LoopTypes'
    BY <1>11 DEF TypeOK, LoopTypes, AuthRefresh, GoTo, Rebuilding
  <2>2. /\ missed' \in [Workers -> BOOLEAN] /\ mishaps' \in 0 .. MaxMishaps
        /\ lock' \in [Workers -> {"free", "loop", "pool"}]
    BY <1>11, LockTypes DEF TypeOK, AuthRefresh, NoMishap
  <2>3. throttled' \in [Workers -> BOOLEAN]
    BY <1>11 DEF TypeOK, AuthRefresh
  <2>. QED BY <1>11, <2>1, <2>2, <2>3
    DEF TypeOK, LoopTypes, AuthRefresh, dbVars, probeVars, streamVars
<1>12. ASSUME NEW w \in Workers, AuthRebuilt(w) PROVE TypeOK'
  BY <1>12, ReindexTypes
  DEF TypeOK, SeenTypes, AuthRebuilt, GoTo, Free, Rebuilding, dbVars,
      probeVars, streamVars, pastVars
<1>13. ASSUME NEW w \in Workers, AuthRebuildFails(w) PROVE TypeOK'
  BY <1>13, MishapCounted, AbandonTypes, ClosedTypes, FinishTypes
  DEF TypeOK, LoopTypes, StreamTypes, SeenTypes, AuthRebuildFails, dbVars,
      indexVars, probeVars
<1>14. ASSUME NEW w \in Workers, AuthHit(w) PROVE TypeOK'
  BY <1>14, VerdictTypes
  DEF TypeOK, LoopTypes, StreamTypes, AuthHit, Popped, dbVars, seenVars,
      probeVars, pastVars
<1>15. ASSUME NEW w \in Workers, AuthMiss(w) PROVE TypeOK'
  <2>1. index' \in [Workers -> SUBSET Tokens]
    BY <1>15 DEF AuthMiss, Indexed, LiveRows, TypeOK
  <2>2. LoopTypes' /\ StreamTypes'
    BY <1>15, VerdictTypes DEF AuthMiss
  <2>3. mishaps' \in 0 .. MaxMishaps
    BY <1>15, MishapCounted DEF AuthMiss
  <2>. QED BY <1>15, <2>1, <2>2, <2>3
    DEF TypeOK, LoopTypes, StreamTypes, AuthMiss, dbVars, seenVars, probeVars
<1>16. ASSUME NEW w \in Workers, PoolRefresh(w) PROVE TypeOK'
  BY <1>16, LockTypes
  DEF TypeOK, PoolRefresh, dbVars, probeVars, loopVars, streamVars
<1>17. ASSUME NEW w \in Workers, PoolRebuilt(w) PROVE TypeOK'
  BY <1>17, ReindexTypes
  DEF TypeOK, SeenTypes, PoolRebuilt, Free, dbVars, probeVars, loopVars,
      streamVars, pastVars
<1>18. ASSUME NEW w \in Workers, PoolRebuildFails(w) PROVE TypeOK'
  BY <1>18, MishapCounted, AbandonTypes
  DEF TypeOK, SeenTypes, PoolRebuildFails, dbVars, indexVars, probeVars,
      loopVars, streamVars
<1>19. ASSUME NEW w \in Workers, Purge(w) PROVE TypeOK'
  <2>1. PICK stays \in {FALSE, unseen[w]} :
          /\ missed' = [x \in Workers |-> IF x = w THEN stays
                                         ELSE missed[x] \/ ReadingRows(x)]
          /\ MishapIf(stays)
    BY <1>19 DEF Purge
  <2>2. missed' \in [Workers -> BOOLEAN] /\ mishaps' \in 0 .. MaxMishaps
    BY <2>1, MishapCounted DEF TypeOK, ReadingRows
  <2>3. rows' \in [Tokens -> {"unborn", "live", "revoked", "purged", "lapsed"}]
    BY <1>19 DEF Purge, Dead, TypeOK
  <2>4. unseen' \in [Workers -> BOOLEAN]
    BY <1>19 DEF Purge, TypeOK
  <2>. QED BY <1>19, <2>2, <2>3, <2>4
    DEF TypeOK, Purge, indexVars, probeVars, loopVars, streamVars
<1>20. ASSUME NEW w \in Workers, PurgeFails(w) PROVE TypeOK'
  BY <1>20, MishapCounted
  DEF TypeOK, PurgeFails, dbVars, indexVars, probeVars, loopVars, streamVars
<1>21. ASSUME NEW w \in Workers, RefreshDue(w) PROVE TypeOK'
  BY <1>21
  DEF TypeOK, RefreshDue, dbVars, seenVars, probeVars, loopVars, streamVars,
      pastVars
<1>22. ASSUME NEW w \in Workers, ProbeDue(w) PROVE TypeOK'
  BY <1>22
  DEF TypeOK, ProbeDue, dbVars, indexVars, seenVars, loopVars, streamVars,
      pastVars
<1>23. ASSUME NEW w \in Workers, EditConfig(w) PROVE TypeOK'
  BY <1>23, BumpTypes
  DEF TypeOK, EditConfig, dbVars, indexVars, seenVars, probeVars, loopVars,
      pastVars
<1>24. ASSUME NEW w \in Workers, NEW t \in Tokens,
            Login(w, t) \/ Logout(w, t)
       PROVE  TypeOK'
  <2>1. PICK write \in {"login.write", "logout.write"},
             rebuild \in {"login.rebuild", "logout.rebuild"} :
          BeginWrite(w, t, write, rebuild)
    BY <1>24 DEF Login, Logout
  <2>2. missed' \in [Workers -> BOOLEAN] /\ mishaps' \in 0 .. MaxMishaps
    BY <2>1, CompareTypes DEF BeginWrite
  <2>3. LoopTypes'
    BY <2>1 DEF TypeOK, LoopTypes, BeginWrite, GoTo, Rebuilding
  <2>4. lock' \in [Workers -> {"free", "loop", "pool"}]
    BY <2>1 DEF TypeOK, BeginWrite
  <2>. QED BY <2>1, <2>2, <2>3, <2>4
    DEF TypeOK, LoopTypes, BeginWrite, dbVars, indexVars, probeVars,
      streamVars
<1>25. ASSUME NEW w \in Workers, NEW t \in Tokens,
            FetchOnMiss(w, t)
       PROVE  TypeOK'
  BY <1>25
  DEF TypeOK, FetchOnMiss, Indexed, LiveRows, dbVars, seenVars, probeVars,
      loopVars, streamVars, pastVars
<1>26. ASSUME NEW w \in Workers, NEW t \in Tokens,
            EvictLapsed(w, t)
       PROVE  TypeOK'
  BY <1>26
  DEF TypeOK, EvictLapsed, Popped, dbVars, seenVars, probeVars, loopVars,
      streamVars, pastVars
<1>27. ASSUME NEW s \in Streams, CheckThrottled(s) PROVE TypeOK'
  <2>1. LoopTypes' /\ behind' \in [Streams -> BOOLEAN]
    BY <1>27, DecideTypes DEF CheckThrottled
  <2>. QED BY <1>27, <2>1
    DEF TypeOK, LoopTypes, CheckThrottled, dbVars, indexVars, seenVars,
      probeVars, pastVars
<1>28. ASSUME NEW s \in Streams, Check(s) PROVE TypeOK'
  <2>. DEFINE w == Home[s]
  <2>1. PICK g \in {revocations, -1} :
          /\ MishapIf(g = -1)
          /\ IF g \in {-1, lastRevGen[w]}
               THEN Adopt(w, g) /\ Decide(s, Bumps(w, g))
               ELSE /\ GoTo(w, "probe.lock")
                    /\ gen' = [gen EXCEPT ![w] = g]
                    /\ subject' = [subject EXCEPT ![w] = s]
                    /\ UNCHANGED <<revGen, token, behind>>
    BY <1>28 DEF Check
  <2>2. w \in Workers /\ g \in Nat \cup {-1}
    BY HomeAssumption DEF TypeOK
  <2>3. /\ LoopTypes' /\ behind' \in [Streams -> BOOLEAN]
        /\ revGen' \in [Workers -> Nat \cup {-1}]
    <3>1. CASE g \in {-1, lastRevGen[w]}
      BY <2>1, <2>2, <3>1, AdoptTypes, DecideTypes DEF Bumps
    <3>2. CASE g \notin {-1, lastRevGen[w]}
      BY <2>1, <2>2, <3>2 DEF TypeOK, LoopTypes, GoTo, Rebuilding
    <3>. QED BY <3>1, <3>2
  <2>4. mishaps' \in 0 .. MaxMishaps
    BY <2>1, MishapCounted
  <2>. QED BY <1>28, <2>3, <2>4
    DEF TypeOK, LoopTypes, Check, dbVars, indexVars, seenVars
<1>29. ASSUME NEW s \in Streams, Disconnect(s) PROVE TypeOK'
  BY <1>29, ClosedTypes
  DEF TypeOK, StreamTypes, Disconnect, dbVars, indexVars, seenVars, probeVars,
      loopVars, pastVars
<1>30. ASSUME NEW s \in Streams, NEW t \in Tokens, Connect(s, t) PROVE TypeOK'
  BY <1>30
  DEF TypeOK, Connect, dbVars, indexVars, seenVars, probeVars, loopVars,
      pastVars
<1>31. ASSUME NEW t \in Tokens, Expire(t) PROVE TypeOK'
  BY <1>31, MishapCounted
  DEF TypeOK, Expire, indexVars, seenVars, probeVars, loopVars, streamVars
<1>. QED BY <1>1, <1>2, <1>3, <1>4, <1>5, <1>6, <1>7, <1>8, <1>9, <1>10,
     <1>11, <1>12, <1>13, <1>14, <1>15, <1>16, <1>17, <1>18, <1>19, <1>20,
     <1>21, <1>22, <1>23, <1>24, <1>25, <1>26, <1>27, <1>28, <1>29, <1>30,
     <1>31
     DEF Next, Write, Authenticate, CheckStream, PoolStep

-----------------------------------------------------------------------------
(* What the event loop has at hand.                                         *)

LEMMA FinishLoops ==
  ASSUME TypeOK, Loops, NEW w \in Workers, Finish(w)
  PROVE  Loops'
BY DEF TypeOK, Loops, Finish, Writing, Probing, Authenticating

LEMMA DecideLoops ==
  ASSUME TypeOK, Loops, NEW s \in Streams, NEW bumped, Decide(s, bumped)
  PROVE  Loops'
<1>1. CASE Finish(Home[s])
  BY <1>1, FinishLoops, HomeAssumption
<1>2. CASE ~Finish(Home[s])
  BY <1>2, HomeAssumption
  DEF TypeOK, Loops, Decide, GoTo, Writing, Probing, Authenticating
<1>. QED BY <1>1, <1>2

\* The loop goes on with the same session or stream.
LEMMA GoOnLoops ==
  ASSUME TypeOK, Loops, NEW w \in Workers, NEW where, GoTo(w, where),
         UNCHANGED <<token, subject>>,
         \/ {at[w], where} \subseteq Writing
         \/ {at[w], where} \subseteq Probing \cup Authenticating
  PROVE  Loops'
BY DEF TypeOK, Loops, GoTo, Writing, Probing, Authenticating

LEMMA StepLoops ==
  ASSUME TypeOK, Loops, Next
  PROVE  Loops'
<1>1. CASE UNCHANGED loopVars
  BY <1>1 DEF Loops, loopVars
<1>2. ASSUME NEW w \in Workers, Finish(w) PROVE Loops'
  BY <1>2, FinishLoops
<1>3. ASSUME NEW w \in Workers, Write(w) PROVE Loops'
  <2>1. CASE WriteRebuilt(w)
    BY <2>1, GoOnLoops DEF WriteRebuilt, Writing
  <2>2. CASE ~WriteRebuilt(w)
    BY <1>2, <1>3, <2>2
    DEF Write, WriteRebuildFails, Insert, InsertFails, Revoke, RevokeNothing,
        RevokeFails
  <2>. QED BY <2>1, <2>2
<1>4. ASSUME NEW w \in Workers, Authenticate(w) PROVE Loops'
  <2>1. CASE ProbeLocks(w) \/ AuthRefresh(w) \/ AuthRebuilt(w)
    <3>1. CASE ProbeLocks(w)
      BY <3>1, GoOnLoops DEF ProbeLocks, Probing
    <3>2. CASE AuthRefresh(w)
      <4>1. PICK where \in Authenticating : GoTo(w, where)
        BY <3>2 DEF AuthRefresh, Authenticating
      <4>2. at[w] \in Authenticating /\ UNCHANGED <<token, subject>>
        BY <3>2 DEF AuthRefresh, Authenticating
      <4>. QED BY <4>1, <4>2, GoOnLoops
    <3>3. CASE AuthRebuilt(w)
      BY <3>3, GoOnLoops DEF AuthRebuilt, Authenticating
    <3>. QED BY <2>1, <3>1, <3>2, <3>3
  <2>2. CASE ProbeRebuilt(w) \/ ProbeRebuildFails(w)
    <3>1. subject[w] \in Streams
      BY <2>2 DEF ProbeRebuilt, ProbeRebuildFails, Loops, Probing
    <3>. QED BY <2>2, <3>1, DecideLoops DEF ProbeRebuilt, ProbeRebuildFails
  <2>3. CASE AuthRebuildFails(w) \/ AuthHit(w) \/ AuthMiss(w)
    BY <1>2, <2>3
    DEF AuthRebuildFails, AuthHit, AuthMiss, Accepted, Refused
  <2>. QED BY <1>4, <2>1, <2>2, <2>3 DEF Authenticate
<1>5. ASSUME NEW w \in Workers, NEW t \in Tokens, Login(w, t) \/ Logout(w, t)
      PROVE  Loops'
  <2>1. /\ at[w] = "idle" /\ token' = [token EXCEPT ![w] = t]
        /\ UNCHANGED subject
        /\ \E where \in Writing : GoTo(w, where)
    BY <1>5 DEF Login, Logout, BeginWrite, Writing
  <2>. QED BY <2>1
       DEF TypeOK, Loops, GoTo, Writing, Probing, Authenticating
<1>6. ASSUME NEW s \in Streams, CheckStream(s) PROVE Loops'
  <2>1. CASE \E bumped : Decide(s, bumped)
    BY <2>1, DecideLoops
  <2>2. CASE /\ at[Home[s]] = "idle" /\ GoTo(Home[s], "probe.lock")
             /\ subject' = [subject EXCEPT ![Home[s]] = s]
             /\ UNCHANGED token
    BY <2>2, HomeAssumption
    DEF TypeOK, Loops, GoTo, Writing, Probing, Authenticating
  <2>. QED BY <1>6, <2>1, <2>2 DEF CheckStream, CheckThrottled, Check
<1>7. ASSUME NEW w \in Workers,
             \/ PoolRefresh(w) \/ PoolStep(w) \/ Purge(w) \/ PurgeFails(w)
             \/ RefreshDue(w) \/ ProbeDue(w) \/ EditConfig(w)
             \/ \E t \in Tokens : FetchOnMiss(w, t) \/ EvictLapsed(w, t)
      PROVE  Loops'
  BY <1>1, <1>7
  DEF PoolRefresh, PoolStep, PoolRebuilt, PoolRebuildFails, Purge, PurgeFails,
      RefreshDue, ProbeDue, EditConfig, FetchOnMiss, EvictLapsed
<1>8. ASSUME NEW s \in Streams, NEW t \in Tokens,
             Disconnect(s) \/ Connect(s, t) \/ Expire(t)
      PROVE  Loops'
  BY <1>1, <1>8 DEF Disconnect, Connect, Expire
<1>. QED
  <2>1. ASSUME NEW s \in Streams, Disconnect(s) PROVE UNCHANGED loopVars
    BY <2>1 DEF Disconnect
  <2>2. ASSUME NEW t \in Tokens, Expire(t) PROVE UNCHANGED loopVars
    BY <2>2 DEF Expire
  <2>. QED BY <1>1, <1>3, <1>4, <1>5, <1>6, <1>7, <1>8, <2>1, <2>2 DEF Next

-----------------------------------------------------------------------------
(* What a step does to the sessions and to what the workers know of them.   *)

\* Nothing, but that a session may expire.
Same ==
  /\ UNCHANGED <<rows, revocations, index, unseen, unrecorded>>
  /\ expired \subseteq expired'

\* w's index is made from the rows.
Rebuilt(w) ==
  Reindex(w) /\ UNCHANGED <<rows, expired, revocations, unrecorded>>

\* An entry goes: of a session no longer live, or whose sign-out failed.
Dropped(w, t) ==
  /\ Popped(w, t)
  /\ UNCHANGED <<rows, expired, revocations, unseen>>
  /\ unrecorded \subseteq unrecorded'
  /\ t \notin LiveRows \/ <<w, t>> \in unrecorded'

\* The entry of a live session comes.
Fetched(w, t) ==
  /\ t \in LiveRows /\ Indexed(w, t)
  /\ UNCHANGED <<rows, expired, revocations, unseen, unrecorded>>

Effect(w) ==
  \/ Rebuilt(w) \/ Insert(w) \/ Revoke(w) \/ Purge(w)
  \/ \E t \in Tokens : Dropped(w, t) \/ Fetched(w, t)

LEMMA Effects ==
  ASSUME TypeOK, Loops, Next
  PROVE  Same \/ \E w \in Workers : Effect(w)
<1>1. ASSUME NEW w \in Workers, Write(w) PROVE Same \/ Effect(w)
  <2>1. CASE WriteRebuilt(w)
    BY <2>1 DEF WriteRebuilt, Effect, Rebuilt, dbVars, pastVars
  <2>2. CASE WriteRebuildFails(w) \/ InsertFails(w)
    BY <2>2
    DEF WriteRebuildFails, InsertFails, Abandon, Same, dbVars, indexVars,
        seenVars
  <2>3. CASE RevokeNothing(w) \/ RevokeFails(w)
    <3>1. token[w] \in Tokens
      BY <2>3 DEF RevokeNothing, RevokeFails, Loops, Writing
    <3>2. Dropped(w, token[w])
      BY <2>3
      DEF RevokeNothing, RevokeFails, Dropped, LiveRows, dbVars, seenVars,
          pastVars
    <3>. QED BY <3>1, <3>2 DEF Effect
  <2>. QED BY <1>1, <2>1, <2>2, <2>3 DEF Write, Effect
<1>2. ASSUME NEW w \in Workers, Authenticate(w) PROVE Same \/ Effect(w)
  <2>1. CASE ProbeRebuilt(w) \/ AuthRebuilt(w)
    BY <2>1 DEF ProbeRebuilt, AuthRebuilt, Effect, Rebuilt, dbVars, pastVars
  <2>2. CASE \/ ProbeLocks(w) \/ ProbeRebuildFails(w) \/ AuthRefresh(w)
             \/ AuthRebuildFails(w)
    BY <2>2
    DEF ProbeLocks, ProbeRebuildFails, AuthRefresh, AuthRebuildFails, Abandon,
        Same, dbVars, indexVars
  <2>3. CASE AuthHit(w)
    <3>. DEFINE t == cookie[subject[w]]
    <3>1. t \in Tokens
      BY <2>3 DEF AuthHit, TypeOK
    <3>2. CASE t \in expired
      BY <2>3, <3>1, <3>2
      DEF AuthHit, Effect, Dropped, LiveRows, dbVars, seenVars, pastVars
    <3>3. CASE t \notin expired
      BY <2>3, <3>3 DEF AuthHit, Same, dbVars, seenVars, pastVars
    <3>. QED BY <3>2, <3>3
  <2>4. CASE AuthMiss(w)
    <3>. DEFINE t == cookie[subject[w]]
    <3>1. CASE UNCHANGED index
      BY <2>4, <3>1 DEF AuthMiss, Same, dbVars, seenVars
    <3>2. CASE t \in LiveRows /\ Indexed(w, t)
      BY <2>4, <3>2 DEF AuthMiss, Effect, Fetched, LiveRows, dbVars, seenVars
    <3>. QED BY <2>4, <3>1, <3>2 DEF AuthMiss
  <2>. QED BY <1>2, <2>1, <2>2, <2>3, <2>4 DEF Authenticate
<1>3. ASSUME NEW w \in Workers,
             \/ PoolRefresh(w) \/ PoolRebuildFails(w) \/ PurgeFails(w)
             \/ RefreshDue(w) \/ ProbeDue(w) \/ EditConfig(w)
      PROVE  Same
  BY <1>3
  DEF PoolRefresh, PoolRebuildFails, PurgeFails, RefreshDue, ProbeDue,
      EditConfig, Abandon, Same, dbVars, indexVars, seenVars, pastVars
<1>4. ASSUME NEW w \in Workers, PoolRebuilt(w) PROVE Effect(w)
  BY <1>4 DEF PoolRebuilt, Effect, Rebuilt, dbVars, pastVars
<1>5. ASSUME NEW w \in Workers, NEW t \in Tokens, Login(w, t) \/ Logout(w, t)
      PROVE  Same
  BY <1>5 DEF Login, Logout, BeginWrite, Same, dbVars, indexVars
<1>6. ASSUME NEW w \in Workers, NEW t \in Tokens,
             FetchOnMiss(w, t) \/ EvictLapsed(w, t)
      PROVE  Effect(w)
  <2>1. Fetched(w, t) \/ Dropped(w, t)
    BY <1>6
    DEF FetchOnMiss, EvictLapsed, Fetched, Dropped, LiveRows, dbVars, seenVars,
        pastVars
  <2>. QED BY <2>1 DEF Effect
<1>7. ASSUME NEW s \in Streams, CheckStream(s) \/ Disconnect(s) PROVE Same
  BY <1>7
  DEF CheckStream, CheckThrottled, Check, Disconnect, Same, dbVars, indexVars,
      seenVars, pastVars
<1>8. ASSUME NEW s \in Streams, NEW t \in Tokens, Connect(s, t) PROVE Same
  BY <1>8 DEF Connect, Same, dbVars, indexVars, seenVars, pastVars
<1>9. ASSUME NEW t \in Tokens, Expire(t) PROVE Same
  BY <1>9 DEF Expire, Same, indexVars, seenVars
<1>10. ASSUME NEW w \in Workers, Purge(w) PROVE Effect(w)
  BY <1>10 DEF Effect
<1>. QED BY <1>1, <1>2, <1>3, <1>4, <1>5, <1>6, <1>7, <1>8, <1>9, <1>10
     DEF Next, PoolStep

\* Only Revoke signs a session out.
LEMMA OnlyRevokeSignsOut ==
  ASSUME TypeOK, Loops, Next, NEW t \in Tokens, SignedOut(t)', ~SignedOut(t)
  PROVE  /\ revocations' = revocations + 1
         /\ \E w \in Workers : Revoke(w) /\ token[w] = t
<1>1. CASE UNCHANGED rows
  BY <1>1 DEF SignedOut
<1>2. ASSUME NEW w \in Workers, Insert(w) PROVE FALSE
  BY <1>2 DEF Insert, SignedOut, TypeOK
<1>3. ASSUME NEW w \in Workers, Purge(w) PROVE FALSE
  BY <1>3 DEF Purge, Dead, SignedOut, TypeOK
<1>4. ASSUME NEW w \in Workers, Revoke(w)
      PROVE  revocations' = revocations + 1 /\ token[w] = t
  BY <1>4 DEF Revoke, SignedOut, TypeOK
<1>. QED BY <1>1, <1>2, <1>3, <1>4, Effects
     DEF Effect, Same, Rebuilt, Dropped, Fetched

\* The counter only moves with a revocation.
LEMMA CounterMoves ==
  ASSUME TypeOK, Loops, Next
  PROVE  \/ revocations' = revocations
         \/ /\ revocations' = revocations + 1
            /\ \E w \in Workers : Revoke(w)
BY Effects
DEF Effect, Same, Rebuilt, Insert, Purge, Revoke, Dropped, Fetched, dbVars

\* A worker's index gains entries of live sessions only.
LEMMA EntriesAreLive ==
  ASSUME TypeOK, Loops, Next, NEW x \in Workers, NEW t \in index'[x],
         t \notin index[x]
  PROVE  ~SignedOut(t)'
<1>1. CASE Same
  BY <1>1 DEF Same
<1>2. ASSUME NEW w \in Workers, Rebuilt(w) PROVE ~SignedOut(t)'
  BY <1>2 DEF Rebuilt, Reindex, LiveRows, SignedOut, TypeOK
<1>3. ASSUME NEW w \in Workers, Insert(w) PROVE ~SignedOut(t)'
  <2>1. token[w] \in Tokens
    BY <1>3 DEF Insert, Loops, Writing
  <2>. QED BY <1>3, <2>1 DEF Insert, Indexed, SignedOut, TypeOK
<1>4. ASSUME NEW w \in Workers, NEW u \in Tokens, Fetched(w, u)
      PROVE  ~SignedOut(t)'
  BY <1>4 DEF Fetched, Indexed, LiveRows, SignedOut, TypeOK
<1>5. ASSUME NEW w \in Workers,
             Revoke(w) \/ Purge(w) \/ \E u \in Tokens : Dropped(w, u)
      PROVE  FALSE
  <2>1. UNCHANGED index \/ \E u : Popped(w, u)
    BY <1>5 DEF Revoke, Purge, Dropped, indexVars
  <2>. QED BY <2>1 DEF Popped, TypeOK
<1>. QED BY <1>1, <1>2, <1>3, <1>4, <1>5, Effects DEF Effect

LEMMA OneRevokes ==
  ASSUME TypeOK, NEW w \in Workers, NEW x \in Workers, Revoke(w), Revoke(x)
  PROVE  w = x
<1>1. at[x] = "logout.write" /\ at'[x] = "idle"
  BY DEF Revoke, Finish, TypeOK
<1>2. x # w => at'[x] = at[x]
  BY DEF Revoke, Finish, TypeOK
<1>. QED BY <1>1, <1>2

\* A revocation is reflected at the worker that makes it, and an index that
\* reflects them all does until the next.
LEMMA ReflectedKept ==
  ASSUME TypeOK, Loops, Next, NEW x \in Workers, Reflected(x),
         revocations' = revocations \/ Revoke(x)
  PROVE  Reflected(x)'
<1>1. ASSUME NEW t \in index'[x], SignedOut(t)' PROVE FALSE
  <2>1. t \in Tokens /\ t \in index[x]
    BY <1>1, StepType, EntriesAreLive DEF TypeOK
  <2>2. ~SignedOut(t)
    BY <2>1 DEF Reflected
  <2>3. PICK w \in Workers : Revoke(w) /\ token[w] = t
    BY <1>1, <2>1, <2>2, OnlyRevokeSignsOut
  <2>4. revocations' # revocations
    BY <1>1, <2>1, <2>2, OnlyRevokeSignsOut DEF TypeOK
  <2>5. Revoke(x) /\ token[x] = t
    BY <2>3, <2>4, OneRevokes
  <2>. QED BY <1>1, <2>5 DEF Revoke, Popped, TypeOK
<1>. QED BY <1>1 DEF Reflected

-----------------------------------------------------------------------------
(* The properties of the index.                                             *)

\* Sessions become live by a sign-in only.
LEMMA LiveIsInserted ==
  ASSUME TypeOK, Loops, Next, NEW t \in LiveRows', t \notin LiveRows
  PROVE  \E w \in Workers : Insert(w) /\ token[w] = t
<1>1. CASE UNCHANGED rows /\ expired \subseteq expired'
  BY <1>1 DEF LiveRows
<1>2. ASSUME NEW w \in Workers, Insert(w) PROVE token[w] = t
  BY <1>2 DEF Insert, LiveRows, TypeOK
<1>3. ASSUME NEW w \in Workers, Revoke(w) PROVE FALSE
  BY <1>3 DEF Revoke, LiveRows, TypeOK
<1>4. ASSUME NEW w \in Workers, Purge(w) PROVE FALSE
  BY <1>4 DEF Purge, Dead, LiveRows, TypeOK
<1>. QED BY <1>1, <1>2, <1>3, <1>4, Effects
     DEF Effect, Same, Rebuilt, Dropped, Fetched

\* A worker stops seeing a sibling's commits as new only by a rebuild.
LEMMA SeenByRebuild ==
  ASSUME TypeOK, Loops, Next, NEW x \in Workers, unseen[x], ~unseen'[x]
  PROVE  Rebuilt(x)
<1>1. ASSUME NEW w \in Workers, Rebuilt(w) PROVE w = x
  BY <1>1 DEF Rebuilt, Reindex, TypeOK
<1>2. ASSUME NEW w \in Workers, Insert(w) \/ Revoke(w) \/ Purge(w) PROVE FALSE
  BY <1>2 DEF Insert, Revoke, Commit, Purge
<1>. QED BY <1>1, <1>2, Effects DEF Effect, Same, Dropped, Fetched

LEMMA RebuiltReflects ==
  ASSUME TypeOK, NEW w \in Workers, Rebuilt(w)
  PROVE  Reflected(w)' /\ index'[w] = LiveRows'
BY DEF TypeOK, Rebuilt, Reindex, Reflected, LiveRows, SignedOut

LEMMA StepUnseen ==
  ASSUME TypeOK, Loops, StaleIsUnseen, Next
  PROVE  StaleIsUnseen'
<1>1. SUFFICES ASSUME NEW x \in Workers, ~unseen'[x] PROVE Reflected(x)'
  BY DEF StaleIsUnseen, Reflected
<1>2. CASE unseen[x]
  BY <1>1, <1>2, SeenByRebuild, RebuiltReflects
<1>3. CASE ~unseen[x]
  <2>1. Reflected(x)
    BY <1>3 DEF StaleIsUnseen, Reflected
  <2>2. ASSUME NEW w \in Workers, Revoke(w) PROVE w = x
    BY <1>1, <2>2 DEF Revoke, Commit
  <2>. QED BY <2>1, <2>2, CounterMoves, ReflectedKept
<1>. QED BY <1>2, <1>3

LEMMA StepFound ==
  ASSUME TypeOK, Loops, LiveIsFound, Next
  PROVE  LiveIsFound'
<1>1. SUFFICES ASSUME NEW x \in Workers, NEW t \in LiveRows',
                      t \notin index'[x], ~unseen'[x]
               PROVE  <<x, t>> \in unrecorded'
  BY DEF LiveIsFound
<1>2. unrecorded \subseteq unrecorded'
  BY Effects
  DEF Effect, Same, Rebuilt, Insert, Revoke, Purge, Dropped, Fetched, pastVars
<1>3. ~unseen[x] /\ ~Rebuilt(x)
  BY <1>1, SeenByRebuild, RebuiltReflects
<1>4. CASE t \notin LiveRows
  <2>1. PICK w \in Workers : Insert(w) /\ token[w] = t
    BY <1>1, <1>4, LiveIsInserted
  <2>2. w = x
    BY <1>1, <2>1 DEF Insert, Commit
  <2>. QED BY <1>1, <2>1, <2>2 DEF Insert, Indexed, TypeOK
<1>5. CASE t \in LiveRows /\ t \notin index[x]
  BY <1>2, <1>3, <1>5 DEF LiveIsFound
<1>6. CASE t \in LiveRows /\ t \in index[x]
  <2>1. ASSUME NEW w \in Workers, Revoke(w) PROVE FALSE
    <3>1. token[w] # t
      BY <1>1, <2>1 DEF Revoke, LiveRows, TypeOK
    <3>. QED BY <1>1, <1>6, <2>1, <3>1 DEF Revoke, Popped, TypeOK
  <2>2. ASSUME NEW w \in Workers, NEW u \in Tokens, Dropped(w, u)
        PROVE  <<x, t>> \in unrecorded'
    BY <1>1, <1>6, <2>2 DEF Dropped, Popped, TypeOK
  <2>3. ASSUME NEW w \in Workers,
               Insert(w) \/ Purge(w) \/ \E u \in Tokens : Fetched(w, u)
        PROVE  FALSE
    <3>1. UNCHANGED index \/ \E u : Indexed(w, u)
      BY <2>3 DEF Insert, Purge, Fetched, indexVars
    <3>. QED BY <1>1, <1>6, <3>1 DEF Indexed, TypeOK
  <2>4. ASSUME NEW w \in Workers, Rebuilt(w) PROVE FALSE
    BY <1>1, <1>3, <1>6, <2>4 DEF Rebuilt, Reindex, TypeOK
  <2>. QED BY <1>1, <1>6, <2>1, <2>2, <2>3, <2>4, Effects DEF Effect, Same
<1>. QED BY <1>4, <1>5, <1>6

-----------------------------------------------------------------------------
(* The counters.                                                            *)

\* The counter a worker last counted as reflected changes by its own revocation
\* or by a rebuild at the probe.
LEMMA CountedMoves ==
  ASSUME TypeOK, Next, NEW x \in Workers, lastRevGen'[x] # lastRevGen[x]
  PROVE  \/ /\ Revoke(x) /\ lastRevGen[x] = revocations
            /\ lastRevGen'[x] = revocations + 1
         \/ /\ ProbeRebuilt(x) /\ lastRevGen'[x] = gen[x]
<1>1. \E w \in Workers : Revoke(w) \/ ProbeRebuilt(w)
  <2>1. ASSUME NEW w \in Workers, Write(w), ~Revoke(w)
        PROVE  UNCHANGED lastRevGen
    BY <2>1
    DEF Write, WriteRebuilt, WriteRebuildFails, Insert, InsertFails,
        RevokeNothing, RevokeFails, indexVars
  <2>2. ASSUME NEW w \in Workers, Authenticate(w), ~ProbeRebuilt(w)
        PROVE  UNCHANGED lastRevGen
    BY <2>2
    DEF Authenticate, ProbeLocks, ProbeRebuildFails, AuthRefresh, AuthRebuilt,
        AuthRebuildFails, AuthHit, AuthMiss, indexVars
  <2>3. ASSUME NEW w \in Workers,
               \/ PoolRefresh(w) \/ PoolStep(w) \/ Purge(w) \/ PurgeFails(w)
               \/ RefreshDue(w) \/ ProbeDue(w) \/ EditConfig(w)
        PROVE  UNCHANGED lastRevGen
    BY <2>3
    DEF PoolRefresh, PoolStep, PoolRebuilt, PoolRebuildFails, Purge,
        PurgeFails, RefreshDue, ProbeDue, EditConfig, indexVars
  <2>4. ASSUME NEW w \in Workers, NEW t \in Tokens,
               \/ Login(w, t) \/ Logout(w, t)
               \/ FetchOnMiss(w, t) \/ EvictLapsed(w, t)
        PROVE  UNCHANGED lastRevGen
    BY <2>4
    DEF Login, Logout, BeginWrite, FetchOnMiss, EvictLapsed, indexVars
  <2>5. ASSUME NEW s \in Streams, CheckStream(s) \/ Disconnect(s)
        PROVE  UNCHANGED lastRevGen
    BY <2>5 DEF CheckStream, CheckThrottled, Check, Disconnect, indexVars
  <2>6. ASSUME NEW s \in Streams, NEW t \in Tokens, Connect(s, t)
        PROVE  UNCHANGED lastRevGen
    BY <2>6 DEF Connect, indexVars
  <2>7. ASSUME NEW t \in Tokens, Expire(t) PROVE UNCHANGED lastRevGen
    BY <2>7 DEF Expire, indexVars
  <2>. QED BY <2>1, <2>2, <2>3, <2>4, <2>5, <2>6, <2>7 DEF Next
<1>. QED BY <1>1 DEF Revoke, ProbeRebuilt, TypeOK

\* The counter a worker adopts is one its index reflects, or its last bump's.
LEMMA AdoptedMoves ==
  ASSUME TypeOK, Next, NEW x \in Workers, revGen'[x] # revGen[x]
  PROVE  \/ /\ revGen'[x] = revocations /\ revocations = lastRevGen[x]
            /\ UNCHANGED <<index, revocations, lastRevGen, rows>>
         \/ /\ ProbeRebuilt(x) /\ revGen'[x] = gen[x]
<1>1. \/ \E s \in Streams : Check(s)
      \/ \E w \in Workers : ProbeRebuilt(w)
  <2>1. ASSUME NEW w \in Workers, Write(w) PROVE UNCHANGED revGen
    BY <2>1
    DEF Write, WriteRebuilt, WriteRebuildFails, Insert, InsertFails, Revoke,
        RevokeNothing, RevokeFails, probeVars
  <2>2. ASSUME NEW w \in Workers, Authenticate(w), ~ProbeRebuilt(w)
        PROVE  UNCHANGED revGen
    BY <2>2
    DEF Authenticate, ProbeLocks, ProbeRebuildFails, AuthRefresh, AuthRebuilt,
        AuthRebuildFails, AuthHit, AuthMiss, probeVars
  <2>3. ASSUME NEW w \in Workers,
               \/ PoolRefresh(w) \/ PoolStep(w) \/ Purge(w) \/ PurgeFails(w)
               \/ RefreshDue(w) \/ ProbeDue(w) \/ EditConfig(w)
        PROVE  UNCHANGED revGen
    BY <2>3
    DEF PoolRefresh, PoolStep, PoolRebuilt, PoolRebuildFails, Purge,
        PurgeFails, RefreshDue, ProbeDue, EditConfig, probeVars
  <2>4. ASSUME NEW w \in Workers, NEW t \in Tokens,
               \/ Login(w, t) \/ Logout(w, t)
               \/ FetchOnMiss(w, t) \/ EvictLapsed(w, t)
        PROVE  UNCHANGED revGen
    BY <2>4
    DEF Login, Logout, BeginWrite, FetchOnMiss, EvictLapsed, probeVars
  <2>5. ASSUME NEW s \in Streams, CheckThrottled(s) \/ Disconnect(s)
        PROVE  UNCHANGED revGen
    BY <2>5 DEF CheckThrottled, Disconnect, probeVars
  <2>6. ASSUME NEW s \in Streams, NEW t \in Tokens, Connect(s, t)
        PROVE  UNCHANGED revGen
    BY <2>6 DEF Connect, probeVars
  <2>7. ASSUME NEW t \in Tokens, Expire(t) PROVE UNCHANGED revGen
    BY <2>7 DEF Expire, probeVars
  <2>. QED BY <2>1, <2>2, <2>3, <2>4, <2>5, <2>6, <2>7 DEF Next, CheckStream
<1>2. ASSUME NEW s \in Streams, Check(s)
      PROVE  /\ revGen'[x] = revocations /\ revocations = lastRevGen[x]
             /\ UNCHANGED <<index, revocations, lastRevGen, rows>>
  BY <1>2, HomeAssumption DEF Check, Adopt, TypeOK, dbVars, indexVars
<1>3. ASSUME NEW w \in Workers, ProbeRebuilt(w)
      PROVE  w = x /\ revGen'[x] = gen[x]
  BY <1>3 DEF ProbeRebuilt, Adopt, TypeOK
<1>. QED BY <1>1, <1>2, <1>3

LEMMA ProbedIsRebuilt ==
  ASSUME NEW w \in Workers, ProbeRebuilt(w)
  PROVE  Rebuilt(w)
BY DEF ProbeRebuilt, Rebuilt, dbVars, pastVars

\* A probe notes the counter it read.
LEMMA StepGen ==
  ASSUME TypeOK, Loops, Next, NEW x \in Workers
  PROVE  gen'[x] \in {gen[x], 0, revocations}
<1>1. CASE UNCHANGED gen \/ \E w \in Workers : Finish(w)
  BY <1>1 DEF Finish, TypeOK
<1>2. ASSUME NEW s \in Streams, Check(s)
      PROVE  gen'[x] \in {gen[x], 0, revocations}
  <2>1. CASE \E bumped : Decide(s, bumped)
    BY <1>1, <2>1, HomeAssumption DEF Decide, TypeOK
  <2>2. CASE \E g \in {revocations, -1} :
               g # -1 /\ gen' = [gen EXCEPT ![Home[s]] = g]
    BY <2>2, HomeAssumption DEF TypeOK
  <2>. QED BY <1>2, <2>1, <2>2 DEF Check
<1>3. ASSUME NEW s \in Streams, NEW bumped, Decide(s, bumped)
      PROVE  gen'[x] \in {gen[x], 0, revocations}
  BY <1>1, <1>3, HomeAssumption DEF Decide, TypeOK
<1>4. ASSUME NEW w \in Workers, Write(w)
      PROVE  gen'[x] \in {gen[x], 0, revocations}
  BY <1>1, <1>4
  DEF Write, WriteRebuilt, WriteRebuildFails, Insert, InsertFails, Revoke,
      RevokeNothing, RevokeFails
<1>5. ASSUME NEW w \in Workers, Authenticate(w)
      PROVE  gen'[x] \in {gen[x], 0, revocations}
  <2>1. CASE ProbeRebuilt(w) \/ ProbeRebuildFails(w)
    <3>1. subject[w] \in Streams
      BY <2>1 DEF ProbeRebuilt, ProbeRebuildFails, Loops, Probing
    <3>. QED BY <1>3, <2>1, <3>1 DEF ProbeRebuilt, ProbeRebuildFails
  <2>2. CASE ~(ProbeRebuilt(w) \/ ProbeRebuildFails(w))
    BY <1>1, <1>5, <2>2
    DEF Authenticate, ProbeLocks, AuthRefresh, AuthRebuilt, AuthRebuildFails,
        AuthHit, AuthMiss, Accepted, Refused
  <2>. QED BY <2>1, <2>2
<1>6. ASSUME NEW w \in Workers,
             \/ PoolRefresh(w) \/ PoolStep(w) \/ Purge(w) \/ PurgeFails(w)
             \/ RefreshDue(w) \/ ProbeDue(w) \/ EditConfig(w)
             \/ \E t \in Tokens : \/ Login(w, t) \/ Logout(w, t)
                               \/ FetchOnMiss(w, t) \/ EvictLapsed(w, t)
      PROVE  gen' = gen
  BY <1>6
  DEF PoolRefresh, PoolStep, PoolRebuilt, PoolRebuildFails, Purge, PurgeFails,
      RefreshDue, ProbeDue, EditConfig, Login, Logout, BeginWrite,
      FetchOnMiss, EvictLapsed, loopVars
<1>7. ASSUME NEW s \in Streams, CheckThrottled(s)
      PROVE  gen'[x] \in {gen[x], 0, revocations}
  BY <1>3, <1>7 DEF CheckThrottled
<1>8. ASSUME NEW s \in Streams,
             Disconnect(s) \/ \E t \in Tokens : Connect(s, t)
      PROVE  gen' = gen
  BY <1>8 DEF Disconnect, Connect, loopVars
<1>9. ASSUME NEW t \in Tokens, Expire(t) PROVE gen' = gen
  BY <1>9 DEF Expire, loopVars
<1>. QED BY <1>2, <1>4, <1>5, <1>6, <1>7, <1>8, <1>9 DEF Next, CheckStream

LEMMA StepCounters ==
  ASSUME TypeOK, Loops, CountersBehind, Next
  PROVE  CountersBehind'
<1>. SUFFICES ASSUME NEW x \in Workers
              PROVE  /\ lastRevGen'[x] <= revocations'
                     /\ revGen'[x] <= revocations'
                     /\ gen'[x] <= revocations'
  BY DEF CountersBehind
<1>1. revocations <= revocations' /\ {revocations, revocations'} \subseteq Nat
  BY CounterMoves DEF TypeOK
<1>2. /\ {lastRevGen[x], revGen[x], gen[x]} \subseteq Nat \cup {-1}
      /\ lastRevGen[x] <= revocations /\ revGen[x] <= revocations
      /\ gen[x] <= revocations
  BY DEF CountersBehind, TypeOK
<1>3. lastRevGen'[x] <= revocations'
  BY <1>1, <1>2, CountedMoves DEF Revoke
<1>4. revGen'[x] <= revocations'
  BY <1>1, <1>2, AdoptedMoves
<1>5. gen'[x] <= revocations'
  <2>1. gen'[x] \in {gen[x], 0, revocations}
    BY StepGen
  <2>. QED BY <1>1, <1>2, <2>1
<1>. QED BY <1>3, <1>4, <1>5

LEMMA StepCounted ==
  ASSUME TypeOK, Loops, CountersBehind, CountedIsReflected, Next
  PROVE  CountedIsReflected'
<1>1. SUFFICES ASSUME NEW x \in Workers, lastRevGen'[x] = revocations'
               PROVE  Reflected(x)'
  BY DEF CountedIsReflected, Reflected
<1>2. CASE ProbeRebuilt(x)
  BY <1>2, ProbedIsRebuilt, RebuiltReflects
<1>3. CASE ~ProbeRebuilt(x)
  <2>1. lastRevGen[x] <= revocations /\ revocations \in Nat
        /\ lastRevGen[x] \in Nat \cup {-1}
    BY DEF CountersBehind, TypeOK
  <2>2. lastRevGen[x] = revocations
        /\ (revocations' = revocations \/ Revoke(x))
    BY <1>1, <1>3, <2>1, CountedMoves, CounterMoves
  <2>3. Reflected(x)
    BY <2>2 DEF CountedIsReflected, Reflected
  <2>. QED BY <2>2, <2>3, ReflectedKept
<1>. QED BY <1>2, <1>3

LEMMA StepAdopted ==
  ASSUME TypeOK, Loops, CountersBehind, CountedIsReflected,
         AdoptedIsReflected, Next
  PROVE  AdoptedIsReflected'
<1>1. SUFFICES ASSUME NEW x \in Workers, revGen'[x] = revocations'
               PROVE  Reflected(x)'
  BY DEF AdoptedIsReflected
<1>2. CASE ProbeRebuilt(x)
  BY <1>2, ProbedIsRebuilt, RebuiltReflects
<1>3. CASE revGen'[x] = revGen[x]
  <2>1. revGen[x] <= revocations /\ revocations \in Nat
        /\ revGen[x] \in Nat \cup {-1}
    BY DEF CountersBehind, TypeOK
  <2>2. revGen[x] = revocations /\ revocations' = revocations
    BY <1>1, <1>3, <2>1, CounterMoves
  <2>. QED BY <2>2, ReflectedKept DEF AdoptedIsReflected
<1>4. CASE ~ProbeRebuilt(x) /\ revGen'[x] # revGen[x]
  <2>1. lastRevGen[x] = revocations /\ UNCHANGED revocations
    BY <1>4, AdoptedMoves
  <2>. QED BY <2>1, ReflectedKept DEF CountedIsReflected, Reflected
<1>. QED BY <1>2, <1>3, <1>4

LEMMA StepSInv ==
  ASSUME SInv, [Next]_vars
  PROVE  SInv'
<1>1. CASE Next
  BY <1>1, StepType, StepLoops, StepCounters, StepUnseen, StepFound,
     StepCounted, StepAdopted
  DEF SInv
<1>2. CASE UNCHANGED vars
  BY <1>2
  DEF SInv, TypeOK, Loops, CountersBehind, StaleIsUnseen, LiveIsFound,
      CountedIsReflected, AdoptedIsReflected, Reflected, SignedOut, LiveRows,
      vars, dbVars, indexVars, seenVars, probeVars, loopVars, streamVars,
      pastVars
<1>. QED BY <1>1, <1>2

-----------------------------------------------------------------------------
(* Streams of signed-out sessions.                                          *)

LEMMA NoMishapYet ==
  ASSUME TypeOK, Next, mishaps' = 0
  PROVE  mishaps = 0 /\ ~Mishap
<1>1. ~Mishap
  BY DEF Mishap, TypeOK
<1>2. UNCHANGED mishaps \/ Mishap
  <2>1. ASSUME NEW w \in Workers, Write(w) \/ Authenticate(w)
        PROVE  UNCHANGED mishaps \/ Mishap
    BY <2>1
    DEF Write, WriteRebuilt, WriteRebuildFails, Insert, InsertFails, Revoke,
        RevokeNothing, RevokeFails, Authenticate, ProbeLocks, ProbeRebuilt,
        ProbeRebuildFails, AuthRefresh, AuthRebuilt, AuthRebuildFails,
        AuthHit, AuthMiss, LockAndCompare, Snapshot, NotMoved, MishapIf,
        NoMishap, pastVars
  <2>2. ASSUME NEW w \in Workers,
               \/ PoolRefresh(w) \/ PoolStep(w) \/ Purge(w) \/ PurgeFails(w)
               \/ RefreshDue(w) \/ ProbeDue(w) \/ EditConfig(w)
               \/ \E t \in Tokens : \/ Login(w, t) \/ Logout(w, t)
                                 \/ FetchOnMiss(w, t) \/ EvictLapsed(w, t)
        PROVE  UNCHANGED mishaps \/ Mishap
    BY <2>2
    DEF PoolRefresh, PoolStep, PoolRebuilt, PoolRebuildFails, Purge,
        PurgeFails, RefreshDue, ProbeDue, EditConfig, Login, Logout,
        BeginWrite, FetchOnMiss, EvictLapsed, LockAndCompare, Snapshot,
        NotMoved, MishapIf, NoMishap, pastVars
  <2>3. ASSUME NEW s \in Streams,
               \/ CheckStream(s) \/ Disconnect(s)
               \/ \E t \in Tokens : Connect(s, t)
        PROVE  UNCHANGED mishaps \/ Mishap
    BY <2>3
    DEF CheckStream, CheckThrottled, Check, Disconnect, Connect, MishapIf,
        NoMishap, pastVars
  <2>4. ASSUME NEW t \in Tokens, Expire(t) PROVE Mishap
    BY <2>4 DEF Expire
  <2>. QED BY <2>1, <2>2, <2>3, <2>4 DEF Next
<1>. QED BY <1>1, <1>2

\* A step that leaves streams alone, or ends one.
StreamsOff ==
  \/ UNCHANGED <<stream, cookie, behind>>
  \/ UNCHANGED <<stream, cookie>> /\ \E w \in Workers : Bump(w)
  \/ \E s \in Streams : Closed(s)

\* A step that decides about one.
Decided(s) == UNCHANGED <<stream, cookie>> /\ \E bumped : Decide(s, bumped)

LEMMA StreamSteps ==
  ASSUME TypeOK, Loops, Next
  PROVE  \/ StreamsOff
         \/ \E s \in Streams, t \in Tokens : Connect(s, t)
         \/ \E s \in Streams : Decided(s)
         \/ \E w \in Workers : /\ at[w] = "auth.index" /\ Accepted(w)
                               /\ cookie[subject[w]] \in index[w] \cup LiveRows
<1>1. ASSUME NEW w \in Workers, Write(w) PROVE StreamsOff
  BY <1>1
  DEF Write, WriteRebuilt, WriteRebuildFails, Insert, InsertFails, Revoke,
      RevokeNothing, RevokeFails, StreamsOff, streamVars
<1>2. ASSUME NEW w \in Workers, ProbeRebuilt(w) \/ ProbeRebuildFails(w)
      PROVE  \E s \in Streams : Decided(s)
  <2>1. subject[w] \in Streams
    BY <1>2 DEF ProbeRebuilt, ProbeRebuildFails, Loops, Probing
  <2>. QED BY <1>2, <2>1 DEF ProbeRebuilt, ProbeRebuildFails, Decided
<1>3. ASSUME NEW w \in Workers,
             ProbeLocks(w) \/ AuthRefresh(w) \/ AuthRebuilt(w)
      PROVE  StreamsOff
  BY <1>3 DEF ProbeLocks, AuthRefresh, AuthRebuilt, StreamsOff, streamVars
<1>4. ASSUME NEW w \in Workers,
             AuthRebuildFails(w) \/ AuthHit(w) \/ AuthMiss(w)
      PROVE  \/ StreamsOff
             \/ /\ at[w] = "auth.index" /\ Accepted(w)
                /\ cookie[subject[w]] \in index[w] \cup LiveRows
  <2>1. subject[w] \in Streams
    BY <1>4
    DEF AuthRebuildFails, AuthHit, AuthMiss, Loops, Authenticating
  <2>. QED BY <1>4, <2>1
       DEF AuthRebuildFails, AuthHit, AuthMiss, Refused, StreamsOff
<1>5. ASSUME NEW w \in Workers,
             \/ PoolRefresh(w) \/ PoolStep(w) \/ Purge(w) \/ PurgeFails(w)
             \/ RefreshDue(w) \/ ProbeDue(w) \/ EditConfig(w)
             \/ \E t \in Tokens : \/ Login(w, t) \/ Logout(w, t)
                               \/ FetchOnMiss(w, t) \/ EvictLapsed(w, t)
      PROVE  StreamsOff
  BY <1>5
  DEF PoolRefresh, PoolStep, PoolRebuilt, PoolRebuildFails, Purge, PurgeFails,
      RefreshDue, ProbeDue, EditConfig, Login, Logout, BeginWrite,
      FetchOnMiss, EvictLapsed, StreamsOff, streamVars
<1>6. ASSUME NEW s \in Streams, CheckStream(s)
      PROVE  \/ StreamsOff
             \/ Decided(s)
  BY <1>6 DEF CheckStream, CheckThrottled, Check, StreamsOff, Decided
<1>7. ASSUME NEW s \in Streams, Disconnect(s) PROVE StreamsOff
  BY <1>7 DEF Disconnect, StreamsOff
<1>8. ASSUME NEW t \in Tokens, Expire(t) PROVE StreamsOff
  BY <1>8 DEF Expire, StreamsOff, streamVars
<1>. QED BY <1>1, <1>2, <1>3, <1>4, <1>5, <1>6, <1>7, <1>8
     DEF Next, Authenticate

LEMMA StepClients ==
  ASSUME TypeOK, Loops, Clients, Next
  PROVE  Clients'
<1>1. CASE StreamsOff
  BY <1>1 DEF StreamsOff, Closed, Clients, TypeOK
<1>2. ASSUME NEW s \in Streams, NEW t \in Tokens, Connect(s, t) PROVE Clients'
  BY <1>2 DEF Connect, Clients, TypeOK
<1>3. ASSUME NEW w \in Workers, Accepted(w),
             cookie[subject[w]] \in index[w] \cup LiveRows
      PROVE  Clients'
  BY <1>3 DEF Accepted, Clients, LiveRows, TypeOK
<1>4. CASE UNCHANGED <<stream, cookie>>
  BY <1>4 DEF Clients
<1>. QED BY <1>1, <1>2, <1>3, <1>4, StreamSteps DEF Decided

\* A worker that knows the counter goes on knowing it.
LEMMA KnownStays ==
  ASSUME TypeOK, Next, NEW x \in Workers, revGen[x] >= 0
  PROVE  revGen'[x] >= 0
<1>1. revocations \in Nat /\ gen[x] \in Nat
  BY DEF TypeOK
<1>. QED BY <1>1, AdoptedMoves

LEMMA ProbeAdopts ==
  ASSUME TypeOK, NEW w \in Workers, ProbeRebuilt(w)
  PROVE  revGen'[w] = gen[w] /\ gen[w] \in Nat
BY DEF ProbeRebuilt, Adopt, TypeOK

LEMMA DecideAtHome ==
  ASSUME TypeOK, NEW s \in Streams, NEW bumped, Decide(s, bumped),
         NEW x \in Workers, x # Home[s]
  PROVE  at'[x] = at[x] /\ subject'[x] = subject[x]
BY HomeAssumption DEF Decide, Finish, GoTo, TypeOK

\* A worker gets to authenticate, and to the next probe, only with a sample of
\* the counter.
LEMMA StepSampled ==
  ASSUME SInv, Sampled, Next
  PROVE  Sampled'
<1>. SUFFICES ASSUME mishaps' = 0, NEW x \in Workers, ~(revGen'[x] >= 0)
              PROVE  /\ probeThrottled'[x] => at'[x] \in Probing
                     /\ at'[x] \notin Authenticating
                     /\ \A s \in Streams : Home[s] = x => stream'[s] # "open"
  BY DEF Sampled
<1>1. /\ probeThrottled[x] => at[x] \in Probing
      /\ at[x] \notin Authenticating
      /\ \A s \in Streams : Home[s] = x => stream[s] # "open"
  BY NoMishapYet, KnownStays DEF SInv, Sampled
<1>2. TypeOK /\ Loops /\ ~Mishap /\ mishaps = 0
  BY NoMishapYet DEF SInv
<1>3. \A s \in Streams : Home[s] = x => stream'[s] # "open"
  <2>1. CASE StreamsOff
    BY <1>1, <1>2, <2>1 DEF StreamsOff, Closed, TypeOK
  <2>2. ASSUME NEW s \in Streams, NEW t \in Tokens, Connect(s, t)
        PROVE  \A u \in Streams : Home[u] = x => stream'[u] # "open"
    BY <1>1, <1>2, <2>2 DEF Connect, TypeOK
  <2>3. ASSUME NEW w \in Workers, at[w] = "auth.index", Accepted(w)
        PROVE  \A u \in Streams : Home[u] = x => stream'[u] # "open"
    BY <1>1, <1>2, <2>3 DEF Accepted, Loops, Authenticating, TypeOK
  <2>4. CASE UNCHANGED stream
    BY <1>1, <2>4
  <2>. QED BY <1>2, <2>1, <2>2, <2>3, <2>4, StreamSteps DEF Decided
<1>. DEFINE Goal == /\ probeThrottled'[x] => at'[x] \in Probing
                    /\ at'[x] \notin Authenticating
<1>4. ASSUME NEW w \in Workers, Write(w) PROVE Goal
  <2>1. at[w] \in Writing /\ at' = [at EXCEPT ![w] = at'[w]]
        /\ at'[w] \in Writing \cup {"idle"} /\ UNCHANGED probeThrottled
    BY <1>2, <1>4
    DEF Write, WriteRebuilt, WriteRebuildFails, Insert, InsertFails, Revoke,
        RevokeNothing, RevokeFails, GoTo, Finish, Writing, probeVars, TypeOK
  <2>. QED BY <1>1, <1>2, <2>1 DEF Writing, Probing, Authenticating, TypeOK
<1>5. ASSUME NEW w \in Workers, Authenticate(w) PROVE Goal
  <2>1. CASE w = x
    <3>1. ~ProbeRebuilt(w)
      BY <1>2, <2>1, ProbeAdopts
    <3>2. ~ProbeRebuildFails(w)
      BY <1>2 DEF ProbeRebuildFails
    <3>3. at[w] \notin Authenticating
      BY <1>1, <2>1
    <3>4. ProbeLocks(w)
      BY <1>5, <3>1, <3>2, <3>3
      DEF Authenticate, AuthRefresh, AuthRebuilt, AuthRebuildFails, AuthHit,
          AuthMiss, Authenticating
    <3>. QED BY <1>2, <2>1, <3>4
         DEF ProbeLocks, GoTo, Probing, Authenticating, TypeOK
  <2>2. CASE w # x
    <3>1. at'[x] = at[x]
      <4>1. CASE ProbeRebuilt(w) \/ ProbeRebuildFails(w)
        <5>1. subject[w] \in Streams /\ Home[subject[w]] = w
          BY <1>2, <4>1 DEF ProbeRebuilt, ProbeRebuildFails, Loops, Probing
        <5>. QED BY <1>2, <2>2, <4>1, <5>1, DecideAtHome
             DEF ProbeRebuilt, ProbeRebuildFails
      <4>2. CASE \E where : GoTo(w, where)
        BY <1>2, <2>2, <4>2 DEF GoTo, TypeOK
      <4>3. CASE Finish(w)
        BY <1>2, <2>2, <4>3 DEF Finish, TypeOK
      <4>. QED BY <1>5, <4>1, <4>2, <4>3
           DEF Authenticate, ProbeLocks, AuthRefresh, AuthRebuilt,
               AuthRebuildFails, AuthHit, AuthMiss, Accepted, Refused
    <3>2. UNCHANGED probeThrottled
      BY <1>5
      DEF Authenticate, ProbeLocks, ProbeRebuilt, ProbeRebuildFails,
          AuthRefresh, AuthRebuilt, AuthRebuildFails, AuthHit, AuthMiss,
          probeVars
    <3>. QED BY <1>1, <3>1, <3>2
  <2>. QED BY <2>1, <2>2
<1>6. ASSUME NEW s \in Streams, CheckStream(s) PROVE Goal
  <2>1. CASE Home[s] = x
    <3>1. ~CheckThrottled(s)
      BY <1>1, <2>1 DEF CheckThrottled, Probing
    <3>2. PICK g \in {revocations, -1} :
            /\ MishapIf(g = -1)
            /\ Adopt(x, g) \/ GoTo(x, "probe.lock")
      BY <1>6, <2>1, <3>1 DEF CheckStream, Check
    <3>3. g \in Nat
      BY <1>2, <3>2 DEF MishapIf, TypeOK
    <3>4. GoTo(x, "probe.lock")
      BY <1>2, <3>2, <3>3 DEF Adopt, TypeOK
    <3>. QED BY <1>2, <3>4 DEF GoTo, Probing, Authenticating, TypeOK
  <2>2. CASE Home[s] # x
    <3>1. at'[x] = at[x]
      <4>1. CASE \E bumped : Decide(s, bumped)
        BY <1>2, <2>2, <4>1, DecideAtHome
      <4>2. CASE GoTo(Home[s], "probe.lock")
        BY <1>2, <2>2, <4>2 DEF GoTo, TypeOK
      <4>. QED BY <1>6, <4>1, <4>2 DEF CheckStream, CheckThrottled, Check
    <3>2. probeThrottled'[x] = probeThrottled[x]
      BY <1>2, <1>6, <2>2
      DEF CheckStream, CheckThrottled, Check, probeVars, TypeOK
    <3>. QED BY <1>1, <3>1, <3>2
  <2>. QED BY <2>1, <2>2
<1>7. ASSUME NEW w \in Workers, NEW t \in Tokens, Login(w, t) \/ Logout(w, t)
      PROVE  Goal
  <2>1. at[w] = "idle" /\ UNCHANGED probeThrottled
        /\ \E where \in Writing : GoTo(w, where)
    BY <1>7 DEF Login, Logout, BeginWrite, Writing, probeVars
  <2>. QED BY <1>1, <1>2, <2>1
       DEF GoTo, Writing, Probing, Authenticating, TypeOK
<1>8. ASSUME UNCHANGED at, probeThrottled'[x] => probeThrottled[x] PROVE Goal
  BY <1>1, <1>8
<1>9. ASSUME NEW w \in Workers,
             \/ PoolRefresh(w) \/ PoolStep(w) \/ Purge(w) \/ PurgeFails(w)
             \/ RefreshDue(w) \/ ProbeDue(w) \/ EditConfig(w)
             \/ \E t \in Tokens : FetchOnMiss(w, t) \/ EvictLapsed(w, t)
      PROVE  Goal
  <2>1. UNCHANGED at
    BY <1>9
    DEF PoolRefresh, PoolStep, PoolRebuilt, PoolRebuildFails, Purge,
        PurgeFails, RefreshDue, ProbeDue, EditConfig, FetchOnMiss,
        EvictLapsed, loopVars
  <2>2. probeThrottled'[x] => probeThrottled[x]
    BY <1>2, <1>9
    DEF PoolRefresh, PoolStep, PoolRebuilt, PoolRebuildFails, Purge,
        PurgeFails, RefreshDue, ProbeDue, EditConfig, FetchOnMiss,
        EvictLapsed, probeVars, TypeOK
  <2>. QED BY <1>8, <2>1, <2>2
<1>10. ASSUME NEW s \in Streams,
              Disconnect(s) \/ \E t \in Tokens : Connect(s, t)
       PROVE  Goal
  BY <1>8, <1>10 DEF Disconnect, Connect, loopVars, probeVars
<1>11. ASSUME NEW t \in Tokens, Expire(t) PROVE Goal
  BY <1>2, <1>11 DEF Expire
<1>. QED BY <1>3, <1>4, <1>5, <1>6, <1>7, <1>9, <1>10, <1>11 DEF Next

\* A signed-out stream's end stays due while neither its worker's counter nor
\* its own state moves.
LEMMA EndKept ==
  ASSUME SInv, Clients, EndDue, Next, mishaps = 0,
         UNCHANGED <<revocations, revGen, stream, cookie>>,
         \A s \in Streams : behind[s] => behind'[s],
         \A w \in Workers : at[w] \in Authenticating =>
           at'[w] \in Authenticating /\ subject'[w] = subject[w]
  PROVE  EndDue'
<1>1. SUFFICES ASSUME NEW s \in Streams, stream'[s] = "open",
                      SignedOut(cookie[s])'
               PROVE  \/ revGen'[Home[s]] # revocations'
                      \/ behind'[s]
                      \/ /\ subject'[Home[s]] = s
                         /\ at'[Home[s]] \in Authenticating
  BY DEF EndDue
<1>2. TypeOK /\ Loops /\ cookie[s] \in Tokens /\ stream[s] = "open"
      /\ Home[s] \in Workers
  BY <1>1, HomeAssumption DEF SInv, Clients
<1>3. SignedOut(cookie[s])
  <2>1. ASSUME ~SignedOut(cookie[s]) PROVE revocations' = revocations + 1
    BY <1>1, <1>2, <2>1, OnlyRevokeSignsOut DEF SignedOut
  <2>. QED BY <1>2, <2>1 DEF TypeOK
<1>. QED BY <1>1, <1>2, <1>3 DEF EndDue

\* A check of one stream answers for every stream of its worker.
LEMMA EndDecided ==
  ASSUME SInv, Clients, Sampled, EndDue, mishaps = 0,
         UNCHANGED <<rows, revocations, stream, cookie>>,
         NEW s \in Streams, NEW bumped \in BOOLEAN, Decide(s, bumped),
         at[Home[s]] \notin Authenticating,
         bumped \/ revGen'[Home[s]] = revGen[Home[s]] \/ revGen[Home[s]] < 0,
         \A w \in Workers : w # Home[s] => revGen'[w] = revGen[w]
  PROVE  EndDue'
<1>1. SUFFICES ASSUME NEW u \in Streams, stream[u] = "open",
                      SignedOut(cookie[u])
               PROVE  \/ revGen'[Home[u]] # revocations
                      \/ behind'[u]
                      \/ /\ subject'[Home[u]] = u
                         /\ at'[Home[u]] \in Authenticating
  BY DEF EndDue, SignedOut
<1>2. TypeOK /\ Home[u] \in Workers /\ Home[s] \in Workers
  BY HomeAssumption DEF SInv
<1>3. \/ revGen[Home[u]] # revocations
      \/ behind[u]
      \/ subject[Home[u]] = u /\ at[Home[u]] \in Authenticating
  BY <1>1 DEF EndDue
<1>4. revGen[Home[u]] >= 0 /\ revGen[Home[u]] \in Nat \cup {-1}
  BY <1>1, <1>2 DEF Sampled, TypeOK
<1>5. CASE u = s
  <2>1. CASE ~behind[s] /\ ~bumped
    BY <1>2, <1>3, <1>4, <1>5, <2>1
  <2>2. CASE behind[s] \/ bumped
    BY <1>2, <1>5, <2>2 DEF Decide, GoTo, Authenticating, TypeOK
  <2>. QED BY <2>1, <2>2
<1>6. CASE u # s /\ Home[u] = Home[s]
  <2>1. CASE bumped
    BY <1>1, <1>6, <2>1 DEF Decide, Served
  <2>2. CASE ~bumped
    <3>1. revGen'[Home[u]] = revGen[Home[u]]
      BY <1>2, <1>4, <1>6, <2>2
    <3>2. behind[u] => behind'[u]
      BY <1>6 DEF Decide
    <3>. QED BY <1>3, <1>6, <3>1, <3>2
  <2>. QED BY <2>1, <2>2
<1>7. CASE Home[u] # Home[s]
  <2>1. at'[Home[u]] = at[Home[u]] /\ subject'[Home[u]] = subject[Home[u]]
    BY <1>2, <1>7, DecideAtHome
  <2>2. behind[u] => behind'[u]
    BY <1>7 DEF Decide
  <2>. QED BY <1>2, <1>3, <1>7, <2>1, <2>2
<1>. QED BY <1>5, <1>6, <1>7

\* A revocation is news to every worker that knows the counter.
LEMMA EndRevoked ==
  ASSUME SInv, Sampled, mishaps = 0, NEW w \in Workers, Revoke(w)
  PROVE  EndDue'
<1>1. SUFFICES ASSUME NEW s \in Streams, stream'[s] = "open"
               PROVE  revGen'[Home[s]] # revocations'
  BY DEF EndDue
<1>2. UNCHANGED <<stream, revGen>> /\ revocations' = revocations + 1
  BY DEF Revoke, probeVars
<1>3. Home[s] \in Workers /\ revocations \in Nat /\ revGen[Home[s]] <= revocations
      /\ revGen[Home[s]] \in Nat \cup {-1}
  BY HomeAssumption DEF SInv, TypeOK, CountersBehind
<1>. QED BY <1>2, <1>3

\* A stream is let in on a session the index has, or that is live.
LEMMA EndAccepted ==
  ASSUME SInv, Clients, EndDue, mishaps = 0, NEW w \in Workers,
         at[w] = "auth.index", Accepted(w),
         UNCHANGED <<rows, revocations, revGen>>,
         cookie[subject[w]] \in index[w] \cup LiveRows
  PROVE  EndDue'
<1>1. SUFFICES ASSUME NEW s \in Streams, stream'[s] = "open",
                      SignedOut(cookie[s])
               PROVE  \/ revGen[Home[s]] # revocations
                      \/ behind[s]
                      \/ /\ subject'[Home[s]] = s
                         /\ at'[Home[s]] \in Authenticating
  BY DEF EndDue, SignedOut, Accepted
<1>2. TypeOK /\ Home[s] \in Workers /\ subject[w] \in Streams
      /\ Home[subject[w]] = w
  BY HomeAssumption DEF SInv, Loops, Authenticating
<1>3. CASE s = subject[w]
  <2>1. cookie[s] \in index[w]
    BY <1>1, <1>3 DEF LiveRows, SignedOut
  <2>2. ~Reflected(w)
    BY <1>1, <2>1 DEF Reflected
  <2>. QED BY <1>2, <1>3, <2>2 DEF SInv, AdoptedIsReflected
<1>4. CASE s # subject[w]
  <2>1. stream[s] = "open"
    BY <1>1, <1>2, <1>4 DEF Accepted, TypeOK
  <2>2. \/ revGen[Home[s]] # revocations
        \/ behind[s]
        \/ subject[Home[s]] = s /\ at[Home[s]] \in Authenticating
    BY <1>1, <2>1 DEF EndDue
  <2>3. Home[s] # w =>
          at'[Home[s]] = at[Home[s]] /\ subject'[Home[s]] = subject[Home[s]]
    BY <1>2 DEF Accepted, Finish, TypeOK
  <2>. QED BY <1>2, <1>4, <2>2, <2>3
<1>. QED BY <1>3, <1>4

\* A stream that ends is due no more, and the others are as they were.
LEMMA EndClosed ==
  ASSUME SInv, EndDue, mishaps = 0, NEW s \in Streams, Closed(s),
         UNCHANGED <<rows, revocations, revGen>>,
         \A w \in Workers : at[w] \in Authenticating /\ subject[w] # s =>
           at'[w] \in Authenticating /\ subject'[w] = subject[w]
  PROVE  EndDue'
<1>1. SUFFICES ASSUME NEW u \in Streams, stream'[u] = "open",
                      SignedOut(cookie'[u])
               PROVE  \/ revGen[Home[u]] # revocations
                      \/ behind'[u]
                      \/ /\ subject'[Home[u]] = u
                         /\ at'[Home[u]] \in Authenticating
  BY DEF EndDue, SignedOut
<1>2. TypeOK /\ Home[u] \in Workers
  BY HomeAssumption DEF SInv
<1>3. u # s
  BY <1>1, <1>2 DEF Closed, TypeOK
<1>4. stream[u] = "open" /\ cookie'[u] = cookie[u] /\ behind'[u] = behind[u]
  BY <1>1, <1>2, <1>3 DEF Closed, TypeOK
<1>5. \/ revGen[Home[u]] # revocations
      \/ behind[u]
      \/ subject[Home[u]] = u /\ at[Home[u]] \in Authenticating
  BY <1>1, <1>4 DEF EndDue
<1>. QED BY <1>2, <1>3, <1>4, <1>5

\* A stream that begins is not open yet.
LEMMA EndOpening ==
  ASSUME SInv, EndDue, mishaps = 0, NEW s \in Streams, NEW t \in Tokens,
         Connect(s, t)
  PROVE  EndDue'
<1>1. UNCHANGED <<rows, revocations, revGen, at, subject, behind>>
  BY DEF Connect, dbVars, probeVars, loopVars
<1>2. ASSUME NEW u \in Streams, stream'[u] = "open"
      PROVE  stream[u] = "open" /\ cookie'[u] = cookie[u]
  BY <1>2 DEF Connect, SInv, TypeOK
<1>. QED BY <1>1, <1>2 DEF EndDue, SignedOut

LEMMA StepEndDue ==
  ASSUME SInv, Clients, Sampled, EndDue, Next
  PROVE  EndDue'
<1>. SUFFICES ASSUME mishaps' = 0 PROVE EndDue'
  BY DEF EndDue
<1>1. TypeOK /\ Loops /\ mishaps = 0 /\ ~Mishap
  BY NoMishapYet DEF SInv
<1>. DEFINE Kept ==
              /\ UNCHANGED <<revocations, revGen, stream, cookie>>
              /\ \A s \in Streams : behind[s] => behind'[s]
              /\ \A w \in Workers : at[w] \in Authenticating =>
                   at'[w] \in Authenticating /\ subject'[w] = subject[w]
<1>2. ASSUME Kept PROVE EndDue'
  BY <1>1, <1>2, EndKept
\* Streams and the loop are where they were.
<1>3. CASE UNCHANGED <<revocations, revGen, streamVars, at, subject>>
  BY <1>2, <1>3 DEF streamVars
\* The loop does something else than authenticating.
<1>4. ASSUME NEW w \in Workers, at[w] \notin Authenticating,
             Finish(w) \/ UNCHANGED subject,
             \A x \in Workers : x # w => at'[x] = at[x],
             UNCHANGED <<revocations, revGen, streamVars>>
      PROVE  EndDue'
  BY <1>1, <1>2, <1>4 DEF Finish, streamVars, TypeOK
<1>5. ASSUME NEW w \in Workers, Write(w) PROVE EndDue'
  <2>1. CASE Revoke(w)
    BY <1>1, <2>1, EndRevoked
  <2>2. CASE ~Revoke(w)
    <3>1. at[w] \notin Authenticating
      BY <1>5
      DEF Write, WriteRebuilt, WriteRebuildFails, Insert, InsertFails, Revoke,
          RevokeNothing, RevokeFails, Authenticating
    <3>2. UNCHANGED <<revocations, revGen, streamVars>>
      BY <1>5, <2>2
      DEF Write, WriteRebuilt, WriteRebuildFails, Insert, InsertFails,
          RevokeNothing, RevokeFails, dbVars, probeVars
    <3>3. Finish(w) \/ (UNCHANGED subject /\ \E where : GoTo(w, where))
      BY <1>5
      DEF Write, WriteRebuilt, WriteRebuildFails, Insert, InsertFails, Revoke,
          RevokeNothing, RevokeFails
    <3>4. \A x \in Workers : x # w => at'[x] = at[x]
      BY <1>1, <3>3 DEF GoTo, Finish, TypeOK
    <3>. QED BY <1>4, <3>1, <3>2, <3>3, <3>4
  <2>. QED BY <2>1, <2>2
<1>6. ASSUME NEW w \in Workers, Authenticate(w) PROVE EndDue'
  <2>1. CASE ProbeLocks(w)
    <3>1. at[w] \notin Authenticating /\ UNCHANGED subject
          /\ UNCHANGED <<revocations, revGen, streamVars>>
      BY <2>1 DEF ProbeLocks, Authenticating, dbVars, probeVars
    <3>2. \A x \in Workers : x # w => at'[x] = at[x]
      BY <1>1, <2>1 DEF ProbeLocks, GoTo, TypeOK
    <3>. QED BY <1>4, <3>1, <3>2
  <2>2. CASE ProbeRebuilt(w)
    <3>1. subject[w] \in Streams /\ Home[subject[w]] = w
          /\ at[w] \notin Authenticating
      BY <1>1, <2>2 DEF ProbeRebuilt, Loops, Probing, Authenticating
    <3>2. Decide(subject[w], Bumps(w, gen[w]))
          /\ UNCHANGED <<rows, revocations, stream, cookie>>
      BY <2>2 DEF ProbeRebuilt, dbVars
    <3>3. Bumps(w, gen[w]) \/ revGen'[w] = revGen[w] \/ revGen[w] < 0
      <4>1. revGen'[w] = gen[w] /\ gen[w] \in Nat /\ revGen[w] \in Nat \cup {-1}
        BY <1>1, <2>2, ProbeAdopts DEF TypeOK
      <4>. QED BY <4>1 DEF Bumps
    <3>4. \A x \in Workers : x # w => revGen'[x] = revGen[x]
      BY <1>1, <2>2 DEF ProbeRebuilt, Adopt, TypeOK
    <3>5. Bumps(w, gen[w]) \in BOOLEAN
      BY DEF Bumps
    <3>. HIDE DEF Kept
    <3>. QED BY <1>1, <3>1, <3>2, <3>3, <3>4, <3>5, EndDecided
  <2>3. CASE AuthRefresh(w) \/ AuthRebuilt(w)
    <3>1. UNCHANGED <<revocations, revGen, streamVars, subject>>
      BY <2>3 DEF AuthRefresh, AuthRebuilt, dbVars, probeVars
    <3>2. \E where \in Authenticating : GoTo(w, where)
      BY <2>3 DEF AuthRefresh, AuthRebuilt, Authenticating
    <3>3. \A x \in Workers :
            at[x] \in Authenticating => at'[x] \in Authenticating
      BY <1>1, <3>2 DEF GoTo, TypeOK
    <3>. QED BY <1>2, <3>1, <3>3 DEF streamVars
  <2>4. CASE AuthHit(w) \/ AuthMiss(w)
    <3>1. at[w] = "auth.index" /\ UNCHANGED <<rows, revocations, revGen>>
      BY <2>4 DEF AuthHit, AuthMiss, dbVars, probeVars
    <3>2. CASE /\ Accepted(w)
               /\ cookie[subject[w]] \in index[w] \cup LiveRows
      BY <1>1, <3>1, <3>2, EndAccepted
    <3>3. CASE Refused(w)
      <4>1. subject[w] \in Streams
        BY <1>1, <3>1 DEF Loops, Authenticating
      <4>2. \A x \in Workers : x # w =>
              at'[x] = at[x] /\ subject'[x] = subject[x]
        BY <1>1, <3>3 DEF Refused, Finish, TypeOK
      <4>. QED BY <1>1, <3>1, <3>3, <4>1, <4>2, EndClosed DEF Refused
    <3>. QED BY <2>4, <3>2, <3>3 DEF AuthHit, AuthMiss
  <2>5. ~ProbeRebuildFails(w) /\ ~AuthRebuildFails(w)
    BY <1>1 DEF ProbeRebuildFails, AuthRebuildFails
  <2>. QED BY <1>6, <2>1, <2>2, <2>3, <2>4, <2>5 DEF Authenticate
<1>7. ASSUME NEW w \in Workers, NEW t \in Tokens, Login(w, t) \/ Logout(w, t)
      PROVE  EndDue'
  <2>1. /\ at[w] \notin Authenticating /\ UNCHANGED subject
        /\ UNCHANGED <<revocations, revGen, streamVars>>
        /\ \E where : GoTo(w, where)
    BY <1>7 DEF Login, Logout, BeginWrite, Authenticating, dbVars, probeVars
  <2>2. \A x \in Workers : x # w => at'[x] = at[x]
    BY <1>1, <2>1 DEF GoTo, TypeOK
  <2>. QED BY <1>4, <2>1, <2>2
<1>8. ASSUME NEW s \in Streams, CheckStream(s) PROVE EndDue'
  <2>1. /\ Home[s] \in Workers /\ at[Home[s]] \notin Authenticating
        /\ UNCHANGED <<rows, revocations, stream, cookie>>
    BY <1>8, HomeAssumption
    DEF CheckStream, CheckThrottled, Check, Authenticating, dbVars
  <2>2. CASE CheckThrottled(s)
    <3>1. Decide(s, FALSE) /\ UNCHANGED revGen
      BY <2>2 DEF CheckThrottled, probeVars
    <3>. HIDE DEF Kept
    <3>. QED BY <1>1, <2>1, <3>1, EndDecided
  <2>3. CASE Check(s)
    <3>1. PICK g \in {revocations, -1} :
            /\ MishapIf(g = -1)
            /\ IF g \in {-1, lastRevGen[Home[s]]}
                 THEN Adopt(Home[s], g) /\ Decide(s, Bumps(Home[s], g))
                 ELSE /\ GoTo(Home[s], "probe.lock")
                      /\ gen' = [gen EXCEPT ![Home[s]] = g]
                      /\ subject' = [subject EXCEPT ![Home[s]] = s]
                      /\ UNCHANGED <<revGen, token, behind>>
      BY <2>3 DEF Check
    <3>2. g \in Nat
      BY <1>1, <3>1 DEF MishapIf, TypeOK
    <3>3. CASE g \in {-1, lastRevGen[Home[s]]}
      <4>1. revGen' = [revGen EXCEPT ![Home[s]] = g]
        BY <3>1, <3>2, <3>3 DEF Adopt
      <4>2. revGen \in [Workers -> Nat \cup {-1}]
        BY <1>1 DEF TypeOK
      <4>3. /\ Bumps(Home[s], g) \in BOOLEAN
            /\ \/ Bumps(Home[s], g)
               \/ revGen'[Home[s]] = revGen[Home[s]]
               \/ revGen[Home[s]] < 0
        BY <2>1, <3>2, <4>1, <4>2 DEF Bumps
      <4>4. \A w \in Workers : w # Home[s] => revGen'[w] = revGen[w]
        BY <2>1, <4>1, <4>2
      <4>. HIDE DEF Kept
      <4>. QED BY <1>1, <2>1, <3>1, <3>3, <4>3, <4>4, EndDecided
    <3>4. CASE g \notin {-1, lastRevGen[Home[s]]}
      BY <1>1, <1>2, <2>1, <3>1, <3>4 DEF GoTo, TypeOK
    <3>. QED BY <3>3, <3>4
  <2>. QED BY <1>8, <2>2, <2>3 DEF CheckStream
<1>9. ASSUME NEW w \in Workers,
             \/ PoolRefresh(w) \/ PoolStep(w) \/ Purge(w) \/ PurgeFails(w)
             \/ RefreshDue(w) \/ ProbeDue(w)
             \/ \E t \in Tokens : FetchOnMiss(w, t) \/ EvictLapsed(w, t)
      PROVE  EndDue'
  BY <1>3, <1>9
  DEF PoolRefresh, PoolStep, PoolRebuilt, PoolRebuildFails, Purge, PurgeFails,
      RefreshDue, ProbeDue, FetchOnMiss, EvictLapsed, dbVars, probeVars,
      loopVars
<1>10. ASSUME NEW w \in Workers, EditConfig(w) PROVE EndDue'
  <2>1. Kept
    BY <1>10 DEF EditConfig, Bump, dbVars, probeVars, loopVars
  <2>. QED BY <1>2, <2>1
<1>11. ASSUME NEW s \in Streams, Disconnect(s) PROVE EndDue'
  BY <1>1, <1>11, EndClosed DEF Disconnect, dbVars, probeVars, loopVars
<1>12. ASSUME NEW s \in Streams, NEW t \in Tokens, Connect(s, t) PROVE EndDue'
  BY <1>1, <1>12, EndOpening DEF Connect, dbVars, probeVars, loopVars
<1>13. ASSUME NEW t \in Tokens, Expire(t) PROVE EndDue'
  BY <1>1, <1>13 DEF Expire
<1>. QED BY <1>5, <1>6, <1>7, <1>8, <1>9, <1>10, <1>11, <1>12, <1>13 DEF Next

LEMMA StepCInv ==
  ASSUME CInv, [Next]_vars
  PROVE  CInv'
<1>1. CASE Next
  BY <1>1, StepSInv, StepClients, StepSampled, StepEndDue DEF CInv, SInv
<1>2. CASE UNCHANGED vars
  <2>1. SInv'
    BY <1>2, StepSInv DEF CInv
  <2>. QED BY <1>2, <2>1
       DEF CInv, Clients, Sampled, EndDue, SignedOut, vars, dbVars, probeVars,
           loopVars, streamVars, pastVars
<1>. QED BY <1>1, <1>2

-----------------------------------------------------------------------------
(* Theorems.                                                                *)

\* The inductive invariant holds in every reachable state, whatever the workers
\* interleave and whatever fails (sessions_store.py, version.py).
THEOREM Inductive == Spec => []CInv
<1>1. Init => CInv
  BY InitCInv
<1>2. CInv /\ [Next]_vars => CInv'
  BY StepCInv
<1>. QED BY <1>1, <1>2, PTL DEF Spec

\* Every variable stays in its type; a sign-in or sign-out under way has its
\* token (create_session, revoke_session).
THEOREM TypeCorrect == Spec => []TypeOK
<1>1. CInv => TypeOK
  BY DEF CInv, SInv
<1>. QED BY <1>1, Inductive, PTL

\* A revocation an index does not reflect is always still to be seen
\* (_rebuild_index_locked records the version it read before the SELECT).
THEOREM UnseenCorrect == Spec => []StaleIsUnseen
<1>1. CInv => StaleIsUnseen
  BY DEF CInv, SInv
<1>. QED BY <1>1, Inductive, PTL

\* A live session is in the index or a miss fetches it, unless this worker's own
\* sign-out of it failed (_fetch_on_miss).
THEOREM FoundCorrect == Spec => []LiveIsFound
<1>1. CInv => LiveIsFound
  BY DEF CInv, SInv
<1>. QED BY <1>1, Inductive, PTL

\* A counter taken for reflected is (revoke_session, revocation_generation).
THEOREM CountedCorrect == Spec => []CountedIsReflected
<1>1. CInv => CountedIsReflected
  BY DEF CInv, SInv
<1>. QED BY <1>1, Inductive, PTL

\* Until a read fails, no stream of a signed-out session is forgotten
\* (_bump_if_sibling_committed, _refresh_ident).
THEOREM CutOffCorrect == Spec => []CutOffComing
<1>1. CInv => CutOffComing
  <2>1. SUFFICES ASSUME CInv, mishaps = 0, NEW s \in Streams,
                        stream[s] = "open", SignedOut(cookie[s])
                 PROVE  EndComing(s)
    BY DEF CutOffComing
  <2>2. Home[s] \in Workers
    BY HomeAssumption
  <2>3. revGen[Home[s]] >= 0
    BY <2>1, <2>2 DEF CInv, Sampled
  <2>. QED BY <2>1, <2>3 DEF CInv, EndDue, EndComing
<1>. QED BY <1>1, Inductive, PTL
=============================================================================
