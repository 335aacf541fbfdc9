---------------------------- MODULE SessionsStore ----------------------------
(***************************************************************************)
(* Browser sessions across uvicorn workers: auth/sessions_store.py, the    *)
(* probe of settings/version.py, and the live dictation streams that       *)
(* re-authenticate when it reports a change (streaming/routes.py).         *)
(*                                                                         *)
(* Workers are processes on one SQLite file: an action is at most one SQL  *)
(* statement, so that another worker may commit between any two, and the   *)
(* in-memory effects up to the next one.  In a worker the event loop signs *)
(* in, signs out and checks streams, one at a time; the thread pool looks  *)
(* sessions up and purges; both use the index under the lock.              *)
(***************************************************************************)
EXTENDS Integers

CONSTANTS
  Workers,
  Tokens,      \* session tokens, each created at most once
  Streams,     \* live dictation connections signed in with a cookie
  Home,        \* the worker that serves each stream
  MaxMishaps,  \* bound: failed reads and writes, and expiries, together
  NoToken, NoStream

ASSUME HomeAssumption == Home \in [Streams -> Workers]
ASSUME NullAssumption == NoToken \notin Tokens /\ NoStream \notin Streams
ASSUME MishapsAssumption == MaxMishaps \in Nat

VARIABLES
  rows,           \* each session's row; "purged", "lapsed": deleted
  expired,        \* tokens past their expiry
  revocations,    \* meta's counter
  index,          \* _SESSION_INDEX
  unseen,         \* PRAGMA data_version is not _DATA_VERSION
  missed,         \* ... and will not be once the rebuild under way is done
  lastRevGen,     \* _LAST_REV_GEN
  throttled,      \* _LAST_REFRESH_TS is less than the interval ago
  revGen,         \* _SESSIONS_REV_GEN
  probeThrottled, \* _KEYS_LAST_PROBE is less than the interval ago
  lock,           \* who holds _lock: "loop", "pool" or "free"
  at,             \* what the event loop is in the middle of
  token,          \* ... for which session
  subject,        \* ... for which stream
  gen,            \* the counter its probe read
  stream,         \* "closed", "opening" or "open"
  cookie,         \* the token a stream authenticates with
  behind,         \* its _ident_version is not its worker's _CONFIG_VERSION
  unrecorded,     \* tokens whose sign-out failed at a worker (history)
  mishaps         \* failures and expiries so far (bound)

dbVars     == <<rows, expired, revocations>>
indexVars  == <<index, lastRevGen, throttled>>
seenVars   == <<unseen, missed>>
probeVars  == <<revGen, probeThrottled>>
loopVars   == <<at, token, subject, gen>>
streamVars == <<stream, cookie, behind>>
pastVars   == <<unrecorded, mishaps>>
vars == <<dbVars, indexVars, seenVars, probeVars, loopVars, streamVars, lock,
          pastVars>>

Rebuilding == {"login.rebuild", "logout.rebuild", "probe.rebuild",
               "auth.rebuild"}

TypeOK ==
  /\ rows \in [Tokens -> {"unborn", "live", "revoked", "purged", "lapsed"}]
  /\ expired \subseteq Tokens
  /\ revocations \in Nat
  /\ index \in [Workers -> SUBSET Tokens]
  /\ unseen \in [Workers -> BOOLEAN]
  /\ missed \in [Workers -> BOOLEAN]
  /\ lastRevGen \in [Workers -> Nat \cup {-1}]
  /\ throttled \in [Workers -> BOOLEAN]
  /\ revGen \in [Workers -> Nat \cup {-1}]
  /\ probeThrottled \in [Workers -> BOOLEAN]
  /\ lock \in [Workers -> {"free", "loop", "pool"}]
  /\ at \in [Workers -> Rebuilding \cup
               {"idle", "login.write", "logout.write", "probe.lock", "auth",
                "auth.index"}]
  /\ token \in [Workers -> Tokens \cup {NoToken}]
  /\ subject \in [Workers -> Streams \cup {NoStream}]
  /\ gen \in [Workers -> Nat]
  /\ stream \in [Streams -> {"closed", "opening", "open"}]
  /\ cookie \in [Streams -> Tokens \cup {NoToken}]
  /\ behind \in [Streams -> BOOLEAN]
  /\ unrecorded \subseteq Workers \X Tokens
  /\ mishaps \in 0 .. MaxMishaps

\* Every worker has run init_db.
Init ==
  /\ rows = [t \in Tokens |-> "unborn"]
  /\ expired = {}
  /\ revocations = 0
  /\ index = [w \in Workers |-> {}]
  /\ unseen = [w \in Workers |-> FALSE]
  /\ missed = [w \in Workers |-> FALSE]
  /\ lastRevGen = [w \in Workers |-> -1]
  /\ throttled = [w \in Workers |-> FALSE]
  /\ revGen = [w \in Workers |-> -1]
  /\ probeThrottled = [w \in Workers |-> FALSE]
  /\ lock = [w \in Workers |-> "free"]
  /\ at = [w \in Workers |-> "idle"]
  /\ token = [w \in Workers |-> NoToken]
  /\ subject = [w \in Workers |-> NoStream]
  /\ gen = [w \in Workers |-> 0]
  /\ stream = [s \in Streams |-> "closed"]
  /\ cookie = [s \in Streams |-> NoToken]
  /\ behind = [s \in Streams |-> FALSE]
  /\ unrecorded = {}
  /\ mishaps = 0

-----------------------------------------------------------------------------
(* The database and the index.                                              *)

\* A rebuild has read data_version and not yet the rows.
ReadingRows(w) == at[w] \in Rebuilding \/ lock[w] = "pool"

\* A commit by w moves data_version on every other connection.
Commit(w) ==
  /\ unseen' = [x \in Workers |-> x # w \/ unseen[x]]
  /\ missed' = [x \in Workers |->
                  missed[x] \/ (x # w /\ ReadingRows(x))]

Mishap == mishaps < MaxMishaps /\ mishaps' = mishaps + 1
NoMishap == UNCHANGED mishaps
MishapIf(failed) == IF failed THEN Mishap ELSE NoMishap

\* _rebuild_index_locked reads the version it will record, before the SELECT;
\* _data_version_locked answers a failed read with the recorded version.
Snapshot(w) ==
  \E stays \in {FALSE, unseen[w]} :
    /\ missed' = [missed EXCEPT ![w] = stays]
    /\ MishapIf(stays)

\* Nothing to absorb, or the read failed.
NotMoved(w) == MishapIf(unseen[w]) /\ UNCHANGED missed

LiveRows == {t \in Tokens : rows[t] = "live"} \ expired

\* The SELECT of _rebuild_index_locked, and what follows it.
Reindex(w) ==
  /\ index' = [index EXCEPT ![w] = LiveRows]
  /\ unseen' = [unseen EXCEPT ![w] = missed[w]]
  /\ missed' = [missed EXCEPT ![w] = FALSE]

Indexed(w, t) == index' = [index EXCEPT ![w] = @ \cup {t}]
Popped(w, t) == index' = [index EXCEPT ![w] = @ \ {t}]

\* The lock is taken and data_version read: a rebuild starts if it moved.
LockAndCompare(w, holder) ==
  /\ lock[w] = "free"
  /\ \/ unseen[w] /\ lock' = [lock EXCEPT ![w] = holder] /\ Snapshot(w)
     \/ NotMoved(w) /\ UNCHANGED lock

Free(w) == lock' = [lock EXCEPT ![w] = "free"]

\* The SELECT raised: the index and the recorded version stay.
Abandon(w) ==
  /\ Free(w)
  /\ missed' = [missed EXCEPT ![w] = FALSE]
  /\ UNCHANGED unseen

\* The event loop is done with what it was doing.
Finish(w) ==
  /\ at' = [at EXCEPT ![w] = "idle"]
  /\ token' = [token EXCEPT ![w] = NoToken]
  /\ subject' = [subject EXCEPT ![w] = NoStream]
  /\ gen' = [gen EXCEPT ![w] = 0]

GoTo(w, where) == at' = [at EXCEPT ![w] = where]

-----------------------------------------------------------------------------
(* Sign-in and sign-out, on the event loop.                                 *)

\* bump_config_version: the streams of w are behind it.
Served(w) == {s \in Streams : Home[s] = w /\ stream[s] # "closed"}
Bump(w) == behind' = [s \in Streams |-> s \in Served(w) \/ behind[s]]

\* Take the lock to write: absorb what siblings committed first.
BeginWrite(w, t, write, rebuild) ==
  /\ at[w] = "idle" /\ lock[w] = "free"
  /\ token' = [token EXCEPT ![w] = t]
  /\ lock' = [lock EXCEPT ![w] = "loop"]
  /\ \/ unseen[w] /\ GoTo(w, rebuild) /\ Snapshot(w)
     \/ NotMoved(w) /\ GoTo(w, write)
  /\ UNCHANGED <<dbVars, indexVars, unseen, probeVars, subject, gen, streamVars,
                 unrecorded>>

Login(w, t) ==
  /\ rows[t] = "unborn" /\ \A x \in Workers : token[x] # t
  /\ BeginWrite(w, t, "login.write", "login.rebuild")

Logout(w, t) ==
  /\ rows[t] # "unborn"
  /\ BeginWrite(w, t, "logout.write", "logout.rebuild")

WriteRebuilt(w) ==
  /\ at[w] \in {"login.rebuild", "logout.rebuild"}
  /\ Reindex(w)
  /\ GoTo(w, IF at[w] = "login.rebuild" THEN "login.write" ELSE "logout.write")
  /\ UNCHANGED <<dbVars, lastRevGen, throttled, probeVars, token, subject, gen,
                 streamVars, lock, pastVars>>

\* The SELECT raises: nothing is written, the route answers 500.
WriteRebuildFails(w) ==
  /\ Mishap
  /\ at[w] \in {"login.rebuild", "logout.rebuild"}
  /\ Abandon(w) /\ Finish(w)
  /\ UNCHANGED <<dbVars, indexVars, probeVars, streamVars, unrecorded>>

\* Fault: the new row is left to the next rebuild.
InsertOnly(w) ==
  /\ at[w] = "login.write"
  /\ rows' = [rows EXCEPT ![token[w]] = "live"]
  /\ Commit(w)
  /\ Free(w) /\ Finish(w)
  /\ UNCHANGED <<expired, revocations, indexVars, probeVars, streamVars,
                 pastVars>>

\* Fault: the writer stamps the version it sees after its own commit.
InsertRestamps(w) ==
  /\ at[w] = "login.write"
  /\ rows' = [rows EXCEPT ![token[w]] = "live"]
  /\ unseen' = [x \in Workers |-> x # w]
  /\ missed' = [x \in Workers |->
                  missed[x] \/ (x # w /\ ReadingRows(x))]
  /\ Indexed(w, token[w])
  /\ Free(w) /\ Finish(w)
  /\ UNCHANGED <<expired, revocations, lastRevGen, throttled, probeVars,
                 streamVars, pastVars>>

Insert(w) ==
  /\ at[w] = "login.write"
  /\ rows' = [rows EXCEPT ![token[w]] = "live"]
  /\ Commit(w)
  /\ Indexed(w, token[w])
  /\ Free(w) /\ Finish(w)
  /\ UNCHANGED <<expired, revocations, lastRevGen, throttled, probeVars,
                 streamVars, pastVars>>

InsertFails(w) ==
  /\ Mishap
  /\ at[w] = "login.write"
  /\ Free(w) /\ Finish(w)
  /\ UNCHANGED <<dbVars, indexVars, seenVars, probeVars, streamVars, unrecorded>>

\* Fault: the counter this worker moved is adopted whatever moved it before.
RevokeAdoptsAny(w) ==
  LET t == token[w] IN
  /\ at[w] = "logout.write" /\ rows[t] = "live"
  /\ rows' = [rows EXCEPT ![t] = "revoked"]
  /\ revocations' = revocations + 1
  /\ Commit(w)
  /\ lastRevGen' = [lastRevGen EXCEPT ![w] = revocations + 1]
  /\ Popped(w, t)
  /\ Free(w) /\ Finish(w) /\ Bump(w)
  /\ UNCHANGED <<expired, throttled, probeVars, stream, cookie, pastVars>>

\* The transaction of revoke_session, its finally and the bump.  The counter's
\* step is this worker's own only if it had seen the value before.
Revoke(w) ==
  LET t == token[w] IN
  /\ at[w] = "logout.write" /\ rows[t] = "live"
  /\ rows' = [rows EXCEPT ![t] = "revoked"]
  /\ revocations' = revocations + 1
  /\ Commit(w)
  /\ lastRevGen' = [lastRevGen EXCEPT ![w] =
                      IF @ = revocations THEN revocations + 1 ELSE @]
  /\ Popped(w, t)
  /\ Free(w) /\ Finish(w) /\ Bump(w)
  /\ UNCHANGED <<expired, throttled, probeVars, stream, cookie, pastVars>>

RevokeNothing(w) ==
  /\ at[w] = "logout.write" /\ rows[token[w]] # "live"
  /\ Popped(w, token[w])
  /\ Free(w) /\ Finish(w)
  /\ UNCHANGED <<dbVars, seenVars, lastRevGen, throttled, probeVars, streamVars,
                 pastVars>>

\* Rolled back: the row stays live, the index entry goes all the same.
RevokeFails(w) ==
  /\ Mishap
  /\ at[w] = "logout.write"
  /\ Popped(w, token[w])
  /\ unrecorded' = unrecorded \cup {<<w, token[w]>>}
  /\ Free(w) /\ Finish(w)
  /\ UNCHANGED <<dbVars, seenVars, lastRevGen, throttled, probeVars, streamVars>>

-----------------------------------------------------------------------------
(* Streams: handshake and re-authentication, on the event loop.             *)

\* A client with a cookie connects.
Connect(s, t) ==
  /\ stream[s] = "closed" /\ rows[t] # "unborn"
  /\ stream' = [stream EXCEPT ![s] = "opening"]
  /\ cookie' = [cookie EXCEPT ![s] = t]
  /\ UNCHANGED <<dbVars, indexVars, seenVars, probeVars, loopVars, behind, lock,
                 pastVars>>

Closed(s) ==
  /\ stream' = [stream EXCEPT ![s] = "closed"]
  /\ cookie' = [cookie EXCEPT ![s] = NoToken]
  /\ behind' = [behind EXCEPT ![s] = FALSE]

Disconnect(s) ==
  /\ stream[s] = "open" /\ subject[Home[s]] # s
  /\ Closed(s)
  /\ UNCHANGED <<dbVars, indexVars, seenVars, probeVars, loopVars, lock,
                 pastVars>>

\* Fault: a moved counter is adopted without the bump.
NeverBumps(w, g) == FALSE

\* _bump_if_sibling_committed on revocation_generation's answer: the first
\* sample is adopted silently, and -1 never.
Adopt(w, g) == revGen' = [revGen EXCEPT ![w] = IF g < 0 THEN @ ELSE g]
Bumps(w, g) == g >= 0 /\ g # revGen[w] /\ revGen[w] >= 0

\* The version is compared, and noted: an open stream it did not move for goes
\* on decoding, any other authenticates.
Decide(s, bumped) ==
  LET w == Home[s] IN
  /\ behind' = [x \in Streams |->
                  x # s /\ (behind[x] \/ (bumped /\ x \in Served(w)))]
  /\ IF stream[s] = "open" /\ ~behind[s] /\ ~bumped
       THEN Finish(w)
       ELSE /\ GoTo(w, "auth")
            /\ subject' = [subject EXCEPT ![w] = s]
            /\ gen' = [gen EXCEPT ![w] = 0]
            /\ UNCHANGED token

CheckThrottled(s) ==
  LET w == Home[s] IN
  /\ stream[s] # "closed" /\ at[w] = "idle" /\ probeThrottled[w]
  /\ Decide(s, FALSE)
  /\ UNCHANGED <<dbVars, indexVars, seenVars, probeVars, stream, cookie, lock,
                 pastVars>>

\* Fault: a moved counter is adopted without refreshing the index.
CheckStale(s) ==
  LET w == Home[s] IN
  /\ stream[s] # "closed" /\ at[w] = "idle" /\ ~probeThrottled[w]
  /\ lock[w] = "free"
  /\ probeThrottled' = [probeThrottled EXCEPT ![w] = TRUE]
  /\ Adopt(w, revocations) /\ Decide(s, Bumps(w, revocations))
  /\ UNCHANGED <<dbVars, indexVars, seenVars, stream, cookie, lock, pastVars>>

\* Fault: a failed read of the counter is one that moved.
CheckTrustsFailure(s) ==
  LET w == Home[s] IN
  /\ stream[s] # "closed" /\ at[w] = "idle" /\ ~probeThrottled[w]
  /\ lock[w] = "free"
  /\ probeThrottled' = [probeThrottled EXCEPT ![w] = TRUE]
  /\ \E g \in {revocations, -1} :
       MishapIf(g = -1) /\
       IF g = lastRevGen[w]
         THEN Adopt(w, g) /\ Decide(s, Bumps(w, g))
         ELSE /\ GoTo(w, "probe.lock")
              /\ gen' = [gen EXCEPT ![w] = g]
              /\ subject' = [subject EXCEPT ![w] = s]
              /\ UNCHANGED <<revGen, token, behind>>
  /\ UNCHANGED <<dbVars, indexVars, seenVars, stream, cookie, lock, unrecorded>>

\* The probe reads the counter; one that moved has the index rebuilt first.
Check(s) ==
  LET w == Home[s] IN
  /\ stream[s] # "closed" /\ at[w] = "idle" /\ ~probeThrottled[w]
  /\ lock[w] = "free"
  /\ probeThrottled' = [probeThrottled EXCEPT ![w] = TRUE]
  /\ \E g \in {revocations, -1} :
       MishapIf(g = -1) /\
       IF g \in {-1, lastRevGen[w]}
         THEN Adopt(w, g) /\ Decide(s, Bumps(w, g))
         ELSE /\ GoTo(w, "probe.lock")
              /\ gen' = [gen EXCEPT ![w] = g]
              /\ subject' = [subject EXCEPT ![w] = s]
              /\ UNCHANGED <<revGen, token, behind>>
  /\ UNCHANGED <<dbVars, indexVars, seenVars, stream, cookie, lock, unrecorded>>

ProbeLocks(w) ==
  /\ at[w] = "probe.lock" /\ lock[w] = "free"
  /\ lock' = [lock EXCEPT ![w] = "loop"]
  /\ throttled' = [throttled EXCEPT ![w] = TRUE]
  /\ Snapshot(w)
  /\ GoTo(w, "probe.rebuild")
  /\ UNCHANGED <<dbVars, index, unseen, lastRevGen, probeVars, token, subject,
                 gen, streamVars, unrecorded>>

ProbeRebuilt(w) ==
  /\ at[w] = "probe.rebuild"
  /\ Reindex(w) /\ Free(w)
  /\ lastRevGen' = [lastRevGen EXCEPT ![w] = gen[w]]
  /\ Adopt(w, gen[w]) /\ Decide(subject[w], Bumps(w, gen[w]))
  /\ UNCHANGED <<dbVars, throttled, probeThrottled, stream, cookie, pastVars>>

ProbeRebuildFails(w) ==
  /\ Mishap
  /\ at[w] = "probe.rebuild"
  /\ Abandon(w)
  /\ Decide(subject[w], FALSE)
  /\ UNCHANGED <<dbVars, indexVars, probeVars, stream, cookie, unrecorded>>

\* lookup_session: the throttled refresh, then the index, then the one row.
AuthRefresh(w) ==
  /\ at[w] = "auth"
  /\ \/ /\ throttled[w] /\ NoMishap
        /\ GoTo(w, "auth.index")
        /\ UNCHANGED <<throttled, lock, missed>>
     \/ /\ ~throttled[w]
        /\ throttled' = [throttled EXCEPT ![w] = TRUE]
        /\ LockAndCompare(w, "loop")
        /\ GoTo(w, IF lock'[w] = "loop" THEN "auth.rebuild" ELSE "auth.index")
  /\ UNCHANGED <<dbVars, index, unseen, lastRevGen, probeVars, token, subject,
                 gen, streamVars, unrecorded>>

AuthRebuilt(w) ==
  /\ at[w] = "auth.rebuild"
  /\ Reindex(w) /\ Free(w)
  /\ GoTo(w, "auth.index")
  /\ UNCHANGED <<dbVars, lastRevGen, throttled, probeVars, token, subject, gen,
                 streamVars, pastVars>>

\* "cannot prove still-valid": the stream ends.
AuthRebuildFails(w) ==
  /\ Mishap
  /\ at[w] = "auth.rebuild"
  /\ Abandon(w)
  /\ Closed(subject[w])
  /\ Finish(w)
  /\ UNCHANGED <<dbVars, indexVars, probeVars, unrecorded>>

Accepted(w) ==
  /\ stream' = [stream EXCEPT ![subject[w]] = "open"]
  /\ Finish(w)
  /\ UNCHANGED <<cookie, behind>>

Refused(w) == Closed(subject[w]) /\ Finish(w)

AuthHit(w) ==
  LET t == cookie[subject[w]] IN
  /\ at[w] = "auth.index" /\ t \in index[w]
  /\ IF t \in expired
       THEN lock[w] = "free" /\ Popped(w, t) /\ Refused(w)
       ELSE UNCHANGED index /\ Accepted(w)
  /\ UNCHANGED <<dbVars, seenVars, lastRevGen, throttled, probeVars, lock,
                 pastVars>>

AuthMiss(w) ==
  LET t == cookie[subject[w]] IN
  /\ at[w] = "auth.index" /\ t \notin index[w]
  /\ lock[w] = "free"
  /\ \/ unseen[w] /\ t \in LiveRows /\ Indexed(w, t) /\ Accepted(w) /\ NoMishap
     \/ UNCHANGED index /\ Refused(w) /\ MishapIf(unseen[w] /\ t \in LiveRows)
  /\ UNCHANGED <<dbVars, seenVars, lastRevGen, throttled, probeVars, lock,
                 unrecorded>>

-----------------------------------------------------------------------------
(* The thread pool: lookups of other requests, and the hourly purge.        *)

PoolRefresh(w) ==
  /\ ~throttled[w]
  /\ throttled' = [throttled EXCEPT ![w] = TRUE]
  /\ LockAndCompare(w, "pool")
  /\ UNCHANGED <<dbVars, index, unseen, lastRevGen, probeVars, loopVars,
                 streamVars, unrecorded>>

PoolRebuilt(w) ==
  /\ lock[w] = "pool"
  /\ Reindex(w) /\ Free(w)
  /\ UNCHANGED <<dbVars, lastRevGen, throttled, probeVars, loopVars,
                 streamVars, pastVars>>

PoolRebuildFails(w) ==
  /\ Mishap
  /\ lock[w] = "pool"
  /\ Abandon(w)
  /\ UNCHANGED <<dbVars, indexVars, probeVars, loopVars, streamVars, unrecorded>>

FetchOnMiss(w, t) ==
  /\ lock[w] = "free" /\ t \notin index[w]
  /\ unseen[w] /\ t \in LiveRows
  /\ Indexed(w, t)
  /\ UNCHANGED <<dbVars, seenVars, lastRevGen, throttled, probeVars, loopVars,
                 streamVars, lock, pastVars>>

EvictLapsed(w, t) ==
  /\ lock[w] = "free" /\ t \in index[w] \cap expired
  /\ Popped(w, t)
  /\ UNCHANGED <<dbVars, seenVars, lastRevGen, throttled, probeVars, loopVars,
                 streamVars, lock, pastVars>>

Dead ==
  {t \in Tokens : rows[t] = "revoked" \/ (rows[t] = "live" /\ t \in expired)}

\* purge_expired's DELETE; the rebuild follows.  A failed DELETE is ignored.
Purge(w) ==
  /\ lock[w] = "free" /\ Dead # {}
  /\ lock' = [lock EXCEPT ![w] = "pool"]
  /\ rows' = [t \in Tokens |-> CASE t \notin Dead -> rows[t]
                                 [] rows[t] = "live" -> "lapsed"
                                 [] OTHER -> "purged"]
  /\ unseen' = [x \in Workers |-> x # w \/ unseen[x]]
  /\ \E stays \in {FALSE, unseen[w]} :
       /\ missed' = [x \in Workers |->
                       IF x = w THEN stays
                       ELSE missed[x] \/ ReadingRows(x)]
       /\ MishapIf(stays)
  /\ UNCHANGED <<expired, revocations, indexVars, probeVars, loopVars,
                 streamVars, unrecorded>>

PurgeFails(w) ==
  /\ Mishap
  /\ lock[w] = "free" /\ Dead # {}
  /\ lock' = [lock EXCEPT ![w] = "pool"]
  /\ missed' = [missed EXCEPT ![w] = FALSE]
  /\ UNCHANGED <<dbVars, indexVars, unseen, probeVars, loopVars, streamVars,
                 unrecorded>>

-----------------------------------------------------------------------------
(* Time, and edits that bump the version for another reason.                *)

Expire(t) ==
  /\ Mishap
  /\ rows[t] = "live" /\ t \notin expired
  /\ expired' = expired \cup {t}
  /\ UNCHANGED <<rows, revocations, indexVars, seenVars, probeVars, loopVars,
                 streamVars, lock, unrecorded>>

RefreshDue(w) ==
  /\ throttled[w]
  /\ throttled' = [throttled EXCEPT ![w] = FALSE]
  /\ UNCHANGED <<dbVars, index, seenVars, lastRevGen, probeVars, loopVars,
                 streamVars, lock, pastVars>>

ProbeDue(w) ==
  /\ probeThrottled[w]
  /\ probeThrottled' = [probeThrottled EXCEPT ![w] = FALSE]
  /\ UNCHANGED <<dbVars, indexVars, seenVars, revGen, loopVars, streamVars,
                 lock, pastVars>>

EditConfig(w) ==
  /\ at[w] = "idle" /\ \E s \in Served(w) : ~behind[s]
  /\ Bump(w)
  /\ UNCHANGED <<dbVars, indexVars, seenVars, probeVars, loopVars, stream,
                 cookie, lock, pastVars>>

-----------------------------------------------------------------------------

Write(w) ==
  \/ WriteRebuilt(w) \/ WriteRebuildFails(w) \/ Insert(w) \/ InsertFails(w)
  \/ Revoke(w) \/ RevokeNothing(w) \/ RevokeFails(w)
Authenticate(w) ==
  \/ ProbeLocks(w) \/ ProbeRebuilt(w) \/ ProbeRebuildFails(w) \/ AuthRefresh(w)
  \/ AuthRebuilt(w) \/ AuthRebuildFails(w) \/ AuthHit(w) \/ AuthMiss(w)
CheckStream(s) == CheckThrottled(s) \/ Check(s)
PoolStep(w) == PoolRebuilt(w) \/ PoolRebuildFails(w)

Next ==
  \/ \E w \in Workers :
       \/ Write(w) \/ Authenticate(w)
       \/ PoolRefresh(w) \/ PoolStep(w) \/ Purge(w) \/ PurgeFails(w)
       \/ RefreshDue(w) \/ ProbeDue(w) \/ EditConfig(w)
       \/ \E t \in Tokens :
            \/ Login(w, t) \/ Logout(w, t)
            \/ FetchOnMiss(w, t) \/ EvictLapsed(w, t)
  \/ \E s \in Streams :
       CheckStream(s) \/ Disconnect(s) \/ \E t \in Tokens : Connect(s, t)
  \/ \E t \in Tokens : Expire(t)

Spec == Init /\ [][Next]_vars

\* What is begun ends, clocks run, and a speaking stream decodes, and so checks
\* its credential, about once a second.
Fairness ==
  /\ \A w \in Workers :
       /\ WF_vars(Write(w)) /\ SF_vars(Authenticate(w)) /\ WF_vars(PoolStep(w))
       /\ WF_vars(RefreshDue(w)) /\ WF_vars(ProbeDue(w))
  /\ \A s \in Streams : SF_vars(CheckStream(s))

FairSpec == Spec /\ Fairness

-----------------------------------------------------------------------------

SignedOut(t) == rows[t] \in {"revoked", "purged"}

\* An index entry whose row was revoked is one the next unthrottled check will
\* rebuild away: no sibling commit is ever marked as seen without being read
\* (_rebuild_index_locked, and the check before every write).
StaleIsUnseen ==
  \A w \in Workers : \A t \in index[w] : SignedOut(t) => unseen[w]

\* "A sibling's fresh login is never bounced": a live session missing from an
\* index is one a lookup miss will fetch (_fetch_on_miss), except at a worker
\* whose own sign-out of it failed.
LiveIsFound ==
  \A w \in Workers : \A t \in LiveRows \ index[w] :
    unseen[w] \/ <<w, t>> \in unrecorded

\* A worker that counts every revocation as reflected in its index honours no
\* revoked session (revoke_session adopts its own counter step only).
CountedIsReflected ==
  \A w \in Workers :
    lastRevGen[w] = revocations => \A t \in index[w] : ~SignedOut(t)

\* The end of a stream is on its way: its worker has yet to notice a
\* revocation, or the stream its worker's bump, or it is authenticating now.
EndComing(s) ==
  LET w == Home[s] IN
  \/ revGen[w] >= 0 /\ revGen[w] # revocations
  \/ behind[s]
  \/ subject[w] = s

\* A stream still open on a signed-out session has its end coming, as long as
\* no read has failed: the bump is neither lost nor spent on a stale index
\* (revocation_generation, _bump_if_sibling_committed).
CutOffComing ==
  mishaps = 0 =>
    \A s \in Streams : stream[s] = "open" /\ SignedOut(cookie[s]) => EndComing(s)

\* The stream of a session signed out anywhere ends (revocation_generation,
\* _refresh_ident).
SignedOutStreamsEnd ==
  \A s \in Streams, t \in Tokens :
    (stream[s] = "open" /\ cookie[s] = t /\ SignedOut(t))
      ~> (stream[s] # "open" \/ cookie[s] # t)
=============================================================================
