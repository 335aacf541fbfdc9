-------------------------- MODULE TranslationCache --------------------------
(* The cache of translation models, translation/engine.py: an LRU of loaded    *)
(* GGUF models, one load lock per model reference, job leases, and the count   *)
(* of completions per model that outlives a cancelled job's lease, because the *)
(* executor thread of its completion runs on.                                  *)
EXTENDS Integers, FiniteSets

CONSTANTS
  Refs,      \* model references
  Jobs,      \* translate_segments calls
  Preloads,  \* load_unleased calls
  Cap,       \* TRANSLATION_MAX_LOADED_MODELS
  MaxEdits,  \* bound: edits of the device or of a family's n_ctx
  MaxCalls   \* bound: completions per job

Tasks == Jobs \cup Preloads
\* A loaded model: an instance of its reference, by whose load built it.
Instances == [ref : Refs, params : Nat, by : Tasks]
NoModel == [ref |-> "none", params |-> -1, by |-> "none"]
Free == "free"

VARIABLES
  params,    \* the load parameters in force, as the number of edits
  models,    \* _models: the instance cached under each reference
  older,     \* its order: the cached references used less recently than each
  active,    \* _active
  decoding,  \* _decoding, per loaded instance
  rows,      \* references in the loaded-model registry
  loading,   \* who holds each reference's load lock
  gate,      \* who holds _infer_gate
  mutex,     \* whose thread is inside a completion
  pc, want, got, calls,
  unstopped, \* a load goes on for a task that was cancelled
  thread     \* per job: the executor thread of its completion

cacheVars == <<models, older, active, rows, loading>>
inferVars == <<decoding, gate, mutex, thread>>
taskVars == <<pc, want, got, calls, unstopped>>
vars == <<params, cacheVars, inferVars, taskVars>>

Init ==
  /\ params = 0
  /\ models = [r \in Refs |-> NoModel]
  /\ older = [r \in Refs |-> {}]
  /\ active = [r \in Refs |-> 0]
  /\ decoding = [i \in {} |-> 0]
  /\ rows = {}
  /\ loading = [r \in Refs |-> Free]
  /\ gate = Free /\ mutex = Free
  /\ pc = [t \in Tasks |-> "idle"]
  /\ want = [t \in Tasks |-> NoModel]
  /\ got = [t \in Tasks |-> NoModel]
  /\ calls = [t \in Tasks |-> 0]
  /\ unstopped = {}
  /\ thread = [t \in Tasks |-> "none"]

Cached(r) == models[r] # NoModel
Draining(m) == m \in DOMAIN decoding

\* Mutant: only leases defer a drop.
InUseLeased(m) == active[m.ref] > 0

\* A leased model, or one a cancelled job's thread may still decode on, is
\* neither dropped nor trimmed.
InUse(m) == active[m.ref] > 0 \/ Draining(m)

\* The order once references have gone, and one was used or cached last.
Less(gone) == [x \in Refs |-> IF x \in gone THEN {} ELSE older[x] \ gone]
Latest(r, gone) ==
  [Less(gone \cup {r}) EXCEPT ![r] = {x \in Refs \ (gone \cup {r}) : Cached(x)}]

\* A hit moves the model to the end and leases it for a job, whose first
\* completion is next.
Hit(t, r) ==
  /\ older' = Latest(r, {})
  /\ got' = [got EXCEPT ![t] = models[r]]
  /\ IF t \in Jobs
     THEN active' = [active EXCEPT ![r] = @ + 1] /\ pc' = [pc EXCEPT ![t] = "run"]
     ELSE pc' = [pc EXCEPT ![t] = "done"] /\ UNCHANGED active

\* The references dropped for one more to fit the cap, the least recently used
\* first, as far as they are free; `gone` has been dropped already.
Trimmed(gone) ==
  LET here == {r \in Refs \ gone : Cached(r)}
      free == {r \in here : ~InUse(models[r])}
  IN {r \in free : Cardinality(free \cap older[r]) <= Cardinality(here) - Cap}

\* Drops take the registry rows along.
Without(gone) ==
  /\ models' = [r \in Refs |-> IF r \in gone THEN NoModel ELSE models[r]]
  /\ older' = Less(gone)
  /\ rows' = rows \ {r \in gone : Cached(r)}

-----------------------------------------------------------------------------
(* _get_model.                                                                 *)

\* The wanted model and its parameters are fixed before any wait. A leased model
\* serves under stale parameters too.
Begin(t) ==
  /\ pc[t] = "idle"
  /\ \E r \in Refs :
       LET w == [ref |-> r, params |-> params, by |-> t] IN
       /\ want' = [want EXCEPT ![t] = w]
       /\ IF Cached(r) /\ (models[r].params = params \/ active[r] > 0)
          THEN Hit(t, r)
          ELSE pc' = [pc EXCEPT ![t] = "wait"] /\ UNCHANGED <<older, active, got>>
  /\ UNCHANGED <<params, models, rows, loading, inferVars, calls, unstopped>>

\* Under the reference's lock the model may have come meanwhile; one of stale
\* parameters is dropped unless it is in use.
Waited(t) ==
  LET r == want[t].ref IN
  /\ pc[t] = "wait" /\ loading[r] = Free
  /\ IF Cached(r) /\ (models[r].params = want[t].params \/ InUse(models[r]))
     THEN /\ Hit(t, r)
          /\ UNCHANGED <<models, rows, loading>>
     ELSE /\ Without({r} \cup Trimmed({r}))
          /\ loading' = [loading EXCEPT ![r] = t]
          /\ pc' = [pc EXCEPT ![t] = "load"]
          /\ UNCHANGED <<active, got>>
  /\ UNCHANGED <<params, inferVars, want, calls, unstopped>>

GiveUpWait(t) ==
  /\ pc[t] = "wait"
  /\ pc' = [pc EXCEPT ![t] = "done"]
  /\ UNCHANGED <<params, cacheVars, inferVars, want, got, calls, unstopped>>

\* A cancellation waits for the load and for its registration to end.
CancelLoad(t) ==
  /\ pc[t] \in {"load", "register", "rowed"} /\ t \notin unstopped
  /\ unstopped' = unstopped \cup {t}
  /\ UNCHANGED <<params, cacheVars, inferVars, pc, want, got, calls>>

\* Built: room is made again, for another reference may have been cached
\* meanwhile; cached before the registry write, and leased unless its caller is
\* gone. got is the instance the job will hold, if it holds one.
Built(t) ==
  LET w == want[t]
      gone == Trimmed({}) IN
  /\ pc[t] = "load"
  /\ models' = [r \in Refs |-> IF r = w.ref THEN w
                               ELSE IF r \in gone THEN NoModel ELSE models[r]]
  /\ older' = Latest(w.ref, gone)
  /\ rows' = rows \ gone
  /\ got' = [got EXCEPT ![t] = w]
  /\ IF t \in Jobs /\ t \notin unstopped
     THEN active' = [active EXCEPT ![w.ref] = @ + 1]
     ELSE UNCHANGED active
  /\ pc' = [pc EXCEPT ![t] =
              IF t \in Jobs /\ t \notin unstopped THEN "register" ELSE "rowing"]
  /\ UNCHANGED <<params, loading, inferVars, want, calls, unstopped>>

LoadFails(t) ==
  /\ pc[t] = "load"
  /\ loading' = [loading EXCEPT ![want[t].ref] = Free]
  /\ pc' = [pc EXCEPT ![t] = "done"]
  /\ UNCHANGED <<params, models, older, active, rows, inferVars, want, got, calls, unstopped>>

\* The registry write lands on its thread.
RowWritten(t) ==
  /\ pc[t] \in {"register", "rowing"}
  /\ rows' = rows \cup {want[t].ref}
  /\ pc' = [pc EXCEPT ![t] = IF pc[t] = "register" THEN "rowed" ELSE "rowedFree"]
  /\ UNCHANGED <<params, models, older, active, loading, inferVars, want, got, calls, unstopped>>

\* Mutant: the row of a model dropped during the write stays.
PhantomKept(t) == rows

\* The row of a model dropped while the write was on its thread is removed.
Phantom(t) ==
  IF models[want[t].ref] = want[t] THEN rows ELSE rows \ {want[t].ref}

\* The caller gets its model, or gives back the lease it had.
Registered(t) ==
  LET r == want[t].ref IN
  /\ pc[t] \in {"rowed", "rowedFree"}
  /\ rows' = Phantom(t)
  /\ loading' = [loading EXCEPT ![r] = Free]
  /\ IF pc[t] = "rowed" /\ t \in unstopped
     THEN active' = [active EXCEPT ![r] = @ - 1] ELSE UNCHANGED active
  /\ pc' = [pc EXCEPT ![t] =
              IF pc[t] = "rowed" /\ t \notin unstopped THEN "run" ELSE "done"]
  /\ UNCHANGED <<params, models, older, inferVars, want, got, calls, unstopped>>

\* The write failed: the model stays cached, without a row.
RegisterFails(t) ==
  LET r == want[t].ref IN
  /\ pc[t] \in {"register", "rowing"}
  /\ loading' = [loading EXCEPT ![r] = Free]
  /\ IF pc[t] = "register"
     THEN active' = [active EXCEPT ![r] = @ - 1] ELSE UNCHANGED active
  /\ pc' = [pc EXCEPT ![t] = "failed"]
  /\ UNCHANGED <<params, models, older, rows, inferVars, want, got, calls, unstopped>>

-----------------------------------------------------------------------------
(* _run_completion: the count of a completion is settled by whoever claims it, *)
(* the thread as its decode ends or the coroutine if the decode never began.   *)

Settle(m) == IF decoding[m] = 1
             THEN [i \in DOMAIN decoding \ {m} |-> decoding[i]]
             ELSE [decoding EXCEPT ![m] = @ - 1]

Submit(j) ==
  LET m == got[j] IN
  /\ pc[j] = "run" /\ gate = Free
  /\ calls[j] < MaxCalls
  /\ calls' = [calls EXCEPT ![j] = @ + 1]
  /\ gate' = j
  /\ decoding' = IF Draining(m) THEN [decoding EXCEPT ![m] = @ + 1]
                 ELSE [i \in DOMAIN decoding \cup {m} |-> IF i = m THEN 1 ELSE decoding[i]]
  /\ thread' = [thread EXCEPT ![j] = "queued"]
  /\ pc' = [pc EXCEPT ![j] = "await"]
  /\ UNCHANGED <<params, cacheVars, mutex, want, got, unstopped>>

\* Mutant: the thread decodes without claiming its completion first.
ClaimedAlways(j) == TRUE

\* The claim: a job cancelled while its thread waited has taken it.
Claimed(j) == pc[j] = "await"

Enter(j) ==
  /\ thread[j] = "queued" /\ mutex = Free
  /\ IF Claimed(j)
     THEN thread' = [thread EXCEPT ![j] = "inside"] /\ mutex' = j
     ELSE thread' = [thread EXCEPT ![j] = "none"] /\ UNCHANGED mutex
  /\ UNCHANGED <<params, cacheVars, decoding, gate, taskVars>>

\* The decode ends, with a reply or an error.
Leave(j) ==
  /\ thread[j] = "inside"
  /\ mutex' = Free
  /\ thread' = [thread EXCEPT ![j] = IF pc[j] = "await" THEN "replied" ELSE "none"]
  /\ decoding' = IF Draining(got[j]) THEN Settle(got[j]) ELSE decoding
  /\ UNCHANGED <<params, cacheVars, gate, taskVars>>

Reply(j) ==
  /\ pc[j] = "await" /\ thread[j] = "replied"
  /\ thread' = [thread EXCEPT ![j] = "none"]
  /\ gate' = Free
  /\ pc' = [pc EXCEPT ![j] = "run"]
  /\ UNCHANGED <<params, cacheVars, decoding, mutex, want, got, calls, unstopped>>

\* translate_segments ends, or is cancelled between two completions or at the
\* gate: the lease goes back without a wait.
Finish(j) ==
  /\ pc[j] = "run"
  /\ pc' = [pc EXCEPT ![j] = "done"]
  /\ active' = [active EXCEPT ![got[j].ref] = @ - 1]
  /\ UNCHANGED <<params, models, older, rows, loading, inferVars, want, got, calls, unstopped>>

\* Cancelled while it awaits its thread: a thread not started is called off, one
\* waiting for the mutex will find its claim taken, one inside decodes on.
CancelCompletion(j) ==
  /\ pc[j] = "await"
  /\ pc' = [pc EXCEPT ![j] = "done"]
  /\ gate' = Free
  /\ active' = [active EXCEPT ![got[j].ref] = @ - 1]
  /\ decoding' = IF thread[j] = "queued" THEN Settle(got[j]) ELSE decoding
  /\ thread' \in {[thread EXCEPT ![j] = s] :
                    s \in IF thread[j] = "queued" THEN {"none", "queued"}
                          ELSE IF thread[j] = "replied" THEN {"none"} ELSE {thread[j]}}
  /\ UNCHANGED <<params, models, older, rows, loading, mutex, want, got, calls, unstopped>>

-----------------------------------------------------------------------------
(* Evictions: the idle evictor's, an admin edit's, the preloader's.            *)

Edit ==
  /\ params < MaxEdits
  /\ params' = params + 1
  /\ UNCHANGED <<cacheVars, inferVars, taskVars>>

Drop(r) ==
  /\ Cached(r) /\ ~InUse(models[r])
  /\ Without({r})
  /\ UNCHANGED <<params, active, loading, inferVars, taskVars>>

Next ==
  \/ \E t \in Tasks :
       \/ Begin(t) \/ Waited(t) \/ GiveUpWait(t) \/ CancelLoad(t) \/ Built(t)
       \/ LoadFails(t) \/ RowWritten(t) \/ Registered(t) \/ RegisterFails(t)
  \/ \E j \in Jobs :
       \/ Submit(j) \/ Enter(j) \/ Leave(j) \/ Reply(j) \/ Finish(j)
       \/ CancelCompletion(j)
  \/ Edit
  \/ \E r \in Refs : Drop(r)

Spec == Init /\ [][Next]_vars

-----------------------------------------------------------------------------

Leasing(j) == pc[j] \in {"register", "rowed", "run", "await"}

\* A native context is never closed under a thread that decodes on it, nor does
\* a thread start to decode on a closed one, whatever was cancelled, dropped,
\* trimmed or loaded again under the same reference meanwhile; and a job's model
\* stays cached as long as the job holds it (_drop_locked, _run_completion).
NoUseAfterClose ==
  \A j \in Jobs :
    thread[j] = "inside" \/ Leasing(j) => models[got[j].ref] = got[j]

\* Every lease and every completion is given back exactly once, so that no model
\* is pinned for ever: the counts are the jobs that hold a model and the
\* completions nobody has settled yet, on every path of cancellation and failure
\* (_release_model, _settle).
CountsExact ==
  /\ \A r \in Refs : active[r] = Cardinality({j \in Jobs : Leasing(j) /\ got[j].ref = r})
  /\ \A m \in DOMAIN decoding :
       decoding[m] = Cardinality({j \in Jobs : got[j] = m /\
                       (thread[j] = "inside" \/ (pc[j] = "await" /\ thread[j] = "queued"))})

\* The registry lists the cached models: while no load of a reference is under
\* way its row is there exactly if the model is, unless a registration failed
\* (_get_model's phantom check).
RowsMatch ==
  \A r \in Refs :
    loading[r] = Free =>
      /\ r \in rows => Cached(r)
      /\ Cached(r) => r \in rows \/ pc[models[r].by] = "failed"

=============================================================================
