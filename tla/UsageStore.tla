----------------------------- MODULE UsageStore -----------------------------
(* The usage rollups (stats/usage_store.py): a row per client-named job, the   *)
(* hourly tables summed over requests and over jobs, the outcome the desktop    *)
(* app reports for a dictation before, between or after its utterances, and    *)
(* the hourly sweep. Each write is one transaction under the store's lock.      *)
EXTENDS Integers, FiniteSets, Sums

CONSTANTS
  Users,
  Names,        \* job ids, which clients mint
  Kinds,        \* the kinds a request may have: "dictation", "file", "odd"
  Deliveries,   \* what an outcome reports
  Apps,
  Langs,        \* translation targets
  TargetsMax,   \* _JOB_TARGETS_MAX
  Grace,        \* USAGE_UNREPORTED_AFTER_H
  JobHours,     \* USAGE_JOBS_RETENTION_DAYS, in hours
  AppHours,     \* USAGE_APP_RETENTION_DAYS, in hours
  MaxHour,      \* bound: the clock
  MaxRequests   \* bound: requests recorded

VARIABLES
  hour,
  jobs,      \* usage_jobs, with its one stage row's targets; NoJob where there is none
  sessions,  \* SUM(sessions) of usage_hourly
  dictated,  \* usage_dictation_hourly
  apps,      \* usage_app_hourly
  targets,   \* SUM(runs) of usage_target_hourly, per target
  swept,     \* hour of the last sweep
  pruned,    \* ids whose job row the sweep deleted, with the kind it had
  counted,   \* the sessions there were: a user's job, or a request with no job
  requests

usageVars == <<hour, jobs, sessions, dictated, apps, targets, swept, pruned, counted, requests>>

Known == {"dictation", "file"}
Awaited == "awaited"
Unreported == "unreported"
NoApp == "none"
Hours == 0..MaxHour
NoJob == [user |-> "nobody"]
NoCount == [sessions |-> 0, words |-> 0]
HasJob(j) == jobs[j] # NoJob
Reported(job) == job.reported # Awaited
Dropped(j) == \E k \in Known \cup {"unknown"} : <<j, k>> \in pruned

UsageInit ==
  /\ hour = 0 /\ swept = -1
  /\ jobs = [j \in Names |-> NoJob]
  /\ sessions = 0 /\ requests = 0
  /\ dictated = [k \in Hours \X Users \X (Deliveries \cup {Unreported}) |-> NoCount]
  /\ apps = [k \in Hours \X Users \X Apps |-> NoCount]
  /\ targets = [l \in Langs |-> 0]
  /\ pruned = {} /\ counted = {}

NewJob(u, k, w) ==
  [user |-> u, kind |-> IF k \in Known THEN k ELSE "unknown", hour |-> hour, words |-> w,
   utterances |-> 1, reported |-> Awaited, app |-> NoApp, targets |-> {}]

Add(table, key, n, w) ==
  [table EXCEPT ![key].sessions = @ + n, ![key].words = @ + w]

\* A job's buckets, by its own hour.
Bucket(job) == <<job.hour, job.user, job.reported>>
AddDictated(job, n, w) == dictated' = Add(dictated, Bucket(job), n, w)
AddApp(job, n, w) ==
  apps' = IF job.app \in Apps THEN Add(apps, <<job.hour, job.user, job.app>>, n, w) ELSE apps

-----------------------------------------------------------------------------
(* record_usage.                                                              *)

\* Mutant: a stub counts as a session already counted.
FreshByRow(j) == ~HasJob(j)

\* A report's stub has no utterance yet: its session is still to be counted.
Fresh(j) == ~HasJob(j) \/ jobs[j].utterances = 0

\* _take_over_stub: the id turns out to be a run's, which reports nothing.
TakenOver(j, k) == HasJob(j) /\ jobs[j].utterances = 0 /\ k = "file"

\* Mutant: an utterance after the report only adds to its job.
LateNever(j, k) == FALSE

\* An utterance that lands after its job's outcome was rolled.
Late(j, k) == HasJob(j) /\ Reported(jobs[j]) /\ ~TakenOver(j, k)

\* Mutant: every target a request names counts.
NewTargetsAll(job, ls) == ls

\* Targets new to the job's row, as far as the row keeps them.
NewTargets(job, ls) ==
  LET fresh == ls \ job.targets
      left == TargetsMax - Cardinality(job.targets)
      room == IF Cardinality(fresh) < left THEN Cardinality(fresh) ELSE left IN
  CHOOSE kept \in SUBSET fresh : Cardinality(kept) = room

CountTargets(ls) == targets' = [l \in Langs |-> IF l \in ls THEN targets[l] + 1 ELSE targets[l]]
Count(who) == counted' = counted \cup {who}

\* The job's row, before the targets of this request.
Summed(u, j, k, w) ==
  IF ~HasJob(j) THEN NewJob(u, k, w)
  ELSE IF TakenOver(j, k) THEN [NewJob(u, k, w) EXCEPT !.targets = jobs[j].targets]
  ELSE [jobs[j] EXCEPT !.words = @ + w, !.utterances = @ + 1]

Mine(u, j) == ~HasJob(j) \/ jobs[j].user = u

RecordJob(u, j, k, w, ls) ==
  LET job == Summed(u, j, k, w)
      kept == NewTargets(job, ls) IN
  /\ Mine(u, j) /\ ~Dropped(j)
  /\ jobs' = [jobs EXCEPT ![j] = [job EXCEPT !.targets = @ \cup kept]]
  /\ sessions' = sessions + (IF Fresh(j) THEN 1 ELSE 0)
  /\ CountTargets(kept)
  /\ IF TakenOver(j, k) THEN AddDictated(jobs[j], -1, 0) /\ AddApp(jobs[j], -1, 0)
     ELSE IF Late(j, k) THEN AddDictated(jobs[j], 0, w) /\ AddApp(jobs[j], 0, w)
     ELSE UNCHANGED <<dictated, apps>>
  /\ Count(<<u, j>>)

\* Another user's id: the work counts, as a session without a job.
RecordForeign(u, j, ls) ==
  /\ ~Mine(u, j)
  /\ sessions' = sessions + 1
  /\ CountTargets(ls)
  /\ Count(<<"request", requests>>)
  /\ UNCHANGED <<jobs, dictated, apps>>

\* A translation of a dictation adds its stage to that session; naming any
\* other job it is a session of its own, without a job.
RecordFollowUp(u, j, ls) ==
  /\ ls # {}
  /\ IF HasJob(j) /\ jobs[j].user = u /\ jobs[j].kind = "dictation"
     THEN LET kept == NewTargets(jobs[j], ls) IN
          /\ jobs' = [jobs EXCEPT ![j].targets = @ \cup kept]
          /\ CountTargets(kept)
          /\ UNCHANGED <<sessions, counted>>
     ELSE /\ sessions' = sessions + 1
          /\ CountTargets(ls)
          /\ Count(<<"request", requests>>)
          /\ UNCHANGED jobs
  /\ UNCHANGED <<dictated, apps>>

Request(u, j, ls) ==
  /\ requests < MaxRequests /\ requests' = requests + 1
  /\ \/ \E k \in Kinds, w \in {0, 1} : RecordJob(u, j, k, w, ls)
     \/ RecordForeign(u, j, ls)
     \/ RecordFollowUp(u, j, ls)
  /\ UNCHANGED <<hour, swept, pruned>>

-----------------------------------------------------------------------------
(* record_outcome.                                                            *)

Rolled(j, job) ==
  /\ jobs' = [jobs EXCEPT ![j] = job]
  /\ AddDictated(job, 1, job.words)
  /\ AddApp(job, 1, job.words)

\* A job not seen yet gets a stub; the first report of its owner's dictation
\* counts, any other is a duplicate and changes nothing.
RecordOutcome(u, j, d, a) ==
  /\ ~Dropped(j)
  /\ IF HasJob(j)
     THEN /\ jobs[j].user = u /\ jobs[j].kind = "dictation" /\ ~Reported(jobs[j])
          /\ Rolled(j, [jobs[j] EXCEPT !.reported = d, !.app = a])
     ELSE Rolled(j, [NewJob(u, "dictation", 0) EXCEPT
                       !.utterances = 0, !.reported = d, !.app = a])
  /\ UNCHANGED <<hour, sessions, targets, swept, pruned, counted, requests>>

-----------------------------------------------------------------------------
(* sweep.                                                                     *)

Closing == {j \in Names : HasJob(j) /\ jobs[j].kind = "dictation" /\ ~Reported(jobs[j])
                          /\ jobs[j].hour < hour - Grace}

\* A dictation whose report is still awaited outlives the retention.
Pruned(closing) ==
  {j \in Names : /\ HasJob(j) /\ jobs[j].hour < hour - JobHours
                 /\ ~(jobs[j].kind = "dictation" /\ ~Reported(jobs[j]) /\ j \notin closing)}

\* A dictation never reported is closed; then the old jobs, the old app buckets
\* and the app names of jobs as old are dropped.
Sweep ==
  LET closed(k) == {j \in Closing : <<jobs[j].hour, jobs[j].user, Unreported>> = k}
      old(h) == h < hour - AppHours
      gone == Pruned(Closing) IN
  /\ swept # hour /\ swept' = hour
  /\ dictated' = [k \in DOMAIN dictated |->
       [sessions |-> dictated[k].sessions + Cardinality(closed(k)),
        words |-> dictated[k].words + SumSet(LAMBDA j : jobs[j].words, closed(k))]]
  /\ apps' = [k \in DOMAIN apps |-> IF old(k[1]) THEN NoCount ELSE apps[k]]
  /\ pruned' = pruned \cup {<<j, jobs[j].kind>> : j \in gone}
  /\ jobs' = [j \in Names |->
       IF ~HasJob(j) \/ j \in gone THEN NoJob
       ELSE [jobs[j] EXCEPT !.reported = IF j \in Closing THEN Unreported ELSE @,
                            !.app = IF old(jobs[j].hour) THEN NoApp ELSE @]]
  /\ UNCHANGED <<hour, sessions, targets, counted, requests>>

Tick ==
  /\ hour < MaxHour /\ hour' = hour + 1
  /\ UNCHANGED <<jobs, sessions, dictated, apps, targets, swept, pruned, counted, requests>>

UsageNext ==
  \/ \E u \in Users, j \in Names :
       \/ \E ls \in SUBSET Langs : Request(u, j, ls)
       \/ \E d \in Deliveries, a \in Apps \cup {NoApp} : RecordOutcome(u, j, d, a)
  \/ Sweep \/ Tick

-----------------------------------------------------------------------------

Of(P(_)) == {j \in Names : HasJob(j) /\ P(jobs[j])}
Sums(js) == [sessions |-> Cardinality(js), words |-> SumSet(LAMBDA j : jobs[j].words, js)]

\* The dictation and app tables are the sums over the reported jobs, for every
\* hour whose jobs are still there, whatever order utterances, report, take-over
\* and sweep came in: nothing is rolled twice and no late word is lost
\* (_roll_outcome, _take_over_stub, _roll_late_utterance).
TablesAddUp ==
  /\ \A k \in DOMAIN dictated : k[1] >= swept - JobHours =>
       dictated[k] = Sums(Of(LAMBDA job : job.kind = "dictation" /\ Reported(job) /\ Bucket(job) = k))
  /\ \A k \in DOMAIN apps : k[1] >= swept - JobHours /\ k[1] >= swept - AppHours =>
       apps[k] = Sums(Of(LAMBDA job : <<job.hour, job.user, job.app>> = k))

\* A session is counted once, however many requests it had and whichever came
\* first, its report or its utterances; a request that has no job of its own is
\* one too (record_usage's new_session).
SessionsCountedOnce == sessions = Cardinality(counted)

\* Over its whole life a dictation is rolled exactly once: by its report, or by
\* the sweep that stopped waiting for one, and never pruned before (sweep's
\* grace, record_outcome's duplicates).
RolledOnce ==
  SumSet(LAMBDA k : dictated[k].sessions, DOMAIN dictated)
    = Cardinality(Of(LAMBDA job : job.kind = "dictation" /\ Reported(job)))
      + Cardinality({n \in Names : <<n, "dictation">> \in pruned})

\* A target runs once per job that has it, however often the session is
\* translated into it, and also when the row's list is full; a request with no
\* job counts its own (_record_stage).
TargetsOncePerJob ==
  LET jobless == Cardinality({c \in counted : c[1] = "request"}) IN
  \A l \in Langs :
    targets[l] - Cardinality(Of(LAMBDA job : l \in job.targets))
      \in 0..(jobless + Cardinality(pruned))

=============================================================================
