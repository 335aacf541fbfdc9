--------------------------- MODULE ServicesProofs ---------------------------
(* Proofs about the services of MCServices: the settings, the translation of   *)
(* segments, the receipts held back. Each invariant is of one service's        *)
(* variables, which the steps of the others leave alone.                       *)
EXTENDS MCServices, TLAPS, FiniteSetTheorems, WellFoundedInduction

(***************************************************************************)
(* The settings.                                                            *)
(***************************************************************************)

(* What holds of the settings at every step.                                   *)

\* Where a handler is, by what it was asked: it has its locks, it changes the
\* running rules after the file, it changes the profiles after the file.
Admitted(t) == task[t].pc \notin {"idle", "posted", "done", "aliased"}
RulesBehind(t) == Req[t].op \in RulesOps /\ task[t].pc \in {"apply", "loaded", "clear", "inForce"}
FirstTry(t) == task[t].pc \in {"queued", "saving"} /\ task[t].put.profiles # task[t].orig
RollsBack(t) ==
  Req[t].op = "rename" /\ task[t].pc \in {"queued", "saving"} /\ task[t].put.profiles = task[t].orig
ProfilesBehind(t) ==
  Req[t].op \in ProfileOps /\ (task[t].pc \in {"alias", "cascade", "apply", "loaded"} \/ RollsBack(t))
Renamed(t) == (task[t].orig \ {Req[t].old}) \cup {Req[t].new}
OverOnItsWay(t) ==
  /\ Req[t].op = "over" /\ "over" \in task[t].written
  /\ task[t].pc = "apply" \/ (task[t].pc = "loaded" /\ task[t].read.over = disk.over)

FileOps == Ops \ {"factory", "bind"}
PcOps ==
  [pc \in {"idle", "posted", "done", "queued", "saving", "apply", "loaded", "store", "inForce",
           "clear", "alias", "cascade", "compile", "drain", "aliased"} |->
     CASE pc \in {"idle", "posted", "done"} -> Ops
       [] pc \in {"queued", "saving"} -> FileOps
       [] pc \in {"apply", "loaded"} -> FileOps \ {"clear"}
       [] pc = "store" -> {"factory", "bind"}
       [] pc = "inForce" -> {"factory"}
       [] pc = "clear" -> {"clear"}
       [] pc \in {"alias", "cascade", "aliased"} -> {"rename"}
       [] pc = "compile" -> RulesOps
       [] pc = "drain" -> {"over"}]

\* The shape of the documents and of the handlers.
ShapeInv ==
  /\ DOMAIN disk = Parts /\ DOMAIN cfg = Parts
  /\ DOMAIN task = Tasks
  /\ DOMAIN locks = {"rules", "profiles", "refs", "save", "apply"}
  /\ \A t \in Tasks :
       /\ DOMAIN task[t] = {"pc", "page", "put", "orig", "read", "written"}
       /\ task[t].pc \in DOMAIN PcOps /\ Req[t].op \in PcOps[task[t].pc]

\* Each lock is held by the handlers that run under it, from its check to its end.
HasItsLocks(t) ==
  /\ \A l \in {"rules", "profiles", "refs"} : locks[l] = t <=> Admitted(t) /\ l \in LocksOf(t)
  /\ locks["save"] = t <=> task[t].pc = "saving"
  /\ locks["apply"] = t <=> task[t].pc = "loaded"
LockInv == \A t \in Tasks : HasItsLocks(t)

\* What a handler saves is of its own part of the file.
SavesItsPart(t) ==
  /\ Req[t].op = "over" => DOMAIN task[t].put = {"over"}
  /\ Req[t].op \in RulesOps => DOMAIN task[t].put = {"rules"}
  /\ Req[t].op \in ProfileOps => DOMAIN task[t].put = {"profiles"}
  /\ Req[t].op = "clear" => task[t].put.rules = NoCopy
  /\ Req[t].op \in RulesOps \ {"clear"} => DOMAIN task[t].put.rules = Slugs
  /\ Req[t].op = "delete" => task[t].put.profiles = task[t].page
  /\ Req[t].op = "rename" =>
       /\ Req[t].old \in task[t].orig /\ Req[t].new \notin task[t].orig
       /\ task[t].put.profiles \in {task[t].orig, Renamed(t)}
  /\ task[t].pc \in {"apply", "loaded", "alias", "cascade", "clear"} =>
       task[t].written \subseteq DOMAIN task[t].put
PutInv == \A t \in Tasks : Admitted(t) => SavesItsPart(t)

\* A save that is merging has the file as it is, and a hot apply its own part of it.
ReadInv ==
  \A t \in Tasks :
    /\ task[t].pc = "saving" => task[t].read = disk
    /\ task[t].pc = "loaded" =>
         /\ DOMAIN task[t].read = Parts
         /\ Req[t].op \in RulesOps => task[t].read.rules = disk.rules
         /\ Req[t].op \in ProfileOps => task[t].read.profiles = disk.profiles

\* The running rules are those in force but under a handler that has moved them,
\* the compiled ones but before a compile; a patch writes back the list in force
\* with its own rule changed.
RulesRun == (\A t \in Tasks : ~RulesBehind(t)) => cfg.rules = InForce(disk.rules)
RulesSaved(t) ==
  /\ task[t].pc \in {"apply", "loaded"} /\ "rules" \notin task[t].written =>
       cfg.rules = InForce(disk.rules)
  /\ task[t].pc \in {"apply", "loaded", "clear"} => disk.rules = task[t].put.rules
RulePatched(t) ==
  /\ task[t].put.rules = [InForce(disk.rules) EXCEPT ![Req[t].slug] = t]
  /\ Req[t].fp => InForce(disk.rules)[Req[t].slug] = task[t].page
RulesInv ==
  /\ DOMAIN factory = Slugs
  /\ disk.rules = NoCopy \/ DOMAIN disk.rules = Slugs
  /\ RulesRun
  /\ (\A t \in Tasks : task[t].pc # "compile") => compiled = cfg.rules
  /\ \A t \in Tasks : Req[t].op \in RulesOps => RulesSaved(t)
  /\ \A t \in Tasks : Req[t].op = "patch" /\ task[t].pc \in {"queued", "saving"} => RulePatched(t)

\* The profiles: the running ones are the file's but under a handler that moves
\* them, or after a rename that could not be undone; a rename has both names
\* running while the bindings move.
NobodyAliased == \A t \in Tasks : task[t].pc # "aliased"
ProfilesKept ==
  /\ disk.profiles \subseteq cfg.profiles
  /\ NobodyAliased => cfg.profiles = disk.profiles
Deletes(t) ==
  /\ Admitted(t) => bound \subseteq task[t].page
  /\ task[t].pc \in {"apply", "loaded"} =>
       /\ disk.profiles = task[t].put.profiles
       /\ "profiles" \notin task[t].written => ProfilesKept
Renames(t) ==
  /\ FirstTry(t) => cfg.profiles = task[t].orig
  /\ task[t].pc \in {"alias", "cascade"} \/ RollsBack(t) =>
       bound \subseteq task[t].orig /\ disk.profiles = Renamed(t)
  /\ task[t].pc = "alias" => cfg.profiles = task[t].orig
  /\ task[t].pc \in {"cascade", "apply", "loaded"} \/ RollsBack(t) =>
       cfg.profiles = task[t].orig \cup {Req[t].new}
  /\ task[t].pc \in {"alias", "cascade"} => task[t].put.profiles = Renamed(t)
  /\ task[t].pc \in {"alias", "cascade", "apply", "loaded"} => "profiles" \in task[t].written
  /\ task[t].pc \in {"apply", "loaded"} =>
       disk.profiles = task[t].put.profiles /\ bound \subseteq task[t].put.profiles
ProfilesInv ==
  /\ LayersHold
  /\ (\A t \in Tasks : ~ProfilesBehind(t)) => ProfilesKept
  /\ \A t \in Tasks :
       /\ Req[t].op = "bind" /\ task[t].pc = "store" => task[t].page \subseteq cfg.profiles
       /\ Req[t].op = "delete" => Deletes(t)
       /\ Req[t].op = "rename" /\ Admitted(t) => Renames(t)

\* The running overrides are the file's, or a handler is about to make them so.
OverInv ==
  /\ cfg.over = disk.over \/ \E t \in Tasks : OverOnItsWay(t)
  /\ \A t \in Tasks : Req[t].op = "over" /\ task[t].pc = "loaded" /\ "over" \in task[t].written =>
       task[t].read.over = disk.over \/ \E u \in Tasks : task[u].pc = "apply" /\ OverOnItsWay(u)

\* A connection that has seen the version resolved what runs; a model built from
\* other overrides has its drain coming.
SeenInv ==
  /\ ViewIsCurrent
  /\ ModelIsCurrent \/ \E t \in Tasks : task[t].pc = "drain"

SettingsInv ==
  ShapeInv /\ LockInv /\ PutInv /\ ReadInv /\ RulesInv /\ ProfilesInv /\ OverInv /\ SeenInv

\* A request waits for its locks with what its page showed.
LEMMA PostDoes == ASSUME ShapeInv, NEW t \in Tasks, Post(t)
PROVE  /\ DOMAIN task' = Tasks /\ DOMAIN task'[t] = DOMAIN task[t]
       /\ \A u \in Tasks \ {t} : task'[u] = task[u]
       /\ task[t].pc = "idle"
       /\ task'[t].pc = "posted"
       /\ task'[t].put = Unset
       /\ Req[t].op = "patch" => task'[t].page = cfg.rules[Req[t].slug]
       /\ Req[t].op = "delete" => task'[t].page = cfg.profiles \ {Req[t].name}
       /\ Req[t].op = "bind" => task'[t].page = bound \cup {Req[t].name}
       /\ UNCHANGED <<fileVars, cfg, compiled, bound, viewVars, locks>>
BY DEF ShapeInv, Post, At

\* Under its locks a handler is let in, or ends with nothing done.
LEMMA AdmitDoes == ASSUME ShapeInv, NEW t \in Tasks, Admit(t)
PROVE  /\ DOMAIN task' = Tasks /\ DOMAIN task'[t] = DOMAIN task[t]
       /\ \A u \in Tasks \ {t} : task'[u] = task[u]
       /\ task[t].pc = "posted" /\ task'[t].pc \in {"done", "queued", "store"}
       /\ task'[t].pc = "done" => task'[t] = At("done") /\ locks' = locks
       /\ task'[t].pc = "queued" => Req[t].op \notin {"factory", "bind"}
       /\ task'[t].pc = "store" => Req[t].op \in {"factory", "bind"}
       /\ DOMAIN locks' = DOMAIN locks
       /\ UNCHANGED <<fileVars, cfg, compiled, bound, viewVars>>
<1>1. CASE Admissible(t) BY <1>1 DEF ShapeInv, Admit
<1>2. CASE ~Admissible(t)
  <2>1. task' = [task EXCEPT ![t] = At("done")] /\ locks' = locks BY <1>2 DEF Admit
  <2>. QED BY <2>1 DEF ShapeInv, Admit, At
<1>. QED BY <1>1, <1>2

\* What a handler that was let in has, and what it will save.
LEMMA AdmitPuts == ASSUME ShapeInv, NEW t \in Tasks, Admit(t), task'[t].pc # "done"
PROVE  /\ Admissible(t)
       /\ \A l \in LocksOf(t) : locks[l] = Nobody
       /\ \A l \in DOMAIN locks : locks'[l] = IF l \in LocksOf(t) THEN t ELSE locks[l]
       /\ task'[t].page = task[t].page
       /\ Req[t].op = "rename" => task'[t].orig = cfg.profiles
       /\ Req[t].op = "over" => DOMAIN task'[t].put = {"over"}
       /\ Req[t].op \in RulesOps => DOMAIN task'[t].put = {"rules"}
       /\ Req[t].op \in ProfileOps => DOMAIN task'[t].put = {"profiles"}
       /\ Req[t].op \in {"rules", "factory"} => DOMAIN task'[t].put.rules = Slugs
       /\ Req[t].op = "patch" => task'[t].put.rules = [cfg.rules EXCEPT ![Req[t].slug] = t]
       /\ Req[t].op = "clear" => task'[t].put.rules = NoCopy
       /\ Req[t].op = "rename" =>
            task'[t].put.profiles = (cfg.profiles \ {Req[t].old}) \cup {Req[t].new}
       /\ Req[t].op = "delete" => task'[t].put.profiles = task[t].page
<1>1. CASE Admissible(t)
  <2>1. /\ task' = [task EXCEPT
                ![t].pc = IF Req[t].op \in {"factory", "bind"} THEN "store" ELSE "queued",
                ![t].put = Payload(t),
                ![t].orig = IF Req[t].op = "rename" THEN cfg.profiles ELSE {}]
        /\ locks' = [l \in DOMAIN locks |-> IF l \in LocksOf(t) THEN t ELSE locks[l]]
    BY <1>1 DEF Admit
  <2>2. \A l \in LocksOf(t) : locks[l] = Nobody BY DEF Admit, Free
  <2>3. /\ task'[t].put = Payload(t) /\ task'[t].page = task[t].page
        /\ Req[t].op = "rename" => task'[t].orig = cfg.profiles
    BY <2>1 DEF ShapeInv
  <2>4. \A l \in DOMAIN locks : locks'[l] = IF l \in LocksOf(t) THEN t ELSE locks[l]
    BY <2>1
  <2>5. /\ Req[t].op = "over" => DOMAIN task'[t].put = {"over"}
        /\ Req[t].op \in RulesOps => DOMAIN task'[t].put = {"rules"}
        /\ Req[t].op \in ProfileOps => DOMAIN task'[t].put = {"profiles"}
        /\ Req[t].op \in {"rules", "factory"} => DOMAIN task'[t].put.rules = Slugs
        /\ Req[t].op = "patch" => task'[t].put.rules = [cfg.rules EXCEPT ![Req[t].slug] = t]
        /\ Req[t].op = "clear" => task'[t].put.rules = NoCopy
        /\ Req[t].op = "rename" =>
             task'[t].put.profiles = (cfg.profiles \ {Req[t].old}) \cup {Req[t].new}
        /\ Req[t].op = "delete" => task'[t].put.profiles = task[t].page
    BY <2>3 DEF Payload, RulesOps, ProfileOps
  <2>. QED BY <1>1, <2>2, <2>3, <2>4, <2>5
<1>2. CASE ~Admissible(t) BY <1>2 DEF ShapeInv, Admit, At
<1>. QED BY <1>1, <1>2

\* A save takes the save lock and has the file as it is.
LEMMA ReadFileDoes == ASSUME ShapeInv, NEW t \in Tasks, ReadFile(t)
PROVE  /\ DOMAIN task' = Tasks /\ DOMAIN task'[t] = DOMAIN task[t]
       /\ \A u \in Tasks \ {t} : task'[u] = task[u]
       /\ task[t].pc = "queued"
       /\ task'[t].pc = "saving" /\ task'[t].read = disk
       /\ locks["save"] = Nobody
       /\ task'[t].put = task[t].put
       /\ task'[t].page = task[t].page
       /\ task'[t].orig = task[t].orig
       /\ task'[t].written = task[t].written
       /\ DOMAIN locks' = DOMAIN locks
       /\ locks'["save"] = t
       /\ \A l \in DOMAIN locks \ {"save"} : locks'[l] = locks[l]
       /\ UNCHANGED <<fileVars, cfg, compiled, bound, viewVars>>
BY DEF ShapeInv, ReadFile, CanSave, Free

\* A save writes what it merged, bumps the version and gives the save lock back.
LEMMA WriteFileDoes == ASSUME ShapeInv, NEW t \in Tasks, WriteFile(t)
PROVE  /\ DOMAIN task' = Tasks /\ DOMAIN task'[t] = DOMAIN task[t]
       /\ \A u \in Tasks \ {t} : task'[u] = task[u]
       /\ task[t].pc = "saving"
       /\ task'[t].pc = After(t)
       /\ task'[t].written = {key \in DOMAIN task[t].put : task[t].put[key] # task[t].read[key]}
       /\ disk' = Merged(task[t].put, task[t].read)
       /\ behind'
       /\ task'[t].put = task[t].put
       /\ task'[t].page = task[t].page
       /\ task'[t].orig = task[t].orig
       /\ task'[t].read = task[t].read
       /\ DOMAIN locks' = DOMAIN locks
       /\ locks'["save"] = Nobody
       /\ \A l \in DOMAIN locks \ {"save"} : locks'[l] = locks[l]
       /\ UNCHANGED <<factory, cfg, compiled, bound, view, resident>>
BY DEF ShapeInv, WriteFile

\* A save that fails ends its handler; a rollback that fails leaves both names.
LEMMA SaveFailsDoes == ASSUME ShapeInv, NEW t \in Tasks, SaveFails(t)
PROVE  /\ DOMAIN task' = Tasks /\ DOMAIN task'[t] = DOMAIN task[t]
       /\ \A u \in Tasks \ {t} : task'[u] = task[u]
       /\ task[t].pc \in {"queued", "saving", "store"}
       /\ task'[t] = IF Req[t].op = "rename" /\ task[t].put.profiles = task[t].orig THEN At("aliased") ELSE At("done")
       /\ DOMAIN locks' = DOMAIN locks
       /\ \A l \in DOMAIN locks : locks'[l] = IF locks[l] = t THEN Nobody ELSE locks[l]
       /\ UNCHANGED <<fileVars, cfg, compiled, bound, viewVars>>
BY DEF ShapeInv, SaveFails, Release, At

\* A clear puts the factory rules in force.
LEMMA ApplyClearDoes == ASSUME ShapeInv, NEW t \in Tasks, ApplyClear(t)
PROVE  /\ DOMAIN task' = Tasks /\ DOMAIN task'[t] = DOMAIN task[t]
       /\ \A u \in Tasks \ {t} : task'[u] = task[u]
       /\ task[t].pc = "clear"
       /\ task'[t].pc = "compile"
       /\ cfg' = [cfg EXCEPT !.rules = factory]
       /\ task'[t].put = task[t].put
       /\ task'[t].page = task[t].page
       /\ task'[t].orig = task[t].orig
       /\ task'[t].read = task[t].read
       /\ task'[t].written = task[t].written
       /\ UNCHANGED <<fileVars, compiled, bound, viewVars, locks>>
BY DEF ShapeInv, ApplyClear, Goto

\* A rename adds the new name to the running profiles.
LEMMA AliasDoes == ASSUME ShapeInv, NEW t \in Tasks, Alias(t)
PROVE  /\ DOMAIN task' = Tasks /\ DOMAIN task'[t] = DOMAIN task[t]
       /\ \A u \in Tasks \ {t} : task'[u] = task[u]
       /\ task[t].pc = "alias"
       /\ task'[t].pc = "cascade"
       /\ cfg' = [cfg EXCEPT !.profiles = cfg.profiles \cup {Req[t].new}]
       /\ task'[t].put = task[t].put
       /\ task'[t].page = task[t].page
       /\ task'[t].orig = task[t].orig
       /\ task'[t].read = task[t].read
       /\ task'[t].written = task[t].written
       /\ UNCHANGED <<fileVars, compiled, bound, viewVars, locks>>
BY DEF ShapeInv, Alias, Goto

\* A rename moves the stored bindings.
LEMMA CascadeDoes == ASSUME ShapeInv, NEW t \in Tasks, Cascade(t)
PROVE  /\ DOMAIN task' = Tasks /\ DOMAIN task'[t] = DOMAIN task[t]
       /\ \A u \in Tasks \ {t} : task'[u] = task[u]
       /\ task[t].pc = "cascade"
       /\ task'[t].pc = "apply"
       /\ bound' = IF Req[t].old \in bound THEN (bound \ {Req[t].old}) \cup {Req[t].new} ELSE bound
       /\ behind' <=> (behind \/ Req[t].old \in bound)
       /\ task'[t].put = task[t].put
       /\ task'[t].page = task[t].page
       /\ task'[t].orig = task[t].orig
       /\ task'[t].read = task[t].read
       /\ task'[t].written = task[t].written
       /\ UNCHANGED <<fileVars, cfg, compiled, view, resident, locks>>
BY DEF ShapeInv, Cascade, Goto

\* A rename whose cascade failed saves the original profiles back.
LEMMA CascadeFailsDoes == ASSUME ShapeInv, NEW t \in Tasks, CascadeFails(t)
PROVE  /\ DOMAIN task' = Tasks /\ DOMAIN task'[t] = DOMAIN task[t]
       /\ \A u \in Tasks \ {t} : task'[u] = task[u]
       /\ task[t].pc = "cascade"
       /\ task'[t].pc = "queued"
       /\ DOMAIN task'[t].put = {"profiles"} /\ task'[t].put.profiles = task[t].orig
       /\ task'[t].page = task[t].page
       /\ task'[t].orig = task[t].orig
       /\ task'[t].read = task[t].read
       /\ task'[t].written = task[t].written
       /\ UNCHANGED <<fileVars, cfg, compiled, bound, viewVars, locks>>
BY DEF ShapeInv, CascadeFails

\* A binding is stored, and its handler ends.
LEMMA StoreBindingDoes == ASSUME ShapeInv, NEW t \in Tasks, StoreBinding(t)
PROVE  /\ DOMAIN task' = Tasks /\ DOMAIN task'[t] = DOMAIN task[t]
       /\ \A u \in Tasks \ {t} : task'[u] = task[u]
       /\ task[t].pc = "store" /\ Req[t].op = "bind"
       /\ task'[t] = At("done")
       /\ bound' = task[t].page
       /\ behind'
       /\ DOMAIN locks' = DOMAIN locks
       /\ \A l \in DOMAIN locks : locks'[l] = IF locks[l] = t THEN Nobody ELSE locks[l]
       /\ UNCHANGED <<fileVars, cfg, compiled, view, resident>>
BY DEF ShapeInv, StoreBinding, Release, At

\* The factory list is replaced.
LEMMA StoreFactoryDoes == ASSUME ShapeInv, NEW t \in Tasks, StoreFactory(t)
PROVE  /\ DOMAIN task' = Tasks /\ DOMAIN task'[t] = DOMAIN task[t]
       /\ \A u \in Tasks \ {t} : task'[u] = task[u]
       /\ task[t].pc = "store" /\ Req[t].op = "factory"
       /\ task'[t].pc = "inForce"
       /\ factory' = task[t].put.rules
       /\ task'[t].put = task[t].put
       /\ task'[t].page = task[t].page
       /\ task'[t].orig = task[t].orig
       /\ task'[t].read = task[t].read
       /\ task'[t].written = task[t].written
       /\ UNCHANGED <<disk, cfg, compiled, bound, viewVars, locks>>
BY DEF ShapeInv, StoreFactory, Goto

\* A factory save runs what is in force.
LEMMA ApplyFactoryDoes == ASSUME ShapeInv, NEW t \in Tasks, ApplyFactory(t)
PROVE  /\ DOMAIN task' = Tasks /\ DOMAIN task'[t] = DOMAIN task[t]
       /\ \A u \in Tasks \ {t} : task'[u] = task[u]
       /\ task[t].pc = "inForce"
       /\ task'[t].pc = "compile"
       /\ cfg' = [cfg EXCEPT !.rules = InForce(disk.rules)]
       /\ task'[t].put = task[t].put
       /\ task'[t].page = task[t].page
       /\ task'[t].orig = task[t].orig
       /\ task'[t].read = task[t].read
       /\ task'[t].written = task[t].written
       /\ UNCHANGED <<fileVars, compiled, bound, viewVars, locks>>
BY DEF ShapeInv, ApplyFactory, Goto

\* A hot apply takes its lock and has the file as it is.
LEMMA LoadOverridesDoes == ASSUME ShapeInv, NEW t \in Tasks, LoadOverrides(t)
PROVE  /\ DOMAIN task' = Tasks /\ DOMAIN task'[t] = DOMAIN task[t]
       /\ \A u \in Tasks \ {t} : task'[u] = task[u]
       /\ task[t].pc = "apply"
       /\ task'[t].pc = "loaded" /\ task'[t].read = disk
       /\ locks["apply"] = Nobody
       /\ task'[t].put = task[t].put
       /\ task'[t].page = task[t].page
       /\ task'[t].orig = task[t].orig
       /\ task'[t].written = task[t].written
       /\ DOMAIN locks' = DOMAIN locks
       /\ locks'["apply"] = t
       /\ \A l \in DOMAIN locks \ {"apply"} : locks'[l] = locks[l]
       /\ UNCHANGED <<fileVars, cfg, compiled, bound, viewVars>>
BY DEF ShapeInv, LoadOverrides, CanApply, Free

\* The rules are compiled from the running ones, and the handler ends.
LEMMA CompileDoes == ASSUME ShapeInv, NEW t \in Tasks, Compile(t)
PROVE  /\ DOMAIN task' = Tasks /\ DOMAIN task'[t] = DOMAIN task[t]
       /\ \A u \in Tasks \ {t} : task'[u] = task[u]
       /\ task[t].pc = "compile"
       /\ task'[t] = At("done")
       /\ compiled' = cfg.rules
       /\ behind' <=> (behind \/ Req[t].op \notin {"factory", "clear"})
       /\ DOMAIN locks' = DOMAIN locks
       /\ \A l \in DOMAIN locks : locks'[l] = IF locks[l] = t THEN Nobody ELSE locks[l]
       /\ UNCHANGED <<fileVars, cfg, bound, view, resident>>
BY DEF ShapeInv, Compile, CompiledBy, Release, At

\* The loaded model is dropped, and the handler ends.
LEMMA DrainDoes == ASSUME ShapeInv, NEW t \in Tasks, Drain(t)
PROVE  /\ DOMAIN task' = Tasks /\ DOMAIN task'[t] = DOMAIN task[t]
       /\ \A u \in Tasks \ {t} : task'[u] = task[u]
       /\ task[t].pc = "drain"
       /\ task'[t] = At("done")
       /\ resident' = None
       /\ DOMAIN locks' = DOMAIN locks
       /\ \A l \in DOMAIN locks : locks'[l] = IF locks[l] = t THEN Nobody ELSE locks[l]
       /\ UNCHANGED <<fileVars, cfg, compiled, bound, behind, view>>
BY DEF ShapeInv, Drain, Release, At

\* What SetRunning does next: compile, drain, or nothing more.
LEMMA SetRunningDoes == ASSUME ShapeInv, ReadInv, NEW t \in Tasks, SetRunning(t)
PROVE  /\ DOMAIN task' = Tasks /\ DOMAIN task'[t] = DOMAIN task[t]
       /\ \A u \in Tasks \ {t} : task'[u] = task[u]
       /\ task[t].pc = "loaded"
       /\ DOMAIN cfg' = Parts
       /\ cfg'.over = IF "over" \in task[t].written THEN task[t].read.over ELSE cfg.over
       /\ cfg'.profiles = IF "profiles" \in task[t].written THEN task[t].read.profiles ELSE cfg.profiles
       /\ cfg'.rules = IF "rules" \in task[t].written THEN InForce(task[t].read.rules) ELSE cfg.rules
       /\ DOMAIN locks' = DOMAIN locks
       /\ locks'["apply"] = Nobody
       /\ \/ /\ "rules" \in task[t].written
             /\ task'[t].pc = "compile" /\ (behind' <=> behind)
             /\ task'[t].put = task[t].put /\ task'[t].page = task[t].page
             /\ task'[t].orig = task[t].orig /\ task'[t].written = task[t].written
             /\ \A l \in DOMAIN locks \ {"apply"} : locks'[l] = locks[l]
          \/ /\ "over" \in task[t].written /\ "rules" \notin task[t].written
             /\ task'[t].pc = "drain" /\ behind'
             /\ task'[t].put = task[t].put /\ task'[t].page = task[t].page
             /\ task'[t].orig = task[t].orig /\ task'[t].written = task[t].written
             /\ \A l \in DOMAIN locks \ {"apply"} : locks'[l] = locks[l]
          \/ /\ "rules" \notin task[t].written
             /\ "over" \in task[t].written => cfg'.over = cfg.over
             /\ task'[t] = At("done") /\ behind'
             /\ \A l \in DOMAIN locks \ {"apply"} : locks'[l] = IF locks[l] = t THEN Nobody ELSE locks[l]
       /\ UNCHANGED <<fileVars, compiled, bound, view, resident>>
<1>. USE DEF ShapeInv
<1>. DEFINE read == task[t].read
            new == [read EXCEPT !.rules = InForce(read.rules)]
            keys == task[t].written
<1>0. task[t].pc = "loaded" /\ DOMAIN read = Parts BY DEF SetRunning, ReadInv
<1>1. /\ "over" \in keys => cfg'.over = read.over
      /\ "profiles" \in keys => cfg'.profiles = read.profiles
      /\ "rules" \in keys => cfg'.rules = InForce(read.rules)
  BY <1>0 DEF SetRunning, Parts
<1>2. DOMAIN cfg' = Parts /\ \A key \in Parts \ keys : cfg'[key] = cfg[key]
  BY DEF SetRunning
<1>3. CASE "rules" \in keys BY <1>0, <1>1, <1>2, <1>3 DEF SetRunning, Goto, Parts
<1>4. CASE "rules" \notin keys /\ "over" \in keys /\ cfg.over # new.over
  <2>1. /\ task' = [task EXCEPT ![t].pc = "drain"] /\ behind' = TRUE
        /\ locks' = [locks EXCEPT !["apply"] = Nobody]
    BY <1>4 DEF SetRunning, Behind, Replaced, Goto
  <2>. QED BY <1>0, <1>1, <1>2, <1>4, <2>1 DEF SetRunning, Parts
<1>5. CASE "rules" \notin keys /\ ~("over" \in keys /\ cfg.over # new.over)
  <2>1. task' = [task EXCEPT ![t] = At("done")] /\ behind' = TRUE
    BY <1>5 DEF SetRunning, Behind, Replaced
  <2>2. "over" \in keys => cfg'.over = cfg.over
    BY <1>0, <1>1, <1>5 DEF Parts
  <2>3. \A l \in DOMAIN locks \ {"apply"} : locks'[l] = IF locks[l] = t THEN Nobody ELSE locks[l]
    BY <1>5 DEF SetRunning, Behind, Replaced
  <2>4. locks'["apply"] = Nobody /\ DOMAIN locks' = DOMAIN locks
    BY <1>5 DEF SetRunning, Behind, Replaced
  <2>. QED BY <1>0, <1>1, <1>2, <1>5, <2>1, <2>2, <2>3, <2>4 DEF SetRunning, Parts, At
<1>. QED BY <1>3, <1>4, <1>5

\* Two handlers under one lock are one handler.
LEMMA OneAtATime ==
  ASSUME LockInv, NEW t \in Tasks, NEW u \in Tasks, t # u, Admitted(t), Admitted(u)
  PROVE  /\ Req[t].op \in RulesOps => Req[u].op \notin RulesOps
         /\ Req[t].op \in ProfileOps => Req[u].op \notin ProfileOps \cup {"bind"}
BY DEF LockInv, HasItsLocks, LocksOf, RulesOps, ProfileOps

\* A list of rules is not the absence of one.
LEMMA RulesAreSome == ASSUME NEW r, DOMAIN r = Slugs PROVE r # NoCopy
BY SettingsAssumption DEF NoCopy

\* Under a free lock nobody is at work.
LEMMA RulesUnlocked == ASSUME LockInv, locks["rules"] = Nobody
PROVE  \A u \in Tasks : Admitted(u) => Req[u].op \notin RulesOps
BY SettingsAssumption DEF LockInv, HasItsLocks, LocksOf, ProfileOps, RulesOps

\* Nor under the lock of the bindings.
LEMMA ProfilesUnlocked == ASSUME LockInv, locks["refs"] = Nobody
PROVE  \A u \in Tasks : Admitted(u) => Req[u].op \notin ProfileOps \cup {"bind"}
BY SettingsAssumption DEF LockInv, HasItsLocks, LocksOf, ProfileOps, RulesOps

\* A save writes its own part of the file, and leaves the others as they are.
LEMMA WriteSaves ==
  ASSUME ShapeInv, PutInv, ReadInv, NEW t \in Tasks, WriteFile(t)
  PROVE  /\ DOMAIN disk' = Parts /\ SavesItsPart(t) /\ Req[t].op \in FileOps
         /\ Req[t].op = "over" =>
              disk'.over = task[t].put.over /\ disk'.rules = disk.rules /\ disk'.profiles = disk.profiles
         /\ Req[t].op \in RulesOps =>
              disk'.rules = task[t].put.rules /\ disk'.over = disk.over /\ disk'.profiles = disk.profiles
         /\ Req[t].op \in ProfileOps =>
              disk'.profiles = task[t].put.profiles /\ disk'.over = disk.over /\ disk'.rules = disk.rules
         /\ Req[t].op \notin RulesOps => disk'.rules = disk.rules
         /\ Req[t].op \notin ProfileOps => disk'.profiles = disk.profiles
         /\ Req[t].op # "over" => disk'.over = disk.over
         /\ task'[t].written \subseteq DOMAIN task[t].put
         /\ \A key \in DOMAIN task[t].put : key \in task'[t].written <=> disk'[key] # disk[key]
<1>1. task[t].pc = "saving" /\ task[t].read = disk /\ DOMAIN disk = Parts
  BY WriteFileDoes DEF ReadInv, ShapeInv
<1>2. SavesItsPart(t) /\ Req[t].op \in FileOps BY <1>1 DEF PutInv, Admitted, ShapeInv, PcOps
<1>3. disk' = [key \in Parts |-> IF key \in DOMAIN task[t].put THEN task[t].put[key] ELSE disk[key]]
  BY <1>1, WriteFileDoes DEF Merged
<1>4. DOMAIN task[t].put \subseteq Parts
  BY <1>2 DEF SavesItsPart, FileOps, Ops, RulesOps, ProfileOps, Parts
<1>5. task'[t].written \subseteq DOMAIN task[t].put
      /\ \A key \in DOMAIN task[t].put : key \in task'[t].written <=> disk'[key] # disk[key]
  BY <1>1, <1>3, <1>4, WriteFileDoes
<1>6. Req[t].op = "over" => 
         disk'.over = task[t].put.over /\ disk'.rules = disk.rules /\ disk'.profiles = disk.profiles
  BY <1>2, <1>3 DEF SavesItsPart, Parts
<1>7. Req[t].op \in RulesOps =>
         disk'.rules = task[t].put.rules /\ disk'.over = disk.over /\ disk'.profiles = disk.profiles
  BY <1>2, <1>3 DEF SavesItsPart, Parts
<1>8. Req[t].op \in ProfileOps =>
         disk'.profiles = task[t].put.profiles /\ disk'.over = disk.over /\ disk'.rules = disk.rules
  BY <1>2, <1>3 DEF SavesItsPart, Parts
<1>. QED BY <1>2, <1>3, <1>5, <1>6, <1>7, <1>8 DEF FileOps, Ops, RulesOps, ProfileOps

\* A hot apply moves the parts its own save changed.
LEMMA ApplyMoves ==
  ASSUME ShapeInv, PutInv, ReadInv, NEW t \in Tasks, SetRunning(t)
  PROVE  /\ task[t].pc = "loaded" /\ SavesItsPart(t) /\ Req[t].op \in FileOps \ {"clear"}
         /\ task[t].written \subseteq DOMAIN task[t].put
         /\ task'[t].pc \in {"compile", "drain", "done"}
         /\ \A u \in Tasks \ {t} : task'[u] = task[u]
         /\ UNCHANGED <<disk, factory, compiled, bound, view, resident>>
<1>1. task[t].pc = "loaded" BY SetRunningDoes
<1>2. Req[t].op \in FileOps \ {"clear"} BY <1>1 DEF ShapeInv, PcOps
<1>3. SavesItsPart(t) BY <1>1 DEF PutInv, Admitted
<1>4. task[t].written \subseteq DOMAIN task[t].put BY <1>1, <1>3 DEF SavesItsPart
<1>5. UNCHANGED <<disk, factory, compiled, bound, view, resident>> BY SetRunningDoes DEF fileVars
<1>6. task'[t].pc \in {"compile", "drain", "done"} BY SetRunningDoes DEF At
<1>. QED BY <1>1, <1>2, <1>3, <1>4, <1>5, <1>6, SetRunningDoes

\* A step of a handler.
Step(t) ==
  \/ Post(t) \/ Admit(t)
  \/ ReadFile(t) \/ WriteFile(t) \/ SaveFails(t)
  \/ ApplyClear(t) \/ Alias(t) \/ Cascade(t) \/ CascadeFails(t) \/ StoreBinding(t)
  \/ StoreFactory(t) \/ ApplyFactory(t)
  \/ LoadOverrides(t) \/ SetRunning(t) \/ Compile(t) \/ Drain(t)

\* The documents and handlers keep their shape, whatever a handler does.
LEMMA ShapeKept == ASSUME ShapeInv, PutInv, ReadInv, NEW t \in Tasks, Step(t) PROVE ShapeInv'
<1>1. CASE Admit(t)
  <2>. USE SettingsAssumption DEF Admitted, At, FileOps, NoCopy, Nobody, None, Ops, Parts, PcOps,
                                 ProfileOps, PutInv, RulesOps, SavesItsPart, ShapeInv, Unset,
                                 fileVars, viewVars, LocksOf
  <2>1. CASE task'[t].pc = "done" BY <1>1, <2>1, AdmitDoes
  <2>2. CASE task'[t].pc # "done" BY <1>1, <2>2, AdmitDoes, AdmitPuts
  <2>. QED BY <2>1, <2>2
<1>. USE SettingsAssumption DEF Admitted, At, FileOps, NoCopy, Nobody, None, Ops, Parts, PcOps,
                                ProfileOps, PutInv, RulesOps, SavesItsPart, ShapeInv, Unset,
                                fileVars, viewVars
<1>2. CASE Post(t) BY <1>2, PostDoes
<1>3. CASE ReadFile(t) BY <1>3, ReadFileDoes
<1>4. CASE WriteFile(t) BY <1>4, WriteFileDoes DEF After, Merged
<1>5. CASE SaveFails(t) BY <1>5, SaveFailsDoes
<1>6. CASE ApplyClear(t) BY <1>6, ApplyClearDoes
<1>7. CASE Alias(t) BY <1>7, AliasDoes
<1>8. CASE Cascade(t) BY <1>8, CascadeDoes
<1>9. CASE CascadeFails(t) BY <1>9, CascadeFailsDoes
<1>10. CASE StoreBinding(t) BY <1>10, StoreBindingDoes
<1>11. CASE StoreFactory(t) BY <1>11, StoreFactoryDoes
<1>12. CASE ApplyFactory(t) BY <1>12, ApplyFactoryDoes
<1>13. CASE LoadOverrides(t) BY <1>13, LoadOverridesDoes
<1>14. CASE SetRunning(t) BY <1>14, SetRunningDoes
<1>15. CASE Compile(t) BY <1>15, CompileDoes
<1>16. CASE Drain(t) BY <1>16, DrainDoes
<1>. QED BY <1>1, <1>2, <1>3, <1>4, <1>5, <1>6, <1>7, <1>8, <1>9, <1>10, <1>11, <1>12,
           <1>13, <1>14, <1>15, <1>16 DEF Step

\* A handler is let in only under free locks.
LEMMA AdmitKeepsLock ==
  ASSUME ShapeInv, PutInv, LockInv, ReadInv, NEW t \in Tasks, Admit(t)
  PROVE  LockInv'
<1>1. CASE task'[t].pc = "done"
  BY <1>1, SettingsAssumption, AdmitDoes DEF ShapeInv, LockInv, HasItsLocks, Admitted, At
<1>2. CASE task'[t].pc # "done"
  <2>1. \A l \in {"rules", "profiles", "refs"} :
          locks'[l] = IF l \in LocksOf(t) THEN t ELSE locks[l]
    BY <1>2, AdmitPuts DEF ShapeInv
  <2>2. \A l \in {"save", "apply"} : locks'[l] = locks[l]
    BY <1>2, AdmitPuts DEF ShapeInv, LocksOf
  <2>3. task[t].pc = "posted" /\ task'[t].pc \in {"queued", "store"} BY <1>2, AdmitDoes
  <2>4. HasItsLocks(t)'
    <3>1. \A l \in {"rules", "profiles", "refs"} : locks[l] # t BY <2>3 DEF LockInv, HasItsLocks, Admitted
    <3>2. LocksOf(t)' = LocksOf(t) BY DEF LocksOf
    <3>. QED BY <2>1, <2>2, <2>3, <3>1, <3>2 DEF LockInv, HasItsLocks, Admitted
  <2>5. ASSUME NEW u \in Tasks, u # t PROVE HasItsLocks(u)'
    <3>1. task'[u] = task[u] BY <2>5, AdmitDoes
    <3>2. LocksOf(u)' = LocksOf(u) BY DEF LocksOf
    <3>3. HasItsLocks(u) BY DEF LockInv
    <3>4. \A l \in LocksOf(t) : locks[l] # u BY <1>2, AdmitPuts, SettingsAssumption
    <3>5. \A l \in {"rules", "profiles", "refs"} : locks'[l] = u <=> locks[l] = u
      BY <2>1, <2>5, <3>4
    <3>. QED BY <2>2, <3>1, <3>2, <3>3, <3>5 DEF HasItsLocks, Admitted
  <2>. QED BY <2>4, <2>5 DEF LockInv
<1>. QED BY <1>1, <1>2

\* Each lock stays with its handler, whatever a handler does.
LEMMA LockKept ==
  ASSUME ShapeInv, PutInv, LockInv, ReadInv, NEW t \in Tasks, Step(t)
  PROVE  LockInv'
<1>1. CASE Admit(t) BY <1>1, AdmitKeepsLock
<1>. USE SettingsAssumption DEF Admitted, At, FileOps, HasItsLocks, LockInv, LocksOf, NoCopy,
                                Nobody, None, Ops, Parts, PcOps, ProfileOps, PutInv, RulesOps,
                                SavesItsPart, ShapeInv, Unset, fileVars, viewVars
<1>2. CASE Post(t) BY <1>2, PostDoes
<1>3. CASE ReadFile(t) BY <1>3, ReadFileDoes
<1>4. CASE WriteFile(t) BY <1>4, WriteFileDoes DEF After, Merged
<1>5. CASE SaveFails(t) BY <1>5, SaveFailsDoes
<1>6. CASE ApplyClear(t) BY <1>6, ApplyClearDoes
<1>7. CASE Alias(t) BY <1>7, AliasDoes
<1>8. CASE Cascade(t) BY <1>8, CascadeDoes
<1>9. CASE CascadeFails(t) BY <1>9, CascadeFailsDoes
<1>10. CASE StoreBinding(t) BY <1>10, StoreBindingDoes
<1>11. CASE StoreFactory(t) BY <1>11, StoreFactoryDoes
<1>12. CASE ApplyFactory(t) BY <1>12, ApplyFactoryDoes
<1>13. CASE LoadOverrides(t) BY <1>13, LoadOverridesDoes
<1>14. CASE SetRunning(t) BY <1>14, SetRunningDoes
<1>15. CASE Compile(t) BY <1>15, CompileDoes
<1>16. CASE Drain(t) BY <1>16, DrainDoes
<1>. QED BY <1>1, <1>2, <1>3, <1>4, <1>5, <1>6, <1>7, <1>8, <1>9, <1>10, <1>11, <1>12,
           <1>13, <1>14, <1>15, <1>16 DEF Step

\* What a handler was let in with is of its own part.
LEMMA AdmitKeepsPut ==
  ASSUME ShapeInv, LockInv, RulesInv, PutInv, ReadInv, NEW t \in Tasks, Admit(t)
  PROVE  PutInv'
<1>1. ASSUME NEW u \in Tasks, u # t, Admitted(u)' PROVE SavesItsPart(u)'
  BY <1>1, AdmitDoes DEF PutInv, SavesItsPart, Renamed, Admitted
<1>2. ASSUME Admitted(t)' PROVE SavesItsPart(t)'
  <2>1. task'[t].pc \in {"queued", "store"} BY <1>2, AdmitDoes DEF Admitted
  <2>2. task'[t].pc # "done" BY <2>1
  <2>3. Req[t].op = "patch" => DOMAIN cfg.rules = Slugs
    <3>. SUFFICES ASSUME Req[t].op = "patch" PROVE DOMAIN cfg.rules = Slugs OBVIOUS
    <3>1. locks["rules"] = Nobody BY <2>2, AdmitPuts DEF LocksOf, RulesOps
    <3>2. \A u \in Tasks : ~RulesBehind(u) BY <3>1, RulesUnlocked DEF RulesBehind, Admitted
    <3>. QED BY <3>2 DEF RulesInv, RulesRun, InForce
  <2>4. Req[t].op = "rename" => Req[t].old \in cfg.profiles /\ Req[t].new \notin cfg.profiles
    BY <2>2, AdmitPuts DEF Admissible
  <2>. QED BY <2>1, <2>2, <2>3, <2>4, SettingsAssumption, AdmitPuts
       DEF SavesItsPart, Renamed, RulesOps, ProfileOps, Ops
<1>. QED BY <1>1, <1>2 DEF PutInv

\* A rollback saves the profiles the rename found.
LEMMA CascadeFailsKeepsPut ==
  ASSUME ShapeInv, LockInv, RulesInv, PutInv, ReadInv, NEW t \in Tasks, CascadeFails(t)
  PROVE  PutInv'
<1>1. ASSUME NEW u \in Tasks, u # t, Admitted(u)' PROVE SavesItsPart(u)'
  BY <1>1, CascadeFailsDoes DEF PutInv, SavesItsPart, Renamed, Admitted
<1>2. Req[t].op = "rename" BY CascadeFailsDoes DEF ShapeInv, PcOps
<1>3. SavesItsPart(t) BY CascadeFailsDoes DEF PutInv, Admitted
<1>4. SavesItsPart(t)'
  BY <1>2, <1>3, CascadeFailsDoes DEF SavesItsPart, Renamed, RulesOps, ProfileOps
<1>. QED BY <1>1, <1>4 DEF PutInv

\* A handler saves its own part, whatever a handler does.
LEMMA PutKept ==
  ASSUME ShapeInv, LockInv, RulesInv, PutInv, ReadInv, NEW t \in Tasks, Step(t)
  PROVE  PutInv'
<1>1. CASE Admit(t) BY <1>1, AdmitKeepsPut
<1>2. CASE CascadeFails(t) BY <1>2, CascadeFailsKeepsPut
<1>. USE SettingsAssumption DEF Admitted, At, FileOps, LockInv, NoCopy, Nobody, None, Ops, Parts,
                                PcOps, ProfileOps, PutInv, Renamed, RulesInv, RulesOps,
                                SavesItsPart, ShapeInv, Unset, fileVars, viewVars
<1>3. CASE Post(t) BY <1>3, PostDoes
<1>4. CASE ReadFile(t) BY <1>4, ReadFileDoes
<1>5. CASE WriteFile(t) BY <1>5, WriteFileDoes DEF After, Merged
<1>6. CASE SaveFails(t) BY <1>6, SaveFailsDoes
<1>7. CASE ApplyClear(t) BY <1>7, ApplyClearDoes
<1>8. CASE Alias(t) BY <1>8, AliasDoes
<1>9. CASE Cascade(t) BY <1>9, CascadeDoes
<1>10. CASE StoreBinding(t) BY <1>10, StoreBindingDoes
<1>11. CASE StoreFactory(t) BY <1>11, StoreFactoryDoes
<1>12. CASE ApplyFactory(t) BY <1>12, ApplyFactoryDoes
<1>13. CASE LoadOverrides(t) BY <1>13, LoadOverridesDoes
<1>14. CASE SetRunning(t) BY <1>14, SetRunningDoes
<1>15. CASE Compile(t) BY <1>15, CompileDoes
<1>16. CASE Drain(t) BY <1>16, DrainDoes
<1>. QED BY <1>1, <1>2, <1>3, <1>4, <1>5, <1>6, <1>7, <1>8, <1>9, <1>10, <1>11, <1>12,
           <1>13, <1>14, <1>15, <1>16 DEF Step

\* No other handler read a part this save changes.
LEMMA WriteFileKeepsRead ==
  ASSUME ShapeInv, LockInv, PutInv, ReadInv, NEW t \in Tasks, WriteFile(t)
  PROVE  ReadInv'
<1>1. SavesItsPart(t) BY WriteFileDoes DEF PutInv, Admitted
<1>2. ASSUME NEW u \in Tasks, u # t
      PROVE  /\ task[u].pc # "saving"
             /\ task[u].pc = "loaded" /\ Req[u].op \in RulesOps => Req[t].op \notin RulesOps
             /\ task[u].pc = "loaded" /\ Req[u].op \in ProfileOps => Req[t].op \notin ProfileOps
  BY <1>2, WriteFileDoes, OneAtATime DEF LockInv, HasItsLocks, Admitted
<1>3. DOMAIN disk = Parts /\ task[t].read = disk BY WriteFileDoes DEF ReadInv, ShapeInv
<1>4. /\ Req[t].op \notin RulesOps => disk'.rules = disk.rules
      /\ Req[t].op \notin ProfileOps => disk'.profiles = disk.profiles
  BY <1>3, WriteSaves
<1>5. task'[t].pc \notin {"saving", "loaded"} BY WriteFileDoes DEF After
<1>. QED BY <1>2, <1>4, <1>5, WriteFileDoes DEF ReadInv

\* What was read is what the file has, whatever a handler does.
LEMMA ReadKept ==
  ASSUME ShapeInv, LockInv, PutInv, ReadInv, NEW t \in Tasks, Step(t)
  PROVE  ReadInv'
<1>1. CASE Admit(t)
  <2>. USE SettingsAssumption DEF Admitted, At, FileOps, HasItsLocks, LockInv, LocksOf, NoCopy,
                                 Nobody, None, Ops, Parts, PcOps, ProfileOps, PutInv, ReadInv,
                                 RulesOps, SavesItsPart, ShapeInv, Unset, fileVars, viewVars
  <2>1. CASE task'[t].pc = "done" BY <1>1, <2>1, AdmitDoes
  <2>2. CASE task'[t].pc # "done" BY <1>1, <2>2, AdmitDoes, AdmitPuts
  <2>. QED BY <2>1, <2>2
<1>2. CASE WriteFile(t) BY <1>2, WriteFileKeepsRead
<1>. USE SettingsAssumption DEF Admitted, At, FileOps, HasItsLocks, LockInv, LocksOf, NoCopy,
                                Nobody, None, Ops, Parts, PcOps, ProfileOps, PutInv, ReadInv,
                                RulesOps, SavesItsPart, ShapeInv, Unset, fileVars, viewVars
<1>3. CASE Post(t) BY <1>3, PostDoes
<1>4. CASE ReadFile(t) BY <1>4, ReadFileDoes
<1>5. CASE SaveFails(t) BY <1>5, SaveFailsDoes
<1>6. CASE ApplyClear(t) BY <1>6, ApplyClearDoes
<1>7. CASE Alias(t) BY <1>7, AliasDoes
<1>8. CASE Cascade(t) BY <1>8, CascadeDoes
<1>9. CASE CascadeFails(t) BY <1>9, CascadeFailsDoes
<1>10. CASE StoreBinding(t) BY <1>10, StoreBindingDoes
<1>11. CASE StoreFactory(t) BY <1>11, StoreFactoryDoes
<1>12. CASE ApplyFactory(t) BY <1>12, ApplyFactoryDoes
<1>13. CASE LoadOverrides(t) BY <1>13, LoadOverridesDoes
<1>14. CASE SetRunning(t) BY <1>14, SetRunningDoes
<1>15. CASE Compile(t) BY <1>15, CompileDoes
<1>16. CASE Drain(t) BY <1>16, DrainDoes
<1>. QED BY <1>1, <1>2, <1>3, <1>4, <1>5, <1>6, <1>7, <1>8, <1>9, <1>10, <1>11, <1>12,
           <1>13, <1>14, <1>15, <1>16 DEF Step

\* A rules handler is let in when nobody has moved the rules.
LEMMA AdmitKeepsRules ==
  ASSUME ShapeInv, LockInv, PutInv, ReadInv, RulesInv, NEW t \in Tasks, Admit(t)
  PROVE  RulesInv'
<1>1. CASE task'[t].pc = "done"
  BY <1>1, AdmitDoes DEF RulesInv, RulesRun, RulesSaved, RulePatched, RulesBehind, InForce, fileVars, At
<1>2. CASE task'[t].pc # "done"
  <2>1. /\ task[t].pc = "posted" /\ task'[t].pc \in {"queued", "store"}
        /\ \A u \in Tasks \ {t} : task'[u] = task[u]
        /\ UNCHANGED <<disk, factory, cfg, compiled>>
    BY <1>2, AdmitDoes DEF fileVars
  <2>2. RulesInv!1' /\ RulesInv!2' /\ RulesInv!4' BY <2>1 DEF RulesInv
  <2>3. RulesRun' BY <2>1 DEF RulesInv, RulesRun, RulesBehind, InForce
  <2>4. \A u \in Tasks : Req[u].op \in RulesOps => RulesSaved(u)'
    BY <2>1 DEF RulesInv, RulesSaved, InForce
  <2>5. ASSUME NEW u \in Tasks, u # t, Req[u].op = "patch", task'[u].pc \in {"queued", "saving"}
        PROVE  RulePatched(u)'
    BY <2>1, <2>5 DEF RulesInv, RulePatched, InForce
  <2>6. ASSUME Req[t].op = "patch" PROVE RulePatched(t)'
    <3>1. locks["rules"] = Nobody BY <1>2, <2>6, AdmitPuts DEF LocksOf, RulesOps
    <3>2. \A u \in Tasks : ~RulesBehind(u) BY <3>1, RulesUnlocked DEF RulesBehind, Admitted
    <3>3. cfg.rules = InForce(disk.rules) BY <3>2 DEF RulesInv, RulesRun
    <3>4. InForce(disk.rules)' = InForce(disk.rules) BY <2>1 DEF InForce
    <3>. QED BY <1>2, <2>6, <3>3, <3>4, AdmitPuts DEF RulePatched, Admissible
  <2>. QED BY <2>2, <2>3, <2>4, <2>5, <2>6 DEF RulesInv
<1>. QED BY <1>1, <1>2

\* A rules save leaves the running rules behind the file, others leave both.
LEMMA WriteFileKeepsRules ==
  ASSUME ShapeInv, LockInv, PutInv, ReadInv, RulesInv, NEW t \in Tasks, WriteFile(t)
  PROVE  RulesInv'
<1>. USE WriteFileDoes, WriteSaves
<1>1. /\ task[t].pc = "saving" /\ task'[t].pc \in {"apply", "clear", "alias"}
      /\ task'[t].pc = "clear" <=> Req[t].op = "clear"
      /\ task'[t].pc = "alias" => Req[t].op = "rename"
      /\ UNCHANGED <<factory, cfg, compiled>>
  BY DEF After
<1>2. \A u \in Tasks \ {t} : task'[u] = task[u] OBVIOUS
<1>3. CASE Req[t].op \notin RulesOps
  <2>1. disk'.rules = disk.rules BY <1>3
  <2>3. InForce(disk.rules)' = InForce(disk.rules) BY <1>1, <2>1 DEF InForce
  <2>4. RulesRun' BY <1>1, <1>2, <1>3, <2>1, <2>3 DEF RulesInv, RulesRun, RulesBehind
  <2>5. \A u \in Tasks : Req[u].op \in RulesOps => RulesSaved(u)'
    BY <1>1, <1>2, <1>3, <2>1, <2>3 DEF RulesInv, RulesSaved
  <2>6. \A u \in Tasks : Req[u].op = "patch" /\ task'[u].pc \in {"queued", "saving"} => RulePatched(u)'
    <3>. SUFFICES ASSUME NEW u \in Tasks, Req[u].op = "patch", task'[u].pc \in {"queued", "saving"}
                  PROVE  RulePatched(u)'
      OBVIOUS
    <3>1. u # t BY <1>1
    <3>2. RulePatched(u) /\ task'[u] = task[u] BY <1>2, <3>1 DEF RulesInv
    <3>. QED BY <2>3, <3>2 DEF RulePatched
  <2>7. (\A u \in Tasks : task'[u].pc # "compile") => compiled' = cfg'.rules
    BY <1>1, <1>2 DEF RulesInv
  <2>. QED BY <1>1, <2>1, <2>4, <2>5, <2>6, <2>7 DEF RulesInv
<1>4. CASE Req[t].op \in RulesOps
  <2>1. disk'.rules = task'[t].put.rules /\ task'[t].put = task[t].put BY <1>4
  <2>2. disk'.rules = NoCopy \/ DOMAIN disk'.rules = Slugs BY <1>4, <2>1 DEF SavesItsPart
  <2>3. \A u \in Tasks \ {t} : Req[u].op \in RulesOps => ~Admitted(u)
    BY <1>1, <1>4, OneAtATime DEF Admitted
  <2>4. ~RulesBehind(t) /\ \A u \in Tasks : ~RulesBehind(u)
    BY <1>1, <2>3 DEF RulesBehind, Admitted
  <2>5. cfg.rules = InForce(disk.rules) BY <2>4 DEF RulesInv, RulesRun
  <2>6. RulesBehind(t)' BY <1>1, <1>4, <2>1 DEF RulesBehind, ShapeInv, RulesOps
  <2>7. RulesSaved(t)'
    <3>1. "rules" \in DOMAIN task[t].put BY <1>4 DEF SavesItsPart
    <3>2. "rules" \notin task'[t].written => disk'.rules = disk.rules BY <3>1
    <3>. QED BY <1>1, <2>1, <2>5, <3>2 DEF RulesSaved, InForce
  <2>8. \A u \in Tasks \ {t} : Req[u].op \in RulesOps =>
          task'[u].pc \in {"idle", "posted", "done", "aliased"}
    BY <1>2, <2>3 DEF Admitted
  <2>. QED BY <1>1, <2>2, <2>6, <2>7, <2>8 DEF RulesInv, RulesRun, RulesSaved, RulesOps
<1>. QED BY <1>3, <1>4

\* A clear runs what its save put in force.
LEMMA ApplyClearKeepsRules ==
  ASSUME ShapeInv, LockInv, PutInv, ReadInv, RulesInv, NEW t \in Tasks, ApplyClear(t)
  PROVE  RulesInv'
<1>1. Req[t].op \in RulesOps BY ApplyClearDoes DEF ShapeInv, PcOps, RulesOps
<1>2. \A u \in Tasks \ {t} : Req[u].op \in RulesOps => ~Admitted(u)
  BY <1>1, ApplyClearDoes, OneAtATime DEF Admitted
<1>3. disk.rules = NoCopy
  <2>1. RulesSaved(t) /\ SavesItsPart(t) /\ Req[t].op = "clear"
    BY <1>1, ApplyClearDoes DEF RulesInv, PutInv, Admitted, ShapeInv, PcOps
  <2>. QED BY <2>1, ApplyClearDoes DEF RulesSaved, SavesItsPart
<1>4. cfg'.rules = InForce(disk.rules)' BY <1>3, ApplyClearDoes DEF InForce, ShapeInv, Parts, fileVars
<1>. QED BY <1>1, <1>2, <1>4, ApplyClearDoes
     DEF RulesInv, RulesRun, RulesSaved, RulePatched, Admitted, RulesOps, InForce, fileVars

\* A cascade is not about rules.
LEMMA CascadeKeepsRules ==
  ASSUME ShapeInv, LockInv, PutInv, ReadInv, RulesInv, NEW t \in Tasks, Cascade(t)
  PROVE  RulesInv'
<1>1. Req[t].op = "rename" BY CascadeDoes DEF ShapeInv, PcOps
<1>. QED BY <1>1, CascadeDoes
     DEF RulesInv, RulesRun, RulesSaved, RulePatched, RulesBehind, RulesOps, InForce, fileVars

\* Nor is its failure.
LEMMA CascadeFailsKeepsRules ==
  ASSUME ShapeInv, LockInv, PutInv, ReadInv, RulesInv, NEW t \in Tasks, CascadeFails(t)
  PROVE  RulesInv'
<1>1. Req[t].op = "rename" BY CascadeFailsDoes DEF ShapeInv, PcOps
<1>. QED BY <1>1, CascadeFailsDoes
     DEF RulesInv, RulesRun, RulesSaved, RulePatched, RulesBehind, RulesOps, InForce, fileVars

\* A hot apply runs the rules its save wrote, to be compiled.
LEMMA SetRunningKeepsRules ==
  ASSUME ShapeInv, LockInv, PutInv, ReadInv, RulesInv, NEW t \in Tasks, SetRunning(t)
  PROVE  RulesInv'
<1>1. /\ task[t].pc = "loaded" /\ SavesItsPart(t) /\ Req[t].op \in FileOps \ {"clear"}
      /\ task[t].written \subseteq DOMAIN task[t].put
  BY ApplyMoves
<1>2. \A u \in Tasks \ {t} : task'[u] = task[u] BY SetRunningDoes
<1>3. UNCHANGED <<disk, factory, compiled>> BY SetRunningDoes DEF fileVars
<1>4. CASE Req[t].op \notin RulesOps
  <2>1. "rules" \notin task[t].written BY <1>1, <1>4 DEF SavesItsPart, FileOps, Ops, RulesOps, ProfileOps
  <2>2. cfg'.rules = cfg.rules /\ task'[t].pc \in {"drain", "done"}
    BY <2>1, SetRunningDoes DEF At
  <2>. QED BY <1>1, <1>2, <1>3, <1>4, <2>2
       DEF RulesInv, RulesRun, RulesSaved, RulePatched, RulesBehind, InForce, RulesOps
<1>5. CASE Req[t].op \in RulesOps
  <2>1. \A u \in Tasks \ {t} : Req[u].op \in RulesOps => ~Admitted(u)
    BY <1>1, <1>5, OneAtATime DEF Admitted
  <2>2. task[t].read.rules = disk.rules /\ "over" \notin task[t].written
    BY <1>1, <1>5 DEF ReadInv, SavesItsPart
  <2>3. cfg'.rules = InForce(disk.rules) BY <1>1, <1>5, <2>2, SetRunningDoes DEF RulesInv, RulesSaved
  <2>4. task'[t].pc \in {"compile", "done"} /\ (task'[t].pc = "done" => cfg'.rules = cfg.rules)
    BY <2>2, SetRunningDoes DEF At
  <2>5. compiled = cfg.rules
    BY <1>1, <2>1, SettingsAssumption DEF RulesInv, Admitted, ShapeInv, PcOps
  <2>. QED BY <1>2, <1>3, <1>5, <2>1, <2>3, <2>4, <2>5
       DEF RulesInv, RulesRun, RulesSaved, RulePatched, RulesBehind, InForce, RulesOps, Admitted
<1>. QED BY <1>4, <1>5

\* The rules in force run and are compiled, whatever a handler does.
LEMMA RulesKept ==
  ASSUME ShapeInv, LockInv, PutInv, ReadInv, RulesInv, NEW t \in Tasks, Step(t)
  PROVE  RulesInv'
<1>1. CASE Admit(t) BY <1>1, AdmitKeepsRules
<1>2. CASE WriteFile(t) BY <1>2, WriteFileKeepsRules
<1>3. CASE ApplyClear(t) BY <1>3, ApplyClearKeepsRules
<1>4. CASE Cascade(t) BY <1>4, CascadeKeepsRules
<1>5. CASE CascadeFails(t) BY <1>5, CascadeFailsKeepsRules
<1>6. CASE SetRunning(t) BY <1>6, SetRunningKeepsRules
<1>. USE SettingsAssumption DEF Admitted, At, FileOps, HasItsLocks, InForce, LockInv, LocksOf,
                                NoCopy, Nobody, None, Ops, Parts, PcOps, ProfileOps, PutInv,
                                ReadInv, RulePatched, RulesBehind, RulesInv, RulesOps, RulesRun,
                                RulesSaved, SavesItsPart, ShapeInv, Unset, fileVars, viewVars
<1>7. CASE Post(t) BY <1>7, PostDoes
<1>8. CASE ReadFile(t) BY <1>8, ReadFileDoes
<1>9. CASE SaveFails(t) BY <1>9, SaveFailsDoes
<1>10. CASE Alias(t) BY <1>10, AliasDoes
<1>11. CASE StoreBinding(t) BY <1>11, StoreBindingDoes
<1>12. CASE StoreFactory(t) BY <1>12, StoreFactoryDoes
<1>13. CASE ApplyFactory(t) BY <1>13, ApplyFactoryDoes
<1>14. CASE LoadOverrides(t) BY <1>14, LoadOverridesDoes
<1>15. CASE Compile(t) BY <1>15, CompileDoes
<1>16. CASE Drain(t) BY <1>16, DrainDoes
<1>. QED BY <1>1, <1>2, <1>3, <1>4, <1>5, <1>6, <1>7, <1>8, <1>9, <1>10, <1>11, <1>12,
           <1>13, <1>14, <1>15, <1>16 DEF Step

\* A profile handler is let in when nobody moves the profiles or the bindings.
LEMMA AdmitKeepsProfiles ==
  ASSUME ShapeInv, LockInv, PutInv, ReadInv, ProfilesInv, NEW t \in Tasks, Admit(t)
  PROVE  ProfilesInv'
<1>1. /\ task[t].pc = "posted" /\ task'[t].pc \in {"done", "queued", "store"}
      /\ \A u \in Tasks \ {t} : task'[u] = task[u]
      /\ UNCHANGED <<disk, cfg, bound>>
  BY AdmitDoes DEF fileVars
<1>2. LayersHold' BY <1>1 DEF ProfilesInv, LayersHold
<1>3. ProfilesKept <=> ProfilesKept' BY <1>1 DEF ProfilesKept, NobodyAliased
<1>4. (\A u \in Tasks : ~ProfilesBehind(u)') => ProfilesKept'
  BY <1>1, <1>3 DEF ProfilesInv, ProfilesBehind, RollsBack
<1>5. ASSUME NEW u \in Tasks, u # t
      PROVE  /\ Req[u].op = "bind" /\ task'[u].pc = "store" => task'[u].page \subseteq cfg'.profiles
             /\ Req[u].op = "delete" => Deletes(u)'
             /\ Req[u].op = "rename" /\ Admitted(u)' => Renames(u)'
  BY <1>1, <1>3, <1>5
  DEF ProfilesInv, Deletes, Renames, FirstTry, RollsBack, Renamed, Admitted
<1>6. CASE task'[t].pc = "done"
  BY <1>1, <1>2, <1>4, <1>5, <1>6 DEF ProfilesInv, Deletes, Admitted
<1>7. CASE task'[t].pc # "done"
  <2>1. Req[t].op = "bind" => task'[t].page \subseteq cfg'.profiles
    BY <1>1, <1>7, AdmitPuts DEF Admissible, ProfilesInv, LayersHold
  <2>2. Req[t].op = "delete" => Deletes(t)'
    BY <1>1, <1>7, AdmitPuts DEF Admissible, ProfilesInv, LayersHold, Deletes
  <2>3. Req[t].op = "rename" => Renames(t)'
    <3>. SUFFICES ASSUME Req[t].op = "rename" PROVE Renames(t)' OBVIOUS
    <3>1. Req[t].new \notin cfg.profiles /\ task'[t].orig = cfg.profiles
          /\ task'[t].put.profiles = (cfg.profiles \ {Req[t].old}) \cup {Req[t].new}
      BY <1>7, AdmitPuts DEF Admissible, ProfileOps
    <3>2. task'[t].put.profiles # task'[t].orig BY <3>1
    <3>. QED BY <1>1, <1>7, <3>1, <3>2 DEF Renames, RollsBack, FirstTry
  <2>. QED BY <1>2, <1>4, <1>5, <2>1, <2>2, <2>3 DEF ProfilesInv
<1>. QED BY <1>6, <1>7

\* A save that deletes has no binding on what it deletes, one that renames keeps
\* the old name running, one that rolls back restores it.
LEMMA WriteFileKeepsProfiles ==
  ASSUME ShapeInv, LockInv, PutInv, ReadInv, ProfilesInv, NEW t \in Tasks, WriteFile(t)
  PROVE  ProfilesInv'
<1>0. /\ task[t].pc = "saving" /\ task'[t].pc \in {"apply", "clear", "alias"}
      /\ task'[t].pc = "alias" <=> Req[t].op = "rename" /\ task[t].put.profiles # task[t].orig
      /\ \A u \in Tasks \ {t} : task'[u] = task[u]
      /\ UNCHANGED <<cfg, bound>>
      /\ task'[t].put = task[t].put /\ task'[t].page = task[t].page /\ task'[t].orig = task[t].orig
  BY WriteFileDoes DEF After
<1>a. CASE Req[t].op \notin ProfileOps
  <2>1. disk'.profiles = disk.profiles BY <1>a, WriteSaves
  <2>2. ProfilesKept <=> ProfilesKept' BY <1>0, <2>1 DEF ProfilesKept, NobodyAliased
  <2>3. \A u \in Tasks : ProfilesBehind(u)' <=> ProfilesBehind(u)
    BY <1>0, <1>a DEF ProfilesBehind, RollsBack, ProfileOps
  <2>4. ASSUME NEW u \in Tasks
        PROVE  /\ Req[u].op = "bind" /\ task'[u].pc = "store" => task'[u].page \subseteq cfg'.profiles
               /\ Req[u].op = "delete" => Deletes(u)'
               /\ Req[u].op = "rename" /\ Admitted(u)' => Renames(u)'
    BY <1>0, <1>a, <2>1, <2>2
    DEF ProfilesInv, Deletes, Renames, FirstTry, RollsBack, Renamed, Admitted, ProfileOps
  <2>. QED BY <1>0, <2>2, <2>3, <2>4 DEF ProfilesInv, LayersHold
<1>1. ASSUME Req[t].op \in ProfileOps PROVE ProfilesInv'
  <2>1. \A u \in Tasks \ {t} : Req[u].op \in ProfileOps \cup {"bind"} => ~Admitted(u) /\ ~Admitted(u)'
    <3>1. Admitted(t) BY <1>0 DEF Admitted
    <3>2. \A u \in Tasks \ {t} : Req[u].op \in ProfileOps \cup {"bind"} => ~Admitted(u)
      BY <1>1, <3>1, OneAtATime
    <3>. QED BY <1>0, <3>2 DEF Admitted
  <2>2. ASSUME NEW u \in Tasks, u # t
        PROVE  /\ ~ProfilesBehind(u)
               /\ Req[u].op = "bind" /\ task'[u].pc = "store" => task'[u].page \subseteq cfg'.profiles
               /\ Req[u].op = "delete" => Deletes(u)'
               /\ Req[u].op = "rename" /\ Admitted(u)' => Renames(u)'
    BY <2>1, <2>2 DEF ProfilesBehind, RollsBack, Deletes, Admitted, ProfileOps
  <2>3. LayersHold' BY <1>0 DEF ProfilesInv, LayersHold
  <2>4. disk'.profiles = task[t].put.profiles /\ SavesItsPart(t) /\ DOMAIN task[t].put = {"profiles"}
        /\ ("profiles" \in task'[t].written <=> disk'.profiles # disk.profiles)
    BY <1>1, WriteSaves DEF SavesItsPart
  <2>5. CASE Req[t].op = "delete"
    <3>1. task'[t].pc = "apply" BY <1>0, <2>5, WriteFileDoes DEF After
    <3>2. ~ProfilesBehind(t) BY <1>0, <2>5 DEF ProfilesBehind, RollsBack
    <3>3. ProfilesKept BY <2>2, <3>2 DEF ProfilesInv
    <3>4. "profiles" \notin task'[t].written => ProfilesKept'
      BY <1>0, <2>4, <3>1, <3>3 DEF ProfilesKept, NobodyAliased
    <3>5. Deletes(t)' BY <1>0, <2>4, <2>5, <3>4 DEF Deletes, ProfilesInv, Admitted
    <3>6. ProfilesBehind(t)' BY <1>1, <3>1 DEF ProfilesBehind
    <3>. QED BY <2>2, <2>3, <2>5, <3>5, <3>6 DEF ProfilesInv
  <2>6. CASE Req[t].op = "rename"
    <3>1. Renames(t) /\ Req[t].old \in task[t].orig /\ Req[t].new \notin task[t].orig
          /\ task[t].put.profiles \in {task[t].orig, Renamed(t)}
      BY <1>0, <2>4, <2>6 DEF ProfilesInv, Admitted, SavesItsPart
    <3>2. Renamed(t)' = Renamed(t) BY <1>0 DEF Renamed
    <3>3. task'[t].pc \in {"alias", "apply"} BY <1>0, <2>6, WriteFileDoes DEF After
    <3>4. ProfilesBehind(t)' BY <1>1, <3>3 DEF ProfilesBehind
    <3>5. CASE task[t].put.profiles # task[t].orig
      <4>1. cfg.profiles = task[t].orig BY <1>0, <3>1, <3>5 DEF Renames, FirstTry
      <4>2. ~ProfilesBehind(t) BY <1>0, <3>5 DEF ProfilesBehind, RollsBack
      <4>3. disk.profiles \subseteq cfg.profiles BY <2>2, <4>2 DEF ProfilesInv, ProfilesKept
      <4>4. disk'.profiles = Renamed(t) BY <2>4, <3>1, <3>5
      <4>5. disk'.profiles # disk.profiles BY <3>1, <4>1, <4>3, <4>4 DEF Renamed
      <4>6. bound \subseteq task[t].orig BY <4>1 DEF ProfilesInv, LayersHold
      <4>7. task'[t].pc = "alias" BY <1>0, <2>6, <3>5
      <4>8. Renames(t)'
        BY <1>0, <2>4, <3>2, <4>1, <4>4, <4>5, <4>6, <4>7 DEF Renames, FirstTry, RollsBack
      <4>. QED BY <2>2, <2>3, <2>6, <3>4, <4>8 DEF ProfilesInv
    <3>6. CASE task[t].put.profiles = task[t].orig
      <4>1. RollsBack(t) BY <1>0, <2>6, <3>6 DEF RollsBack
      <4>2. /\ bound \subseteq task[t].orig /\ disk.profiles = Renamed(t)
            /\ cfg.profiles = task[t].orig \cup {Req[t].new}
        BY <3>1, <4>1 DEF Renames
      <4>3. disk'.profiles # disk.profiles BY <2>4, <3>1, <3>6, <4>2 DEF Renamed
      <4>4. task'[t].pc = "apply" BY <1>0, <3>3, <3>6
      <4>5. Renames(t)'
        BY <1>0, <2>4, <3>6, <4>2, <4>3, <4>4 DEF Renames, FirstTry, RollsBack
      <4>. QED BY <2>2, <2>3, <2>6, <3>4, <4>5 DEF ProfilesInv
    <3>. QED BY <3>5, <3>6
  <2>. QED BY <1>1, <2>5, <2>6 DEF ProfileOps
<1>. QED BY <1>1, <1>a

\* Both names run before a binding moves.
LEMMA AliasKeepsProfiles ==
  ASSUME ShapeInv, LockInv, PutInv, ReadInv, ProfilesInv, NEW t \in Tasks, Alias(t)
  PROVE  ProfilesInv'
<1>1. /\ Req[t].op = "rename" /\ Req[t].op \in ProfileOps
      /\ task[t].pc = "alias" /\ task'[t].pc = "cascade"
      /\ \A u \in Tasks \ {t} : task'[u] = task[u]
  BY AliasDoes DEF ShapeInv, PcOps, ProfileOps
<1>2. \A u \in Tasks \ {t} : Req[u].op \in ProfileOps \cup {"bind"} => ~Admitted(u) /\ ~Admitted(u)'
  <2>1. Admitted(t) BY <1>1 DEF Admitted
  <2>2. \A u \in Tasks \ {t} : Req[u].op \in ProfileOps \cup {"bind"} => ~Admitted(u)
    BY <1>1, <2>1, OneAtATime DEF ProfileOps
  <2>. QED BY <1>1, <2>2 DEF Admitted
<1>3. ASSUME NEW u \in Tasks, u # t
      PROVE  /\ ~ProfilesBehind(u) /\ ~ProfilesBehind(u)'
             /\ Req[u].op = "bind" /\ task'[u].pc = "store" => task'[u].page \subseteq cfg'.profiles
             /\ Req[u].op = "delete" => Deletes(u)'
             /\ Req[u].op = "rename" /\ Admitted(u)' => Renames(u)'
  BY <1>2, <1>3 DEF ProfilesBehind, RollsBack, Deletes, Admitted, ProfileOps
<1>4. Renames(t) BY <1>1 DEF ProfilesInv, Admitted
<1>5. cfg'.profiles = task[t].orig \cup {Req[t].new}
  BY <1>1, <1>4, AliasDoes DEF Renames, ShapeInv, Parts
<1>6. Renamed(t)' = Renamed(t) BY AliasDoes DEF Renamed
<1>7. Renames(t)' BY <1>1, <1>4, <1>5, <1>6, AliasDoes DEF Renames, FirstTry, RollsBack, fileVars
<1>8. ProfilesBehind(t)' BY <1>1 DEF ProfilesBehind
<1>9. LayersHold' BY <1>1, <1>4, <1>5, AliasDoes DEF Renames, LayersHold
<1>. QED BY <1>1, <1>3, <1>7, <1>8, <1>9 DEF ProfilesInv

\* The bindings move to a name that runs.
LEMMA CascadeKeepsProfiles ==
  ASSUME ShapeInv, LockInv, PutInv, ReadInv, ProfilesInv, NEW t \in Tasks, Cascade(t)
  PROVE  ProfilesInv'
<1>1. /\ Req[t].op = "rename" /\ Req[t].op \in ProfileOps
      /\ task[t].pc = "cascade" /\ task'[t].pc = "apply"
      /\ \A u \in Tasks \ {t} : task'[u] = task[u]
  BY CascadeDoes DEF ShapeInv, PcOps, ProfileOps
<1>2. \A u \in Tasks \ {t} : Req[u].op \in ProfileOps \cup {"bind"} => ~Admitted(u) /\ ~Admitted(u)'
  <2>1. Admitted(t) BY <1>1 DEF Admitted
  <2>2. \A u \in Tasks \ {t} : Req[u].op \in ProfileOps \cup {"bind"} => ~Admitted(u)
    BY <1>1, <2>1, OneAtATime DEF ProfileOps
  <2>. QED BY <1>1, <2>2 DEF Admitted
<1>3. ASSUME NEW u \in Tasks, u # t
      PROVE  /\ ~ProfilesBehind(u) /\ ~ProfilesBehind(u)'
             /\ Req[u].op = "bind" /\ task'[u].pc = "store" => task'[u].page \subseteq cfg'.profiles
             /\ Req[u].op = "delete" => Deletes(u)'
             /\ Req[u].op = "rename" /\ Admitted(u)' => Renames(u)'
  BY <1>2, <1>3 DEF ProfilesBehind, RollsBack, Deletes, Admitted, ProfileOps
<1>4. Renames(t) BY <1>1 DEF ProfilesInv, Admitted
<1>5. /\ bound \subseteq task[t].orig /\ disk.profiles = Renamed(t)
      /\ task[t].put.profiles = Renamed(t) /\ cfg.profiles = task[t].orig \cup {Req[t].new}
      /\ "profiles" \in task[t].written
  BY <1>1, <1>4 DEF Renames
<1>6. bound' \subseteq Renamed(t) BY <1>5, CascadeDoes DEF Renamed
<1>7. LayersHold' BY <1>5, <1>6, CascadeDoes DEF LayersHold, Renamed
<1>8. Renames(t)' BY <1>1, <1>5, <1>6, CascadeDoes DEF Renames, FirstTry, RollsBack, fileVars
<1>9. ProfilesBehind(t)' BY <1>1 DEF ProfilesBehind
<1>. QED BY <1>1, <1>3, <1>7, <1>8, <1>9 DEF ProfilesInv

\* A failed cascade moved no binding.
LEMMA CascadeFailsKeepsProfiles ==
  ASSUME ShapeInv, LockInv, PutInv, ReadInv, ProfilesInv, NEW t \in Tasks, CascadeFails(t)
  PROVE  ProfilesInv'
<1>1. /\ Req[t].op = "rename" /\ Req[t].op \in ProfileOps
      /\ task[t].pc = "cascade" /\ task'[t].pc = "queued"
      /\ \A u \in Tasks \ {t} : task'[u] = task[u]
  BY CascadeFailsDoes DEF ShapeInv, PcOps, ProfileOps
<1>2. \A u \in Tasks \ {t} : Req[u].op \in ProfileOps \cup {"bind"} => ~Admitted(u) /\ ~Admitted(u)'
  <2>1. Admitted(t) BY <1>1 DEF Admitted
  <2>2. \A u \in Tasks \ {t} : Req[u].op \in ProfileOps \cup {"bind"} => ~Admitted(u)
    BY <1>1, <2>1, OneAtATime DEF ProfileOps
  <2>. QED BY <1>1, <2>2 DEF Admitted
<1>3. ASSUME NEW u \in Tasks, u # t
      PROVE  /\ ~ProfilesBehind(u) /\ ~ProfilesBehind(u)'
             /\ Req[u].op = "bind" /\ task'[u].pc = "store" => task'[u].page \subseteq cfg'.profiles
             /\ Req[u].op = "delete" => Deletes(u)'
             /\ Req[u].op = "rename" /\ Admitted(u)' => Renames(u)'
  BY <1>2, <1>3 DEF ProfilesBehind, RollsBack, Deletes, Admitted, ProfileOps
<1>4. Renames(t) BY <1>1 DEF ProfilesInv, Admitted
<1>5. /\ bound \subseteq task[t].orig /\ disk.profiles = Renamed(t)
      /\ cfg.profiles = task[t].orig \cup {Req[t].new}
  BY <1>1, <1>4 DEF Renames
<1>6. task'[t].put.profiles = task'[t].orig /\ task'[t].orig = task[t].orig /\ Renamed(t)' = Renamed(t)
  BY CascadeFailsDoes DEF Renamed
<1>7. LayersHold' BY CascadeFailsDoes DEF LayersHold, ProfilesInv
<1>8. Renames(t)' BY <1>1, <1>5, <1>6, CascadeFailsDoes DEF Renames, FirstTry, RollsBack, fileVars
<1>9. ProfilesBehind(t)' BY <1>1, <1>6 DEF ProfilesBehind, RollsBack
<1>. QED BY <1>1, <1>3, <1>7, <1>8, <1>9 DEF ProfilesInv

\* A hot apply drops only names no binding has.
LEMMA SetRunningKeepsProfiles ==
  ASSUME ShapeInv, LockInv, PutInv, ReadInv, ProfilesInv, NEW t \in Tasks, SetRunning(t)
  PROVE  ProfilesInv'
<1>0. /\ task[t].pc = "loaded" /\ SavesItsPart(t) /\ Req[t].op \in FileOps \ {"clear"}
      /\ task[t].written \subseteq DOMAIN task[t].put
      /\ task'[t].pc \in {"compile", "drain", "done"}
      /\ \A u \in Tasks \ {t} : task'[u] = task[u]
      /\ UNCHANGED <<disk, bound>>
  BY ApplyMoves
<1>a. CASE Req[t].op \notin ProfileOps
  <2>1. "profiles" \notin task[t].written BY <1>0, <1>a DEF SavesItsPart, FileOps, Ops, RulesOps, ProfileOps
  <2>2. cfg'.profiles = cfg.profiles BY <2>1, SetRunningDoes
  <2>3. ProfilesKept <=> ProfilesKept' BY <1>0, <2>2 DEF ProfilesKept, NobodyAliased
  <2>4. \A u \in Tasks : ProfilesBehind(u)' <=> ProfilesBehind(u)
    BY <1>0, <1>a DEF ProfilesBehind, RollsBack, ProfileOps
  <2>5. ASSUME NEW u \in Tasks
        PROVE  /\ Req[u].op = "bind" /\ task'[u].pc = "store" => task'[u].page \subseteq cfg'.profiles
               /\ Req[u].op = "delete" => Deletes(u)'
               /\ Req[u].op = "rename" /\ Admitted(u)' => Renames(u)'
    BY <1>0, <1>a, <2>2, <2>3
    DEF ProfilesInv, Deletes, Renames, FirstTry, RollsBack, Renamed, Admitted, ProfileOps
  <2>. QED BY <1>0, <2>2, <2>3, <2>4, <2>5 DEF ProfilesInv, LayersHold
<1>1. ASSUME Req[t].op \in ProfileOps PROVE ProfilesInv'
  <2>1. \A u \in Tasks \ {t} : Req[u].op \in ProfileOps \cup {"bind"} => ~Admitted(u) /\ ~Admitted(u)'
    <3>1. Admitted(t) BY <1>0 DEF Admitted
    <3>2. \A u \in Tasks \ {t} : Req[u].op \in ProfileOps \cup {"bind"} => ~Admitted(u)
      BY <1>1, <3>1, OneAtATime
    <3>. QED BY <1>0, <3>2 DEF Admitted
  <2>2. ASSUME NEW u \in Tasks, u # t
        PROVE  /\ Req[u].op = "bind" /\ task'[u].pc = "store" => task'[u].page \subseteq cfg'.profiles
               /\ Req[u].op = "delete" => Deletes(u)'
               /\ Req[u].op = "rename" /\ Admitted(u)' => Renames(u)'
    BY <2>1, <2>2 DEF Deletes, Admitted, ProfileOps
  <2>3. /\ "rules" \notin task[t].written /\ "over" \notin task[t].written
        /\ task[t].read.profiles = disk.profiles
    BY <1>0, <1>1 DEF SavesItsPart, ReadInv
  <2>4. /\ task'[t].pc = "done"
        /\ cfg'.profiles = IF "profiles" \in task[t].written THEN disk.profiles ELSE cfg.profiles
    BY <2>3, SetRunningDoes DEF At
  <2>5. LayersHold' /\ ProfilesKept'
    <3>1. CASE Req[t].op = "delete"
      <4>1. Deletes(t) /\ task[t].put.profiles = task[t].page
        BY <1>0, <3>1 DEF ProfilesInv, SavesItsPart
      <4>2. bound \subseteq disk.profiles BY <1>0, <4>1 DEF Deletes, Admitted
      <4>3. "profiles" \notin task[t].written => ProfilesKept BY <1>0, <4>1 DEF Deletes
      <4>. QED BY <1>0, <2>4, <4>2, <4>3 DEF LayersHold, ProfilesInv, ProfilesKept, NobodyAliased
    <3>2. CASE Req[t].op = "rename"
      <4>1. Renames(t) BY <1>0, <3>2 DEF ProfilesInv, Admitted
      <4>. QED BY <1>0, <2>4, <4>1 DEF Renames, LayersHold, ProfilesKept, NobodyAliased
    <3>. QED BY <1>1, <3>1, <3>2 DEF ProfileOps
  <2>. QED BY <2>2, <2>4, <2>5 DEF ProfilesInv, Deletes, Admitted
<1>. QED BY <1>1, <1>a

\* The profiles and the bindings agree, whatever a handler does.
LEMMA ProfilesStay ==
  ASSUME ShapeInv, LockInv, PutInv, ReadInv, ProfilesInv, NEW t \in Tasks, Step(t)
  PROVE  ProfilesInv'
<1>1. CASE Admit(t) BY <1>1, AdmitKeepsProfiles
<1>2. CASE WriteFile(t) BY <1>2, WriteFileKeepsProfiles
<1>3. CASE Alias(t) BY <1>3, AliasKeepsProfiles
<1>4. CASE Cascade(t) BY <1>4, CascadeKeepsProfiles
<1>5. CASE CascadeFails(t) BY <1>5, CascadeFailsKeepsProfiles
<1>6. CASE SetRunning(t) BY <1>6, SetRunningKeepsProfiles
<1>. USE SettingsAssumption DEF Admitted, At, Deletes, FileOps, FirstTry, HasItsLocks, LayersHold,
                                LockInv, LocksOf, NoCopy, Nobody, NobodyAliased, None, Ops, Parts,
                                PcOps, ProfileOps, ProfilesBehind, ProfilesInv, ProfilesKept,
                                PutInv, ReadInv, Renamed, Renames, RollsBack, RulesOps,
                                SavesItsPart, ShapeInv, Unset, fileVars, viewVars
<1>7. CASE Post(t) BY <1>7, PostDoes
<1>8. CASE ReadFile(t) BY <1>8, ReadFileDoes
<1>9. CASE SaveFails(t) BY <1>9, SaveFailsDoes
<1>10. CASE ApplyClear(t) BY <1>10, ApplyClearDoes
<1>11. CASE StoreBinding(t) BY <1>11, StoreBindingDoes
<1>12. CASE StoreFactory(t) BY <1>12, StoreFactoryDoes
<1>13. CASE ApplyFactory(t) BY <1>13, ApplyFactoryDoes
<1>14. CASE LoadOverrides(t) BY <1>14, LoadOverridesDoes
<1>15. CASE Compile(t) BY <1>15, CompileDoes
<1>16. CASE Drain(t) BY <1>16, DrainDoes
<1>. QED BY <1>1, <1>2, <1>3, <1>4, <1>5, <1>6, <1>7, <1>8, <1>9, <1>10, <1>11, <1>12,
           <1>13, <1>14, <1>15, <1>16 DEF Step

\* Saved overrides are on their way to the running configuration.
LEMMA WriteFileKeepsOver ==
  ASSUME ShapeInv, LockInv, PutInv, ReadInv, OverInv, NEW t \in Tasks, WriteFile(t)
  PROVE  OverInv'
<1>0. /\ task[t].pc = "saving" /\ task'[t].pc \in {"apply", "clear", "alias"}
      /\ task'[t].pc = "apply" \/ Req[t].op # "over"
      /\ \A u \in Tasks \ {t} : task'[u] = task[u]
      /\ cfg' = cfg
  BY WriteFileDoes DEF After
<1>1. CASE disk'.over = disk.over
  <2>1. \A u \in Tasks : OverOnItsWay(u) => OverOnItsWay(u)' BY <1>0, <1>1 DEF OverOnItsWay
  <2>. QED BY <1>0, <1>1, <2>1 DEF OverInv
<1>2. CASE disk'.over # disk.over
  <2>1. Req[t].op = "over" /\ DOMAIN task[t].put = {"over"} /\ "over" \in task'[t].written
    BY <1>2, WriteSaves DEF SavesItsPart
  <2>2. OverOnItsWay(t)' /\ task'[t].pc = "apply" BY <1>0, <2>1 DEF OverOnItsWay
  <2>. QED BY <2>2 DEF OverInv
<1>. QED BY <1>1, <1>2

\* A hot apply that read older overrides has a later one behind it.
LEMMA SetRunningKeepsOver ==
  ASSUME ShapeInv, LockInv, PutInv, ReadInv, OverInv, NEW t \in Tasks, SetRunning(t)
  PROVE  OverInv'
<1>0. /\ task[t].pc = "loaded" /\ SavesItsPart(t) /\ Req[t].op \in FileOps \ {"clear"}
      /\ task[t].written \subseteq DOMAIN task[t].put
      /\ task'[t].pc \in {"compile", "drain", "done"}
      /\ \A u \in Tasks \ {t} : task'[u] = task[u]
      /\ disk' = disk
  BY ApplyMoves
<1>1. "over" \in task[t].written => Req[t].op = "over"
  BY <1>0 DEF SavesItsPart, FileOps, Ops, RulesOps, ProfileOps
<1>2. \A u \in Tasks \ {t} : OverOnItsWay(u) => OverOnItsWay(u)' BY <1>0 DEF OverOnItsWay
<1>3. \A u \in Tasks : task'[u].pc # "loaded" BY <1>0 DEF LockInv, HasItsLocks
<1>4. CASE "over" \notin task[t].written
  <2>1. cfg'.over = cfg.over /\ ~OverOnItsWay(t) BY <1>4, SetRunningDoes DEF OverOnItsWay
  <2>. QED BY <1>0, <1>2, <1>3, <2>1 DEF OverInv
<1>5. CASE "over" \in task[t].written
  <2>1. cfg'.over = task[t].read.over BY <1>5, SetRunningDoes
  <2>2. task[t].read.over = disk.over \/ \E u \in Tasks : task[u].pc = "apply" /\ OverOnItsWay(u)
    BY <1>0, <1>1, <1>5 DEF OverInv
  <2>3. cfg'.over = disk'.over \/ \E u \in Tasks : OverOnItsWay(u)' BY SMTT(30), <1>0, <1>2, <2>1, <2>2
  <2>. QED BY <1>3, <2>3 DEF OverInv
<1>. QED BY <1>4, <1>5

\* The overrides saved come to run, whatever a handler does.
LEMMA OverKept ==
  ASSUME ShapeInv, LockInv, PutInv, ReadInv, OverInv, NEW t \in Tasks, Step(t)
  PROVE  OverInv'
<1>1. CASE Admit(t)
  <2>. USE SettingsAssumption DEF Admitted, At, FileOps, HasItsLocks, LockInv, LocksOf, NoCopy,
                                 Nobody, None, Ops, OverInv, OverOnItsWay, Parts, PcOps,
                                 ProfileOps, PutInv, ReadInv, RulesOps, SavesItsPart, ShapeInv,
                                 Unset, fileVars, viewVars
  <2>1. CASE task'[t].pc = "done" BY <1>1, <2>1, AdmitDoes
  <2>2. CASE task'[t].pc # "done" BY <1>1, <2>2, AdmitDoes, AdmitPuts
  <2>. QED BY <2>1, <2>2
<1>2. CASE WriteFile(t) BY <1>2, WriteFileKeepsOver
<1>3. CASE SetRunning(t) BY <1>3, SetRunningKeepsOver
<1>. USE SettingsAssumption DEF Admitted, At, FileOps, HasItsLocks, LockInv, LocksOf, NoCopy,
                                Nobody, None, Ops, OverInv, OverOnItsWay, Parts, PcOps,
                                ProfileOps, PutInv, ReadInv, RulesOps, SavesItsPart, ShapeInv,
                                Unset, fileVars, viewVars
<1>4. CASE Post(t) BY <1>4, PostDoes
<1>5. CASE ReadFile(t) BY <1>5, ReadFileDoes
<1>6. CASE SaveFails(t) BY <1>6, SaveFailsDoes
<1>7. CASE ApplyClear(t) BY <1>7, ApplyClearDoes
<1>8. CASE Alias(t) BY <1>8, AliasDoes
<1>9. CASE Cascade(t) BY <1>9, CascadeDoes
<1>10. CASE CascadeFails(t) BY <1>10, CascadeFailsDoes
<1>11. CASE StoreBinding(t) BY <1>11, StoreBindingDoes
<1>12. CASE StoreFactory(t) BY <1>12, StoreFactoryDoes
<1>13. CASE ApplyFactory(t) BY <1>13, ApplyFactoryDoes
<1>14. CASE LoadOverrides(t) BY <1>14, LoadOverridesDoes
<1>15. CASE Compile(t) BY <1>15, CompileDoes
<1>16. CASE Drain(t) BY <1>16, DrainDoes
<1>. QED BY <1>1, <1>2, <1>3, <1>4, <1>5, <1>6, <1>7, <1>8, <1>9, <1>10, <1>11, <1>12,
           <1>13, <1>14, <1>15, <1>16 DEF Step

\* Overrides that change under a loaded model have its drain coming.
LEMMA SetRunningKeepsSeen ==
  ASSUME ShapeInv, PutInv, ProfilesInv, SeenInv, ReadInv, NEW t \in Tasks, SetRunning(t)
  PROVE  SeenInv'
<1>0. /\ task[t].pc = "loaded" /\ SavesItsPart(t) /\ Req[t].op \in FileOps \ {"clear"}
      /\ task[t].written \subseteq DOMAIN task[t].put
      /\ \A u \in Tasks \ {t} : task'[u] = task[u]
      /\ UNCHANGED <<bound, view, resident>>
  BY ApplyMoves
<1>1. "rules" \in task[t].written => cfg'.over = cfg.over /\ cfg'.profiles = cfg.profiles
  <2>. SUFFICES ASSUME "rules" \in task[t].written
                PROVE  "over" \notin task[t].written /\ "profiles" \notin task[t].written
    BY SetRunningDoes
  <2>. QED BY <1>0 DEF SavesItsPart, FileOps, Ops, RulesOps, ProfileOps
<1>2. ViewIsCurrent'
  <2>1. CASE "rules" \in task[t].written
    <3>1. Resolved' = Resolved BY <1>0, <1>1, <2>1 DEF Resolved
    <3>2. behind' <=> behind BY <2>1, SetRunningDoes
    <3>. QED BY <1>0, <3>1, <3>2 DEF SeenInv, ViewIsCurrent
  <2>2. CASE "rules" \notin task[t].written
    <3>1. behind' BY <2>2, SetRunningDoes
    <3>. QED BY <3>1 DEF ViewIsCurrent
  <2>. QED BY <2>1, <2>2
<1>3. ModelIsCurrent' \/ \E u \in Tasks : task'[u].pc = "drain"
  <2>1. cfg'.over = cfg.over \/ task'[t].pc = "drain" BY <1>1, SetRunningDoes
  <2>. QED BY <1>0, <2>1 DEF SeenInv, ModelIsCurrent
<1>. QED BY <1>2, <1>3 DEF SeenInv

\* A view or a model from before is known as such, whatever a handler does.
LEMMA SeenKept ==
  ASSUME ShapeInv, PutInv, ProfilesInv, SeenInv, ReadInv, NEW t \in Tasks, Step(t)
  PROVE  SeenInv'
<1>1. CASE Admit(t)
  <2>. USE SettingsAssumption DEF Admitted, At, FileOps, LayersHold, ModelIsCurrent, NoCopy, Nobody,
                                 None, Ops, Parts, PcOps, ProfileOps, ProfilesInv, PutInv,
                                 Resolved, RulesOps, SeenInv, ShapeInv, Unset, ViewIsCurrent,
                                 fileVars, viewVars, LocksOf
  <2>1. CASE task'[t].pc = "done" BY <1>1, <2>1, AdmitDoes
  <2>2. CASE task'[t].pc # "done" BY <1>1, <2>2, AdmitDoes, AdmitPuts
  <2>. QED BY <2>1, <2>2
<1>2. CASE SetRunning(t) BY <1>2, SetRunningKeepsSeen
<1>. USE SettingsAssumption DEF Admitted, At, FileOps, LayersHold, ModelIsCurrent, NoCopy, Nobody,
                                None, Ops, Parts, PcOps, ProfileOps, ProfilesInv, PutInv,
                                Resolved, RulesOps, SeenInv, ShapeInv, Unset, ViewIsCurrent,
                                fileVars, viewVars
<1>3. CASE Post(t) BY <1>3, PostDoes
<1>4. CASE ReadFile(t) BY <1>4, ReadFileDoes
<1>5. CASE WriteFile(t) BY <1>5, WriteFileDoes DEF After, Merged
<1>6. CASE SaveFails(t) BY <1>6, SaveFailsDoes
<1>7. CASE ApplyClear(t) BY <1>7, ApplyClearDoes
<1>8. CASE Alias(t) BY <1>8, AliasDoes
<1>9. CASE Cascade(t) BY <1>9, CascadeDoes
<1>10. CASE CascadeFails(t) BY <1>10, CascadeFailsDoes
<1>11. CASE StoreBinding(t) BY <1>11, StoreBindingDoes
<1>12. CASE StoreFactory(t) BY <1>12, StoreFactoryDoes
<1>13. CASE ApplyFactory(t) BY <1>13, ApplyFactoryDoes
<1>14. CASE LoadOverrides(t) BY <1>14, LoadOverridesDoes
<1>15. CASE Compile(t) BY <1>15, CompileDoes
<1>16. CASE Drain(t) BY <1>16, DrainDoes
<1>. QED BY <1>1, <1>2, <1>3, <1>4, <1>5, <1>6, <1>7, <1>8, <1>9, <1>10, <1>11, <1>12,
           <1>13, <1>14, <1>15, <1>16 DEF Step

\* A connection that resolves anew, and a model that is loaded.
LEMMA ReadersKeep == ASSUME SettingsInv, RefreshIdent \/ LoadModel PROVE SettingsInv'
<1>1. UNCHANGED <<disk, factory, cfg, compiled, bound, task, locks>>
  BY DEF RefreshIdent, LoadModel, fileVars
<1>2. ShapeInv' /\ LockInv' /\ PutInv' /\ ReadInv'
  BY <1>1 DEF SettingsInv, ShapeInv, LockInv, HasItsLocks, Admitted, LocksOf, PutInv, SavesItsPart, Renamed, ReadInv
<1>3. RulesInv'
  BY <1>1 DEF SettingsInv, RulesInv, RulesRun, RulesSaved, RulePatched, RulesBehind, InForce
<1>4. ProfilesInv'
  BY <1>1 DEF SettingsInv, ProfilesInv, LayersHold, ProfilesKept, NobodyAliased, ProfilesBehind,
              Deletes, Renames, FirstTry, RollsBack, Renamed, Admitted
<1>5. OverInv' BY <1>1 DEF SettingsInv, OverInv, OverOnItsWay
<1>6. ViewIsCurrent'
  BY <1>1 DEF SettingsInv, SeenInv, ViewIsCurrent, Resolved, RefreshIdent, LoadModel
<1>7. ModelIsCurrent' \/ \E t \in Tasks : task'[t].pc = "drain"
  BY <1>1 DEF SettingsInv, SeenInv, ModelIsCurrent, RefreshIdent, LoadModel
<1>. QED BY <1>2, <1>3, <1>4, <1>5, <1>6, <1>7 DEF SettingsInv, SeenInv

\* Every step of the settings keeps the invariant.
LEMMA SettingsKept == SettingsInv /\ [Next]_vars => SettingsInv'
<1>. SUFFICES ASSUME SettingsInv, [Next]_vars PROVE SettingsInv' OBVIOUS
<1>1. CASE RefreshIdent \/ LoadModel BY <1>1, ReadersKeep
<1>2. ASSUME NEW t \in Tasks, Step(t) PROVE SettingsInv'
  <2>. USE DEF SettingsInv
  <2>. HIDE DEF ShapeInv, LockInv, PutInv, ReadInv, RulesInv, ProfilesInv, OverInv, SeenInv
  <2>. QED BY <1>2, ShapeKept, LockKept, PutKept, ReadKept, RulesKept, ProfilesStay, OverKept, SeenKept
<1>3. CASE UNCHANGED vars
  BY <1>3 DEF vars, fileVars, viewVars, SettingsInv, ShapeInv, LockInv, HasItsLocks, Admitted, LocksOf,
              PutInv, SavesItsPart, Renamed, ReadInv, RulesInv, RulesRun, RulesSaved, RulePatched,
              RulesBehind, InForce, ProfilesInv, LayersHold, ProfilesKept, NobodyAliased,
              ProfilesBehind, Deletes, Renames, FirstTry, RollsBack, OverInv, OverOnItsWay,
              SeenInv, ViewIsCurrent, ModelIsCurrent, Resolved
<1>. QED BY <1>1, <1>2, <1>3 DEF Next, Step

\* The settings start as saved.
LEMMA SettingsStart == Init => SettingsInv
<1>. SUFFICES ASSUME Init PROVE SettingsInv OBVIOUS
<1>1. \A t \in Tasks : task[t] = At("idle") BY DEF Init
<1>2. \A t \in Tasks : task[t].pc = "idle" BY <1>1 DEF At
<1>3. ShapeInv
  <2>1. \A t \in Tasks : Req[t].op \in PcOps["idle"] /\ "idle" \in DOMAIN PcOps
    BY SettingsAssumption DEF PcOps
  <2>2. \A t \in Tasks : DOMAIN task[t] = {"pc", "page", "put", "orig", "read", "written"}
    BY <1>1 DEF At
  <2>. QED BY <1>2, <2>1, <2>2 DEF Init, ShapeInv, Parts
<1>4. LockInv BY <1>2, SettingsAssumption DEF Init, LockInv, HasItsLocks, Admitted
<1>5. PutInv /\ ReadInv BY <1>2 DEF PutInv, ReadInv, Admitted
<1>6. RulesInv
  BY <1>2 DEF Init, RulesInv, RulesRun, RulesSaved, RulePatched, InForce
<1>7. ProfilesInv
  BY <1>2 DEF Init, ProfilesInv, LayersHold, ProfilesKept, Deletes, Admitted
<1>8. OverInv /\ SeenInv
  BY <1>2 DEF Init, OverInv, SeenInv, ViewIsCurrent, ModelIsCurrent
<1>. QED BY <1>3, <1>4, <1>5, <1>6, <1>7, <1>8 DEF SettingsInv

\* What the invariant says of the moments nobody saves.
LEMMA SettingsSettled == SettingsInv => Settled /\ LayersHold
<1>. SUFFICES ASSUME SettingsInv PROVE Settled /\ LayersHold OBVIOUS
<1>1. LayersHold BY DEF SettingsInv, ProfilesInv
<1>2. ASSUME Quiet PROVE RunningIsSaved /\ compiled = cfg.rules /\ ViewIsCurrent /\ ModelIsCurrent
  <2>1. \A t \in Tasks : task[t].pc \in {"idle", "done", "aliased"} BY <1>2 DEF Quiet, Active
  <2>2. /\ \A t \in Tasks : ~RulesBehind(t) /\ ~ProfilesBehind(t) /\ ~OverOnItsWay(t)
        /\ \A t \in Tasks : task[t].pc \notin {"compile", "drain"}
    BY <2>1 DEF RulesBehind, ProfilesBehind, RollsBack, OverOnItsWay
  <2>3. cfg.rules = InForce(disk.rules) /\ compiled = cfg.rules
    BY <2>2 DEF SettingsInv, RulesInv, RulesRun
  <2>4. cfg.over = disk.over BY <2>2 DEF SettingsInv, OverInv
  <2>5. NobodyAliased => cfg.profiles = disk.profiles BY <2>2 DEF SettingsInv, ProfilesInv, ProfilesKept
  <2>6. ViewIsCurrent /\ ModelIsCurrent BY <2>2 DEF SettingsInv, SeenInv
  <2>. QED BY <2>3, <2>4, <2>5, <2>6 DEF RunningIsSaved, NobodyAliased
<1>. QED BY <1>1, <1>2 DEF Settled

\* A save changes what its request edits: the merge under the lock keeps the other
\* parts, and a patch writes the list in force with its own rule changed.
LEMMA SavedAsEdited ==
  ASSUME SettingsInv, NEW t \in Tasks, WriteFile(t)
  PROVE  /\ \A key \in Keys \ Edits(t) : Value(disk, key) = Value(disk', key)
         /\ Req[t].op = "patch" /\ Req[t].fp => Value(disk, Req[t].slug) = task[t].page
<1>. USE DEF SettingsInv
<1>1. task[t].pc = "saving" /\ Req[t].op \in FileOps BY WriteFileDoes, WriteSaves
<1>2. Req[t].op = "patch" => RulePatched(t) /\ Req[t].slug \in Slugs
  BY <1>1, SettingsAssumption DEF RulesInv
<1>3. factory' = factory BY WriteFileDoes
<1>4. ASSUME NEW key \in Keys \ Edits(t) PROVE Value(disk, key) = Value(disk', key)
  <2>1. CASE key = "over"
    <3>1. "over" \notin Slugs BY SettingsAssumption DEF Parts
    <3>2. Req[t].op # "over" BY <1>4, <2>1 DEF Edits
    <3>. QED BY <2>1, <3>1, <3>2, WriteSaves DEF Value
  <2>2. CASE key = "profiles"
    <3>1. "profiles" \notin Slugs BY SettingsAssumption DEF Parts
    <3>2. Req[t].op \notin ProfileOps BY <1>4, <2>2 DEF Edits, ProfileOps
    <3>. QED BY <2>2, <3>1, <3>2, WriteSaves DEF Value
  <2>3. CASE key \in Slugs /\ Req[t].op \notin RulesOps
    BY <2>3, WriteSaves DEF Value, InForce
  <2>4. CASE key \in Slugs /\ Req[t].op = "patch"
    <3>1. key # Req[t].slug BY <1>4, <2>4 DEF Edits
    <3>2. disk'.rules = task[t].put.rules /\ DOMAIN task[t].put.rules = Slugs
      BY <2>4, WriteSaves DEF RulesOps, SavesItsPart
    <3>3. task[t].put.rules = [InForce(disk.rules) EXCEPT ![Req[t].slug] = t]
      BY <1>2, <2>4 DEF RulePatched
    <3>4. DOMAIN InForce(disk.rules) = Slugs BY DEF RulesInv, InForce
    <3>5. task[t].put.rules[key] = InForce(disk.rules)[key] BY <2>4, <3>1, <3>3, <3>4
    <3>6. disk'.rules # NoCopy BY <3>2, RulesAreSome
    <3>. QED BY <2>4, <3>2, <3>5, <3>6 DEF Value, InForce
  <2>. QED BY <1>1, <1>4, <2>1, <2>2, <2>3, <2>4
       DEF Keys, Edits, FileOps, Ops, RulesOps
<1>. QED BY <1>2, <1>4 DEF Value, RulePatched

\* A handler leaves its save for what comes next by writing the file.
LEMMA OnlyAWriteSaves ==
  ASSUME SettingsInv, Next, NEW t \in Tasks, Saves(t)
  PROVE  WriteFile(t)
<1>. USE DEF SettingsInv, Saves
<1>1. task' # task OBVIOUS
<1>2. CASE RefreshIdent \/ LoadModel BY <1>1, <1>2 DEF RefreshIdent, LoadModel
<1>3. ASSUME NEW u \in Tasks, Step(u) PROVE WriteFile(t)
  <2>1. CASE u = t
    <3>1. ~Post(t) /\ ~Admit(t) /\ ~ReadFile(t)
      BY PostDoes, AdmitDoes, ReadFileDoes
    <3>2. ~SaveFails(t) BY SaveFailsDoes DEF At
    <3>3. ~ApplyClear(t) /\ ~Alias(t) /\ ~Cascade(t) /\ ~CascadeFails(t)
      BY ApplyClearDoes, AliasDoes, CascadeDoes, CascadeFailsDoes
    <3>4. ~StoreBinding(t) /\ ~StoreFactory(t) /\ ~ApplyFactory(t)
      BY StoreBindingDoes, StoreFactoryDoes, ApplyFactoryDoes
    <3>5. ~LoadOverrides(t) /\ ~SetRunning(t) /\ ~Compile(t) /\ ~Drain(t)
      BY LoadOverridesDoes, SetRunningDoes, CompileDoes, DrainDoes
    <3>. QED BY <1>3, <2>1, <3>1, <3>2, <3>3, <3>4, <3>5 DEF Step
  <2>2. CASE u # t
    <3>1. task'[t] = task[t]
      BY <1>3, <2>2, PostDoes, AdmitDoes, ReadFileDoes, WriteFileDoes, SaveFailsDoes, ApplyClearDoes,
         AliasDoes, CascadeDoes, CascadeFailsDoes, StoreBindingDoes, StoreFactoryDoes,
         ApplyFactoryDoes, LoadOverridesDoes, SetRunningDoes, CompileDoes, DrainDoes DEF Step
    <3>. QED BY <3>1
  <2>. QED BY <2>1, <2>2
<1>. QED BY <1>2, <1>3 DEF Next, Step

\* Each step of the settings, as NoLostEdit asks.
LEMMA EditsStand ==
  SettingsInv /\ [Next]_vars => [\A t \in Tasks : Saves(t) => SavedAsAsked(t)]_vars
<1>. SUFFICES ASSUME SettingsInv, [Next]_vars, vars' # vars, NEW t \in Tasks, Saves(t)
              PROVE  SavedAsAsked(t)
  OBVIOUS
<1>1. Next OBVIOUS
<1>2. WriteFile(t) BY <1>1, OnlyAWriteSaves DEF Saves
<1>. QED BY <1>2, SavedAsEdited DEF SavedAsAsked

(***************************************************************************)
(* The receipts held back. A receipt is on one key at most, and each one    *)
(* parked is there and nowhere else, or left for the overflow or the log.   *)
(***************************************************************************)

Holds(n) == \E key \in DOMAIN held : held[key].receipt = n

HoldTypes ==
  /\ parked \in 0..MaxParks
  /\ logged \in [1..MaxParks -> Nat] /\ overflow \in [1..MaxParks -> Nat]
  /\ \A key \in DOMAIN held :
       DOMAIN held[key] = {"receipt", "idle"} /\ held[key].receipt \in 1..parked

OnOneKey ==
  \A one, two \in DOMAIN held : held[one].receipt = held[two].receipt => one = two

SomewhereOnce ==
  /\ \A n \in 1..parked :
       IF Holds(n) THEN logged[n] = 0 /\ overflow[n] = 0 ELSE logged[n] + overflow[n] = 1
  /\ \A n \in 1..MaxParks : n > parked => logged[n] = 0 /\ overflow[n] = 0

HoldInv == HoldTypes /\ OnOneKey /\ SomewhereOnce

\* A receipt is counted once among the keys that have it, or not at all.
LEMMA OfIsOneOrNone ==
  ASSUME OnOneKey, NEW ks, ks \subseteq DOMAIN held, NEW n
  PROVE  H!Of(ks, n) = IF \E key \in ks : held[key].receipt = n THEN 1 ELSE 0
<1>. DEFINE S == {key \in ks : held[key].receipt = n}
<1>1. \A T : H!Cardinality(T) = Cardinality(T) BY DEF H!Cardinality, Cardinality
<1>2. CASE \E key \in ks : held[key].receipt = n
  <2>1. PICK key \in ks : held[key].receipt = n BY <1>2
  <2>2. S = {key} BY <2>1 DEF OnOneKey
  <2>3. Cardinality(S) = 1 BY <2>2, FS_Singleton
  <2>. QED BY <1>1, <1>2, <2>3 DEF H!Of
<1>3. CASE ~\E key \in ks : held[key].receipt = n
  <2>1. S = {} BY <1>3
  <2>2. Cardinality(S) = 0 BY <2>1, FS_EmptySet
  <2>. QED BY <1>1, <1>3, <2>2 DEF H!Of
<1>. QED BY <1>2, <1>3

\* Entries that leave, for the overflow or the log: the others stay as they are.
LEMMA LeavingKeepsHold ==
  ASSUME HoldInv, NEW out, out \subseteq DOMAIN held, H!Leave(out), parked' = parked,
         NEW gone, gone \in [1..MaxParks -> Nat],
         \A n \in 1..MaxParks : gone[n] = H!Of(out, n),
         \/ /\ overflow' = overflow
            /\ logged' = [n \in 1..MaxParks |-> logged[n] + gone[n]]
         \/ /\ overflow' = [n \in 1..MaxParks |-> 0]
            /\ logged' = [n \in 1..MaxParks |-> logged[n] + gone[n] + overflow[n]]
  PROVE  HoldInv'
<1>1. DOMAIN held' = DOMAIN held \ out /\ \A key \in DOMAIN held' : held'[key] = held[key]
  BY DEF H!Leave, H!Without, H!Held
<1>0. ASSUME NEW n \in 1..MaxParks
      PROVE  \/ overflow'[n] = overflow[n] /\ logged'[n] = logged[n] + gone[n]
             \/ overflow'[n] = 0 /\ logged'[n] = logged[n] + gone[n] + overflow[n]
  OBVIOUS
<1>2. HoldTypes' /\ OnOneKey'
  <2>1. logged' \in [1..MaxParks -> Nat]
    <3>1. CASE logged' = [n \in 1..MaxParks |-> logged[n] + gone[n]] BY <3>1 DEF HoldInv, HoldTypes
    <3>2. CASE logged' = [n \in 1..MaxParks |-> logged[n] + gone[n] + overflow[n]]
      BY <3>2 DEF HoldInv, HoldTypes
    <3>. QED BY <3>1, <3>2
  <2>2. overflow' \in [1..MaxParks -> Nat] BY DEF HoldInv, HoldTypes
  <2>. QED BY <1>1, <2>1, <2>2 DEF HoldInv, HoldTypes, OnOneKey
<1>3. ASSUME NEW n \in 1..MaxParks
      PROVE  gone[n] = IF \E key \in out : held[key].receipt = n THEN 1 ELSE 0
  BY OfIsOneOrNone DEF HoldInv
<1>4. ASSUME NEW n \in 1..parked
      PROVE  IF Holds(n)' THEN logged'[n] = 0 /\ overflow'[n] = 0 ELSE logged'[n] + overflow'[n] = 1
  <2>1. n \in 1..MaxParks BY ServicesAssumption DEF HoldInv, HoldTypes
  <2>2. CASE \E key \in out : held[key].receipt = n
    <3>1. ~Holds(n)' BY <1>1, <2>2 DEF Holds, HoldInv, OnOneKey
    <3>2. Holds(n) BY <2>2 DEF Holds
    <3>3. logged[n] = 0 /\ overflow[n] = 0 BY <3>2 DEF HoldInv, SomewhereOnce
    <3>4. gone[n] = 1 BY <1>3, <2>1, <2>2
    <3>. QED BY <1>0, <2>1, <3>1, <3>3, <3>4
  <2>3. CASE ~\E key \in out : held[key].receipt = n
    <3>1. Holds(n)' <=> Holds(n) BY <1>1, <2>3 DEF Holds
    <3>2. gone[n] = 0 BY <1>3, <2>1, <2>3
    <3>3. logged[n] \in Nat /\ overflow[n] \in Nat BY <2>1 DEF HoldInv, HoldTypes
    <3>4. IF Holds(n) THEN logged[n] = 0 /\ overflow[n] = 0 ELSE logged[n] + overflow[n] = 1
      BY DEF HoldInv, SomewhereOnce
    <3>. QED BY <1>0, <2>1, <3>1, <3>2, <3>3, <3>4
  <2>. QED BY <2>2, <2>3
<1>5. ASSUME NEW n \in 1..MaxParks, n > parked PROVE logged'[n] = 0 /\ overflow'[n] = 0
  <2>1. gone[n] = 0 BY <1>3, <1>5 DEF HoldInv, HoldTypes
  <2>2. logged[n] = 0 /\ overflow[n] = 0 BY <1>5 DEF HoldInv, SomewhereOnce
  <2>. QED BY <1>0, <2>1, <2>2
<1>. QED BY <1>2, <1>4, <1>5 DEF HoldInv, SomewhereOnce

\* A receipt parked: what it displaced or evicted waits in the overflow.
LEMMA ParkKeepsHold == ASSUME HoldInv, NEW key \in MCCaptures, H!Park(key) PROVE HoldInv'
<1>1. PICK evicted : 
        /\ evicted \subseteq DOMAIN held
        /\ held' = [k1 \in (DOMAIN held \ (evicted \cup {key})) \cup {key} |->
                     IF k1 = key THEN [receipt |-> parked + 1, idle |-> 0] ELSE held[k1]]
        /\ overflow' = [n \in 1..MaxParks |-> overflow[n] + H!Of(evicted \cup H!Displaced(key), n)]
  BY DEF H!Park, H!LeastTouched, H!Held, H!Receipts
<1>. DEFINE out == evicted \cup ({key} \cap DOMAIN held)
            others == DOMAIN held \ (evicted \cup {key})
<1>2. parked < MaxParks /\ parked' = parked + 1 /\ logged' = logged BY DEF H!Park
<1>3. parked \in Nat /\ MaxParks \in Nat BY ServicesAssumption DEF HoldInv, HoldTypes
<1>4. out \subseteq DOMAIN held /\ others = DOMAIN held \ out BY <1>1
<1>5. /\ DOMAIN held' = others \cup {key}
      /\ held'[key].receipt = parked + 1 /\ DOMAIN held'[key] = {"receipt", "idle"}
      /\ \A k1 \in others : held'[k1] = held[k1]
  BY <1>1
<1>6. \A n \in 1..MaxParks :
        overflow'[n] = overflow[n] + IF \E k1 \in out : held[k1].receipt = n THEN 1 ELSE 0
  <2>1. \A n : H!Of(out, n) = IF \E k1 \in out : held[k1].receipt = n THEN 1 ELSE 0
    BY <1>4, OfIsOneOrNone DEF HoldInv
  <2>. QED BY <1>1, <2>1 DEF H!Displaced, H!Held
<1>. HIDE DEF out, others
<1>7. HoldTypes'
  <2>1. overflow' \in [1..MaxParks -> Nat]
    <3>1. DOMAIN overflow' = 1..MaxParks /\ overflow' = [n \in 1..MaxParks |-> overflow'[n]] BY <1>1
    <3>. QED BY <1>6, <3>1 DEF HoldInv, HoldTypes
  <2>2. \A k1 \in DOMAIN held' :
          DOMAIN held'[k1] = {"receipt", "idle"} /\ held'[k1].receipt \in 1..parked'
    BY <1>2, <1>3, <1>4, <1>5 DEF HoldInv, HoldTypes
  <2>. QED BY SMTT(30), <1>2, <1>3, <2>1, <2>2 DEF HoldInv, HoldTypes
<1>8. \A k1 \in others : held[k1].receipt \in 1..parked BY <1>4 DEF HoldInv, HoldTypes
<1>9. OnOneKey' BY <1>3, <1>4, <1>5, <1>8 DEF HoldInv, OnOneKey
<1>10. ASSUME NEW n \in 1..(parked + 1)
       PROVE  IF Holds(n)' THEN logged'[n] = 0 /\ overflow'[n] = 0 ELSE logged'[n] + overflow'[n] = 1
  <2>0. n \in 1..MaxParks /\ logged[n] \in Nat /\ overflow[n] \in Nat
    BY <1>2, <1>3 DEF HoldInv, HoldTypes
  <2>1. CASE n = parked + 1
    <3>1. Holds(n)' BY <1>5, <2>1 DEF Holds
    <3>2. ~\E k1 \in out : held[k1].receipt = n BY <1>3, <1>4, <2>1 DEF HoldInv, HoldTypes
    <3>3. logged[n] = 0 /\ overflow[n] = 0 BY <1>3, <2>0, <2>1 DEF HoldInv, SomewhereOnce
    <3>. QED BY <1>2, <1>6, <2>0, <3>1, <3>2, <3>3
  <2>2. CASE n \in 1..parked /\ \E k1 \in out : held[k1].receipt = n
    <3>1. ~Holds(n)' BY <1>3, <1>4, <1>5, <2>2 DEF Holds, HoldInv, OnOneKey
    <3>2. Holds(n) BY <1>4, <2>2 DEF Holds
    <3>3. logged[n] = 0 /\ overflow[n] = 0 BY <2>2, <3>2 DEF HoldInv, SomewhereOnce
    <3>. QED BY <1>2, <1>6, <2>0, <2>2, <3>1, <3>3
  <2>3. CASE n \in 1..parked /\ ~\E k1 \in out : held[k1].receipt = n
    <3>1. Holds(n)' <=> Holds(n) BY <1>3, <1>4, <1>5, <2>3 DEF Holds
    <3>2. overflow'[n] = overflow[n] BY <1>6, <2>0, <2>3
    <3>3. IF Holds(n) THEN logged[n] = 0 /\ overflow[n] = 0 ELSE logged[n] + overflow[n] = 1
      BY <2>3 DEF HoldInv, SomewhereOnce
    <3>. QED BY <1>2, <3>1, <3>2, <3>3
  <2>. QED BY <1>3, <2>1, <2>2, <2>3
<1>11. ASSUME NEW n \in 1..MaxParks, n > parked + 1 PROVE logged'[n] = 0 /\ overflow'[n] = 0
  <2>1. ~\E k1 \in out : held[k1].receipt = n BY <1>3, <1>4, <1>11 DEF HoldInv, HoldTypes
  <2>2. logged[n] = 0 /\ overflow[n] = 0 BY <1>3, <1>11 DEF HoldInv, SomewhereOnce
  <2>. QED BY <1>2, <1>6, <2>1, <2>2
<1>. QED BY <1>2, <1>7, <1>9, <1>10, <1>11 DEF HoldInv, SomewhereOnce

\* What only resets or advances an idle time keeps the receipts where they are.
LEMMA IdleKeepsHold ==
  ASSUME HoldInv, UNCHANGED <<overflow, logged, parked>>, DOMAIN held' = DOMAIN held,
         \A key \in DOMAIN held :
           DOMAIN held'[key] = DOMAIN held[key] /\ held'[key].receipt = held[key].receipt
  PROVE  HoldInv'
BY DEF HoldInv, HoldTypes, OnOneKey, SomewhereOnce, Holds

\* Whatever parks, claims, beats, sweeps or flushes.
LEMMA HoldKept == HoldInv /\ [H!HoldNext]_holdVars => HoldInv'
<1>. SUFFICES ASSUME HoldInv, [H!HoldNext]_holdVars PROVE HoldInv' OBVIOUS
<1>1. CASE UNCHANGED holdVars
  BY <1>1 DEF holdVars, HoldInv, HoldTypes, OnOneKey, SomewhereOnce, Holds
<1>2. ASSUME NEW key \in MCCaptures, H!Park(key) PROVE HoldInv' BY <1>2, ParkKeepsHold
<1>3. ASSUME NEW r \in Requests, H!Beat(r) PROVE HoldInv'
  BY <1>3, IdleKeepsHold DEF H!Beat, H!Touch, H!Held, HoldInv, HoldTypes
<1>4. ASSUME NEW r \in Requests, H!End(r) PROVE HoldInv'
  <2>. DEFINE claimed == {req[r].key} \cap DOMAIN held
              gone == [n \in 1..MaxParks |-> H!Of(claimed, n)]
  <2>1. gone \in [1..MaxParks -> Nat] BY OfIsOneOrNone DEF HoldInv
  <2>2. /\ H!Leave(claimed) /\ UNCHANGED <<overflow, parked>>
        /\ logged' = [n \in 1..MaxParks |-> logged[n] + H!Of(claimed, n)]
    BY <1>4 DEF H!End, H!Held, H!Receipts
  <2>3. logged' = [n \in 1..MaxParks |-> logged[n] + gone[n]] BY <2>2
  <2>4. /\ \A n \in 1..MaxParks : gone[n] = H!Of(claimed, n)
        /\ claimed \subseteq DOMAIN held /\ overflow' = overflow /\ parked' = parked
    BY <2>2
  <2>. HIDE DEF gone, claimed
  <2>. QED BY <2>1, <2>2, <2>3, <2>4, LeavingKeepsHold
<1>5. ASSUME NEW r \in Requests, NEW key \in MCCaptures, H!Request(r, key) PROVE HoldInv'
  BY <1>5 DEF H!Request, HoldInv, HoldTypes, OnOneKey, SomewhereOnce, Holds
<1>6. CASE H!Pass
  BY <1>6, IdleKeepsHold DEF H!Pass, H!Held, HoldInv, HoldTypes
<1>7. CASE H!Sweep \/ H!FlushAll
  <2>1. PICK out \in SUBSET DOMAIN held :
          /\ H!Leave(out) /\ parked' = parked /\ overflow' = [n \in 1..MaxParks |-> 0]
          /\ logged' = [n \in 1..MaxParks |-> logged[n] + H!Of(out, n) + overflow[n]]
    <3>1. CASE H!Sweep
      <4>1. /\ H!Leave(H!Stale) /\ parked' = parked /\ overflow' = [n \in 1..MaxParks |-> 0]
            /\ logged' = [n \in 1..MaxParks |-> logged[n] + (H!Of(H!Stale, n) + overflow[n])]
        BY <3>1 DEF H!Sweep, H!Swept, H!Receipts
      <4>2. H!Stale \in SUBSET DOMAIN held BY DEF H!Stale, H!Held
      <4>3. ASSUME NEW n \in 1..MaxParks
            PROVE logged[n] + (H!Of(H!Stale, n) + overflow[n]) = logged[n] + H!Of(H!Stale, n) + overflow[n]
        BY SMTT(30), <4>2, OfIsOneOrNone DEF HoldInv, HoldTypes
      <4>. QED BY <4>1, <4>2, <4>3
    <3>2. CASE H!FlushAll BY <3>2 DEF H!FlushAll, H!Held, H!Receipts
    <3>. QED BY <1>7, <3>1, <3>2
  <2>. DEFINE gone == [n \in 1..MaxParks |-> H!Of(out, n)]
  <2>2. gone \in [1..MaxParks -> Nat] BY OfIsOneOrNone DEF HoldInv
  <2>3. logged' = [n \in 1..MaxParks |-> logged[n] + gone[n] + overflow[n]] BY <2>1
  <2>4. \A n \in 1..MaxParks : gone[n] = H!Of(out, n) OBVIOUS
  <2>. HIDE DEF gone
  <2>. QED BY <2>1, <2>2, <2>3, <2>4, LeavingKeepsHold
<1>. QED BY <1>1, <1>2, <1>3, <1>4, <1>5, <1>6, <1>7 DEF H!HoldNext

\* Nothing is held at the start.
LEMMA HoldStart == H!HoldInit => HoldInv
BY ServicesAssumption
   DEF H!HoldInit, H!Receipts, HoldInv, HoldTypes, OnOneKey, SomewhereOnce, Holds

\* What the invariant says of each receipt parked.
LEMMA HoldLosesNone == HoldInv => H!NothingLost
<1>. SUFFICES ASSUME HoldInv, NEW n \in 1..parked
              PROVE  logged[n] + H!Of(DOMAIN held, n) + overflow[n] = 1
  BY DEF H!NothingLost, H!Held
<1>1. logged[n] \in Nat /\ overflow[n] \in Nat BY ServicesAssumption DEF HoldInv, HoldTypes
<1>2. H!Of(DOMAIN held, n) = IF Holds(n) THEN 1 ELSE 0 BY OfIsOneOrNone DEF HoldInv, Holds
<1>. QED BY <1>1, <1>2 DEF HoldInv, SomewhereOnce

\* A set of numbers has a least one.
LEMMA LeastExists == ASSUME NEW S, S \subseteq Nat, S # {} PROVE \E a \in S : \A b \in S : a <= b
<1>. DEFINE smaller == OpToRel(<, Nat)
<1>1. \A a \in Nat, b \in Nat : a < b => <<a, b>> \in smaller BY DEF OpToRel
<1>2. IsWellFoundedOn(smaller, Nat) BY NatLessThanWellFounded
<1>3. PICK less : less = smaller OBVIOUS
<1>4. \E a \in S : \A b \in S : ~(<<b, a>> \in less) BY <1>2, <1>3, WFMin
<1>5. PICK a \in S : \A b \in S : ~(<<b, a>> \in less) BY <1>4
<1>6. \A c \in Nat, b \in Nat : c < b => <<c, b>> \in less BY <1>1, <1>3
<1>. HIDE DEF smaller
<1>7. \A b \in S : a <= b
  <2>. SUFFICES ASSUME NEW b \in S PROVE a <= b OBVIOUS
  <2>1. a \in Nat /\ b \in Nat OBVIOUS
  <2>2. <<b, a>> \notin less BY <1>5
  <2>3. ~(b < a) BY <1>6, <2>1, <2>2
  <2>. QED BY <2>1, <2>3
<1>. QED BY <1>7

\* A bounded set of numbers has a greatest one.
LEMMA GreatestExists ==
  ASSUME NEW S, S \subseteq Nat, S # {}, NEW n \in Nat, \A b \in S : b <= n
  PROVE  \E a \in S : \A b \in S : b <= a
<1>. DEFINE T == {n - b : b \in S}
<1>0. \A b \in S : n - b \in Nat OBVIOUS
<1>1. T \subseteq Nat /\ T # {} BY <1>0
<1>2. PICK c \in T : \A b \in T : c <= b BY <1>1, LeastExists
<1>3. PICK a \in S : c = n - a OBVIOUS
<1>4. \A b \in S : n - a <= n - b BY <1>2, <1>3
<1>. QED BY <1>3, <1>4

(***************************************************************************)
(* The translation of segments: where the loop stands and what it has done. *)
(* A cue is done when the loop is past it, or blank in a batch halved since; *)
(* a size twice failed right after growing is above the ceiling.             *)
(***************************************************************************)

Done(j) ==
  results[j] # R!NotYet =>
    IF R!Faithful THEN j < at \/ (results[j] = R!Blank /\ ~R!Segs[j].text)
                  ELSE R!GroupOf[j] \in 1..(at - 1)

RunTypes ==
  /\ R!N \in Nat /\ \A j \in 1..R!N : R!Segs[j].text \in BOOLEAN
  /\ ended = "idle" => R!N = 0
  /\ at \in Nat \ {0}
  /\ kCeil \in 1..Batch /\ k \in 1..kCeil
  /\ DOMAIN results = 1..R!N

GrownInv ==
  /\ grownFails \in [1..Batch -> Nat]
  /\ failedGrown \subseteq 1..Batch
  /\ \A s \in 1..Batch : s \in failedGrown <=> grownFails[s] >= 1
  /\ \A s \in 1..Batch : grownFails[s] >= 2 => s > kCeil

RunInv == RunTypes /\ GrownInv /\ \A j \in 1..R!N : Done(j)

\* The batch has a cue, and a call past it is further on.
LEMMA BatchNotEmpty ==
  ASSUME RunTypes, at <= R!N
  PROVE  /\ R!Cardinality(R!InBatch) \in Nat \ {0}
         /\ \A j \in R!InBatch : j \in 1..R!N /\ at <= j /\ j < at + k
         /\ \A j \in R!InBatch : j < at + R!Cardinality(R!InBatch)
<1>. DEFINE last == R!Smaller(at + k - 1, R!N)
<1>1. \A T : R!Cardinality(T) = Cardinality(T) BY DEF R!Cardinality, Cardinality
<1>2. /\ at \in Nat \ {0} /\ R!N \in Nat /\ k \in Nat \ {0} 
  BY ServicesAssumption DEF RunTypes
<1>3. last \in Nat /\ at <= last /\ last <= at + k - 1 /\ last <= R!N BY <1>2 DEF R!Smaller
<1>4. R!InBatch = at..last BY DEF R!InBatch
<1>. HIDE DEF last
<1>5. Cardinality(at..last) = last - at + 1 BY <1>2, <1>3, FS_Interval
<1>. QED BY <1>1, <1>2, <1>3, <1>4, <1>5

\* Two live cues in the batch: half the span that was sent is a smaller batch.
LEMMA HalvedIsSmaller ==
  ASSUME RunTypes, at <= R!N, R!Cardinality(R!Live) > 1
  PROVE  R!Halved \in 1..(k - 1)
<1>1. \A T : R!Cardinality(T) = Cardinality(T) BY DEF R!Cardinality, Cardinality
<1>2. R!Live \subseteq R!InBatch /\ \A j \in R!InBatch : j \in Nat /\ at <= j /\ j < at + k
  BY BatchNotEmpty DEF R!Live
<1>3. \E a, b \in R!Live : a # b
  <2>1. CASE R!Live = {} BY <1>1, <2>1, FS_EmptySet
  <2>2. ASSUME NEW a \in R!Live, R!Live = {a} PROVE FALSE
    <3>1. Cardinality({a}) = 1 BY FS_Singleton
    <3>. QED BY <1>1, <2>2, <3>1
  <2>. QED BY <2>1, <2>2
<1>4. PICK a, b \in R!Live : a # b BY <1>3
<1>5. at \in Nat /\ k \in Nat BY ServicesAssumption DEF RunTypes
<1>6. R!FirstOf(R!Live) \in R!Live /\ \A c \in R!Live : R!FirstOf(R!Live) <= c
  BY <1>2, <1>4, LeastExists DEF R!FirstOf
<1>7. R!LastOf(R!Live) \in R!Live /\ \A c \in R!Live : c <= R!LastOf(R!Live)
  <2>1. at + k \in Nat /\ \A c \in R!Live : c <= at + k BY <1>2, <1>5
  <2>. QED BY <1>2, <1>4, <2>1, GreatestExists DEF R!LastOf
<1>8. PICK first, last \in Nat :
        /\ first = R!FirstOf(R!Live) /\ last = R!LastOf(R!Live)
        /\ at <= first /\ first < last /\ last < at + k
  BY <1>2, <1>4, <1>6, <1>7
<1>9. R!Halved = R!Most(1, (first - at) + (last - first + 1) \div 2) BY <1>8 DEF R!Halved
<1>. QED BY <1>5, <1>8, <1>9 DEF R!Most

\* The blanks of a batch are done; a live cue was not.
LEMMA BlanksAreDone ==
  ASSUME RunInv, R!Going
  PROVE  /\ DOMAIN R!WithBlanks = 1..R!N
         /\ \A j \in R!Live : results[j] = R!NotYet
         /\ \A j \in 1..R!N : results[j] # R!NotYet => R!WithBlanks[j] = results[j]
         /\ \A j \in 1..R!N : R!WithBlanks[j] # R!NotYet =>
              j < at \/ (R!WithBlanks[j] = R!Blank /\ ~R!Segs[j].text)
<1>1. \A j \in R!InBatch : j \in 1..R!N /\ at <= j
  BY BatchNotEmpty DEF RunInv, R!Going
<1>2. \A j \in 1..R!N : results[j] # R!NotYet =>
        j < at \/ (results[j] = R!Blank /\ ~R!Segs[j].text)
  BY DEF RunInv, Done, R!Going
<1>3. \A j \in R!InBatch : j \in R!Live <=> R!Segs[j].text BY DEF R!Live
<1>4. \A j \in 1..R!N : R!WithBlanks[j] = IF j \in R!InBatch \ R!Live THEN R!Blank ELSE results[j]
  BY DEF R!WithBlanks
<1>5. at \in Nat /\ \A j \in 1..R!N : j \in Nat BY DEF RunInv, RunTypes
<1>6. \A j \in R!Live : j \in R!InBatch /\ R!Segs[j].text BY DEF R!Live
<1>7. ASSUME NEW j \in R!Live PROVE results[j] = R!NotYet
  BY <1>1, <1>2, <1>5, <1>6
<1>8. ASSUME NEW j \in 1..R!N, results[j] # R!NotYet PROVE R!WithBlanks[j] = results[j]
  BY <1>1, <1>2, <1>3, <1>4, <1>5, <1>8
<1>9. ASSUME NEW j \in 1..R!N, R!WithBlanks[j] # R!NotYet
      PROVE  j < at \/ (R!WithBlanks[j] = R!Blank /\ ~R!Segs[j].text)
  BY <1>2, <1>3, <1>4, <1>9
<1>10. DOMAIN R!WithBlanks = 1..R!N BY DEF R!WithBlanks
<1>. QED BY <1>7, <1>8, <1>9, <1>10

\* A step of the loop: a cue done stays as it is, and the call is further on or
\* its batch smaller.
Onward ==
  /\ at' > at \/ (at' = at /\ k' < k)
  /\ \A j \in 1..R!N : results[j] # R!NotYet => results'[j] = results[j]

\* What moves past a batch, whatever became of its live cues.
LEMMA PastTheBatch ==
  ASSUME RunInv, R!Going, UNCHANGED <<call, ended>>,
         at' = at + R!Cardinality(R!InBatch),
         kCeil' = kCeil, k' \in k..kCeil,
         DOMAIN results' = 1..R!N,
         \A j \in (1..R!N) \ R!Live : results'[j] = R!WithBlanks[j]
  PROVE  RunTypes' /\ (\A j \in 1..R!N : Done(j))' /\ Onward
<1>1. /\ \A j \in R!InBatch : j < at'
      /\ at' \in Nat \ {0} /\ at' > at
  BY BatchNotEmpty DEF RunInv, RunTypes, R!Going
<1>2. RunTypes'
  BY <1>1 DEF RunInv, RunTypes, R!N, R!Segs
<1>3. R!Live \subseteq R!InBatch BY DEF R!Live
<1>4. ASSUME NEW j \in 1..R!N PROVE Done(j)'
  <2>1. j \notin R!Live => results'[j] = R!WithBlanks[j] BY <1>4
  <2>2. j < at => j < at' BY <1>1 DEF RunInv, RunTypes
  <2>3. results'[j] # R!NotYet => j < at' \/ (results'[j] = R!Blank /\ ~R!Segs[j].text)
    <3>1. CASE j \in R!Live BY <1>1, <1>3, <3>1
    <3>2. CASE j \notin R!Live BY <2>1, <2>2, <3>2, BlanksAreDone
    <3>. QED BY <3>1, <3>2
  <2>4. R!Faithful BY DEF R!Going
  <2>. QED BY <2>3, <2>4 DEF Done, R!Faithful, R!Segs, R!NotYet, R!Blank
<1>5. Onward BY <1>1, BlanksAreDone DEF Onward
<1>6. (\A j \in 1..R!N : Done(j))'
  <2>1. R!N' = R!N BY DEF R!N, R!Segs
  <2>. QED BY <1>4, <2>1
<1>. QED BY <1>2, <1>5, <1>6

\* Growing back: never past the ceiling, and never to a size that failed twice.
LEMMA GrowsBelow ==
  ASSUME RunInv, R!Going, R!Advance, kCeil' = kCeil
  PROVE  at' = at + R!Cardinality(R!InBatch) /\ k' \in k..kCeil
<1>1. k \in Nat /\ kCeil \in Nat /\ k <= kCeil /\ 1 <= k BY ServicesAssumption DEF RunInv, RunTypes
<1>. QED BY <1>1 DEF R!Advance, R!Smaller

\* What the history of failed sizes keeps.
LEMMA GrownStays ==
  ASSUME GrownInv, UNCHANGED <<kCeil, failedGrown, grownFails>> PROVE GrownInv'
BY DEF GrownInv

\* A batch numbered in full clears the failures of its size and below.
LEMMA GrownCleared ==
  ASSUME RunInv, kCeil' = kCeil,
         failedGrown' = {s \in failedGrown : s > k},
         grownFails' = [s \in DOMAIN grownFails |-> IF s <= k THEN 0 ELSE grownFails[s]]
  PROVE  GrownInv'
<1>1. DOMAIN grownFails = 1..Batch /\ k \in Nat BY ServicesAssumption DEF RunInv, RunTypes, GrownInv
<1>2. ASSUME NEW s \in 1..Batch
      PROVE  grownFails'[s] = (IF s <= k THEN 0 ELSE grownFails[s])
  BY <1>1
<1>3. grownFails' \in [1..Batch -> Nat] BY <1>1, <1>2 DEF RunInv, GrownInv
<1>4. /\ \A s \in 1..Batch : s \in failedGrown <=> grownFails[s] >= 1
      /\ \A s \in 1..Batch : grownFails[s] >= 2 => s > kCeil
      /\ failedGrown \subseteq 1..Batch
  BY DEF RunInv, GrownInv
<1>5. ASSUME NEW s \in 1..Batch
      PROVE  /\ s \in failedGrown' <=> grownFails'[s] >= 1
             /\ grownFails'[s] >= 2 => s > kCeil'
  <2>1. CASE s <= k BY <1>1, <1>2, <2>1
  <2>2. CASE ~(s <= k) BY <1>1, <1>2, <1>4, <2>2
  <2>. QED BY <2>1, <2>2
<1>. QED BY <1>3, <1>4, <1>5 DEF GrownInv

\* A mismatch counts against a grown size; the second one puts the ceiling below it.
LEMMA GrownCounts ==
  ASSUME RunInv, R!Halved \in 1..(k - 1),
         failedGrown' = IF grown THEN failedGrown \cup {k} ELSE failedGrown,
         grownFails' = IF grown THEN [grownFails EXCEPT ![k] = @ + 1] ELSE grownFails,
         kCeil' = IF R!Capped THEN R!Halved ELSE kCeil
  PROVE  GrownInv'
<1>. DEFINE half == R!Halved
<1>1. k \in 1..Batch /\ kCeil \in 1..Batch /\ k <= kCeil /\ half \in Nat /\ half < k
  BY ServicesAssumption DEF RunInv, RunTypes
<1>2. kCeil' \in Nat /\ kCeil' <= kCeil /\ (R!Capped => kCeil' < k) BY <1>1
<1>. HIDE DEF half
<1>3. CASE ~grown
  BY <1>1, <1>2, <1>3 DEF RunInv, GrownInv, R!Capped
<1>4. CASE grown
  <2>1. grownFails' = [grownFails EXCEPT ![k] = grownFails[k] + 1] /\ failedGrown' = failedGrown \cup {k}
    BY <1>4
  <2>2. grownFails' \in [1..Batch -> Nat] /\ failedGrown' \subseteq 1..Batch
    BY <1>1, <2>1 DEF RunInv, GrownInv
  <2>3. /\ grownFails'[k] = grownFails[k] + 1
        /\ \A s \in 1..Batch \ {k} : grownFails'[s] = grownFails[s]
    BY <1>1, <2>1 DEF RunInv, GrownInv
  <2>4. \A s \in 1..Batch : s \in failedGrown' <=> grownFails'[s] >= 1
    BY <1>1, <2>1, <2>3 DEF RunInv, GrownInv
  <2>5. ASSUME NEW s \in 1..Batch, grownFails'[s] >= 2 PROVE s > kCeil'
    <3>1. CASE s # k
      <4>1. grownFails[s] >= 2 BY <2>3, <2>5, <3>1
      <4>. QED BY <1>1, <1>2, <4>1 DEF RunInv, GrownInv
    <3>2. CASE s = k
      <4>1. grownFails[k] >= 1 BY <1>1, <2>3, <2>5, <3>2 DEF RunInv, GrownInv
      <4>2. R!Capped BY <1>1, <1>4, <4>1 DEF RunInv, GrownInv, R!Capped
      <4>. QED BY <1>1, <1>2, <3>2, <4>2
    <3>. QED BY <3>1, <3>2
  <2>. QED BY <2>2, <2>4, <2>5 DEF GrownInv
<1>. QED BY <1>3, <1>4

\* A batch halved: the same place, a smaller batch, its blanks done.
LEMMA HalvingStep == ASSUME RunInv, R!MismatchedBatch PROVE RunInv' /\ Onward
<1>1. /\ R!Going /\ at <= R!N /\ R!Cardinality(R!Live) > 1 BY DEF R!MismatchedBatch, R!Going
<1>2. R!Halved \in 1..(k - 1) BY <1>1, HalvedIsSmaller DEF RunInv
<1>3. /\ results' = R!WithBlanks /\ k' = R!Halved /\ UNCHANGED <<at, call, ended>>
      /\ failedGrown' = (IF grown THEN failedGrown \cup {k} ELSE failedGrown)
      /\ grownFails' = (IF grown THEN [grownFails EXCEPT ![k] = @ + 1] ELSE grownFails)
      /\ kCeil' = (IF R!Capped THEN R!Halved ELSE kCeil)
  BY DEF R!MismatchedBatch, R!Stays
<1>4. GrownInv' BY <1>2, <1>3, GrownCounts
<1>5. R!N' = R!N /\ R!Segs' = R!Segs BY <1>3 DEF R!N, R!Segs
<1>6. RunTypes'
  <2>1. /\ k \in Nat /\ kCeil \in 1..Batch /\ k <= kCeil BY ServicesAssumption DEF RunInv, RunTypes
  <2>2. kCeil' \in 1..Batch /\ k' \in 1..kCeil' BY <1>2, <1>3, <2>1, ServicesAssumption
  <2>. QED BY <1>1, <1>3, <1>5, <2>2, BlanksAreDone DEF RunInv, RunTypes
<1>7. (\A j \in 1..R!N : Done(j))'
  <2>. SUFFICES ASSUME NEW j \in 1..R!N PROVE Done(j)' BY <1>5
  <2>1. R!Faithful BY <1>1 DEF R!Going
  <2>2. R!WithBlanks[j] # R!NotYet => j < at \/ (R!WithBlanks[j] = R!Blank /\ ~R!Segs[j].text)
    BY <1>1, BlanksAreDone
  <2>. QED BY <1>3, <1>5, <2>1, <2>2 DEF Done, R!Faithful, R!NotYet, R!Blank
<1>8. Onward
  <2>1. k \in Nat BY ServicesAssumption DEF RunInv, RunTypes
  <2>. QED BY <1>1, <1>2, <1>3, <2>1, BlanksAreDone DEF Onward
<1>. QED BY <1>4, <1>6, <1>7, <1>8 DEF RunInv

\* A batch of blanks, one lone prompt, a batch numbered.
LEMMA BatchStep ==
  ASSUME RunInv, R!BlankBatch \/ R!SingleBatch \/ R!NumberedBatch PROVE RunInv' /\ Onward
<1>1. CASE R!BlankBatch
  <2>1. R!Going /\ R!Live = {} /\ UNCHANGED <<call, ended, k, kCeil, failedGrown, grownFails>>
        /\ at' = at + R!Cardinality(R!InBatch)
        /\ results' = [j \in 1..R!N |-> IF j \in R!InBatch THEN R!Blank ELSE results[j]]
    BY <1>1 DEF R!BlankBatch, R!Stays
  <2>2. DOMAIN results' = 1..R!N /\ \A j \in (1..R!N) \ R!Live : results'[j] = R!WithBlanks[j]
    BY <2>1 DEF R!WithBlanks
  <2>3. k' \in k..kCeil BY <2>1, ServicesAssumption DEF RunInv, RunTypes
  <2>. QED BY <2>1, <2>2, <2>3, PastTheBatch, GrownStays DEF RunInv
<1>2. CASE R!SingleBatch
  <2>1. R!Going /\ UNCHANGED <<call, ended, kCeil, failedGrown, grownFails>> /\ R!Advance
    BY <1>2 DEF R!SingleBatch, R!Stays
  <2>2. PICK j \in R!Live : \E new : results' = [R!WithBlanks EXCEPT ![j] = new]
    BY <1>2 DEF R!SingleBatch
  <2>3. DOMAIN results' = 1..R!N /\ \A i \in (1..R!N) \ R!Live : results'[i] = R!WithBlanks[i]
    BY <2>2 DEF R!WithBlanks
  <2>. QED BY <2>1, <2>3, GrowsBelow, PastTheBatch, GrownStays DEF RunInv
<1>3. CASE R!NumberedBatch
  <2>1. R!Going /\ UNCHANGED <<call, ended, kCeil>> /\ R!Advance
        /\ failedGrown' = {s \in failedGrown : s > k}
        /\ grownFails' = [s \in DOMAIN grownFails |-> IF s <= k THEN 0 ELSE grownFails[s]]
    BY <1>3 DEF R!NumberedBatch, R!Stays
  <2>2. DOMAIN results' = 1..R!N /\ \A j \in (1..R!N) \ R!Live : results'[j] = R!WithBlanks[j]
    BY <1>3 DEF R!NumberedBatch
  <2>. QED BY <2>1, <2>2, GrowsBelow, PastTheBatch, GrownCleared DEF RunInv
<1>. QED BY <1>1, <1>2, <1>3

\* Past a group, to the first cue of the next one.
LEMMA GroupStep ==
  ASSUME RunInv, R!BlankGroup \/ R!TranslatedGroup \/ R!RevertedGroup PROVE RunInv' /\ Onward
<1>1. /\ ended = "running" /\ ~R!Faithful /\ at <= R!N
      /\ R!NextGroup /\ UNCHANGED <<call, ended>>
      /\ DOMAIN results' = 1..R!N
      /\ \A j \in (1..R!N) \ R!Group : results'[j] = results[j]
  BY DEF R!BlankGroup, R!TranslatedGroup, R!RevertedGroup, R!Fluent, R!Stays
<1>2. at \in Nat \ {0} /\ R!N \in Nat BY DEF RunInv, RunTypes
<1>3. at' \in Nat /\ at' > at
  <2>. DEFINE next == {j \in 1..R!N : R!GroupOf[j] = j /\ j > at} \cup {R!N + 1}
  <2>1. next \subseteq Nat /\ next # {} /\ \A j \in next : j > at BY <1>1, <1>2
  <2>2. at' = R!FirstOf(next) BY <1>1 DEF R!NextGroup
  <2>. HIDE DEF next
  <2>3. R!FirstOf(next) \in next BY <2>1, LeastExists DEF R!FirstOf
  <2>. QED BY <2>1, <2>2, <2>3
<1>4. R!N' = R!N /\ R!Segs' = R!Segs /\ R!GroupOf' = R!GroupOf /\ (R!Faithful' <=> R!Faithful)
  BY <1>1 DEF R!N, R!Segs, R!GroupOf, R!Faithful
<1>5. UNCHANGED <<k, kCeil, failedGrown, grownFails>> BY <1>1 DEF R!NextGroup
<1>6. RunTypes' BY <1>1, <1>2, <1>3, <1>4, <1>5 DEF RunInv, RunTypes
<1>7. \A j \in 1..R!N : results[j] # R!NotYet => R!GroupOf[j] \in 1..(at - 1)
  BY <1>1 DEF RunInv, Done
<1>8. \A j \in 1..R!N : results[j] # R!NotYet => j \notin R!Group
  BY <1>2, <1>7 DEF R!Group
<1>9. (\A j \in 1..R!N : Done(j))'
  <2>. SUFFICES ASSUME NEW j \in 1..R!N PROVE Done(j)' BY <1>4
  <2>1. CASE j \in R!Group
    BY <1>1, <1>2, <1>3, <1>4, <2>1 DEF Done, R!Group
  <2>2. CASE j \notin R!Group
    BY <1>1, <1>2, <1>3, <1>4, <1>7, <2>2 DEF Done, R!NotYet
  <2>. QED BY <2>1, <2>2
<1>10. Onward BY <1>1, <1>3, <1>8 DEF Onward
<1>. QED BY <1>5, <1>6, <1>9, <1>10, GrownStays DEF RunInv

\* A call begins with nothing done; a return or an abort leaves what was done.
LEMMA BoundaryStep ==
  ASSUME RunInv, R!Begin \/ R!Return \/ R!Abort
  PROVE  /\ RunInv' /\ ~(ended = "running" /\ ended' = "running")
         /\ \A j \in 1..R!N : results[j] # R!NotYet => results'[j] = results[j]
<1>1. CASE R!Begin
  <2>1. /\ ended = "idle" /\ ended' = "running" /\ call' \in Inputs
        /\ results' = [j \in 1..R!N' |-> R!NotYet]
        /\ UNCHANGED <<at, k, kCeil, failedGrown, grownFails>>
    BY <1>1 DEF R!Begin, R!loopVars, R!N, R!Segs
  <2>2. R!N' \in Nat /\ \A j \in 1..R!N' : R!Segs'[j].text \in BOOLEAN
    BY <2>1, ServicesAssumption DEF R!N, R!Segs
  <2>3. R!N = 0 BY <2>1 DEF RunInv, RunTypes
  <2>4. RunTypes' BY <2>1, <2>2 DEF RunInv, RunTypes
  <2>5. (\A j \in 1..R!N : Done(j))'
    <3>. SUFFICES ASSUME NEW j \in 1..R!N' PROVE results'[j] = R!NotYet
      BY DEF Done, R!NotYet
    <3>. QED BY <2>1
  <2>6. GrownInv' BY <2>1, GrownStays DEF RunInv
  <2>. QED BY <2>1, <2>3, <2>4, <2>5, <2>6 DEF RunInv
<1>2. CASE R!Return \/ R!Abort
  <2>1. /\ ended = "running" /\ ended' \in {"returned", "cancelled", "failed"}
        /\ UNCHANGED <<call, results, at, k, kCeil, failedGrown, grownFails>>
    BY <1>2 DEF R!Return, R!Abort, R!loopVars
  <2>2. /\ R!N' = R!N /\ R!Segs' = R!Segs /\ R!GroupOf' = R!GroupOf /\ (R!Faithful' <=> R!Faithful)
    BY <2>1 DEF R!N, R!Segs, R!GroupOf, R!Faithful
  <2>3. RunTypes' BY <2>1, <2>2 DEF RunInv, RunTypes
  <2>4. (\A j \in 1..R!N : Done(j))'
    BY <2>1, <2>2 DEF RunInv, Done, R!NotYet, R!Blank
  <2>. QED BY <2>1, <2>3, <2>4, GrownStays DEF RunInv
<1>. QED BY <1>1, <1>2

\* Every step of the translation keeps the invariant and is a step onward.
LEMMA RunKept == RunInv /\ [R!RunNext]_runVars => RunInv'
<1>. SUFFICES ASSUME RunInv, [R!RunNext]_runVars PROVE RunInv' OBVIOUS
<1>1. CASE UNCHANGED runVars
  <2>1. UNCHANGED <<call, results, ended, at, k, kCeil, failedGrown, grownFails>>
    BY <1>1 DEF runVars
  <2>2. /\ R!N' = R!N /\ R!Segs' = R!Segs /\ R!GroupOf' = R!GroupOf /\ (R!Faithful' <=> R!Faithful)
    BY <2>1 DEF R!N, R!Segs, R!GroupOf, R!Faithful
  <2>3. RunTypes' BY <2>1, <2>2 DEF RunInv, RunTypes
  <2>4. (\A j \in 1..R!N : Done(j))'
    BY <2>1, <2>2 DEF RunInv, Done, R!NotYet, R!Blank
  <2>. QED BY <2>1, <2>3, <2>4, GrownStays DEF RunInv
<1>2. CASE R!RunNext
  BY <1>2, HalvingStep, BatchStep, GroupStep, BoundaryStep DEF R!RunNext, R!Work
<1>. QED BY <1>1, <1>2

\* A translation starts with nothing done.
LEMMA RunStart == R!RunInit => RunInv
<1>. SUFFICES ASSUME R!RunInit PROVE RunInv OBVIOUS
<1>1. R!N = 0 /\ R!Segs = <<>> BY DEF R!RunInit, R!NoCall, R!N, R!Segs
<1>2. RunTypes BY <1>1, ServicesAssumption DEF R!RunInit, RunTypes
<1>3. GrownInv BY ServicesAssumption DEF R!RunInit, GrownInv
<1>. QED BY <1>1, <1>2, <1>3 DEF RunInv

\* No size that failed twice is the batch's.
LEMMA NoThird == RunInv => R!NoThirdTry
<1>. SUFFICES ASSUME RunInv PROVE grownFails[k] < 2 BY DEF R!NoThirdTry
<1>1. k \in 1..Batch /\ k <= kCeil /\ kCeil \in Nat BY ServicesAssumption DEF RunInv, RunTypes
<1>. QED BY <1>1 DEF RunInv, GrownInv

\* Each step of the translation, as MakesProgress asks.
LEMMA RunAdvances == RunInv /\ [R!RunNext]_runVars =>
  [/\ ended = "running" /\ ended' = "running" => at' > at \/ (at' = at /\ k' < k)
   /\ \A j \in 1..R!N : results[j] # R!NotYet => results'[j] = results[j]]_(R!runVars)
<1>. SUFFICES ASSUME RunInv, R!RunNext
     PROVE /\ ended = "running" /\ ended' = "running" => at' > at \/ (at' = at /\ k' < k)
           /\ \A j \in 1..R!N : results[j] # R!NotYet => results'[j] = results[j]
  BY DEF R!runVars, R!loopVars, runVars
<1>. QED BY HalvingStep, BatchStep, GroupStep, BoundaryStep DEF R!RunNext, R!Work, Onward

(***************************************************************************)
(* The speaker hints. What reconciling makes of each hint follows from who  *)
(* set it; a lock is moved by nothing, and what the client sent and a lock  *)
(* kept from it is what is reported.                                        *)
(***************************************************************************)

HintTypes == hinted \in [K!Hints -> Nat] /\ hintLocks \in SUBSET K!Hints

\* What is chosen of each hint, before count and range meet.
LEMMA HintsChosen ==
  ASSUME HintTypes, NEW A \in SUBSET K!Hints, NEW q \in [A -> Nat], NEW L \in SUBSET K!Hints,
         NEW c, c = K!Chosen(q, L)
  PROVE  /\ c \in [K!Hints -> Nat]
         /\ \A h \in K!Hints : /\ h \in L => c[h] = hinted[h] /\ K!Rank(q, L, h) = 2
                               /\ h \in A \ (L \cup K!Refused(q, L)) => c[h] = q[h] /\ K!Rank(q, L, h) = 1
                               /\ h \notin A \cup L => K!Rank(q, L, h) = 0
                               /\ h \in K!Refused(q, L) => c[h] = 0 /\ K!Rank(q, L, h) = 0
         /\ "num" \notin A \cup L /\ (\E b \in K!Bounds \ (L \cup K!Refused(q, L)) : K!Sends(q, b))
              => c["num"] = 0
         /\ K!Refused(q, L) \subseteq K!Bounds \ L
         /\ K!Refused(q, {}) = {}
<1>1. \A h \in K!Hints : q[h] \in Nat \/ h \notin A OBVIOUS
<1>2. K!Refused(q, L) \subseteq K!Bounds \ L /\ K!Refused(q, {}) = {} BY DEF K!Refused
<1>3. \A h \in K!Hints : K!Rank(q, L, h) =
  IF h \in L THEN 2 ELSE IF h \in A \ K!Refused(q, L) THEN 1 ELSE 0
  BY DEF K!Rank
<1>4. "num" \in K!Hints /\ "num" \notin K!Bounds BY DEF K!Hints, K!Bounds
<1>5. PICK own \in BOOLEAN :
        own <=> \E b \in K!Bounds \ (L \cup K!Refused(q, L)) : K!Sends(q, b)
  OBVIOUS
<1>6. c = [h \in K!Hints |->
        CASE K!Rank(q, L, h) = 2 -> hinted[h]
          [] K!Rank(q, L, h) = 1 -> q[h]
          [] OTHER -> IF h \in K!Refused(q, L) \/ (h = "num" /\ own) THEN 0 ELSE hinted[h]]
  BY <1>5 DEF K!Chosen
<1>7. \A h \in K!Hints : c[h] \in Nat BY <1>1, <1>3, <1>6 DEF HintTypes
<1>8. c \in [K!Hints -> Nat] BY <1>6, <1>7
<1>9. \A h \in K!Hints : /\ h \in L => c[h] = hinted[h] /\ K!Rank(q, L, h) = 2
                         /\ h \in A \ (L \cup K!Refused(q, L)) => c[h] = q[h] /\ K!Rank(q, L, h) = 1
                         /\ h \notin A \cup L => K!Rank(q, L, h) = 0
                         /\ h \in K!Refused(q, L) => c[h] = 0 /\ K!Rank(q, L, h) = 0
  BY <1>2, <1>3, <1>6
<1>10. "num" \notin A \cup L /\ own => c["num"] = 0 BY <1>3, <1>4, <1>6
<1>11. QED BY <1>2, <1>5, <1>8, <1>9, <1>10

\* What the diarizer is given of the chosen hints.
LEMMA HintsFitted ==
  ASSUME NEW d \in [K!Hints -> Nat], NEW q, NEW L, NEW lo \in Nat, NEW hi \in Nat,
         lo = K!Rank(q, L, "min"), hi = K!Rank(q, L, "max"),
         NEW f, f = K!Fitted(q, L, d)
  PROVE  /\ f["num"] = d["num"]
         /\ d["num"] > 0 => f["min"] = 0 /\ f["max"] = 0
         /\ d["num"] = 0 /\ ~K!Crossed("min", d["min"], d["max"]) =>
              f["min"] = d["min"] /\ f["max"] = d["max"]
         /\ d["num"] = 0 /\ K!Crossed("min", d["min"], d["max"]) =>
              /\ lo = hi => f["min"] = d["max"] /\ f["max"] = d["max"]
              /\ lo > hi => f["min"] = d["min"] /\ f["max"] = 0
              /\ lo < hi => f["min"] = 0 /\ f["max"] = d["max"]
<1>1. K!Hints = {"num", "min", "max"} BY DEF K!Hints
<1>2. PICK x \in BOOLEAN : x <=> K!Crossed("min", d["min"], d["max"]) OBVIOUS
<1>3. PICK low : low = IF lo > hi THEN "max" ELSE "min" OBVIOUS
<1>4. PICK e : e = [d EXCEPT ![low] = 0] OBVIOUS
<1>5. f = IF d["num"] > 0 THEN [d EXCEPT !["min"] = 0, !["max"] = 0]
          ELSE IF ~x THEN d
          ELSE IF lo = hi THEN [d EXCEPT !["min"] = d["max"]]
          ELSE e
  BY <1>2, <1>3, <1>4 DEF K!Fitted
<1>6. CASE d["num"] > 0
  <2>1. PICK g \in [K!Hints -> Nat] : g = [d EXCEPT !["min"] = 0] OBVIOUS
  <2>2. f = [g EXCEPT !["max"] = 0] BY <1>5, <1>6, <2>1
  <2>3. f["num"] = d["num"] /\ f["min"] = 0 /\ f["max"] = 0 BY <1>1, <2>1, <2>2
  <2>4. d["num"] # 0 BY <1>6
  <2>5. QED BY <1>6, <2>3, <2>4
<1>7. CASE ~(d["num"] > 0) /\ ~x BY <1>1, <1>2, <1>5, <1>7
<1>8. CASE ~(d["num"] > 0) /\ x
  <2>1. CASE lo = hi
    <3>1. f = [d EXCEPT !["min"] = d["max"]] BY <1>5, <1>8, <2>1
    <3>2. f["num"] = d["num"] /\ f["min"] = d["max"] /\ f["max"] = d["max"] BY <1>1, <3>1
    <3>3. QED BY <1>2, <1>8, <2>1, <3>2
  <2>2. CASE lo > hi
    <3>1. f = e BY <1>5, <1>8, <2>2
    <3>2. low = "max" BY <1>3, <2>2
    <3>3. f["num"] = d["num"] /\ f["min"] = d["min"] /\ f["max"] = 0 BY <1>1, <1>4, <3>1, <3>2
    <3>4. QED BY <1>2, <1>8, <2>2, <3>3
  <2>3. CASE lo < hi
    <3>1. f = e BY <1>5, <1>8, <2>3
    <3>2. low = "min" BY <1>3, <2>3
    <3>3. f["num"] = d["num"] /\ f["min"] = 0 /\ f["max"] = d["max"] BY <1>1, <1>4, <3>1, <3>2
    <3>4. QED BY <1>2, <1>8, <2>3, <3>3
  <2>4. QED BY <2>1, <2>2, <2>3
<1>9. QED BY <1>6, <1>7, <1>8


\* What a reconciliation of the hints q under the locks L goes through: the hints
\* chosen, those left once a count is barred, those given.
HintsSteps(A, q, L, c, d, f, lo, hi) ==
  /\ c \in [K!Hints -> Nat] /\ d \in [K!Hints -> Nat] /\ lo \in Nat /\ hi \in Nat
  /\ lo = K!Rank(q, L, "min") /\ hi = K!Rank(q, L, "max")
  /\ \A h \in K!Hints : /\ h \in L => c[h] = hinted[h] /\ K!Rank(q, L, h) = 2
                        /\ h \in A \ (L \cup K!Refused(q, L)) => c[h] = q[h] /\ K!Rank(q, L, h) = 1
                        /\ h \notin A \cup L => K!Rank(q, L, h) = 0
                        /\ h \in K!Refused(q, L) => c[h] = 0 /\ K!Rank(q, L, h) = 0
  /\ "num" \notin A \cup L /\ (\E b \in K!Bounds \ (L \cup K!Refused(q, L)) : K!Sends(q, b))
       => c["num"] = 0
  /\ K!Refused(q, L) \subseteq K!Bounds \ L
  /\ d["min"] = c["min"] /\ d["max"] = c["max"]
  /\ K!Barred(q, L, c) => d["num"] = 0
  /\ ~K!Barred(q, L, c) => d["num"] = c["num"]
  /\ f["num"] = d["num"]
  /\ d["num"] > 0 => f["min"] = 0 /\ f["max"] = 0
  /\ d["num"] = 0 /\ ~K!Crossed("min", d["min"], d["max"]) =>
       f["min"] = d["min"] /\ f["max"] = d["max"]
  /\ d["num"] = 0 /\ K!Crossed("min", d["min"], d["max"]) =>
       /\ lo = hi => f["min"] = d["max"] /\ f["max"] = d["max"]
       /\ lo > hi => f["min"] = d["min"] /\ f["max"] = 0
       /\ lo < hi => f["min"] = 0 /\ f["max"] = d["max"]

\* Every reconciliation is of that shape.
LEMMA HintsReconciled ==
  ASSUME HintTypes, NEW A \in SUBSET K!Hints, NEW q \in [A -> Nat], NEW L \in SUBSET K!Hints
  PROVE  \E c, d, f, lo, hi :
           /\ HintsSteps(A, q, L, c, d, f, lo, hi)
           /\ K!Reconciled(q, L).hints = f /\ K!Reconciled(q, L).ignored = K!Reported(q, L, c, d)
<1>1. PICK c : c = K!Chosen(q, L) OBVIOUS
<1>2. /\ c \in [K!Hints -> Nat]
      /\ \A h \in K!Hints : /\ h \in L => c[h] = hinted[h] /\ K!Rank(q, L, h) = 2
                            /\ h \in A \ (L \cup K!Refused(q, L)) => c[h] = q[h] /\ K!Rank(q, L, h) = 1
                            /\ h \notin A \cup L => K!Rank(q, L, h) = 0
                            /\ h \in K!Refused(q, L) => c[h] = 0 /\ K!Rank(q, L, h) = 0
      /\ "num" \notin A \cup L /\ (\E b \in K!Bounds \ (L \cup K!Refused(q, L)) : K!Sends(q, b))
           => c["num"] = 0
      /\ K!Refused(q, L) \subseteq K!Bounds \ L
  BY <1>1, HintsChosen
<1>3. PICK lo \in Nat, hi \in Nat : lo = K!Rank(q, L, "min") /\ hi = K!Rank(q, L, "max")
  BY DEF K!Rank
<1>4. PICK bar \in BOOLEAN : bar <=> K!Barred(q, L, c) OBVIOUS
<1>5. PICK d : d = [c EXCEPT !["num"] = IF bar THEN 0 ELSE @] OBVIOUS
<1>6. PICK f : f = K!Fitted(q, L, d) OBVIOUS
<1>7. /\ d \in [K!Hints -> Nat] /\ d["min"] = c["min"] /\ d["max"] = c["max"]
      /\ bar => d["num"] = 0
      /\ ~bar => d["num"] = c["num"]
  BY <1>2, <1>5 DEF K!Hints
<1>8. /\ f["num"] = d["num"]
      /\ d["num"] > 0 => f["min"] = 0 /\ f["max"] = 0
      /\ d["num"] = 0 /\ ~K!Crossed("min", d["min"], d["max"]) =>
           f["min"] = d["min"] /\ f["max"] = d["max"]
      /\ d["num"] = 0 /\ K!Crossed("min", d["min"], d["max"]) =>
           /\ lo = hi => f["min"] = d["max"] /\ f["max"] = d["max"]
           /\ lo > hi => f["min"] = d["min"] /\ f["max"] = 0
           /\ lo < hi => f["min"] = 0 /\ f["max"] = d["max"]
  BY <1>3, <1>6, <1>7, HintsFitted
<1>9. K!Reconciled(q, L).hints = f /\ K!Reconciled(q, L).ignored = K!Reported(q, L, c, d)
  BY <1>1, <1>5, <1>6, <1>4 DEF K!Reconciled
<1>10. HintsSteps(A, q, L, c, d, f, lo, hi) BY <1>2, <1>3, <1>7, <1>4, <1>8 DEF HintsSteps
<1>11. QED BY <1>9, <1>10

\* What the client is told of, of what it sent.
LEMMA HintsReported ==
  ASSUME HintTypes, NEW A \in SUBSET K!Hints, NEW q \in [A -> Nat], NEW L \in SUBSET K!Hints,
         NEW c, NEW d, NEW r, r = K!Reported(q, L, c, d), NEW h \in A, h \notin r
  PROVE  /\ h \in L => q[h] = hinted[h]
         /\ h \notin K!Refused(q, L)
         /\ h = "num" /\ K!Rank(q, L, h) = 1 => ~K!Barred(q, L, c)
         /\ h \in K!Bounds /\ q[h] > 0 => ~(d["num"] > 0 /\ "num" \in L)
         /\ h \in K!Bounds /\ d["num"] = 0 /\ K!Rank(q, L, h) = 1 /\ K!Rank(q, L, K!Other(h)) = 2
              => ~K!Crossed(h, d[h], d[K!Other(h)])
BY DEF K!Reported, K!Sends

HintsInv ==
  /\ HintTypes
  /\ \E A \in SUBSET K!Hints : hintsAsked \in [A -> Nat]
  /\ answer # K!Pending => answer = K!Reconciled(hintsAsked, hintLocks)

\* The diarizer is given a count or a range, and no inverted range.
LEMMA HintsAccepted == HintsInv => K!Accepted
<1> SUFFICES ASSUME HintsInv, answer # K!Pending PROVE K!Accepted BY DEF K!Accepted
<1>1. PICK A \in SUBSET K!Hints : hintsAsked \in [A -> Nat] BY DEF HintsInv
<1>2. PICK q \in [A -> Nat] : q = hintsAsked BY <1>1
<1>3. PICK L \in SUBSET K!Hints : L = hintLocks BY DEF HintsInv, HintTypes
<1>4. PICK c, d, f, lo, hi :
        /\ HintsSteps(A, q, L, c, d, f, lo, hi)
        /\ K!Reconciled(q, L).hints = f
  BY HintsReconciled DEF HintsInv
<1>5. answer.hints = f BY <1>2, <1>3, <1>4 DEF HintsInv
<1>6. d["num"] \in Nat /\ d["min"] \in Nat /\ d["max"] \in Nat /\ lo \in Nat /\ hi \in Nat
  BY <1>4 DEF HintsSteps, K!Hints
<1>7. /\ f["num"] = d["num"]
      /\ d["num"] > 0 => f["min"] = 0 /\ f["max"] = 0
      /\ ~K!Crossed("min", f["min"], f["max"])
  BY <1>4, <1>6 DEF HintsSteps, K!Crossed
<1>8. QED BY <1>5, <1>6, <1>7 DEF K!Accepted

\* What the diarizer is given lies within the locked hints.
LEMMA HintsLocksRespected == HintsInv => K!LocksRespected
<1> SUFFICES ASSUME HintsInv, answer # K!Pending, K!Coherent PROVE K!LocksRespected
  BY DEF K!LocksRespected
<1>1. PICK A \in SUBSET K!Hints : hintsAsked \in [A -> Nat] BY DEF HintsInv
<1>2. PICK q \in [A -> Nat] : q = hintsAsked BY <1>1
<1>3. PICK L \in SUBSET K!Hints : L = hintLocks BY DEF HintsInv, HintTypes
<1>4. PICK c, d, f, lo, hi :
        /\ HintsSteps(A, q, L, c, d, f, lo, hi)
        /\ K!Reconciled(q, L).hints = f
  BY HintsReconciled DEF HintsInv
<1>5. answer.hints = f BY <1>2, <1>3, <1>4 DEF HintsInv
<1>6. \A h \in {"num", "min", "max"} : d[h] \in Nat /\ c[h] \in Nat /\ hinted[h] \in Nat
  BY <1>4 DEF HintsSteps, K!Hints, HintsInv, HintTypes
<1>7. \A h \in L : c[h] = hinted[h] /\ K!Rank(q, L, h) = 2 BY <1>4 DEF HintsSteps
<1>8. lo \in Nat /\ hi \in Nat /\ ("min" \in L => lo = 2) /\ ("max" \in L => hi = 2)
  BY <1>4, <1>7 DEF HintsSteps
<1>9. "min" \notin L => lo < 2
  BY <1>4 DEF HintsSteps, K!Rank
<1>10. "max" \notin L => hi < 2
  BY <1>4 DEF HintsSteps, K!Rank
<1>11. /\ f["num"] = d["num"]
       /\ K!Barred(q, L, c) => d["num"] = 0
       /\ ~K!Barred(q, L, c) => d["num"] = c["num"]
       /\ d["min"] = c["min"] /\ d["max"] = c["max"]
  BY <1>4 DEF HintsSteps
<1>12. "num" \in L => f["num"] = hinted["num"]
  BY <1>7, <1>11 DEF K!Barred
<1>13. \A b \in K!Bounds : b \in L /\ hinted[b] > 0 /\ f["num"] > 0 /\ "num" \notin L
         => ~K!Crossed(b, hinted[b], f["num"])
  <2>. SUFFICES ASSUME NEW b \in K!Bounds, b \in L, f["num"] > 0, "num" \notin L
                PROVE  ~K!Crossed(b, hinted[b], f["num"])
    OBVIOUS
  <2>1. ~K!Barred(q, L, c) /\ c["num"] > 0 /\ f["num"] = c["num"] BY <1>11
  <2>2. ~K!Crossed(b, c[b], c["num"]) BY <2>1 DEF K!Barred
  <2>. QED BY <1>7, <2>1, <2>2
<1>14. "min" \in L /\ "max" \in L => ~K!Crossed("min", hinted["min"], hinted["max"])
  BY <1>3 DEF K!Coherent
<1>15. "min" \in L /\ hinted["min"] > 0 /\ d["num"] = 0 => f["min"] = hinted["min"]
  <2>. SUFFICES ASSUME "min" \in L, d["num"] = 0 PROVE f["min"] = hinted["min"] OBVIOUS
  <2>1. d["min"] = hinted["min"] BY <1>7, <1>11
  <2>2. CASE K!Crossed("min", d["min"], d["max"])
    <3>1. "max" \notin L BY <1>7, <1>11, <1>14, <2>2
    <3>2. lo > hi BY <1>8, <1>10, <3>1
    <3>. QED BY <1>4, <2>1, <2>2, <3>2 DEF HintsSteps
  <2>3. CASE ~K!Crossed("min", d["min"], d["max"]) BY <1>4, <2>1, <2>3 DEF HintsSteps
  <2>. QED BY <2>2, <2>3
<1>16. "max" \in L /\ hinted["max"] > 0 /\ d["num"] = 0 => f["max"] = hinted["max"]
  <2>. SUFFICES ASSUME "max" \in L, d["num"] = 0 PROVE f["max"] = hinted["max"] OBVIOUS
  <2>1. d["max"] = hinted["max"] BY <1>7, <1>11
  <2>2. CASE K!Crossed("min", d["min"], d["max"])
    <3>1. "min" \notin L BY <1>7, <1>11, <1>14, <2>2
    <3>2. lo < hi BY <1>8, <1>9, <3>1
    <3>. QED BY <1>4, <2>1, <2>2, <3>2 DEF HintsSteps
  <2>3. CASE ~K!Crossed("min", d["min"], d["max"]) BY <1>4, <2>1, <2>3 DEF HintsSteps
  <2>. QED BY <2>2, <2>3
<1>17. f["num"] \in Nat BY <1>6, <1>11
<1>18. "num" \in L /\ hinted["num"] > 0 => answer.hints["num"] = hinted["num"]
  BY <1>5, <1>12
<1>19. \A b \in K!Bounds : b \in L /\ hinted[b] > 0 /\ ("num" \notin L \/ ~(hinted["num"] > 0)) =>
         /\ f["num"] > 0 => ~K!Crossed(b, hinted[b], f["num"])
         /\ ~(f["num"] > 0) => f[b] = hinted[b]
  BY <1>11, <1>12, <1>13, <1>15, <1>16, <1>17 DEF K!Bounds
<1>. QED
  <2>. DEFINE Lock(h) == IF h \in hintLocks THEN hinted[h] ELSE 0
  <2>1. Lock("num") > 0 => answer.hints["num"] = Lock("num") BY <1>3, <1>18
  <2>2. \A b \in K!Bounds : Lock(b) > 0 /\ Lock("num") = 0 =>
          IF answer.hints["num"] > 0 THEN ~K!Crossed(b, Lock(b), answer.hints["num"])
          ELSE answer.hints[b] = Lock(b)
    BY <1>3, <1>5, <1>6, <1>19 DEF K!Bounds
  <2>. QED BY <2>1, <2>2 DEF K!LocksRespected

\* Of a bound the client sent: unless it is told, what it is given is what it sent,
\* or its own other bound lowers it.
LEMMA HintsBoundKept ==
  ASSUME HintTypes, NEW A \in SUBSET K!Hints, NEW q \in [A -> Nat], NEW L \in SUBSET K!Hints,
         NEW c, NEW d, NEW f, NEW lo, NEW hi, HintsSteps(A, q, L, c, d, f, lo, hi),
         NEW b \in {"min", "max"}, b \in A \ L, q[b] > 0, b \notin K!Reported(q, L, c, d),
         "num" \in A => q["num"] = 0
  PROVE  f[b] = q[b] \/ (b = "min" /\ "max" \in A /\ q["max"] > 0 /\ q["min"] > q["max"])
<1>1. \A h \in {"num", "min", "max"} : d[h] \in Nat /\ c[h] \in Nat /\ (h \in A => q[h] \in Nat)
  BY DEF HintsSteps, K!Hints
<1>2. b \in K!Bounds /\ b \in K!Hints /\ "num" \in K!Hints /\ K!Other(b) \in {"min", "max"}
  BY DEF K!Bounds, K!Hints, K!Other
<1>3. /\ b \notin K!Refused(q, L)
      /\ ~(d["num"] > 0 /\ "num" \in L)
      /\ d["num"] = 0 /\ K!Rank(q, L, b) = 1 /\ K!Rank(q, L, K!Other(b)) = 2
           => ~K!Crossed(b, d[b], d[K!Other(b)])
  BY <1>2, HintsReported
<1>4. c[b] = q[b] /\ K!Rank(q, L, b) = 1 /\ d[b] = q[b] BY <1>2, <1>3 DEF HintsSteps
<1>5. K!Refused(q, L) \subseteq K!Bounds /\ "num" \notin K!Refused(q, L)
  BY DEF HintsSteps, K!Bounds
<1>6. d["num"] = 0
  <2>1. CASE "num" \in L BY <1>1, <1>3, <2>1
  <2>2. CASE "num" \in A \ L
    <3>1. c["num"] = 0 BY <1>2, <1>5, <2>2 DEF HintsSteps
    <3>. QED BY <3>1 DEF HintsSteps
  <2>3. CASE "num" \notin A \cup L
    <3>1. K!Sends(q, b) BY DEF K!Sends
    <3>2. c["num"] = 0 BY <1>2, <1>3, <2>3, <3>1 DEF HintsSteps
    <3>. QED BY <3>2 DEF HintsSteps
  <2>. QED BY <2>1, <2>2, <2>3
<1>7. lo \in {0, 1, 2} /\ hi \in {0, 1, 2} /\ lo = K!Rank(q, L, "min") /\ hi = K!Rank(q, L, "max")
  BY DEF HintsSteps, K!Rank
<1>8. CASE ~K!Crossed("min", d["min"], d["max"])
  <2>1. f["min"] = d["min"] /\ f["max"] = d["max"] BY <1>6, <1>8 DEF HintsSteps
  <2>. QED BY <1>4, <2>1
<1>9. CASE K!Crossed("min", d["min"], d["max"]) /\ b = "max"
  <2>1. K!Crossed("max", d["max"], d["min"]) BY <1>1, <1>9 DEF K!Crossed
  <2>2. lo # 2 BY <1>3, <1>4, <1>6, <1>7, <1>9, <2>1 DEF K!Other
  <2>3. hi = 1 BY <1>4, <1>7, <1>9
  <2>4. f["max"] = d["max"] BY <1>6, <1>7, <1>9, <2>2, <2>3 DEF HintsSteps
  <2>. QED BY <1>4, <1>9, <2>4
<1>10. CASE K!Crossed("min", d["min"], d["max"]) /\ b = "min"
  <2>1. hi # 2 BY <1>3, <1>4, <1>6, <1>7, <1>10 DEF K!Other
  <2>2. lo = 1 BY <1>4, <1>7, <1>10
  <2>3. CASE hi = 0
    <3>1. f["min"] = d["min"] BY <1>6, <1>7, <1>10, <2>2, <2>3 DEF HintsSteps
    <3>. QED BY <1>4, <1>10, <3>1
  <2>4. CASE hi = 1
    <3>1. "max" \in A \ (L \cup K!Refused(q, L)) BY <1>7, <2>4 DEF K!Rank
    <3>2. c["max"] = q["max"] /\ d["max"] = q["max"] BY <3>1 DEF HintsSteps, K!Hints
    <3>. QED BY <1>1, <1>4, <1>10, <3>1, <3>2 DEF K!Crossed
  <2>. QED BY <1>7, <2>1, <2>3, <2>4
<1>. QED BY <1>8, <1>9, <1>10

\* Under no locks a sent count is given, nothing is reported, and of a sent range
\* that is inverted the minimum is not.
LEMMA HintsUnlocked ==
  ASSUME HintTypes, NEW A \in SUBSET K!Hints, NEW q \in [A -> Nat],
         NEW c, NEW d, NEW f, NEW lo, NEW hi, HintsSteps(A, q, {}, c, d, f, lo, hi)
  PROVE  /\ K!Reported(q, {}, c, d) = {}
         /\ "num" \in A => f["num"] = q["num"]
         /\ \A b \in {"min", "max"} : "num" \in A /\ q["num"] > 0 => f[b] = 0
         /\ {"min", "max"} \subseteq A /\ q["max"] > 0 /\ q["min"] > q["max"] => f["min"] # q["min"]
<1>1. \A h \in {"num", "min", "max"} : d[h] \in Nat /\ c[h] \in Nat /\ (h \in A => q[h] \in Nat)
  BY DEF HintsSteps, K!Hints
<1>2. K!Refused(q, {}) = {} BY DEF K!Refused
<1>3. ~K!Barred(q, {}, c) BY DEF K!Barred
<1>4. \A h \in K!Hints : K!Rank(q, {}, h) # 2 BY DEF K!Rank
<1>5. \A b \in K!Bounds : K!Other(b) \in K!Hints BY DEF K!Bounds, K!Hints, K!Other
<1>6. K!Reported(q, {}, c, d) = {} BY <1>2, <1>3, <1>4, <1>5 DEF K!Reported
<1>7. \A h \in A : c[h] = q[h] /\ K!Rank(q, {}, h) = 1 BY <1>2 DEF HintsSteps
<1>8. d["num"] = c["num"] /\ f["num"] = d["num"] BY <1>3 DEF HintsSteps
<1>9. "num" \in A => f["num"] = q["num"] BY <1>7, <1>8
<1>10. "num" \in A /\ q["num"] > 0 => f["min"] = 0 /\ f["max"] = 0 BY <1>7, <1>8 DEF HintsSteps
<1>11. ASSUME "min" \in A, "max" \in A, q["max"] > 0, q["min"] > q["max"], f["min"] = q["min"]
       PROVE  FALSE
  <2>1. d["min"] = q["min"] /\ d["max"] = q["max"] BY <1>7, <1>11 DEF HintsSteps
  <2>2. lo = hi BY <1>7, <1>11 DEF HintsSteps
  <2>3. K!Crossed("min", d["min"], d["max"]) BY <1>1, <1>11, <2>1 DEF K!Crossed
  <2>4. CASE d["num"] = 0
    <3>1. f["min"] = d["max"] BY <2>2, <2>3, <2>4 DEF HintsSteps
    <3>. QED BY <1>1, <1>11, <2>1, <3>1
  <2>5. CASE d["num"] > 0
    <3>1. f["min"] = 0 BY <2>5 DEF HintsSteps
    <3>. QED BY <1>1, <1>11, <3>1
  <2>. QED BY <1>1, <2>4, <2>5
<1>. QED BY <1>6, <1>9, <1>10, <1>11

\* A hint the client would have got but for a lock is reported.
LEMMA HintsLossesReported == HintsInv => K!LossesReported
<1> SUFFICES ASSUME HintsInv, answer # K!Pending,
                    NEW h \in DOMAIN hintsAsked \ answer.ignored,
                    h \in hintLocks => hintsAsked[h] # hinted[h],
                    hintsAsked[h] > 0, answer.hints[h] # hintsAsked[h],
                    K!Reconciled(hintsAsked, {}).hints[h] = hintsAsked[h]
             PROVE  FALSE
  BY DEF K!LossesReported
<1>1. PICK A \in SUBSET K!Hints : hintsAsked \in [A -> Nat] BY DEF HintsInv
<1>2. PICK q \in [A -> Nat] : q = hintsAsked BY <1>1
<1>3. PICK L \in SUBSET K!Hints : L = hintLocks BY DEF HintsInv, HintTypes
<1>4. PICK c, d, f, lo, hi :
        /\ HintsSteps(A, q, L, c, d, f, lo, hi)
        /\ K!Reconciled(q, L).hints = f /\ K!Reconciled(q, L).ignored = K!Reported(q, L, c, d)
  BY HintsReconciled DEF HintsInv
<1>5. answer.hints = f /\ answer.ignored = K!Reported(q, L, c, d)
  BY <1>2, <1>3, <1>4 DEF HintsInv
<1>6. PICK c0, d0, f0, lo0, hi0 :
        /\ HintsSteps(A, q, {}, c0, d0, f0, lo0, hi0)
        /\ K!Reconciled(q, {}).hints = f0
  BY HintsReconciled DEF HintsInv
<1>7. h \in A /\ h \notin K!Reported(q, L, c, d) /\ q[h] > 0 /\ f[h] # q[h] /\ f0[h] = q[h]
  BY <1>2, <1>3, <1>5, <1>6
<1>8. HintTypes BY DEF HintsInv
<1>9. h \in L => q[h] = hinted[h] BY <1>7, <1>8, HintsReported
<1>10. h \notin L BY <1>2, <1>3, <1>9
<1>11. \A g \in A : q[g] \in Nat OBVIOUS
<1>12. CASE h = "num"
  <2>1. h \notin K!Refused(q, L) BY <1>4, <1>12 DEF HintsSteps, K!Bounds
  <2>2. c[h] = q[h] /\ K!Rank(q, L, h) = 1 BY <1>4, <1>7, <1>10, <2>1 DEF HintsSteps
  <2>3. ~K!Barred(q, L, c) BY <1>7, <1>8, <1>12, <2>2, HintsReported
  <2>4. f[h] = q[h] BY <1>4, <1>12, <2>2, <2>3 DEF HintsSteps
  <2>. QED BY <1>7, <2>4
<1>13. CASE h \in {"min", "max"}
  <2>1. /\ "num" \in A /\ q["num"] > 0 => f0[h] = 0
        /\ {"min", "max"} \subseteq A /\ q["max"] > 0 /\ q["min"] > q["max"] => f0["min"] # q["min"]
    BY <1>6, <1>8, <1>13, HintsUnlocked
  <2>2. "num" \in A => q["num"] = 0 BY <1>7, <1>11, <2>1
  <2>3. f[h] = q[h] \/ (h = "min" /\ "max" \in A /\ q["max"] > 0 /\ q["min"] > q["max"])
    BY <1>4, <1>7, <1>8, <1>10, <1>13, <2>2, HintsBoundKept
  <2>. QED BY <1>7, <2>1, <2>3
<1>. QED BY <1>7, <1>12, <1>13 DEF K!Hints

\* Without locks nothing is reported and a sent count is given.
LEMMA HintsOwnKept == HintsInv => K!OwnHintsKept
<1> SUFFICES ASSUME HintsInv, answer # K!Pending, hintLocks = {} PROVE K!OwnHintsKept
  BY DEF K!OwnHintsKept
<1>1. PICK A \in SUBSET K!Hints : hintsAsked \in [A -> Nat] BY DEF HintsInv
<1>2. PICK q \in [A -> Nat] : q = hintsAsked BY <1>1
<1>3. PICK c, d, f, lo, hi :
        /\ HintsSteps(A, q, {}, c, d, f, lo, hi)
        /\ K!Reconciled(q, {}).hints = f /\ K!Reconciled(q, {}).ignored = K!Reported(q, {}, c, d)
  BY HintsReconciled DEF HintsInv
<1>4. HintTypes BY DEF HintsInv
<1>5. K!Reported(q, {}, c, d) = {} /\ ("num" \in A => f["num"] = q["num"])
  BY <1>3, <1>4, HintsUnlocked
<1>6. answer.hints = f /\ answer.ignored = {} BY <1>2, <1>3, <1>5 DEF HintsInv
<1>7. DOMAIN hintsAsked = A BY <1>1
<1>. QED BY <1>2, <1>5, <1>6, <1>7 DEF K!OwnHintsKept

\* The hints and the answer of a request are those of the inductive invariant.
LEMMA HintsInvStep == HintsInv /\ K!Reconcile => HintsInv'
<1>. SUFFICES ASSUME HintsInv, K!Reconcile PROVE HintsInv' OBVIOUS
<1>1. hinted' = hinted /\ hintLocks' = hintLocks BY DEF K!Reconcile
<1>2. HintTypes' BY <1>1 DEF HintsInv, HintTypes
<1>3. PICK S \in SUBSET K!Hints : hintsAsked' \in [S -> K!Values] BY DEF K!Reconcile
<1>4. K!Values \subseteq Nat BY OverridesAssumption DEF K!Values
<1>5. hintsAsked' \in [S -> Nat] BY <1>3, <1>4
<1>6. PICK q : q = hintsAsked' OBVIOUS
<1>7. PICK L : L = hintLocks OBVIOUS
<1>8. answer' = K!Reconciled(q, L) BY <1>6, <1>7 DEF K!Reconcile
<1>9. K!Refused(q, L)' = K!Refused(q, L) BY <1>1 DEF K!Refused
<1>10. \A h : K!Rank(q, L, h)' = K!Rank(q, L, h) BY <1>9 DEF K!Rank
<1>11. K!Chosen(q, L)' = K!Chosen(q, L) BY <1>1, <1>9, <1>10 DEF K!Chosen
<1>12. \A c : K!Fitted(q, L, c)' = K!Fitted(q, L, c) BY <1>10 DEF K!Fitted
<1>13. \A c, d : K!Reported(q, L, c, d)' = K!Reported(q, L, c, d) BY <1>1, <1>9, <1>10 DEF K!Reported
<1>14. K!Reconciled(q, L)' = K!Reconciled(q, L) BY <1>11, <1>12, <1>13 DEF K!Reconciled
<1>15. answer' = K!Reconciled(hintsAsked, hintLocks)' BY <1>1, <1>6, <1>7, <1>8, <1>14
<1>. QED BY <1>2, <1>3, <1>5, <1>15 DEF HintsInv

(***************************************************************************)
(* The silences. Fitting moves no locked gate, and fitting again what a fit  *)
(* moved changes nothing: a session runs the first fit of the client's own  *)
(* values over the configuration.                                           *)
(***************************************************************************)

\* A gate's value of a set of gates, read as a field or by its name.
LEMMA GateFields ==
  ASSUME NEW g \in [G!Gates -> Nat]
  PROVE  /\ g.inner = g["inner"] /\ g.outer = g["outer"] /\ g.hard = g["hard"]
         /\ g["inner"] \in Nat /\ g["outer"] \in Nat /\ g["hard"] \in Nat
BY DEF G!Gates

\* The floor of the hard break lies just above the outer gate.
LEMMA FloorBounds ==
  /\ \A o \in Nat : G!HardBreakFloor(o) \in Nat /\ G!HardBreakFloor(o) <= o + 63
  /\ G!HardBreakFloor(100) = 160
BY DEF G!HardBreakFloor, G!FrameMs

\* The frame that finalizes, and the one after it: the hard break's floor.
LEMMA FloorIsNextFrame ==
  ASSUME NEW o \in Nat, o >= 1
  PROVE  (G!FinalizedAt(o) + 1) * G!FrameMs = G!HardBreakFloor(o)
<1>1. PICK n \in Nat : n = (o + 31) \div 32 OBVIOUS
<1>2. n * 32 >= o /\ (n - 1) * 32 < o /\ n \in 1..o BY <1>1
<1>3. \A m \in 1..o : m * 32 >= o /\ (m - 1) * 32 < o => m = n BY <1>2
<1>4. G!FinalizedAt(o) = n BY <1>2, <1>3 DEF G!FinalizedAt, G!FrameMs
<1>. QED BY <1>1, <1>4 DEF G!HardBreakFloor, G!FrameMs

\* What a fit makes of each gate.
LEMMA FitOf ==
  ASSUME NEW g \in [G!Gates -> Nat], NEW L, NEW o, o = G!MovedOuter(g, L),
         NEW f, f = G!Fit(g, L)
  PROVE  /\ f = [inner |-> f["inner"], outer |-> f["outer"], hard |-> f["hard"]]
         /\ f.inner = f["inner"] /\ f.outer = f["outer"] /\ f.hard = f["hard"]
         /\ f["outer"] = o
         /\ "inner" \in G!Refuse(g, o) \ L => f["inner"] = G!Larger(0, o - 50)
         /\ "inner" \notin G!Refuse(g, o) \ L => f["inner"] = g["inner"]
         /\ "hard" \in G!Refuse(g, o) \ L => f["hard"] = o + 1000
         /\ "hard" \notin G!Refuse(g, o) \ L => f["hard"] = g["hard"]
BY GateFields DEF G!Fit

\* An outer gate refuses gates by their values.
LEMMA RefusedBy ==
  ASSUME NEW g \in [G!Gates -> Nat], NEW o
  PROVE  /\ G!Refuse(g, o) \subseteq {"inner", "hard"}
         /\ "inner" \in G!Refuse(g, o) <=> g["inner"] >= o
         /\ "hard" \in G!Refuse(g, o) <=> G!BreaksEach(g["hard"], o)
BY GateFields DEF G!Refuse

\* Where the outer gate moves depends on it and on the locked gates only.
LEMMA MovedAlike ==
  ASSUME NEW g \in [G!Gates -> Nat], NEW e \in [G!Gates -> Nat], NEW L, e["outer"] = g["outer"],
         \A h \in {"inner", "hard"} : h \in L => e[h] = g[h]
  PROVE  G!MovedOuter(e, L) = G!MovedOuter(g, L)
<1>1. \A o : L \cap G!Refuse(e, o) = L \cap G!Refuse(g, o) BY RefusedBy
<1>2. \A o : L \cap G!Refuse(e, o) # {} <=> L \cap G!Refuse(g, o) # {} BY <1>1
<1>3. \A o : /\ "hard" \in L \cap G!Refuse(e, o) <=> "hard" \in L \cap G!Refuse(g, o)
             /\ "inner" \in L \cap G!Refuse(e, o) <=> "inner" \in L \cap G!Refuse(g, o)
  BY <1>1
<1>4. e.outer = g.outer /\ ("hard" \in L => e.hard = g.hard) /\ ("inner" \in L => e.inner = g.inner)
  BY GateFields
<1>5. PICK x : x = IF "hard" \in L \cap G!Refuse(g, g.outer)
                   THEN G!Larger(G!Lowest["outer"], g.hard - 1000) ELSE g.outer OBVIOUS
<1>6. x = IF "hard" \in L \cap G!Refuse(e, e.outer)
          THEN G!Larger(G!Lowest["outer"], e.hard - 1000) ELSE e.outer
  BY <1>3, <1>4, <1>5
<1>7. PICK y : y = IF "inner" \in L \cap G!Refuse(g, x) THEN g.inner + 50 ELSE x OBVIOUS
<1>8. y = IF "inner" \in L \cap G!Refuse(e, x) THEN e.inner + 50 ELSE x BY <1>3, <1>4, <1>7
<1>9. G!MovedOuter(g, L) = IF "outer" \in L \/ L \cap G!Refuse(g, y) # {} THEN g.outer ELSE y
  BY <1>5, <1>7 DEF G!MovedOuter
<1>10. G!MovedOuter(e, L) = IF "outer" \in L \/ L \cap G!Refuse(e, y) # {} THEN e.outer ELSE y
  BY <1>6, <1>8 DEF G!MovedOuter
<1>. QED BY <1>2, <1>4, <1>9, <1>10

\* Fitting again what a fit moved changes nothing.
LEMMA SecondFit ==
  ASSUME NEW g \in [G!Gates -> Nat], NEW e \in [G!Gates -> Nat], NEW L, e["outer"] = g["outer"],
         NEW f, f = G!Fit(g, L),
         \A h \in {"inner", "hard"} : e[h] = g[h] \/ (h \notin L /\ e[h] = f[h])
  PROVE  G!Fit(e, L) = f
<1>1. PICK o : o = G!MovedOuter(g, L) OBVIOUS
<1>2. o = G!MovedOuter(e, L) BY <1>1, MovedAlike
<1>3. PICK d : d = G!Fit(e, L) OBVIOUS
<1>4. /\ f = [inner |-> f["inner"], outer |-> f["outer"], hard |-> f["hard"]]
      /\ f["outer"] = o
      /\ "inner" \in G!Refuse(g, o) \ L => f["inner"] = G!Larger(0, o - 50)
      /\ "inner" \notin G!Refuse(g, o) \ L => f["inner"] = g["inner"]
      /\ "hard" \in G!Refuse(g, o) \ L => f["hard"] = o + 1000
      /\ "hard" \notin G!Refuse(g, o) \ L => f["hard"] = g["hard"]
  BY <1>1, FitOf
<1>5. /\ d = [inner |-> d["inner"], outer |-> d["outer"], hard |-> d["hard"]]
      /\ d["outer"] = o
      /\ "inner" \in G!Refuse(e, o) \ L => d["inner"] = G!Larger(0, o - 50)
      /\ "inner" \notin G!Refuse(e, o) \ L => d["inner"] = e["inner"]
      /\ "hard" \in G!Refuse(e, o) \ L => d["hard"] = o + 1000
      /\ "hard" \notin G!Refuse(e, o) \ L => d["hard"] = e["hard"]
  BY <1>2, <1>3, FitOf
<1>6. e["inner"] = g["inner"] =>
        ("inner" \in G!Refuse(g, o) <=> "inner" \in G!Refuse(e, o))
  BY RefusedBy
<1>7. e["hard"] = g["hard"] =>
        ("hard" \in G!Refuse(g, o) <=> "hard" \in G!Refuse(e, o))
  BY RefusedBy
<1>8. d["inner"] = f["inner"] BY <1>4, <1>5, <1>6
<1>9. d["hard"] = f["hard"] BY <1>4, <1>5, <1>7
<1>. QED BY <1>3, <1>4, <1>5, <1>8, <1>9

GateTypes ==
  /\ running \in [G!Gates -> Nat] /\ running["outer"] >= 100
  /\ locked \in SUBSET G!Gates /\ pinned \in SUBSET G!Gates /\ open \in BOOLEAN

GatesInv ==
  /\ GateTypes
  /\ \E S \in SUBSET G!Gates : sent \in [S -> Nat]
  /\ session # G!Waiting =>
       \E c \in {G!ClientValues(sent)} :
         session = [gates |-> G!Fit(G!Over(c.own), G!Locks(DOMAIN c.own)),
                    own |-> c.own, notes |-> c.notes]

\* What a connection goes through: the values taken of the client, its own, the
\* gates they are fitted in, and those that moved.
GateSteps(T, q, drop, own, D, L, g, f, moved) ==
  /\ T \in SUBSET G!Gates /\ drop \in BOOLEAN
  /\ open => T = DOMAIN q \ locked
  /\ drop => "outer" \in T
  /\ D = IF drop THEN T \ {"outer"} ELSE T
  /\ own \in [D -> Nat] /\ \A h \in D : own[h] = G!WithinBounds(h, q[h])
  /\ g \in [G!Gates -> Nat] /\ g["outer"] >= 100
  /\ \A h \in G!Gates : g[h] = IF h \in D THEN own[h] ELSE running[h]
  /\ L = G!Locks(D) /\ f = G!Fit(g, L)
  /\ "outer" \in D => L \cap G!Refuse(g, g["outer"]) = {}
  /\ moved = {h \in {"inner", "hard"} : {h, "outer"} \cap D # {} /\ f[h] # g[h]}

\* A value within its bounds is a number, and an outer one the schema's lowest.
LEMMA BoundsKept ==
  ASSUME NEW h \in G!Gates, NEW v \in Nat
  PROVE  /\ G!WithinBounds(h, v) \in Nat
         /\ h = "outer" => G!WithinBounds(h, v) >= 100
BY DEF G!WithinBounds, G!Lowest, G!Highest, G!Gates

\* Every client's values are taken that way.
LEMMA ClientValuesOf ==
  ASSUME GateTypes, NEW S \in SUBSET G!Gates, NEW q \in [S -> Nat]
  PROVE  \E T, drop, own, D, L, g, f, moved :
           /\ GateSteps(T, q, drop, own, D, L, g, f, moved)
           /\ G!ClientValues(q) =
                [own |-> [h \in D \cup moved |-> IF h \in moved THEN f[h] ELSE own[h]],
                 notes |-> moved \cup (IF drop THEN {"outer"} ELSE {})]
<1>1. PICK T : T = IF open THEN DOMAIN q \ locked ELSE {} OBVIOUS
<1>2. T \in SUBSET S /\ T \in SUBSET G!Gates /\ (open => T = DOMAIN q \ locked)
  BY <1>1
<1>3. PICK cl : cl = [h \in T |-> G!WithinBounds(h, q[h])] OBVIOUS
<1>4. \A h \in T : h \in G!Gates /\ q[h] \in Nat BY <1>2
<1>5. cl \in [T -> Nat] /\ ("outer" \in T => cl["outer"] >= 100) BY <1>3, <1>4, BoundsKept
<1>6. PICK drop \in BOOLEAN :
        drop <=> ("outer" \in T /\ G!Refuse(G!Over(cl), cl["outer"]) \cap G!Locks(T) # {})
  OBVIOUS
<1>7. PICK own : own = IF drop THEN G!Without(cl, "outer") ELSE cl OBVIOUS
<1>8. PICK D : D = IF drop THEN T \ {"outer"} ELSE T OBVIOUS
<1>9. own \in [D -> Nat] /\ \A h \in D : own[h] = cl[h] BY <1>5, <1>7, <1>8 DEF G!Without
<1>10. PICK g : g = G!Over(own) OBVIOUS
<1>11. g = [h \in G!Gates |-> IF h \in D THEN own[h] ELSE running[h]] BY <1>9, <1>10 DEF G!Over
<1>12. g \in [G!Gates -> Nat] BY <1>9, <1>11 DEF GateTypes
<1>13. "outer" \in G!Gates BY DEF G!Gates
<1>14. g["outer"] >= 100 BY <1>5, <1>8, <1>9, <1>11, <1>13 DEF GateTypes
<1>15. PICK L : L = G!Locks(D) OBVIOUS
<1>16. PICK f : f = G!Fit(g, L) OBVIOUS
<1>17. "outer" \in D => L \cap G!Refuse(g, g["outer"]) = {}
  <2>. SUFFICES ASSUME "outer" \in D PROVE L \cap G!Refuse(g, g["outer"]) = {} OBVIOUS
  <2>1. ~drop /\ D = T /\ own = cl BY <1>7, <1>8
  <2>2. G!Refuse(G!Over(cl), cl["outer"]) \cap G!Locks(T) = {} BY <1>6, <2>1
  <2>3. g["outer"] = cl["outer"] BY <1>11, <1>13, <2>1
  <2>. QED BY <1>10, <1>15, <2>1, <2>2, <2>3
<1>18. PICK moved : moved = {h \in {"inner", "hard"} : {h, "outer"} \cap D # {} /\ f[h] # g[h]}
  OBVIOUS
<1>19. DOMAIN own = D BY <1>9
<1>20. G!ClientValues(q) =
                [own |-> [h \in D \cup moved |-> IF h \in moved THEN f[h] ELSE own[h]],
                 notes |-> moved \cup (IF drop THEN {"outer"} ELSE {})]
  BY <1>1, <1>3, <1>6, <1>7, <1>10, <1>15, <1>16, <1>18, <1>19, ZenonT(60) DEF G!ClientValues
<1>21. \A h \in D : own[h] = G!WithinBounds(h, q[h]) BY <1>3, <1>8, <1>9
<1>22. GateSteps(T, q, drop, own, D, L, g, f, moved)
  BY <1>2, <1>6, <1>8, <1>9, <1>11, <1>12, <1>14, <1>15, <1>16, <1>17, <1>18, <1>21 DEF GateSteps
<1>. WITNESS T, drop, own, D, L, g, f, moved
<1>. QED BY <1>20, <1>22

\* A fit keeps the locked gates, and an outer gate nothing locked refuses.
LEMMA FitKeeps ==
  ASSUME NEW T, NEW q, NEW drop, NEW own, NEW D, NEW L, NEW g, NEW f, NEW moved,
         GateSteps(T, q, drop, own, D, L, g, f, moved)
  PROVE  /\ \A h \in L : f[h] = g[h] /\ g[h] = running[h] /\ h \notin D
         /\ "outer" \in D => f["outer"] = g["outer"]
         /\ L \subseteq G!Gates
<1>1. g \in [G!Gates -> Nat] /\ f = G!Fit(g, L) /\ L = G!Locks(D)
      /\ \A h \in G!Gates : g[h] = IF h \in D THEN own[h] ELSE running[h]
  BY DEF GateSteps
<1>2. L \subseteq G!Gates /\ \A h \in L : h \notin D BY <1>1 DEF G!Locks
<1>3. PICK o : o = G!MovedOuter(g, L) OBVIOUS
<1>4. /\ f["outer"] = o
      /\ "inner" \notin G!Refuse(g, o) \ L => f["inner"] = g["inner"]
      /\ "hard" \notin G!Refuse(g, o) \ L => f["hard"] = g["hard"]
  BY <1>1, <1>3, FitOf
<1>5. "outer" \in L => o = g["outer"] BY <1>1, <1>3, GateFields DEF G!MovedOuter
<1>6. \A h \in L : f[h] = g[h] BY <1>2, <1>4, <1>5 DEF G!Gates
<1>7. "outer" \in D => o = g["outer"]
  <2>. SUFFICES ASSUME "outer" \in D PROVE o = g["outer"] OBVIOUS
  <2>1. L \cap G!Refuse(g, g.outer) = {} BY <1>1, GateFields DEF GateSteps
  <2>. QED BY <1>1, <1>3, <2>1, GateFields DEF G!MovedOuter
<1>. QED BY <1>1, <1>2, <1>4, <1>6, <1>7

\* A session runs that first fit; its client's values are its own, and it is told
\* of those that moved.
LEMMA SessionRuns ==
  ASSUME GatesInv, session # G!Waiting
  PROVE  \E T, drop, own, D, L, g, f, moved :
           /\ GateSteps(T, sent, drop, own, D, L, g, f, moved)
           /\ session.gates = f /\ L = G!Fixed
           /\ session.own = [h \in D \cup moved |-> IF h \in moved THEN f[h] ELSE own[h]]
           /\ session.notes = moved \cup (IF drop THEN {"outer"} ELSE {})
<1>1. PICK S \in SUBSET G!Gates : sent \in [S -> Nat] BY DEF GatesInv
<1>2. GateTypes BY DEF GatesInv
<1>3. PICK q \in [S -> Nat] : q = sent BY <1>1
<1>4. PICK T, drop, own, D, L, g, f, moved :
           /\ GateSteps(T, q, drop, own, D, L, g, f, moved)
           /\ G!ClientValues(q) =
                [own |-> [h \in D \cup moved |-> IF h \in moved THEN f[h] ELSE own[h]],
                 notes |-> moved \cup (IF drop THEN {"outer"} ELSE {})]
  BY <1>2, ClientValuesOf
<1>5. PICK e : e = [h \in D \cup moved |-> IF h \in moved THEN f[h] ELSE own[h]] OBVIOUS
<1>6. PICK c : c = G!ClientValues(q) OBVIOUS
<1>7. c.own = e /\ c.notes = moved \cup (IF drop THEN {"outer"} ELSE {}) BY <1>4, <1>5, <1>6
<1>8. session = [gates |-> G!Fit(G!Over(e), G!Locks(DOMAIN e)), own |-> e, notes |-> c.notes]
  BY <1>3, <1>6, <1>7 DEF GatesInv
<1>9. DOMAIN e = D \cup moved BY <1>5
<1>10. /\ g \in [G!Gates -> Nat] /\ f = G!Fit(g, L) /\ L = G!Locks(D)
       /\ \A h \in G!Gates : g[h] = IF h \in D THEN own[h] ELSE running[h]
       /\ moved = {h \in {"inner", "hard"} : {h, "outer"} \cap D # {} /\ f[h] # g[h]}
  BY <1>4 DEF GateSteps
<1>11. \A h \in L : f[h] = g[h] BY <1>4, FitKeeps
<1>12. L \cap moved = {} BY <1>10, <1>11
<1>13. G!Locks(DOMAIN e) = L BY <1>9, <1>10, <1>12 DEF G!Locks
<1>14. PICK x : x = G!Over(e) OBVIOUS
<1>15. x = [h \in G!Gates |-> IF h \in moved THEN f[h] ELSE g[h]]
  BY <1>5, <1>9, <1>10, <1>14 DEF G!Over
<1>16. "outer" \in G!Gates /\ "outer" \notin moved /\ moved \subseteq G!Gates BY <1>10 DEF G!Gates
<1>17. x["outer"] = g["outer"] BY <1>15, <1>16
<1>18. \A h \in {"inner", "hard"} : x[h] = g[h] \/ (h \notin L /\ x[h] = f[h])
  BY <1>12, <1>15 DEF G!Gates
<1>19. \A h \in moved : f[h] \in Nat
  <2>1. PICK o : o = G!MovedOuter(g, L) OBVIOUS
  <2>2. o \in Int
    <3>1. g.inner \in Int /\ g.outer \in Int /\ g.hard \in Int BY <1>10, GateFields
    <3>. QED BY <2>1, <3>1 DEF G!MovedOuter, G!Larger, G!Lowest
  <2>3. o >= 0
    <3>1. g.inner \in Nat /\ g.outer \in Nat /\ g.hard \in Nat BY <1>10, GateFields
    <3>. QED BY <2>1, <3>1 DEF G!MovedOuter, G!Larger, G!Lowest
  <2>4. /\ "inner" \in G!Refuse(g, o) \ L => f["inner"] = G!Larger(0, o - 50)
        /\ "inner" \notin G!Refuse(g, o) \ L => f["inner"] = g["inner"]
        /\ "hard" \in G!Refuse(g, o) \ L => f["hard"] = o + 1000
        /\ "hard" \notin G!Refuse(g, o) \ L => f["hard"] = g["hard"]
    BY <1>10, <2>1, FitOf
  <2>5. g["inner"] \in Nat /\ g["hard"] \in Nat BY <1>10, GateFields
  <2>6. G!Larger(0, o - 50) \in Nat BY <2>2 DEF G!Larger
  <2>7. f["inner"] \in Nat /\ f["hard"] \in Nat BY <2>2, <2>3, <2>4, <2>5, <2>6
  <2>. QED BY <1>10, <2>7
<1>20. x \in [G!Gates -> Nat] BY <1>10, <1>15, <1>19
<1>21. G!Fit(x, L) = f BY <1>10, <1>17, <1>18, <1>20, SecondFit
<1>22. session.gates = f /\ session.own = e /\ session.notes = c.notes BY <1>8, <1>13, <1>14, <1>21
<1>23. L = G!Fixed BY <1>13, <1>22 DEF G!Fixed
<1>. QED BY <1>3, <1>4, <1>5, <1>7, <1>22, <1>23

\* No locked gate is moved.
LEMMA GatesLockedStay == GatesInv => G!LockedStay
<1>. SUFFICES ASSUME GatesInv, session # G!Waiting, NEW h \in G!Fixed PROVE session.gates[h] = running[h]
  BY DEF G!LockedStay, G!Connected
<1>1. PICK T, drop, own, D, L, g, f, moved :
        GateSteps(T, sent, drop, own, D, L, g, f, moved) /\ session.gates = f /\ L = G!Fixed
  BY SessionRuns
<1>2. f[h] = g[h] /\ g[h] = running[h] BY <1>1, FitKeeps
<1>. QED BY <1>1, <1>2

\* A client's own value is the one that runs.
LEMMA GatesShownIsRun == GatesInv => G!ShownIsRun
<1>. SUFFICES ASSUME GatesInv, session # G!Waiting, NEW h \in DOMAIN session.own
              PROVE  session.gates[h] = session.own[h]
  BY DEF G!ShownIsRun, G!Connected
<1>1. PICK T, drop, own, D, L, g, f, moved :
           /\ GateSteps(T, sent, drop, own, D, L, g, f, moved)
           /\ session.gates = f /\ L = G!Fixed
           /\ session.own = [x \in D \cup moved |-> IF x \in moved THEN f[x] ELSE own[x]]
           /\ session.notes = moved \cup (IF drop THEN {"outer"} ELSE {})
  BY SessionRuns
<1>2. h \in D \cup moved BY <1>1
<1>3. CASE h \in moved BY <1>1, <1>3
<1>4. CASE h \in D \ moved
  <2>1. session.own[h] = own[h] BY <1>1, <1>4
  <2>2. g[h] = own[h] /\ h \in {"inner", "outer", "hard"} BY <1>1, <1>4 DEF GateSteps, G!Gates
  <2>3. h # "outer" => f[h] = g[h] BY <1>1, <1>4, <2>2 DEF GateSteps
  <2>4. h = "outer" => f[h] = g[h] BY <1>1, <1>4, FitKeeps
  <2>. QED BY <1>1, <2>1, <2>2, <2>3, <2>4
<1>. QED BY <1>2, <1>3, <1>4

\* A value the client sent runs, or the client is told.
LEMMA GatesClientTold == GatesInv => G!ClientTold
<1>. SUFFICES ASSUME GatesInv, session # G!Waiting, NEW h \in DOMAIN sent, open, h \notin locked,
                     h \notin session.notes
              PROVE  session.gates[h] = G!WithinBounds(h, sent[h])
  BY DEF G!ClientTold, G!Connected
<1>1. PICK T, drop, own, D, L, g, f, moved :
           /\ GateSteps(T, sent, drop, own, D, L, g, f, moved)
           /\ session.gates = f /\ L = G!Fixed
           /\ session.own = [x \in D \cup moved |-> IF x \in moved THEN f[x] ELSE own[x]]
           /\ session.notes = moved \cup (IF drop THEN {"outer"} ELSE {})
  BY SessionRuns
<1>2. h \in T BY <1>1 DEF GateSteps
<1>3. drop \in BOOLEAN /\ D = IF drop THEN T \ {"outer"} ELSE T BY <1>1 DEF GateSteps
<1>4. h \in D /\ h \notin moved BY <1>1, <1>2, <1>3
<1>5. g[h] = own[h] /\ own[h] = G!WithinBounds(h, sent[h]) /\ h \in {"inner", "outer", "hard"}
  BY <1>1, <1>2, <1>4, ZenonT(60) DEF GateSteps, G!Gates
<1>6. h # "outer" => f[h] = g[h] BY <1>1, <1>4, <1>5 DEF GateSteps
<1>7. h = "outer" => f[h] = g[h] BY <1>1, <1>4, FitKeeps
<1>. QED BY <1>1, <1>5, <1>6, <1>7

\* What the outer gate of a fit still refuses is locked.
LEMMA FollowersFit ==
  ASSUME NEW g \in [G!Gates -> Nat], NEW L, NEW o \in Nat, o >= 1, o = G!MovedOuter(g, L),
         NEW f, f = G!Fit(g, L), L \cap G!Refuse(g, o) = {}
  PROVE  f["inner"] < o /\ ~G!BreaksEach(f["hard"], o) /\ f["hard"] \in Nat /\ f["inner"] \in Nat
<1>1. /\ "inner" \in G!Refuse(g, o) => f["inner"] = G!Larger(0, o - 50)
      /\ "inner" \notin G!Refuse(g, o) => f["inner"] = g["inner"]
      /\ "hard" \in G!Refuse(g, o) => f["hard"] = o + 1000
      /\ "hard" \notin G!Refuse(g, o) => f["hard"] = g["hard"]
  BY FitOf
<1>2. g["inner"] \in Nat /\ g["hard"] \in Nat BY GateFields
<1>3. f["inner"] < o /\ f["inner"] \in Nat BY <1>1, <1>2, RefusedBy DEF G!Larger
<1>4. ~G!BreaksEach(o + 1000, o) BY FloorBounds DEF G!BreaksEach
<1>5. ~G!BreaksEach(f["hard"], o) BY <1>1, <1>4, RefusedBy
<1>. QED BY <1>1, <1>2, <1>3, <1>5

\* Where an outer gate that may move stays refused by one locked partner, none fits.
LEMMA OuterFits ==
  ASSUME NEW g \in [G!Gates -> Nat], NEW L, NEW o, o = G!MovedOuter(g, L), "outer" \notin L,
         \A h \in L : g[h] = running[h], L \subseteq G!Gates, L \cap G!Refuse(g, o) # {},
         running \in [G!Gates -> Nat], ~({"inner", "hard"} \subseteq L)
  PROVE  ~G!SomeOuterFits(L)
<1>1. g.inner = g["inner"] /\ g.outer = g["outer"] /\ g.hard = g["hard"]
      /\ g["inner"] \in Nat /\ g["outer"] \in Nat /\ g["hard"] \in Nat
  BY GateFields
<1>2. PICK x : x = IF "hard" \in L \cap G!Refuse(g, g["outer"])
                   THEN G!Larger(G!Lowest["outer"], g["hard"] - 1000) ELSE g["outer"] OBVIOUS
<1>3. PICK y : y = IF "inner" \in L \cap G!Refuse(g, x) THEN g["inner"] + 50 ELSE x OBVIOUS
<1>4. o = IF L \cap G!Refuse(g, y) # {} THEN g["outer"] ELSE y
  BY <1>1, <1>2, <1>3 DEF G!MovedOuter
<1>5. o = g["outer"] /\ L \cap G!Refuse(g, y) # {} /\ L \cap G!Refuse(g, g["outer"]) # {} BY <1>4
<1>6. \A z : G!Refuse(g, z) \subseteq {"inner", "hard"}
             /\ ("inner" \in G!Refuse(g, z) <=> g["inner"] >= z)
             /\ ("hard" \in G!Refuse(g, z) <=> G!BreaksEach(g["hard"], z))
  BY RefusedBy
<1>7. CASE "hard" \notin L
  <2>1. x = g["outer"] BY <1>2, <1>7
  <2>2. "inner" \in L \cap G!Refuse(g, x) BY <1>5, <1>6, <1>7, <2>1
  <2>3. y = g["inner"] + 50 BY <1>3, <2>2
  <2>4. "inner" \notin G!Refuse(g, y) BY <1>1, <1>6, <2>3
  <2>. QED BY <1>5, <1>6, <1>7, <2>4
<1>8. CASE "hard" \in L
  <2>1. "inner" \notin L BY <1>8
  <2>2. "hard" \in L \cap G!Refuse(g, g["outer"]) BY <1>5, <1>6, <2>1
  <2>3. x = G!Larger(G!Lowest["outer"], g["hard"] - 1000) /\ y = x BY <1>2, <1>3, <2>1, <2>2
  <2>4. G!BreaksEach(g["hard"], x) BY <1>5, <1>6, <2>1, <2>3
  <2>5. G!Lowest["outer"] = 100 BY DEF G!Lowest
  <2>6. x = IF 100 < g["hard"] - 1000 THEN g["hard"] - 1000 ELSE 100 BY <2>3, <2>5 DEF G!Larger
  <2>7. CASE 100 < g["hard"] - 1000
    <3>1. x = g["hard"] - 1000 /\ x \in Nat BY <1>1, <2>6, <2>7
    <3>2. G!HardBreakFloor(x) <= x + 63 /\ G!HardBreakFloor(x) \in Nat BY <3>1, FloorBounds
    <3>. QED BY <1>1, <2>4, <3>1, <3>2 DEF G!BreaksEach
  <2>8. CASE ~(100 < g["hard"] - 1000)
    <3>1. G!BreaksEach(running["hard"], 100) BY <1>8, <2>4, <2>6, <2>8
    <3>2. "hard" \in G!Refuse(running, 100) BY <3>1, RefusedBy
    <3>3. "hard" \in G!Refuse(running, 100) \cap L BY <1>8, <3>2
    <3>. QED BY <2>1, <2>5, <3>3 DEF G!SomeOuterFits
  <2>. QED BY <2>7, <2>8
<1>. QED BY <1>7, <1>8

\* The gates of a session work together wherever the locked ones leave room.
LEMMA GatesDoWork == GatesInv => G!GatesWork
<1>. SUFFICES ASSUME GatesInv, session # G!Waiting, G!SomeOuterFits(G!Fixed),
                     ~({"inner", "hard"} \subseteq G!Fixed /\ "outer" \notin G!Fixed)
              PROVE  session.gates.inner < session.gates.outer /\ ~G!SplitsEach(session.gates)
  BY DEF G!GatesWork, G!Connected
<1>1. PICK T, drop, own, D, L, g, f, moved :
        GateSteps(T, sent, drop, own, D, L, g, f, moved) /\ session.gates = f /\ L = G!Fixed
  BY SessionRuns
<1>2. g \in [G!Gates -> Nat] /\ f = G!Fit(g, L) /\ g["outer"] >= 100 BY <1>1 DEF GateSteps
<1>3. \A h \in L : g[h] = running[h] BY <1>1, FitKeeps
<1>4. L \subseteq G!Gates BY <1>1, FitKeeps
<1>5. running \in [G!Gates -> Nat] BY DEF GatesInv, GateTypes
<1>6. PICK o : o = G!MovedOuter(g, L) OBVIOUS
<1>7. o \in Nat /\ o >= 1
  <2>1. g.inner = g["inner"] /\ g.outer = g["outer"] /\ g.hard = g["hard"]
        /\ g["inner"] \in Nat /\ g["outer"] \in Nat /\ g["hard"] \in Nat
    BY <1>2, GateFields
  <2>. QED BY <1>2, <1>6, <2>1 DEF G!MovedOuter, G!Larger, G!Lowest
<1>8. L \cap G!Refuse(g, o) = {}
  <2>1. CASE "outer" \in L
    <3>1. o = running["outer"] BY <1>2, <1>3, <1>6, <2>1, GateFields DEF G!MovedOuter
    <3>2. G!Refuse(running, running["outer"]) \cap L = {} BY <1>1, <2>1 DEF G!SomeOuterFits
    <3>3. \A h \in L : h \in G!Refuse(g, o) => h \in G!Refuse(running, o)
      BY <1>2, <1>3, <1>5, RefusedBy
    <3>. QED BY <3>1, <3>2, <3>3
  <2>2. CASE "outer" \notin L BY <1>1, <1>2, <1>3, <1>4, <1>5, <1>6, <2>2, OuterFits
  <2>. QED BY <2>1, <2>2
<1>9. f["inner"] < o /\ ~G!BreaksEach(f["hard"], o) /\ f["hard"] \in Nat
  BY <1>2, <1>6, <1>7, <1>8, FollowersFit
<1>10. f.inner = f["inner"] /\ f.outer = o /\ f.hard = f["hard"] BY <1>2, <1>6, FitOf
<1>11. (G!FinalizedAt(o) + 1) * G!FrameMs = G!HardBreakFloor(o) BY <1>7, FloorIsNextFrame
<1>12. G!HardBreakFloor(o) \in Nat BY <1>7, FloorBounds
<1>13. ~G!SplitsEach(f) BY <1>9, <1>10, <1>11, <1>12 DEF G!SplitsEach, G!BreaksEach
<1>. QED BY <1>1, <1>9, <1>10, <1>13

\* A connection keeps the inductive invariant.
LEMMA GatesInvStep == GatesInv /\ G!Connect => GatesInv'
<1>. SUFFICES ASSUME GatesInv, G!Connect PROVE GatesInv' OBVIOUS
<1>1. running' = running /\ valued' = valued /\ locked' = locked /\ pinned' = pinned /\ open' = open
  BY DEF G!Connect
<1>2. GateTypes' BY <1>1 DEF GatesInv, GateTypes
<1>3. PICK S \in SUBSET G!Gates, q \in G!AnyValues : sent' = [h \in S |-> q[h]]
  BY DEF G!Connect
<1>4. \A h \in G!Gates : q[h] \in Nat
  <2>1. \A h \in G!Gates : Candidates[h] \subseteq Nat BY OverridesAssumption
  <2>2. q["inner"] \in Candidates["inner"] /\ q["outer"] \in Candidates["outer"]
        /\ q["hard"] \in Candidates["hard"]
    BY DEF G!AnyValues
  <2>. QED BY <2>1, <2>2 DEF G!Gates
<1>5. sent' \in [S -> Nat] BY <1>3, <1>4
<1>6. PICK x : x = sent' OBVIOUS
<1>7. PICK c : c = G!ClientValues(x) OBVIOUS
<1>8. session' = [gates |-> G!Fit(G!Over(c.own), G!Locks(DOMAIN c.own)),
                    own |-> c.own, notes |-> c.notes]
  BY <1>6, <1>7 DEF G!Connect
<1>9. \A own : G!Over(own)' = G!Over(own) BY <1>1 DEF G!Over
<1>10. \A D : G!Locks(D)' = G!Locks(D) BY <1>1 DEF G!Locks
<1>11. G!ClientValues(x)' = G!ClientValues(x) BY <1>1, <1>9, <1>10, ZenonT(60) DEF G!ClientValues
<1>12. c = G!ClientValues(sent)' BY <1>6, <1>7, <1>11
<1>13. session' = [gates |-> G!Fit(G!Over(c.own), G!Locks(DOMAIN c.own))',
                    own |-> c.own, notes |-> c.notes]
  BY <1>8, <1>9, <1>10
<1>. QED BY <1>2, <1>5, <1>12, <1>13 DEF GatesInv

(***************************************************************************)
(* The layers. The layers of a request are those its caller is given anyway *)
(* with at most one appended, or, opted out, the direct ones of them: the   *)
(* first opinion an administrator bound stays the first.                    *)
(***************************************************************************)

\* The first of a set of places.
LEMMA FirstIs ==
  ASSUME NEW P, P \subseteq Nat, NEW i \in P, \A j \in P : i <= j
  PROVE  E!First(P) = i
<1>1. \A m \in P : (\A j \in P : m <= j) => m = i OBVIOUS
<1>. QED BY <1>1 DEF E!First

\* First is the least member of a set of positions, 0 of an empty one.
LEMMA FirstIn ==
  ASSUME NEW P, P \subseteq Nat
  PROVE  /\ P # {} => E!First(P) \in P /\ \A j \in P : E!First(P) <= j
         /\ P = {} => E!First(P) = 0
<1>1. P = {} => E!First(P) = 0 BY DEF E!First
<1>2. ASSUME P # {} PROVE E!First(P) \in P /\ \A j \in P : E!First(P) <= j
  <2>1. PICK a \in P : \A b \in P : a <= b BY <1>2, LeastExists
  <2>2. E!First(P) = a BY <2>1, FirstIs
  <2>. QED BY <2>1, <2>2
<1>. QED BY <1>1, <1>2

\* The concatenation of n lists, as a function of how many are taken.
IsJoin(lists, n, f) ==
  f = [m \in 0..n |-> IF m = 0 THEN <<>> ELSE f[m - 1] \o lists[m]]

\* There is such a function for every number of lists: otherwise take the least
\* number without one.
LEMMA JoinExists ==
  ASSUME NEW lists, NEW n \in Nat
  PROVE  \E f : IsJoin(lists, n, f)
<1>. DEFINE Bad == {m \in Nat : ~\E f : IsJoin(lists, m, f)}
<1>. SUFFICES ASSUME Bad # {} PROVE FALSE OBVIOUS
<1>1. PICK m \in Bad : \A b \in Bad : m <= b BY LeastExists
<1>2. m # 0
  <2>. SUFFICES ASSUME m = 0 PROVE FALSE OBVIOUS
  <2>1. PICK f : f = [x \in 0..0 |-> <<>>] OBVIOUS
  <2>2. \A x \in 0..0 : x = 0 OBVIOUS
  <2>3. f = [x \in 0..0 |-> IF x = 0 THEN <<>> ELSE f[x - 1] \o lists[x]] BY <2>1, <2>2
  <2>4. IsJoin(lists, 0, f) BY <2>3 DEF IsJoin
  <2>. QED BY <2>4
<1>3. m - 1 \in Nat /\ m - 1 \notin Bad BY <1>1, <1>2
<1>4. PICK f : IsJoin(lists, m - 1, f) BY <1>3
<1>5. PICK last : last = f[m - 1] \o lists[m] OBVIOUS
<1>6. PICK g : g = [x \in 0..m |-> IF x = m THEN last ELSE f[x]] OBVIOUS
<1>7. \A x \in 0..m : g[x] = IF x = 0 THEN <<>> ELSE g[x - 1] \o lists[x]
  <2>. SUFFICES ASSUME NEW x \in 0..m PROVE g[x] = IF x = 0 THEN <<>> ELSE g[x - 1] \o lists[x]
    OBVIOUS
  <2>1. \A y \in 0..(m - 1) : f[y] = IF y = 0 THEN <<>> ELSE f[y - 1] \o lists[y]
    BY <1>4 DEF IsJoin
  <2>2. CASE x = m
    <3>1. g[m - 1] = f[m - 1] BY <1>3, <1>6
    <3>. QED BY <1>2, <1>5, <1>6, <2>2, <3>1
  <2>3. CASE x # m /\ x = 0
    <3>1. f[0] = <<>> BY <1>3, <2>1
    <3>. QED BY <1>6, <2>3, <3>1
  <2>4. CASE x # m /\ x # 0
    <3>1. x \in 0..(m - 1) /\ x - 1 \in 0..m /\ x - 1 # m BY <1>3, <2>4
    <3>2. g[x] = f[x] /\ g[x - 1] = f[x - 1] BY <1>6, <2>4, <3>1
    <3>. QED BY <2>1, <2>4, <3>1, <3>2
  <2>. QED BY <2>2, <2>3, <2>4
<1>8. g = [x \in 0..m |-> IF x = 0 THEN <<>> ELSE g[x - 1] \o lists[x]] BY <1>6, <1>7
<1>9. IsJoin(lists, m, g) BY <1>8 DEF IsJoin
<1>. QED BY <1>1, <1>9

\* Lists of things of X join to a list of things of X.
LEMMA JoinedIn ==
  ASSUME NEW X, NEW n \in Nat, NEW lists \in [1..n -> Seq(X)]
  PROVE  E!Joined(lists) \in Seq(X)
<1>1. Len(lists) = n OBVIOUS
<1>2. PICK f : f = CHOOSE upTo : IsJoin(lists, n, upTo) OBVIOUS
<1>3. E!Joined(lists) = f[n] BY <1>1, <1>2 DEF E!Joined, IsJoin
<1>4. IsJoin(lists, n, f) BY <1>2, JoinExists
<1>5. \A m \in 0..n : f[m] = IF m = 0 THEN <<>> ELSE f[m - 1] \o lists[m] BY <1>4 DEF IsJoin
<1>. DEFINE Bad == {m \in Nat : m <= n /\ f[m] \notin Seq(X)}
<1>. SUFFICES ASSUME Bad # {} PROVE FALSE BY <1>3
<1>6. PICK m \in Bad : \A b \in Bad : m <= b BY LeastExists
<1>7. m \in Nat /\ m <= n /\ f[m] \notin Seq(X) BY <1>6
<1>8. m \in 0..n BY <1>7
<1>9. m # 0
  <2>. SUFFICES ASSUME m = 0 PROVE FALSE OBVIOUS
  <2>1. f[0] = <<>> BY <1>5, <1>8
  <2>2. <<>> \in Seq(X) OBVIOUS
  <2>. QED BY <1>7, <2>1, <2>2
<1>10. m - 1 \in Nat /\ m - 1 < m /\ m - 1 <= n /\ m \in 1..n BY <1>7, <1>9
<1>11. m - 1 \notin Bad
  <2>. SUFFICES ASSUME m - 1 \in Bad PROVE FALSE OBVIOUS
  <2>1. m <= m - 1 BY <1>6
  <2>. QED BY <1>7, <2>1
<1>12. f[m - 1] \in Seq(X) BY <1>10, <1>11
<1>. HIDE DEF Bad
<1>13. f[m] = f[m - 1] \o lists[m] BY <1>5, <1>8, <1>9
<1>14. lists[m] \in Seq(X) BY <1>10
<1>15. PICK y \in Seq(X), z \in Seq(X) : y = f[m - 1] /\ z = lists[m] BY <1>12, <1>14
<1>16. y \o z \in Seq(X) OBVIOUS
<1>. QED BY <1>7, <1>13, <1>15, <1>16

\* The layers with an id of these scopes and names.
LayersOf(S, N) == {[id |-> <<s, n>>, blob |-> b] : s \in S, n \in N, b \in E!Blob}

\* A profile's or a binding's layer is one or none.
LEMMA LayerShape ==
  ASSUME NEW S, NEW N, NEW s \in S, NEW n \in N, NEW b \in E!Blob,
         NEW x, x = E!Layer(<<s, n>>, b)
  PROVE  x \in Seq(LayersOf(S, N)) /\ (b = E!Empty => x = <<>>)
         /\ (b # E!Empty => Len(x) = 1 /\ x[1].id = <<s, n>> /\ x[1].blob = b)
         /\ Len(x) <= 1
<1>1. b = E!Empty => x = <<>> BY DEF E!Layer
<1>2. b # E!Empty => x = <<[id |-> <<s, n>>, blob |-> b]>> BY DEF E!Layer
<1>3. [id |-> <<s, n>>, blob |-> b] \in LayersOf(S, N) BY DEF LayersOf
<1>4. PICK e \in LayersOf(S, N) : e = [id |-> <<s, n>>, blob |-> b] BY <1>3
<1>5. b # E!Empty => x = <<e>> BY <1>2, <1>4
<1>6. <<e>> \in Seq(LayersOf(S, N)) /\ Len(<<e>>) = 1 OBVIOUS
<1>7. <<>> \in Seq(LayersOf(S, N)) /\ Len(<<>>) = 0 OBVIOUS
<1>8. CASE b = E!Empty BY <1>1, <1>7, <1>8
<1>9. CASE b # E!Empty
  <2>1. x \in Seq(LayersOf(S, N)) BY <1>5, <1>6, <1>9
  <2>2. Len(x) = 1 BY <1>5, <1>6, <1>9
  <2>3. Len(x) = 1 /\ x[1] = e BY <1>5, <1>6, <1>9
  <2>4. e.id = <<s, n>> /\ e.blob = b BY <1>4
  <2>5. x[1].id = <<s, n>> /\ x[1].blob = b BY <2>3, <2>4
  <2>6. b = E!Empty => x = <<>> BY <1>9
  <2>7. Len(x) <= 1 BY <2>2
  <2>8. b # E!Empty => Len(x) = 1 /\ x[1].id = <<s, n>> /\ x[1].blob = b BY <2>3, <2>5
  <2>. QED BY <2>1, <2>6, <2>7, <2>8
<1>. QED BY <1>8, <1>9

\* Every layer of LayersOf has its parts.
LEMMA LayerParts ==
  ASSUME NEW S, NEW N, NEW x \in LayersOf(S, N)
  PROVE  x.id[1] \in S /\ x.id[2] \in N /\ x.id = <<x.id[1], x.id[2]>> /\ x.blob \in E!Blob
BY DEF LayersOf

\* The layer of a bound profile: none of one that is not stored, one of a stored
\* one that says anything.
LEMMA ProfileLayerShape ==
  ASSUME NEW w \in E!World, NEW S, NEW s \in S, NEW p, NEW x, x = E!ProfileLayer(w, s, p),
         NEW N, p \in Profiles => p \in N
  PROVE  x \in Seq(LayersOf(S, N)) /\ Len(x) <= 1
         /\ (p \notin DOMAIN w.stored => x = <<>>)
         /\ (p \in DOMAIN w.stored /\ w.stored[p] # E!Empty =>
               Len(x) = 1 /\ x[1].id = <<s, p>>)
<1>1. w.stored \in UNION {[Q -> E!Blob] : Q \in SUBSET Profiles} BY DEF E!World
<1>2. PICK Q \in SUBSET Profiles : w.stored \in [Q -> E!Blob] BY <1>1
<1>3. CASE p \in Q
  <2>1. PICK b \in E!Blob : b = w.stored[p] BY <1>2, <1>3
  <2>2. x = E!Layer(<<s, p>>, b) BY <1>2, <1>3, <2>1 DEF E!ProfileLayer
  <2>3. /\ x \in Seq(LayersOf(S, N)) /\ Len(x) <= 1
        /\ (b # E!Empty => Len(x) = 1 /\ x[1].id = <<s, p>>)
    BY <1>2, <1>3, <2>2, LayerShape
  <2>. QED BY <1>2, <1>3, <2>1, <2>3
<1>4. CASE p \notin Q
  <2>1. x = <<>> BY <1>2, <1>4 DEF E!ProfileLayer
  <2>. QED BY <1>2, <1>4, <2>1
<1>. QED BY <1>3, <1>4

\* The places of a concatenation.
LEMMA ConcatAt ==
  ASSUME NEW X, NEW A \in Seq(X), NEW B \in Seq(X), NEW C, C = A \o B
  PROVE  /\ C \in Seq(X) /\ Len(C) = Len(A) + Len(B) /\ Len(A) \in Nat /\ Len(B) \in Nat
         /\ DOMAIN C = 1..(Len(A) + Len(B))
         /\ \A i \in 1..Len(A) : C[i] = A[i]
         /\ \A i \in 1..Len(B) : C[Len(A) + i] = B[i]
         /\ (Len(B) = 0 => C = A) /\ (Len(A) = 0 => C = B)
OBVIOUS

\* What is bound to a scope: its direct layer, then its profiles' unless they are
\* suppressed.
LEMMA BoundShape ==
  ASSUME NEW w \in E!World, NEW s \in E!Scopes
  PROVE  \E D, J : /\ D \in Seq(LayersOf({s}, {"direct"})) /\ Len(D) <= 1
                   /\ J \in Seq(LayersOf({s}, Profiles))
                   /\ \A p : E!Bound(w, p, s) = IF E!Suppressed(w, p) THEN D ELSE D \o J
<1>1. PICK b : b = E!ReadBinding(w, s) OBVIOUS
<1>2. b.direct \in E!Blob /\ b.profiles \in Seq(Profiles)
  <2>1. w.bound[s] \in E!Binding BY DEF E!World
  <2>2. E!Empty \in E!Blob BY DEF E!Empty, E!Blob
  <2>3. <<>> \in Seq(Profiles) OBVIOUS
  <2>4. E!Unbound.direct \in E!Blob /\ E!Unbound.profiles \in Seq(Profiles)
    BY <2>2, <2>3 DEF E!Unbound
  <2>5. w.bound[s].direct \in E!Blob /\ w.bound[s].profiles \in Seq(Profiles)
    BY <2>1 DEF E!Binding
  <2>. QED BY <1>1, <2>4, <2>5 DEF E!ReadBinding
<1>3. PICK D : D = E!Layer(<<s, "direct">>, b.direct) OBVIOUS
<1>4. PICK x \in E!Blob : x = b.direct BY <1>2
<1>5. D \in Seq(LayersOf({s}, {"direct"})) /\ Len(D) <= 1
  <2>1. PICK S : S = {s} OBVIOUS
  <2>2. PICK n : n = "direct" OBVIOUS
  <2>3. PICK N : N = {"direct"} OBVIOUS
  <2>4. s \in S /\ n \in N BY <2>1, <2>2, <2>3
  <2>5. D = E!Layer(<<s, n>>, x) BY <1>3, <1>4, <2>2
  <2>6. D \in Seq(LayersOf(S, N)) /\ Len(D) <= 1 BY <2>4, <2>5, LayerShape
  <2>. QED BY <2>1, <2>3, <2>6
<1>6. PICK n \in Nat : n = Len(b.profiles) /\ DOMAIN b.profiles = 1..n BY <1>2
<1>7. PICK lists : lists = [i \in 1..n |-> E!ProfileLayer(w, s, b.profiles[i])] OBVIOUS
<1>8. lists \in [1..n -> Seq(LayersOf({s}, Profiles))]
  <2>1. \A i \in 1..n : lists[i] \in Seq(LayersOf({s}, Profiles)) BY <1>7, ProfileLayerShape
  <2>. QED BY <1>7, <2>1
<1>9. PICK J : J = E!Joined(lists) OBVIOUS
<1>10. J \in Seq(LayersOf({s}, Profiles)) BY <1>8, <1>9, JoinedIn
<1>11. \A p : E!Bound(w, p, s) = D \o (IF E!Suppressed(w, p) THEN <<>> ELSE J)
  BY <1>1, <1>3, <1>6, <1>7, <1>9 DEF E!Bound
<1>12. D \o <<>> = D BY <1>5
<1>13. \A p : E!Bound(w, p, s) = IF E!Suppressed(w, p) THEN D ELSE D \o J BY <1>11, <1>12
<1>. QED BY <1>5, <1>10, <1>13

\* The profile a request names, if it is applied: one that it may.
LEMMA RequestShape ==
  ASSUME NEW w \in E!World, NEW p, NEW Y, Y = E!RequestLayer(w, p)
  PROVE  /\ Y \in Seq(LayersOf({"request"}, {p})) /\ Len(Y) <= 1
         /\ Y # <<>> => p \in E!Offered(w) /\ p \in Profiles /\ E!MayName(w)
         /\ /\ p \in E!Offered(w) /\ p \in Profiles /\ ~E!Suppressed(w, p)
            /\ w.stored[p] # E!Empty
            => Len(Y) = 1 /\ Y[1].id = <<"request", p>>
<1>1. PICK x : x = E!ProfileLayer(w, "request", p) OBVIOUS
<1>2. x \in Seq(LayersOf({"request"}, {p})) /\ Len(x) <= 1
      /\ (p \notin DOMAIN w.stored => x = <<>>)
      /\ (p \in DOMAIN w.stored /\ w.stored[p] # E!Empty =>
            Len(x) = 1 /\ x[1].id = <<"request", p>>)
  BY <1>1, ProfileLayerShape
<1>3. PICK taken \in BOOLEAN :
        taken <=> /\ p \in Profiles /\ E!MayName(w) /\ E!Permits(w, p) /\ p \notin w.hidden
                  /\ ~E!Suppressed(w, p)
  OBVIOUS
<1>4. Y = IF taken THEN x ELSE <<>> BY <1>1, <1>3 DEF E!RequestLayer
<1>5. <<>> \in Seq(LayersOf({"request"}, {p})) /\ Len(<<>>) <= 1 OBVIOUS
<1>6. Y \in Seq(LayersOf({"request"}, {p})) /\ Len(Y) <= 1 BY <1>2, <1>4, <1>5
<1>7. Y # <<>> => taken /\ p \in DOMAIN w.stored BY <1>2, <1>4
<1>8. Y # <<>> => p \in E!Offered(w) /\ p \in Profiles /\ E!MayName(w)
  BY <1>3, <1>7 DEF E!Offered
<1>9. p \in E!Offered(w) /\ p \in Profiles /\ ~E!Suppressed(w, p) => taken /\ p \in DOMAIN w.stored
  BY <1>3 DEF E!Offered
<1>. QED BY <1>2, <1>4, <1>6, <1>8, <1>9

\* A list of things of X is one of more things.
LEMMA SeqGrows ==
  ASSUME NEW X, NEW Z, X \subseteq Z, NEW A \in Seq(X) PROVE A \in Seq(Z)
<1>1. PICK n \in Nat : n = Len(A) /\ A \in [1..n -> X] OBVIOUS
<1>2. A \in [1..n -> Z] BY <1>1
<1>. QED BY <1>2

BoundLayer == LayersOf(E!Scopes, Profiles \cup {"direct"})

\* The two scopes' layers, as what is direct and what is of profiles.
ScopeLayers(d, j, e, i) ==
  /\ d \in Seq(BoundLayer) /\ Len(d) <= 1 /\ e \in Seq(BoundLayer) /\ Len(e) <= 1
  /\ j \in Seq(BoundLayer) /\ i \in Seq(BoundLayer)
  /\ \A n \in 1..Len(j) : j[n].id[2] \in Profiles
  /\ \A n \in 1..Len(i) : i[n].id[2] \in Profiles

\* The layers of a request, as the lists of its two scopes: with the profiles left
\* out only the direct ones, and the request's own last either way.
LEMMA LayersBound ==
  ASSUME NEW w \in E!World
  PROVE  \E d, j, e, i :
           /\ ScopeLayers(d, j, e, i)
           /\ \A p : E!Suppressed(w, p) => E!Layers(w, p) = (d \o e) \o E!RequestLayer(w, p)
           /\ \A p : ~E!Suppressed(w, p) =>
                E!Layers(w, p) = ((d \o j) \o (e \o i)) \o E!RequestLayer(w, p)
<1>1. "key" \in E!Scopes /\ "user" \in E!Scopes BY DEF E!Scopes
<1>2. PICK d, j : /\ d \in Seq(LayersOf({"key"}, {"direct"})) /\ Len(d) <= 1
                  /\ j \in Seq(LayersOf({"key"}, Profiles))
                  /\ \A p : E!Bound(w, p, "key") = IF E!Suppressed(w, p) THEN d ELSE d \o j
  BY <1>1, BoundShape
<1>3. PICK e, i : /\ e \in Seq(LayersOf({"user"}, {"direct"})) /\ Len(e) <= 1
                  /\ i \in Seq(LayersOf({"user"}, Profiles))
                  /\ \A p : E!Bound(w, p, "user") = IF E!Suppressed(w, p) THEN e ELSE e \o i
  BY <1>1, BoundShape
<1>4. \A s \in E!Scopes : /\ LayersOf({s}, {"direct"}) \subseteq BoundLayer
                          /\ LayersOf({s}, Profiles) \subseteq BoundLayer
  BY DEF LayersOf, BoundLayer
<1>5. d \in Seq(BoundLayer) /\ e \in Seq(BoundLayer) /\ j \in Seq(BoundLayer) /\ i \in Seq(BoundLayer)
  BY <1>1, <1>2, <1>3, <1>4, SeqGrows
<1>6. \A n \in 1..Len(j) : j[n].id[2] \in Profiles
  <2>1. \A n \in 1..Len(j) : j[n] \in LayersOf({"key"}, Profiles) BY <1>2
  <2>. QED BY <2>1, LayerParts
<1>7. \A n \in 1..Len(i) : i[n].id[2] \in Profiles
  <2>1. \A n \in 1..Len(i) : i[n] \in LayersOf({"user"}, Profiles) BY <1>3
  <2>. QED BY <2>1, LayerParts
<1>8. \A p : E!Suppressed(w, p) => E!Layers(w, p) = (d \o e) \o E!RequestLayer(w, p)
  BY <1>2, <1>3 DEF E!Layers
<1>9. \A p : ~E!Suppressed(w, p) =>
                E!Layers(w, p) = ((d \o j) \o (e \o i)) \o E!RequestLayer(w, p)
  BY <1>2, <1>3 DEF E!Layers
<1>10. ScopeLayers(d, j, e, i) BY <1>2, <1>3, <1>5, <1>6, <1>7 DEF ScopeLayers
<1>. QED BY <1>8, <1>9, <1>10

\* A request that is not opted out has its caller's layers and at most its own.
LEMMA LayersGiven ==
  ASSUME NEW w \in E!World, NEW p, p = E!OptOut => ~E!MayName(w)
  PROVE  /\ E!Layers(w, E!Unnamed) \in Seq(BoundLayer)
         /\ E!Layers(w, p) = E!Layers(w, E!Unnamed) \o E!RequestLayer(w, p)
<1>. PICK pl : pl = E!Layers(w, E!Unnamed) OBVIOUS
<1>. PICK gl : gl = E!Layers(w, p) OBVIOUS
<1>1. E!Unnamed \notin Profiles /\ E!Unnamed # E!OptOut
  BY OverridesAssumption DEF E!Unnamed, E!OptOut
<1>2. E!RequestLayer(w, E!Unnamed) = <<>> BY <1>1 DEF E!RequestLayer
<1>3. E!Suppressed(w, p) <=> E!Suppressed(w, E!Unnamed) BY <1>1 DEF E!Suppressed
<1>4. PICK d, j, e, i :
           /\ ScopeLayers(d, j, e, i)
           /\ \A q : E!Suppressed(w, q) => E!Layers(w, q) = (d \o e) \o E!RequestLayer(w, q)
           /\ \A q : ~E!Suppressed(w, q) =>
                E!Layers(w, q) = ((d \o j) \o (e \o i)) \o E!RequestLayer(w, q)
  BY LayersBound
<1>5. PICK x : x = IF E!Suppressed(w, p) THEN d \o e ELSE (d \o j) \o (e \o i) OBVIOUS
<1>6. d \o e \in Seq(BoundLayer) /\ (d \o j) \o (e \o i) \in Seq(BoundLayer)
  <2>1. d \o e \in Seq(BoundLayer) /\ d \o j \in Seq(BoundLayer) /\ e \o i \in Seq(BoundLayer)
    BY <1>4 DEF ScopeLayers
  <2>2. PICK y \in Seq(BoundLayer), z \in Seq(BoundLayer) : y = d \o j /\ z = e \o i BY <2>1
  <2>3. y \o z \in Seq(BoundLayer) OBVIOUS
  <2>. QED BY <2>1, <2>2, <2>3
<1>7. x \in Seq(BoundLayer) BY <1>5, <1>6
<1>8. gl = x \o E!RequestLayer(w, p) BY <1>4, <1>5
<1>9. pl = x \o E!RequestLayer(w, E!Unnamed) BY <1>3, <1>4, <1>5
<1>10. pl = x BY <1>2, <1>7, <1>9
<1>. QED BY <1>7, <1>8, <1>10

\* A request opted out has the direct ones of its caller's layers.
LEMMA LayersOptedOut ==
  ASSUME NEW w \in E!World, E!MayName(w)
  PROVE  \E d, j, e, i :
           /\ ScopeLayers(d, j, e, i)
           /\ E!Layers(w, E!OptOut) = d \o e
           /\ \/ E!Layers(w, E!Unnamed) = d \o e
              \/ E!Layers(w, E!Unnamed) = (d \o j) \o (e \o i)
<1>1. E!Unnamed \notin Profiles /\ E!OptOut \notin Profiles
  BY OverridesAssumption DEF E!Unnamed, E!OptOut
<1>2. E!RequestLayer(w, E!Unnamed) = <<>> /\ E!RequestLayer(w, E!OptOut) = <<>>
  BY <1>1 DEF E!RequestLayer
<1>3. E!Suppressed(w, E!OptOut) BY DEF E!Suppressed
<1>4. PICK d, j, e, i :
           /\ ScopeLayers(d, j, e, i)
           /\ \A q : E!Suppressed(w, q) => E!Layers(w, q) = (d \o e) \o E!RequestLayer(w, q)
           /\ \A q : ~E!Suppressed(w, q) =>
                E!Layers(w, q) = ((d \o j) \o (e \o i)) \o E!RequestLayer(w, q)
  BY LayersBound
<1>5. PICK x \in Seq(BoundLayer), y \in Seq(BoundLayer) : x = d \o e /\ y = (d \o j) \o (e \o i)
  <2>1. d \o e \in Seq(BoundLayer) /\ d \o j \in Seq(BoundLayer) /\ e \o i \in Seq(BoundLayer)
    BY <1>4 DEF ScopeLayers
  <2>2. PICK z \in Seq(BoundLayer), v \in Seq(BoundLayer) : z = d \o j /\ v = e \o i BY <2>1
  <2>3. z \o v \in Seq(BoundLayer) OBVIOUS
  <2>. QED BY <2>1, <2>2, <2>3
<1>6. x \o <<>> = x /\ y \o <<>> = y BY <1>5
<1>7. E!Layers(w, E!OptOut) = x BY <1>2, <1>3, <1>4, <1>5, <1>6
<1>8. E!Layers(w, E!Unnamed) = x \/ E!Layers(w, E!Unnamed) = y BY <1>2, <1>4, <1>5, <1>6
<1>. QED BY <1>4, <1>5, <1>7, <1>8, ZenonT(60)

\* The layer that owns a field is the first with an opinion on it.
LEMMA WinnerIs ==
  ASSUME NEW X, NEW ls \in Seq(X), NEW f
  PROVE  /\ (\E i \in 1..Len(ls) : E!OpinionOf(ls[i], f)) =>
              /\ E!Winner(ls, f) \in 1..Len(ls) /\ E!OpinionOf(ls[E!Winner(ls, f)], f)
              /\ \A j \in 1..(E!Winner(ls, f) - 1) : ~E!OpinionOf(ls[j], f)
         /\ ~(\E i \in 1..Len(ls) : E!OpinionOf(ls[i], f)) => E!Winner(ls, f) = 0
         /\ E!Winner(ls, f) \in 0..Len(ls)
<1>1. Len(ls) \in Nat /\ DOMAIN ls = 1..Len(ls) OBVIOUS
<1>2. PICK P : P = {i \in DOMAIN ls : E!OpinionOf(ls[i], f)} OBVIOUS
<1>3. P \subseteq Nat BY <1>1, <1>2
<1>4. PICK v : v = E!Winner(ls, f) OBVIOUS
<1>5. v = E!First(P) BY <1>2, <1>4 DEF E!Winner
<1>6. P # {} => v \in P /\ \A j \in P : v <= j BY <1>3, <1>5, FirstIn
<1>7. P = {} => v = 0 BY <1>3, <1>5, FirstIn
<1>8. CASE P = {} BY <1>1, <1>2, <1>4, <1>7, <1>8
<1>9. CASE P # {}
  <2>1. v \in 1..Len(ls) /\ E!OpinionOf(ls[v], f) BY <1>1, <1>2, <1>6, <1>9
  <2>2. \A j \in 1..(v - 1) : j \in 1..Len(ls) /\ ~(v <= j) BY <1>1, <2>1
  <2>3. \A j \in 1..(v - 1) : ~E!OpinionOf(ls[j], f) BY <1>1, <1>2, <1>6, <1>9, <2>2
  <2>. QED BY <1>1, <1>4, <2>1, <2>3
<1>. QED BY <1>8, <1>9

\* The layer that decides a field is the first that has an opinion on it.
LEMMA WinnerOf ==
  ASSUME NEW X, NEW ls \in Seq(X), NEW f, NEW i \in 1..Len(ls), E!OpinionOf(ls[i], f),
         \A j \in 1..(i - 1) : ~E!OpinionOf(ls[j], f)
  PROVE  E!Winner(ls, f) = i
<1>1. PICK v : v = E!Winner(ls, f) OBVIOUS
<1>2. Len(ls) \in Nat OBVIOUS
<1>3. v \in 1..Len(ls) /\ E!OpinionOf(ls[v], f) /\ \A j \in 1..(v - 1) : ~E!OpinionOf(ls[j], f)
  BY <1>1, WinnerIs
<1>4. ~(v < i) /\ ~(i < v) BY <1>2, <1>3
<1>. QED BY <1>1, <1>2, <1>3, <1>4

\* The layers C begin with the layers A.
Begins(A, C) ==
  /\ Len(A) \in Nat /\ Len(C) \in Nat /\ Len(A) <= Len(C)
  /\ \A i \in 1..Len(A) : C[i] = A[i]

\* The layers that follow others own nothing that those have an opinion on.
LEMMA OwnerKept ==
  ASSUME NEW X, NEW A \in Seq(X), NEW C \in Seq(X), Begins(A, C), NEW f,
         \E i \in 1..Len(A) : E!OpinionOf(A[i], f)
  PROVE  /\ E!Winner(A, f) \in 1..Len(A) /\ E!Winner(C, f) = E!Winner(A, f)
         /\ C[E!Winner(C, f)] = A[E!Winner(A, f)]
<1>1. PICK v : v = E!Winner(A, f) OBVIOUS
<1>2. v \in 1..Len(A) /\ E!OpinionOf(A[v], f) /\ \A j \in 1..(v - 1) : ~E!OpinionOf(A[j], f)
  BY <1>1, WinnerIs
<1>3. v \in 1..Len(C) /\ C[v] = A[v] /\ \A j \in 1..(v - 1) : C[j] = A[j]
  BY <1>2 DEF Begins
<1>4. E!Winner(C, f) = v BY <1>2, <1>3, WinnerOf
<1>. QED BY <1>1, <1>2, <1>3, <1>4

\* Of the layers ls, the n-th is the first with an opinion on f.
FirstOpinion(ls, f, n) ==
  /\ n \in 1..Len(ls) /\ E!OpinionOf(ls[n], f)
  /\ \A m \in 1..(n - 1) : ~E!OpinionOf(ls[m], f)

\* The layers of the two scopes, with and without their profiles.
WithProfiles(d, j, e, i) == (d \o j) \o (e \o i)
DirectOnes(d, e) == d \o e

\* The first opinion of the joined layers, when a direct one has it, is the first
\* of the direct ones.
LEMMA DirectOwnerStays ==
  ASSUME NEW d, NEW j, NEW e, NEW i, ScopeLayers(d, j, e, i),
         NEW f, NEW n, FirstOpinion(WithProfiles(d, j, e, i), f, n),
         WithProfiles(d, j, e, i)[n].id[2] = "direct"
  PROVE  /\ E!Winner(WithProfiles(d, j, e, i), f) = n /\ E!Winner(DirectOnes(d, e), f) \in 1..Len(DirectOnes(d, e))
         /\ DirectOnes(d, e)[E!Winner(DirectOnes(d, e), f)] = WithProfiles(d, j, e, i)[n]
<1>1. PICK gl : gl = DirectOnes(d, e) OBVIOUS
<1>2. PICK pl : pl = WithProfiles(d, j, e, i) OBVIOUS
<1>3. "direct" \notin Profiles BY OverridesAssumption
<1>4. /\ d \in Seq(BoundLayer) /\ e \in Seq(BoundLayer) /\ j \in Seq(BoundLayer) /\ i \in Seq(BoundLayer)
      /\ Len(d) \in Nat /\ Len(e) \in Nat /\ Len(j) \in Nat /\ Len(i) \in Nat
      /\ Len(d) <= 1 /\ Len(e) <= 1
  BY DEF ScopeLayers
<1>5. PICK nd \in Nat, nj \in Nat, ne \in Nat, ni \in Nat :
        nd = Len(d) /\ nj = Len(j) /\ ne = Len(e) /\ ni = Len(i)
  BY <1>4
<1>6. nd <= 1 /\ ne <= 1 BY <1>4, <1>5
<1>7. gl \in Seq(BoundLayer) /\ Len(gl) = nd + ne
      /\ (\A x \in 1..nd : gl[x] = d[x]) /\ (\A x \in 1..ne : gl[nd + x] = e[x])
  BY <1>4, <1>5, <1>1, ConcatAt DEF DirectOnes
<1>8. PICK a : a = d \o j OBVIOUS
<1>9. PICK b : b = e \o i OBVIOUS
<1>10. a \in Seq(BoundLayer) /\ Len(a) = nd + nj
       /\ (\A x \in 1..nd : a[x] = d[x]) /\ (\A x \in 1..nj : a[nd + x] = j[x])
  BY <1>4, <1>5, <1>8, ConcatAt
<1>11. b \in Seq(BoundLayer) /\ Len(b) = ne + ni
       /\ (\A x \in 1..ne : b[x] = e[x]) /\ (\A x \in 1..ni : b[ne + x] = i[x])
  BY <1>4, <1>5, <1>9, ConcatAt
<1>12. PICK c : c = a \o b OBVIOUS
<1>13. a \in Seq(BoundLayer) /\ b \in Seq(BoundLayer) BY <1>10, <1>11
<1>14. Len(a) = nd + nj /\ Len(b) = ne + ni /\ Len(gl) = nd + ne BY <1>7, <1>10, <1>11
<1>15. c \in Seq(BoundLayer) /\ Len(c) = Len(a) + Len(b)
       /\ (\A x \in 1..Len(a) : c[x] = a[x]) /\ (\A x \in 1..Len(b) : c[Len(a) + x] = b[x])
  BY <1>13, <1>12, ConcatAt
<1>16. c \in Seq(BoundLayer) /\ Len(c) = nd + nj + (ne + ni)
       /\ (\A x \in 1..(nd + nj) : c[x] = a[x]) /\ (\A x \in 1..(ne + ni) : c[(nd + nj) + x] = b[x])
  BY <1>14, <1>15
<1>17. pl = c BY <1>8, <1>9, <1>12, <1>2 DEF WithProfiles
<1>18. n \in 1..Len(c) /\ E!OpinionOf(c[n], f) /\ c[n].id[2] = "direct"
       /\ (\A m \in 1..(n - 1) : ~E!OpinionOf(c[m], f))
  BY <1>17, <1>2 DEF FirstOpinion
<1>19. E!Winner(c, f) = n BY <1>16, <1>18, WinnerOf
<1>20. n \in Nat /\ 1 <= n /\ n <= nd + nj + (ne + ni)
  BY <1>4, <1>10, <1>11, <1>16, <1>18
<1>21. \E v \in 1..Len(gl) : gl[v] = c[n] /\ \A m \in 1..(v - 1) : ~E!OpinionOf(gl[m], f)
  <2>1. CASE n <= nd
    <3>1. n \in 1..nd /\ n \in 1..(nd + nj) /\ n \in 1..(nd + ne) BY <1>20, <2>1
    <3>2. c[n] = d[n] /\ gl[n] = d[n] BY <1>7, <1>10, <1>16, <3>1
    <3>3. n = 1 BY <1>6, <3>1
    <3>4. \A m \in 1..(n - 1) : ~E!OpinionOf(gl[m], f) BY <3>3
    <3>. QED BY <1>14, <3>1, <3>2, <3>4
  <2>2. CASE nd < n /\ n <= nd + nj
    <3>1. PICK x : x = n - nd OBVIOUS
    <3>2. x \in 1..nj /\ n = nd + x /\ n \in 1..(nd + nj) BY <1>20, <2>2, <3>1
    <3>3. c[n] = j[x] BY <1>10, <1>16, <3>2
    <3>. QED BY <1>3, <1>5, <1>18, <3>2, <3>3 DEF ScopeLayers
  <2>3. CASE nd + nj < n /\ n <= nd + nj + ne
    <3>1. PICK x : x = n - (nd + nj) OBVIOUS
    <3>2. x \in 1..ne /\ n = (nd + nj) + x /\ x \in 1..(ne + ni) BY <1>20, <2>3, <3>1
    <3>3. c[n] = e[x] BY <1>11, <1>16, <3>2
    <3>4. x = 1 /\ ne = 1 BY <1>6, <3>2
    <3>5. PICK v : v = nd + 1 OBVIOUS
    <3>6. v \in 1..(nd + ne) /\ v - 1 = nd BY <3>4, <3>5
    <3>7. gl[v] = c[n] BY <1>7, <3>2, <3>3, <3>4, <3>5
    <3>8. ASSUME NEW m \in 1..nd PROVE ~E!OpinionOf(gl[m], f)
      <4>1. m \in 1..(nd + nj) /\ m \in 1..(n - 1) BY <1>20, <3>2
      <4>2. c[m] = d[m] /\ gl[m] = d[m] BY <1>7, <1>10, <1>16, <4>1
      <4>. QED BY <1>18, <4>1, <4>2
    <3>. QED BY <1>14, <3>6, <3>7, <3>8
  <2>4. CASE nd + nj + ne < n
    <3>1. PICK x : x = n - (nd + nj) - ne OBVIOUS
    <3>2. x \in Int /\ n = nd + nj + ne + x BY <1>20, <3>1
    <3>3. 1 <= x /\ x <= ni BY <1>20, <2>4, <3>2
    <3>4. x \in 1..ni /\ n = (nd + nj) + (ne + x) /\ ne + x \in 1..(ne + ni)
      BY <3>2, <3>3
    <3>5. c[n] = i[x] BY <1>11, <1>16, <3>4
    <3>. QED BY <1>3, <1>5, <1>18, <3>4, <3>5 DEF ScopeLayers
  <2>5. n <= nd \/ nd < n BY <1>20
  <2>6. n <= nd + nj \/ nd + nj < n BY <1>20
  <2>7. n <= nd + nj + ne \/ nd + nj + ne < n BY <1>20
  <2>. QED BY <2>1, <2>2, <2>3, <2>4, <2>5, <2>6, <2>7
<1>22. PICK v \in 1..Len(gl) : gl[v] = c[n] /\ \A m \in 1..(v - 1) : ~E!OpinionOf(gl[m], f)
  BY <1>21
<1>23. E!Winner(gl, f) = v BY <1>7, <1>18, <1>22, WinnerOf
<1>. QED BY <1>17, <1>19, <1>22, <1>23, <1>1, <1>2

\* Opting out keeps the owner of a field whose first opinion is a direct one.
LEMMA DirectOwnerKept ==
  ASSUME NEW w \in E!World, E!MayName(w),
         NEW pl, pl = E!Layers(w, E!Unnamed), NEW gl, gl = E!Layers(w, E!OptOut),
         NEW f, NEW n, FirstOpinion(pl, f, n), pl[n].id[2] = "direct"
  PROVE  E!Winner(pl, f) = n /\ E!Winner(gl, f) \in 1..Len(gl) /\ gl[E!Winner(gl, f)] = pl[n]
<1>1. PICK d, j, e, i :
           /\ ScopeLayers(d, j, e, i)
           /\ E!Layers(w, E!OptOut) = DirectOnes(d, e)
           /\ \/ E!Layers(w, E!Unnamed) = DirectOnes(d, e)
              \/ E!Layers(w, E!Unnamed) = WithProfiles(d, j, e, i)
  BY LayersOptedOut DEF WithProfiles, DirectOnes
<1>2. CASE pl = gl
  <2>1. gl \in Seq(BoundLayer) BY <1>1, ConcatAt DEF ScopeLayers, DirectOnes
  <2>2. E!Winner(gl, f) = n BY <1>2, <2>1, WinnerOf DEF FirstOpinion
  <2>. QED BY <1>2, <2>2 DEF FirstOpinion
<1>3. CASE pl = WithProfiles(d, j, e, i)
  <2>1. ScopeLayers(d, j, e, i) /\ gl = DirectOnes(d, e) BY <1>1
  <2>2. FirstOpinion(WithProfiles(d, j, e, i), f, n) /\ WithProfiles(d, j, e, i)[n].id[2] = "direct"
    BY <1>3
  <2>3. /\ E!Winner(WithProfiles(d, j, e, i), f) = n /\ E!Winner(DirectOnes(d, e), f) \in 1..Len(DirectOnes(d, e))
        /\ DirectOnes(d, e)[E!Winner(DirectOnes(d, e), f)] = WithProfiles(d, j, e, i)[n]
    BY <2>1, <2>2, DirectOwnerStays
  <2>. QED BY <1>3, <2>1, <2>3
<1>. QED BY <1>1, <1>2, <1>3

\* What a resolution makes of the layers: a field's value and lock are its owner's.
ResolvedAs(w, p, ls, r) ==
  /\ r.layers = ls
  /\ \A f \in Fields : f \in DOMAIN r.values <=>
       E!Winner(ls, f) > 0 /\ f \in ls[E!Winner(ls, f)].blob.sets
  /\ \A f \in DOMAIN r.values : r.values[f] = ls[E!Winner(ls, f)].id
  /\ \A f \in Fields : f \in r.locked <=>
       w.unread # {} \/ (E!Winner(ls, f) > 0 /\ f \in ls[E!Winner(ls, f)].blob.locks)
  /\ r.locked \subseteq Fields
  /\ r.refused = IF E!MayOverride(w) THEN r.locked ELSE Fields
  /\ r.applied = IF \E i \in DOMAIN ls : ls[i].id = <<"request", p>> THEN {p} ELSE {}

\* What a request resolves to, part by part.
LEMMA ResolveOf ==
  ASSUME NEW w, NEW p PROVE ResolvedAs(w, p, E!Layers(w, p), E!Resolve(w, p))
<1>. PICK ls : ls = E!Layers(w, p) OBVIOUS
<1>. PICK r : r = E!Resolve(w, p) OBVIOUS
<1>1. PICK withValue :
  withValue = {f \in Fields : E!Winner(ls, f) > 0 /\ f \in ls[E!Winner(ls, f)].blob.sets}
  OBVIOUS
<1>2. r.layers = ls BY DEF E!Resolve
<1>3. r.values = [f \in withValue |-> ls[E!Winner(ls, f)].id] BY <1>1 DEF E!Resolve
<1>4. r.locked = IF w.unread # {} THEN Fields
                 ELSE {f \in Fields : E!Winner(ls, f) > 0 /\ f \in ls[E!Winner(ls, f)].blob.locks}
  BY DEF E!Resolve
<1>5. r.refused = IF E!MayOverride(w) THEN r.locked ELSE Fields BY DEF E!Resolve
<1>6. r.applied = IF \E i \in DOMAIN ls : ls[i].id = <<"request", p>> THEN {p} ELSE {}
  BY DEF E!Resolve
<1>7. ResolvedAs(w, p, ls, r) BY <1>1, <1>2, <1>3, <1>4, <1>5, <1>6 DEF ResolvedAs
<1>. QED BY <1>7

\* The first layer of ls that mentions the rule x.
MentionOf(ls, x) == E!First({i \in DOMAIN ls : x \in ls[i].blob.on \cup ls[i].blob.off})

\* The layers of which the rules are, the model's last.
Ruled(w, ls) ==
  IF w.model.on \cup w.model.off = {} THEN ls ELSE Append(ls, [id |-> <<"model">>, blob |-> w.model])

\* The rules left out are those the first layer to mention them turns off.
LEMMA ExcludeOf ==
  ASSUME NEW w, NEW p, NEW c, c = Ruled(w, E!Layers(w, p)), NEW x \in RuleSlugs
  PROVE  x \in E!Resolve(w, p).exclude <=>
           MentionOf(c, x) > 0 /\ x \in c[MentionOf(c, x)].blob.off
<1>1. E!Resolve(w, p).exclude =
        {y \in {z \in RuleSlugs : MentionOf(c, z) > 0} : y \in c[MentionOf(c, y)].blob.off}
  BY DEF E!Resolve, Ruled, MentionOf
<1>. QED BY <1>1

\* Layers that begin alike have the same first mention of a rule mentioned there.
LEMMA MentionKept ==
  ASSUME NEW n \in Nat, NEW A, DOMAIN A = 1..n, NEW m \in Nat, n <= m, NEW C, DOMAIN C = 1..m,
         \A i \in 1..n : C[i] = A[i], NEW x, NEW h \in 1..n, x \in A[h].blob.on \cup A[h].blob.off
  PROVE  MentionOf(C, x) = MentionOf(A, x) /\ MentionOf(A, x) \in 1..n
<1>1. PICK P : P = {i \in DOMAIN A : x \in A[i].blob.on \cup A[i].blob.off} OBVIOUS
<1>2. P \subseteq Nat /\ h \in P BY <1>1
<1>3. PICK v : v = E!First(P) OBVIOUS
<1>4. v \in P /\ \A i \in P : v <= i BY <1>2, <1>3, FirstIn
<1>5. v = MentionOf(A, x) /\ v \in 1..n BY <1>1, <1>3, <1>4 DEF MentionOf
<1>6. PICK Q : Q = {i \in DOMAIN C : x \in C[i].blob.on \cup C[i].blob.off} OBVIOUS
<1>7. Q \subseteq Nat /\ v \in Q BY <1>1, <1>4, <1>5, <1>6
<1>8. \A i \in Q : v <= i
  <2>. SUFFICES ASSUME NEW i \in Q, ~(v <= i) PROVE FALSE OBVIOUS
  <2>1. i \in 1..n BY <1>5, <1>6
  <2>2. i \in P BY <1>1, <1>6, <2>1
  <2>. QED BY <1>4, <2>2
<1>9. E!First(Q) = v BY <1>7, <1>8, FirstIs
<1>10. MentionOf(C, x) = v BY <1>6, <1>9 DEF MentionOf
<1>. QED BY <1>5, <1>10

LayersInv ==
  /\ world \in E!World
  /\ asked.profile \in Profiles \cup {E!Unnamed, E!OptOut}
  /\ asked.route \in [Fields -> E!Routes]
  /\ served # <<>> =>
       \E r \in {E!Resolve(world, asked.profile)}, q \in {E!Resolve(world, E!Unnamed)} :
         served = <<[resolved |-> r, plain |-> q,
                     used |-> [f \in Fields |-> E!Used(world, r, asked.route, f)],
                     ignored |-> E!Ignored(world, r, asked.route)]>>

\* What was served, part by part.
LEMMA ServedIs ==
  ASSUME LayersInv, served # <<>>
  PROVE  /\ E!Given = E!Resolve(world, asked.profile) /\ E!Plain = E!Resolve(world, E!Unnamed)
         /\ \A f \in Fields : served[1].used[f] = E!Used(world, E!Given, asked.route, f)
         /\ served[1].ignored = E!Ignored(world, E!Given, asked.route)
         /\ \A f \in Fields : asked.route[f] \in E!Routes
<1>1. PICK r, q : /\ r = E!Resolve(world, asked.profile) /\ q = E!Resolve(world, E!Unnamed)
                  /\ served = <<[resolved |-> r, plain |-> q,
                     used |-> [f \in Fields |-> E!Used(world, r, asked.route, f)],
                     ignored |-> E!Ignored(world, r, asked.route)]>>
  BY DEF LayersInv
<1>2. PICK x : x = [resolved |-> r, plain |-> q,
                     used |-> [f \in Fields |-> E!Used(world, r, asked.route, f)],
                     ignored |-> E!Ignored(world, r, asked.route)]
  OBVIOUS
<1>3. served[1] = x BY <1>1, <1>2
<1>4. E!Given = r /\ E!Plain = q BY <1>2, <1>3 DEF E!Given, E!Plain
<1>5. \A f \in Fields : x.used[f] = E!Used(world, r, asked.route, f) BY <1>2
<1>6. x.ignored = E!Ignored(world, r, asked.route) BY <1>2
<1>7. \A f \in Fields : asked.route[f] \in E!Routes BY DEF LayersInv
<1>. QED BY <1>1, <1>3, <1>4, <1>5, <1>6, <1>7

\* What two resolutions share where a field has the same owner.
LEMMA SameOwner ==
  ASSUME NEW w, NEW p, NEW q, NEW a, a = E!Resolve(w, p), NEW b, b = E!Resolve(w, q),
         NEW A, A = E!Layers(w, p), NEW B, B = E!Layers(w, q), NEW f \in Fields,
         E!Winner(A, f) > 0 <=> E!Winner(B, f) > 0,
         E!Winner(A, f) > 0 => A[E!Winner(A, f)] = B[E!Winner(B, f)]
  PROVE  E!CfgFor(w, a, f) = E!CfgFor(w, b, f) /\ (f \in a.locked <=> f \in b.locked)
<1>1. /\ f \in DOMAIN a.values <=> E!Winner(A, f) > 0 /\ f \in A[E!Winner(A, f)].blob.sets
      /\ f \in DOMAIN a.values => a.values[f] = A[E!Winner(A, f)].id
      /\ f \in a.locked <=> w.unread # {} \/ (E!Winner(A, f) > 0 /\ f \in A[E!Winner(A, f)].blob.locks)
  BY ResolveOf DEF ResolvedAs
<1>2. /\ f \in DOMAIN b.values <=> E!Winner(B, f) > 0 /\ f \in B[E!Winner(B, f)].blob.sets
      /\ f \in DOMAIN b.values => b.values[f] = B[E!Winner(B, f)].id
      /\ f \in b.locked <=> w.unread # {} \/ (E!Winner(B, f) > 0 /\ f \in B[E!Winner(B, f)].blob.locks)
  BY ResolveOf DEF ResolvedAs
<1>3. f \in DOMAIN a.values <=> f \in DOMAIN b.values BY <1>1, <1>2
<1>4. f \in DOMAIN a.values => a.values[f] = b.values[f] BY <1>1, <1>2, <1>3
<1>5. E!CfgFor(w, a, f) = E!CfgFor(w, b, f) BY <1>3, <1>4 DEF E!CfgFor
<1>6. f \in a.locked <=> f \in b.locked BY <1>1, <1>2
<1>. QED BY <1>5, <1>6

\* A request that may name no profile is given what its caller is given.
LEMMA NothingNamed ==
  ASSUME NEW w \in E!World, NEW p \in Profiles \cup {E!Unnamed, E!OptOut}, ~E!MayName(w)
  PROVE  E!Resolve(w, p) = E!Resolve(w, E!Unnamed) /\ E!Resolve(w, p).applied = {}
<1>1. PICK pl : pl = E!Layers(w, E!Unnamed) OBVIOUS
<1>2. PICK gl : gl = E!Layers(w, p) OBVIOUS
<1>3. pl \in Seq(BoundLayer) /\ gl = pl \o E!RequestLayer(w, p) BY <1>1, <1>2, LayersGiven
<1>4. E!RequestLayer(w, p) = <<>> BY RequestShape
<1>5. gl = pl BY <1>3, <1>4
<1>6. \A i \in DOMAIN pl : pl[i] \in BoundLayer BY <1>3
<1>7. \A i \in DOMAIN pl : pl[i].id[1] \in E!Scopes BY <1>6, LayerParts DEF BoundLayer
<1>8. \A i \in DOMAIN pl : \A q : pl[i].id # <<"request", q>> BY <1>7 DEF E!Scopes
<1>9. \A q : ~\E i \in DOMAIN pl : pl[i].id = <<"request", q>> BY <1>8
<1>10. ResolvedAs(w, p, pl, E!Resolve(w, p)) BY <1>2, <1>5, ResolveOf
<1>11. E!Resolve(w, p).applied = IF \E i \in DOMAIN pl : pl[i].id = <<"request", p>> THEN {p} ELSE {}
  BY <1>10 DEF ResolvedAs
<1>12. E!Resolve(w, p).applied = {} BY <1>9, <1>11
<1>13. E!Resolve(w, p) = E!Resolve(w, E!Unnamed) BY <1>1, <1>2, <1>5, <1>9 DEF E!Resolve
<1>. QED BY <1>12, <1>13

\* What an administrator bound has its owner whatever the request names.
LEMMA KeptOwner ==
  ASSUME LayersInv, served # <<>>, NEW A, A = E!Layers(world, E!Unnamed),
         NEW B, B = E!Layers(world, asked.profile), NEW f \in Fields,
         f \in IF E!OptedOut THEN E!SaidDirectly(A) ELSE E!SaidBy(A)
  PROVE  E!Winner(A, f) > 0 /\ E!Winner(B, f) > 0 /\ A[E!Winner(A, f)] = B[E!Winner(B, f)]
<1>1. world \in E!World BY DEF LayersInv
<1>2. E!MayName(world) \in BOOLEAN BY DEF E!MayName, E!EffectiveFlag
<1>3. CASE E!OptedOut
  <2>1. E!MayName(world) /\ B = E!Layers(world, E!OptOut) BY <1>3 DEF E!OptedOut
  <2>2. f \in E!SaidDirectly(A) BY <1>3
  <2>3. PICK n \in DOMAIN A : /\ E!Says(A[n], f) /\ A[n].id[2] = "direct"
                              /\ \A m \in 1..(n - 1) : ~E!Says(A[m], f)
    BY <2>2 DEF E!SaidDirectly
  <2>4. \A x : E!Says(x, f) <=> E!OpinionOf(x, f) BY DEF E!Says, E!OpinionOf
  <2>5. A \in Seq(BoundLayer)
    <3>1. E!Unnamed # E!OptOut BY DEF E!Unnamed, E!OptOut
    <3>. QED BY <1>1, <3>1, LayersGiven
  <2>6. n \in 1..Len(A) BY <2>3, <2>5
  <2>7. FirstOpinion(A, f, n) BY <2>3, <2>4, <2>6 DEF FirstOpinion
  <2>8. E!Winner(A, f) = n /\ E!Winner(B, f) \in 1..Len(B) /\ B[E!Winner(B, f)] = A[n]
    BY <1>1, <2>1, <2>3, <2>7, DirectOwnerKept
  <2>9. E!Winner(B, f) > 0 BY <2>8
  <2>10. E!Winner(A, f) > 0 BY <2>6, <2>8
  <2>. QED BY <2>8, <2>9, <2>10
<1>4. CASE ~E!OptedOut
  <2>1. ~(asked.profile = E!OptOut /\ E!MayName(world)) BY <1>4 DEF E!OptedOut
  <2>2. PICK x : x = E!RequestLayer(world, asked.profile) OBVIOUS
  <2>3. A \in Seq(BoundLayer) /\ B = A \o x BY <1>1, <2>1, <2>2, LayersGiven
  <2>4. x \in Seq(LayersOf({"request"}, {asked.profile})) BY <1>1, <2>2, RequestShape
  <2>5. PICK X : X = BoundLayer \cup LayersOf({"request"}, {asked.profile}) OBVIOUS
  <2>6. A \in Seq(X) /\ x \in Seq(X)
    <3>1. BoundLayer \subseteq X /\ LayersOf({"request"}, {asked.profile}) \subseteq X BY <2>5
    <3>. QED BY <2>3, <2>4, <3>1, SeqGrows
  <2>7. \E i \in 1..Len(A) : E!OpinionOf(A[i], f)
    <3>1. f \in E!SaidBy(A) BY <1>4
    <3>2. PICK i \in DOMAIN A : E!Says(A[i], f) BY <3>1 DEF E!SaidBy
    <3>3. i \in 1..Len(A) BY <2>3, <3>2
    <3>. QED BY <3>2, <3>3 DEF E!Says, E!OpinionOf
  <2>8. /\ E!Winner(A, f) \in 1..Len(A) /\ E!Winner(B, f) = E!Winner(A, f)
        /\ B[E!Winner(B, f)] = A[E!Winner(A, f)]
    <3>1. B \in Seq(X) /\ Len(B) = Len(A) + Len(x) /\ Len(A) \in Nat /\ Len(x) \in Nat
          /\ \A i \in 1..Len(A) : B[i] = A[i]
      BY <2>3, <2>6, ConcatAt
    <3>2. B \in Seq(X) /\ Begins(A, B) BY <3>1 DEF Begins
    <3>. QED BY <2>6, <2>7, <3>2, OwnerKept
  <2>. QED BY <2>8
<1>. QED BY <1>3, <1>4

\* What an administrator bound stands.
LEMMA LayersBoundStands == LayersInv => E!BoundStands
<1>. SUFFICES ASSUME LayersInv, served # <<>> PROVE E!BoundStands BY DEF E!BoundStands, E!Served
<1>1. /\ E!Given = E!Resolve(world, asked.profile) /\ E!Plain = E!Resolve(world, E!Unnamed)
      /\ \A f \in Fields : served[1].used[f] = E!Used(world, E!Given, asked.route, f)
      /\ served[1].ignored = E!Ignored(world, E!Given, asked.route)
      /\ \A f \in Fields : asked.route[f] \in E!Routes
  BY ServedIs
<1>2. world \in E!World /\ asked.profile \in Profiles \cup {E!Unnamed, E!OptOut} BY DEF LayersInv
<1>3. PICK A : A = E!Layers(world, E!Unnamed) OBVIOUS
<1>4. PICK B : B = E!Layers(world, asked.profile) OBVIOUS
<1>5. ResolvedAs(world, E!Unnamed, A, E!Plain) BY <1>1, <1>3, ResolveOf
<1>6. ResolvedAs(world, asked.profile, B, E!Given) BY <1>1, <1>4, ResolveOf
<1>7. PICK stands :
  stands = IF E!OptedOut THEN E!SaidDirectly(E!Plain.layers) ELSE E!SaidBy(E!Plain.layers)
  OBVIOUS
<1>8. E!Plain.layers = A BY <1>5 DEF ResolvedAs
<1>9. stands \subseteq Fields
  BY <1>7 DEF E!SaidDirectly, E!SaidBy
<1>10. ASSUME NEW f \in stands
       PROVE  /\ f \in Fields
              /\ E!CfgFor(world, E!Given, f) = E!CfgFor(world, E!Plain, f)
              /\ f \in E!Given.locked <=> f \in E!Plain.locked
  <2>1. f \in Fields BY <1>9
  <2>2. E!Winner(A, f) > 0 /\ E!Winner(B, f) > 0 /\ A[E!Winner(A, f)] = B[E!Winner(B, f)]
    BY <1>3, <1>4, <1>7, <1>8, <2>1, KeptOwner
  <2>. QED BY <1>1, <1>3, <1>4, <2>1, <2>2, SameOwner
<1>11. ASSUME NEW f \in stands, f \in E!Plain.locked
       PROVE  /\ served[1].used[f] = E!CfgFor(world, E!Plain, f)
              /\ asked.route[f] # "absent" => f \in served[1].ignored
  <2>1. f \in Fields /\ f \in E!Given.locked BY <1>10, <1>11
  <2>2. f \in E!Given.refused BY <1>6, <2>1 DEF ResolvedAs
  <2>3. E!Used(world, E!Given, asked.route, f) = E!CfgFor(world, E!Given, f)
    BY <2>1, <2>2 DEF E!Used
  <2>4. asked.route[f] # "absent" => f \in E!Ignored(world, E!Given, asked.route)
    BY <1>1, <2>1, <2>2 DEF E!Ignored, E!Routes
  <2>. QED BY <1>1, <1>10, <2>1, <2>3, <2>4
<1>12. ~E!MayName(world) => E!Given = E!Plain BY <1>1, <1>2, NothingNamed
<1>13. \A f \in stands : /\ E!CfgFor(world, E!Given, f) = E!CfgFor(world, E!Plain, f)
                         /\ f \in E!Plain.locked <=> f \in E!Given.locked
  BY <1>10
<1>14. \A f \in stands \cap E!Plain.locked :
            /\ served[1].used[f] = E!CfgFor(world, E!Plain, f)
            /\ asked.route[f] # "absent" => f \in served[1].ignored
  BY <1>11
<1>. QED BY <1>7, <1>12, <1>13, <1>14 DEF E!BoundStands

\* A binding that cannot be read refuses everything.
LEMMA LayersFaultRefuses == LayersInv => E!FaultRefusesAll
<1>. SUFFICES ASSUME LayersInv, served # <<>>, world.unread # {}
              PROVE  /\ E!Given = E!Plain /\ E!Given.applied = {}
                     /\ \A f \in Fields : served[1].used[f] = E!CfgFor(world, E!Plain, f)
  BY DEF E!FaultRefusesAll, E!Served
<1>1. /\ E!Given = E!Resolve(world, asked.profile) /\ E!Plain = E!Resolve(world, E!Unnamed)
      /\ \A f \in Fields : served[1].used[f] = E!Used(world, E!Given, asked.route, f)
  BY ServedIs
<1>2. world \in E!World /\ asked.profile \in Profiles \cup {E!Unnamed, E!OptOut} BY DEF LayersInv
<1>3. ~E!MayName(world) /\ ~E!MayOverride(world) BY DEF E!MayName, E!MayOverride, E!EffectiveFlag
<1>4. E!Given = E!Plain /\ E!Given.applied = {} BY <1>1, <1>2, <1>3, NothingNamed
<1>5. ResolvedAs(world, asked.profile, E!Layers(world, asked.profile), E!Given) BY <1>1, ResolveOf
<1>6. E!Given.refused = Fields /\ \A f \in Fields : f \in E!Given.locked BY <1>3, <1>5 DEF ResolvedAs
<1>7. \A f \in Fields : E!Used(world, E!Given, asked.route, f) = E!CfgFor(world, E!Given, f)
  BY <1>6 DEF E!Used
<1>. QED BY <1>1, <1>4, <1>7

\* A profile applied is one offered, and one offered applies.
LEMMA LayersOffered == LayersInv => E!AppliedIsOffered
<1>. SUFFICES ASSUME LayersInv, served # <<>> PROVE E!AppliedIsOffered
  BY DEF E!AppliedIsOffered, E!Served
<1>1. E!Given = E!Resolve(world, asked.profile) BY ServedIs
<1>2. world \in E!World /\ asked.profile \in Profiles \cup {E!Unnamed, E!OptOut} BY DEF LayersInv
<1>3. PICK p : p = asked.profile OBVIOUS
<1>4. PICK A : A = E!Layers(world, E!Unnamed) OBVIOUS
<1>5. PICK B : B = E!Layers(world, p) OBVIOUS
<1>6. PICK x : x = E!RequestLayer(world, p) OBVIOUS
<1>7. ResolvedAs(world, p, B, E!Given) BY <1>1, <1>3, <1>5, ResolveOf
<1>8. E!Given.applied = IF \E i \in DOMAIN B : B[i].id = <<"request", p>> THEN {p} ELSE {}
  BY <1>7 DEF ResolvedAs
<1>9. {E!OptOut, E!Unnamed} \cap Profiles = {} /\ E!Unnamed # E!OptOut
  BY OverridesAssumption DEF E!Unnamed, E!OptOut
<1>10. /\ x \in Seq(LayersOf({"request"}, {p})) /\ Len(x) <= 1
       /\ x # <<>> => p \in E!Offered(world) /\ p \in Profiles /\ E!MayName(world)
       /\ /\ p \in E!Offered(world) /\ p \in Profiles /\ ~E!Suppressed(world, p)
          /\ world.stored[p] # E!Empty
          => Len(x) = 1 /\ x[1].id = <<"request", p>>
  BY <1>2, <1>6, RequestShape
<1>11. \A a \in BoundLayer : a.id # <<"request", p>>
  <2>1. \A a \in BoundLayer : a.id[1] \in E!Scopes BY LayerParts DEF BoundLayer
  <2>. QED BY <2>1 DEF E!Scopes
<1>12. ASSUME p = E!OptOut => ~E!MayName(world) PROVE A \in Seq(BoundLayer) /\ B = A \o x
  BY <1>2, <1>3, <1>4, <1>5, <1>6, <1>12, LayersGiven
<1>13. E!Given.applied \subseteq E!Offered(world)
  <2>. SUFFICES ASSUME NEW i \in DOMAIN B, B[i].id = <<"request", p>> PROVE p \in E!Offered(world)
    BY <1>8
  <2>1. CASE p = E!OptOut /\ E!MayName(world)
    <3>1. PICK d, j, e, h : ScopeLayers(d, j, e, h) /\ E!Layers(world, E!OptOut) = d \o e
      BY <1>2, <2>1, LayersOptedOut
    <3>2. B \in Seq(BoundLayer) BY <1>5, <2>1, <3>1, ConcatAt DEF ScopeLayers
    <3>3. B[i] \in BoundLayer BY <3>2
    <3>. QED BY <1>11, <3>3
  <2>2. CASE ~(p = E!OptOut /\ E!MayName(world))
    <3>1. p = E!OptOut => ~E!MayName(world) BY <2>2
    <3>2. A \in Seq(BoundLayer) /\ B = A \o x BY <1>12, <3>1
    <3>3. CASE x = <<>>
      <4>1. B = A BY <3>2, <3>3
      <4>2. B[i] \in BoundLayer BY <3>2, <4>1
      <4>. QED BY <1>11, <4>2
    <3>4. CASE x # <<>> BY <1>10, <3>4
    <3>. QED BY <3>3, <3>4
  <2>. QED BY <2>1, <2>2
<1>14. ASSUME p \in E!Offered(world), world.stored[p] # E!Empty, ~world.bound["key"].bare
       PROVE  p \in E!Given.applied
  <2>1. p \in Profiles
    <3>1. world.stored \in UNION {[Q -> E!Blob] : Q \in SUBSET Profiles} BY <1>2 DEF E!World
    <3>2. p \in DOMAIN world.stored BY <1>14 DEF E!Offered
    <3>. QED BY <3>1, <3>2
  <2>2. E!MayName(world) BY <1>14 DEF E!Offered
  <2>3. world.unread = {} BY <2>2 DEF E!MayName, E!EffectiveFlag
  <2>4. p # E!OptOut BY <1>9, <2>1
  <2>5. ~E!Suppressed(world, p) BY <1>14, <2>3, <2>4 DEF E!Suppressed, E!ReadBinding
  <2>6. Len(x) = 1 /\ x[1].id = <<"request", p>> BY <1>10, <1>14, <2>1, <2>5
  <2>7. p = E!OptOut => ~E!MayName(world) BY <2>4
  <2>8. A \in Seq(BoundLayer) /\ B = A \o x BY <1>12, <2>7
  <2>9. PICK X : X = BoundLayer \cup LayersOf({"request"}, {p}) OBVIOUS
  <2>10. A \in Seq(X) /\ x \in Seq(X)
    <3>1. BoundLayer \subseteq X /\ LayersOf({"request"}, {p}) \subseteq X BY <2>9
    <3>. QED BY <1>10, <2>8, <3>1, SeqGrows
  <2>11. /\ DOMAIN B = 1..(Len(A) + Len(x)) /\ Len(A) \in Nat
         /\ \A i \in 1..Len(x) : B[Len(A) + i] = x[i]
    BY <2>8, <2>10, ConcatAt
  <2>12. Len(A) + 1 \in DOMAIN B /\ B[Len(A) + 1] = x[1] BY <2>6, <2>11
  <2>13. B[Len(A) + 1].id = <<"request", p>> BY <2>6, <2>12
  <2>. QED BY <1>8, <2>12, <2>13
<1>. QED BY <1>3, <1>13, <1>14 DEF E!AppliedIsOffered

\* The layers of a request are a list.
LEMMA LayersAreList ==
  ASSUME NEW w \in E!World, NEW p PROVE \E X : E!Layers(w, p) \in Seq(X)
<1>1. PICK d, j, e, i :
           /\ ScopeLayers(d, j, e, i)
           /\ E!Suppressed(w, p) => E!Layers(w, p) = (d \o e) \o E!RequestLayer(w, p)
           /\ ~E!Suppressed(w, p) =>
                E!Layers(w, p) = ((d \o j) \o (e \o i)) \o E!RequestLayer(w, p)
  BY LayersBound
<1>2. PICK x : x = E!RequestLayer(w, p) OBVIOUS
<1>3. PICK X : X = BoundLayer \cup LayersOf({"request"}, {p}) OBVIOUS
<1>4. PICK y : y = IF E!Suppressed(w, p) THEN d \o e ELSE (d \o j) \o (e \o i) OBVIOUS
<1>5. y \in Seq(BoundLayer)
  <2>1. d \o e \in Seq(BoundLayer) /\ d \o j \in Seq(BoundLayer) /\ e \o i \in Seq(BoundLayer)
    BY <1>1 DEF ScopeLayers
  <2>2. PICK z \in Seq(BoundLayer), v \in Seq(BoundLayer) : z = d \o j /\ v = e \o i BY <2>1
  <2>3. z \o v \in Seq(BoundLayer) OBVIOUS
  <2>. QED BY <1>4, <2>1, <2>2, <2>3
<1>6. x \in Seq(LayersOf({"request"}, {p})) BY <1>2, RequestShape
<1>7. BoundLayer \subseteq X /\ LayersOf({"request"}, {p}) \subseteq X BY <1>3
<1>8. y \in Seq(X) /\ x \in Seq(X) BY <1>5, <1>6, <1>7, SeqGrows
<1>9. y \o x \in Seq(X) BY <1>8
<1>10. E!Layers(w, p) = y \o x BY <1>1, <1>2, <1>4
<1>. QED BY <1>9, <1>10

\* The rows of the waterfall of a field: a row per layer, the model's, the global one.
RowsAre(w, ls, f, rows, n) ==
  /\ DOMAIN rows = 1..(n + 2)
  /\ \A i \in 1..n :
       /\ rows[i].value = ls[i].id
       /\ rows[i].winner <=> i = E!Winner(ls, f) /\ f \in ls[E!Winner(ls, f)].blob.sets
       /\ rows[i].locked <=> i = E!Winner(ls, f) /\ f \in ls[i].blob.locks
  /\ rows[n + 1].value = <<"model">> /\ ~rows[n + 1].locked
  /\ rows[n + 1].winner <=> ~(E!Winner(ls, f) > 0 /\ f \in ls[E!Winner(ls, f)].blob.sets)
                            /\ f \in w.model.sets
  /\ rows[n + 2].value = <<"global">> /\ ~rows[n + 2].locked
  /\ rows[n + 2].winner <=> ~(E!Winner(ls, f) > 0 /\ f \in ls[E!Winner(ls, f)].blob.sets)
                            /\ f \notin w.model.sets /\ f \in w.globals

\* The rows of the waterfall: one per layer, then the model's and the global's.
LEMMA WaterfallOf ==
  ASSUME NEW X, NEW ls \in Seq(X), NEW w, NEW r, r.layers = ls, NEW f
  PROVE  RowsAre(w, ls, f, E!Waterfall(w, r, f), Len(ls))
<1>. PICK n \in Nat : n = Len(ls) OBVIOUS
<1>1. PICK won : won = E!Winner(ls, f) OBVIOUS
<1>2. PICK sets \in BOOLEAN : sets <=> won > 0 /\ f \in ls[won].blob.sets OBVIOUS
<1>3. won \in 0..n BY <1>1, WinnerIs
<1>4. PICK a : a = [i \in DOMAIN ls |->
                 [value |-> ls[i].id, winner |-> i = won /\ (won > 0 /\ f \in ls[won].blob.sets),
                  locked |-> i = won /\ f \in ls[i].blob.locks]]
  OBVIOUS
<1>5. PICK b : b = [value |-> <<"model">>, locked |-> FALSE,
                winner |-> ~(won > 0 /\ f \in ls[won].blob.sets) /\ f \in w.model.sets]
  OBVIOUS
<1>6. PICK c : c = [value |-> <<"global">>, locked |-> FALSE,
                winner |-> ~(won > 0 /\ f \in ls[won].blob.sets) /\ f \notin w.model.sets /\ f \in w.globals]
  OBVIOUS
<1>7. PICK Y : Y = {a[i] : i \in 1..n} \cup {b, c} OBVIOUS
<1>8. DOMAIN ls = 1..n OBVIOUS
<1>9. a \in Seq(Y) /\ Len(a) = n
  <2>1. a \in [1..n -> Y] BY <1>4, <1>7, <1>8
  <2>. QED BY <2>1
<1>10. PICK d : d = <<b, c>> OBVIOUS
<1>11. d \in Seq(Y) /\ Len(d) = 2 /\ d[1] = b /\ d[2] = c BY <1>7, <1>10
<1>12. PICK rows : rows = E!Waterfall(w, r, f) OBVIOUS
<1>13. rows = a \o d BY <1>1, <1>4, <1>5, <1>6, <1>10, <1>12 DEF E!Waterfall
<1>14. a \in Seq(Y) /\ d \in Seq(Y) BY <1>9, <1>11
<1>15. /\ DOMAIN rows = 1..(Len(a) + Len(d))
       /\ \A i \in 1..Len(a) : rows[i] = a[i]
       /\ \A i \in 1..Len(d) : rows[Len(a) + i] = d[i]
  BY <1>14, <1>13, ConcatAt
<1>16. DOMAIN rows = 1..(n + 2) /\ rows[n + 1] = b /\ rows[n + 2] = c BY <1>9, <1>11, <1>15
<1>17. \A i \in 1..n : rows[i] = a[i] BY <1>9, <1>15
<1>18. \A i \in 1..n : /\ a[i].value = ls[i].id
                       /\ a[i].winner <=> i = won /\ (won > 0 /\ f \in ls[won].blob.sets)
                       /\ a[i].locked <=> i = won /\ f \in ls[i].blob.locks
  BY <1>4, <1>8
<1>19. \A i \in 1..n : /\ rows[i].value = ls[i].id
                       /\ rows[i].winner <=> i = won /\ f \in ls[won].blob.sets
                       /\ rows[i].locked <=> i = won /\ f \in ls[i].blob.locks
  BY <1>17, <1>18
<1>20. b.value = <<"model">> /\ ~b.locked
       /\ (b.winner <=> ~(won > 0 /\ f \in ls[won].blob.sets) /\ f \in w.model.sets)
  BY <1>5
<1>21. c.value = <<"global">> /\ ~c.locked
       /\ (c.winner <=> ~(won > 0 /\ f \in ls[won].blob.sets) /\ f \notin w.model.sets /\ f \in w.globals)
  BY <1>6
<1>22. RowsAre(w, ls, f, rows, n) BY <1>1, <1>16, <1>19, <1>20, <1>21 DEF RowsAre
<1>. QED BY <1>12, <1>22

\* What the rows of a field show: the value in force, and the lock that holds.
RowsSay(w, r, f, rows) ==
  \A winners \in {{i \in DOMAIN rows : rows[i].winner}} :
    /\ (\A i, j \in winners : i = j)
    /\ E!CfgFor(w, r, f) = IF winners = {} THEN <<"builtin">>
                           ELSE rows[CHOOSE i \in winners : TRUE].value
    /\ w.unread = {} => (f \in r.locked <=> \E i \in DOMAIN rows : rows[i].locked)

\* The rows name the value of a field and its lock, once each.
LEMMA RowsName ==
  ASSUME NEW w, NEW p, NEW X, NEW ls \in Seq(X), NEW r, ResolvedAs(w, p, ls, r),
         NEW f \in Fields, NEW rows, RowsAre(w, ls, f, rows, Len(ls))
  PROVE  RowsSay(w, r, f, rows)
<1>. PICK n \in Nat : n = Len(ls) OBVIOUS
<1>. PICK winners : winners = {i \in DOMAIN rows : rows[i].winner} OBVIOUS
<1>. SUFFICES /\ (\A i, j \in winners : i = j)
              /\ E!CfgFor(w, r, f) = IF winners = {} THEN <<"builtin">>
                                     ELSE rows[CHOOSE i \in winners : TRUE].value
              /\ w.unread = {} => (f \in r.locked <=> \E i \in DOMAIN rows : rows[i].locked)
  BY DEF RowsSay
<1>1. PICK won : won = E!Winner(ls, f) OBVIOUS
<1>2. won \in 0..n BY <1>1, WinnerIs
<1>3. PICK sets \in BOOLEAN : sets <=> f \in DOMAIN r.values OBVIOUS
<1>4. /\ sets <=> won > 0 /\ f \in ls[won].blob.sets
      /\ sets => r.values[f] = ls[won].id
      /\ w.unread = {} => (f \in r.locked <=> won > 0 /\ f \in ls[won].blob.locks)
  BY <1>1, <1>3 DEF ResolvedAs
<1>5. /\ DOMAIN rows = 1..(n + 2)
      /\ \A i \in 1..n :
           /\ rows[i].value = ls[i].id
           /\ rows[i].winner <=> i = won /\ f \in ls[won].blob.sets
           /\ rows[i].locked <=> i = won /\ f \in ls[i].blob.locks
      /\ rows[n + 1].value = <<"model">> /\ ~rows[n + 1].locked
      /\ rows[n + 1].winner <=> ~sets /\ f \in w.model.sets
      /\ rows[n + 2].value = <<"global">> /\ ~rows[n + 2].locked
      /\ rows[n + 2].winner <=> ~sets /\ f \notin w.model.sets /\ f \in w.globals
  BY <1>1, <1>4 DEF RowsAre
<1>6. \A i \in 1..(n + 2) : i \in 1..n \/ i = n + 1 \/ i = n + 2 OBVIOUS
<1>7. w.unread = {} => (f \in r.locked <=> \E i \in DOMAIN rows : rows[i].locked)
  <2>. SUFFICES ASSUME w.unread = {} PROVE f \in r.locked <=> \E i \in DOMAIN rows : rows[i].locked
    OBVIOUS
  <2>1. f \in r.locked => won \in 1..n /\ rows[won].locked BY <1>2, <1>4, <1>5
  <2>2. ASSUME NEW i \in DOMAIN rows, rows[i].locked PROVE f \in r.locked
    <3>1. i \in 1..n BY <1>5, <1>6, <2>2
    <3>. QED BY <1>2, <1>4, <1>5, <2>2, <3>1
  <2>3. won \in 1..n => won \in DOMAIN rows BY <1>5
  <2>. QED BY <2>1, <2>2, <2>3
<1>8. ASSUME NEW c, winners = {c}
      PROVE  (\A i, j \in winners : i = j) /\ winners # {} /\ (CHOOSE i \in winners : TRUE) = c
  BY <1>8
<1>9. CASE sets
  <2>1. won \in 1..n /\ f \in ls[won].blob.sets BY <1>2, <1>4, <1>9
  <2>2. winners = {won}
    <3>1. won \in winners BY <1>5, <2>1
    <3>2. ASSUME NEW i \in winners PROVE i = won
      <4>1. i \in 1..(n + 2) /\ rows[i].winner BY <1>5
      <4>. QED BY <1>5, <1>6, <1>9, <4>1
    <3>. QED BY <3>1, <3>2
  <2>3. rows[won].value = ls[won].id BY <1>5, <2>1
  <2>4. E!CfgFor(w, r, f) = ls[won].id BY <1>3, <1>4, <1>9 DEF E!CfgFor
  <2>5. (\A i, j \in winners : i = j) /\ winners # {} /\ (CHOOSE i \in winners : TRUE) = won
    BY <1>8, <2>2
  <2>. QED BY <1>7, <2>3, <2>4, <2>5
<1>10. ASSUME ~sets PROVE \A i \in winners : i = n + 1 \/ i = n + 2
  <2>. SUFFICES ASSUME NEW i \in winners PROVE i = n + 1 \/ i = n + 2 OBVIOUS
  <2>1. i \in 1..(n + 2) /\ rows[i].winner BY <1>5
  <2>2. i \notin 1..n
    <3>. SUFFICES ASSUME i \in 1..n PROVE FALSE OBVIOUS
    <3>1. i = won /\ f \in ls[won].blob.sets BY <1>5, <2>1
    <3>. QED BY <1>4, <1>10, <3>1
  <2>. QED BY <1>6, <2>1, <2>2
<1>11. n + 1 \in DOMAIN rows /\ n + 2 \in DOMAIN rows BY <1>5
<1>12. CASE ~sets /\ f \in w.model.sets
  <2>1. winners = {n + 1} BY <1>5, <1>10, <1>11, <1>12
  <2>2. E!CfgFor(w, r, f) = <<"model">> BY <1>3, <1>12 DEF E!CfgFor
  <2>3. (\A i, j \in winners : i = j) /\ winners # {} /\ (CHOOSE i \in winners : TRUE) = n + 1
    BY <1>8, <2>1
  <2>. QED BY <1>5, <1>7, <2>2, <2>3
<1>13. CASE ~sets /\ f \notin w.model.sets /\ f \in w.globals
  <2>1. winners = {n + 2} BY <1>5, <1>10, <1>11, <1>13
  <2>2. E!CfgFor(w, r, f) = <<"global">> BY <1>3, <1>13 DEF E!CfgFor
  <2>3. (\A i, j \in winners : i = j) /\ winners # {} /\ (CHOOSE i \in winners : TRUE) = n + 2
    BY <1>8, <2>1
  <2>. QED BY <1>5, <1>7, <2>2, <2>3
<1>14. CASE ~sets /\ f \notin w.model.sets /\ f \notin w.globals
  <2>1. winners = {} BY <1>5, <1>10, <1>14
  <2>2. E!CfgFor(w, r, f) = <<"builtin">> BY <1>3, <1>14 DEF E!CfgFor
  <2>3. (\A i, j \in winners : i = j) BY <2>1
  <2>. QED BY <1>7, <2>1, <2>2, <2>3
<1>. QED BY <1>9, <1>12, <1>13, <1>14

\* The waterfall names the value in force and the lock that holds.
LEMMA LayersWaterfall == LayersInv => E!WaterfallTrue
<1>. SUFFICES ASSUME LayersInv, served # <<>> PROVE E!WaterfallTrue
  BY DEF E!WaterfallTrue, E!Served
<1>1. E!Given = E!Resolve(world, asked.profile) BY ServedIs
<1>2. world \in E!World BY DEF LayersInv
<1>3. PICK r : r = E!Given OBVIOUS
<1>4. PICK p : p = asked.profile OBVIOUS
<1>5. PICK ls : ls = E!Layers(world, p) OBVIOUS
<1>6. PICK X : ls \in Seq(X) BY <1>2, <1>5, LayersAreList
<1>7. ResolvedAs(world, p, ls, r) BY <1>1, <1>3, <1>4, <1>5, ResolveOf
<1>8. r.layers = ls BY <1>7 DEF ResolvedAs
<1>9. \A f \in Fields : RowsSay(world, r, f, E!Waterfall(world, r, f))
  <2>. SUFFICES ASSUME NEW f \in Fields PROVE RowsSay(world, r, f, E!Waterfall(world, r, f)) OBVIOUS
  <2>1. PICK rows : rows = E!Waterfall(world, r, f) OBVIOUS
  <2>2. RowsAre(world, ls, f, rows, Len(ls)) BY <1>6, <1>8, <2>1, WaterfallOf
  <2>3. RowsSay(world, r, f, rows) BY <1>6, <1>7, <2>2, RowsName
  <2>. QED BY <2>1, <2>3
<1>10. \A f \in Fields : RowsSay(world, E!Given, f, E!Waterfall(world, E!Given, f)) BY <1>3, <1>9
<1>. DEFINE W(f) == E!Waterfall(world, E!Given, f)
<1>. DEFINE S(f) == {i \in DOMAIN W(f) : W(f)[i].winner}
<1>11. SUFFICES ASSUME NEW f \in Fields
                PROVE  /\ \A i, j \in S(f) : i = j
                       /\ E!CfgFor(world, E!Given, f) = IF S(f) = {} THEN <<"builtin">>
                            ELSE W(f)[CHOOSE i \in S(f) : TRUE].value
                       /\ world.unread = {} => (f \in E!Given.locked <=> \E i \in DOMAIN W(f) : W(f)[i].locked)
  BY DEF E!WaterfallTrue
<1>12. RowsSay(world, E!Given, f, W(f)) BY <1>10
<1>13. S(f) = {i \in DOMAIN W(f) : W(f)[i].winner} OBVIOUS
<1>. HIDE DEF W, S
<1>14. S(f) \in {{i \in DOMAIN W(f) : W(f)[i].winner}} BY <1>13
<1>. QED BY <1>12, <1>14 DEF RowsSay

\* The layers the rules are of begin with A.
Starts(A, c) ==
  \E m \in Nat : /\ Len(A) <= m /\ DOMAIN c = 1..m
                 /\ \A i \in 1..Len(A) : c[i] = A[i]

\* Layers that begin with others still do with the model's row behind them.
LEMMA RuledStarts ==
  ASSUME NEW X, NEW A \in Seq(X), NEW C \in Seq(X), Begins(A, C), NEW w
  PROVE  Starts(A, Ruled(w, C))
<1>1. PICK n \in Nat, m \in Nat : n = Len(A) /\ m = Len(C) OBVIOUS
<1>2. n <= m /\ \A i \in 1..n : C[i] = A[i] BY <1>1 DEF Begins
<1>3. CASE w.model.on \cup w.model.off = {}
  <2>1. Ruled(w, C) = C BY <1>3 DEF Ruled
  <2>2. DOMAIN C = 1..m BY <1>1
  <2>. QED BY <1>1, <1>2, <2>1, <2>2 DEF Starts
<1>4. CASE w.model.on \cup w.model.off # {}
  <2>1. PICK x : x = [id |-> <<"model">>, blob |-> w.model] OBVIOUS
  <2>2. PICK Y : Y = X \cup {x} OBVIOUS
  <2>3. X \subseteq Y /\ x \in Y BY <2>2
  <2>4. C \in Seq(Y) BY <2>3, SeqGrows
  <2>5. PICK c : c = Append(C, x) OBVIOUS
  <2>6. DOMAIN c = 1..(m + 1) /\ \A i \in 1..m : c[i] = C[i] BY <1>1, <2>3, <2>4, <2>5
  <2>7. Ruled(w, C) = c BY <1>4, <2>1, <2>5 DEF Ruled
  <2>8. \A i \in 1..n : c[i] = A[i] BY <1>2, <2>6
  <2>9. m + 1 \in Nat /\ n <= m + 1 BY <1>2
  <2>. QED BY <1>1, <2>6, <2>7, <2>8, <2>9 DEF Starts
<1>. QED BY <1>3, <1>4

\* A rule mentioned in A is first mentioned where it is in A.
LEMMA RuleKept ==
  ASSUME NEW X, NEW A \in Seq(X), NEW c, Starts(A, c), NEW x, NEW h \in 1..Len(A),
         x \in A[h].blob.on \cup A[h].blob.off
  PROVE  /\ MentionOf(c, x) = MentionOf(A, x) /\ MentionOf(A, x) \in 1..Len(A)
         /\ c[MentionOf(c, x)] = A[MentionOf(A, x)]
<1>1. PICK n \in Nat : n = Len(A) /\ DOMAIN A = 1..n OBVIOUS
<1>2. PICK m \in Nat : n <= m /\ DOMAIN c = 1..m /\ \A i \in 1..n : c[i] = A[i]
  BY <1>1 DEF Starts
<1>3. h \in 1..n BY <1>1
<1>4. MentionOf(c, x) = MentionOf(A, x) /\ MentionOf(A, x) \in 1..n BY <1>1, <1>2, <1>3, MentionKept
<1>. QED BY <1>1, <1>2, <1>4

\* A rule a bound layer mentions is not flipped.
LEMMA LayersRulesStand == LayersInv => E!RulesStand
<1>. SUFFICES ASSUME LayersInv, served # <<>>, ~E!OptedOut, NEW x \in RuleSlugs,
                     NEW h \in DOMAIN E!Plain.layers,
                     x \in E!Plain.layers[h].blob.on \cup E!Plain.layers[h].blob.off
              PROVE  x \in E!Given.exclude <=> x \in E!Plain.exclude
  BY DEF E!RulesStand, E!Served
<1>1. E!Given = E!Resolve(world, asked.profile) /\ E!Plain = E!Resolve(world, E!Unnamed) BY ServedIs
<1>2. world \in E!World BY DEF LayersInv
<1>3. PICK p : p = asked.profile OBVIOUS
<1>4. PICK A : A = E!Layers(world, E!Unnamed) OBVIOUS
<1>5. PICK B : B = E!Layers(world, p) OBVIOUS
<1>6. PICK y : y = E!RequestLayer(world, p) OBVIOUS
<1>7. p = E!OptOut => ~E!MayName(world) BY <1>3 DEF E!OptedOut
<1>8. A \in Seq(BoundLayer) /\ B = A \o y BY <1>2, <1>4, <1>5, <1>6, <1>7, LayersGiven
<1>9. y \in Seq(LayersOf({"request"}, {p})) BY <1>2, <1>6, RequestShape
<1>10. PICK X : X = BoundLayer \cup LayersOf({"request"}, {p}) OBVIOUS
<1>11. A \in Seq(X) /\ y \in Seq(X)
  <2>1. BoundLayer \subseteq X /\ LayersOf({"request"}, {p}) \subseteq X BY <1>10
  <2>. QED BY <1>8, <1>9, <2>1, SeqGrows
<1>12. B \in Seq(X) /\ Len(B) = Len(A) + Len(y) /\ Len(A) \in Nat /\ Len(y) \in Nat
       /\ \A i \in 1..Len(A) : B[i] = A[i]
  BY <1>8, <1>11, ConcatAt
<1>13. Begins(A, B) /\ Begins(A, A) BY <1>12 DEF Begins
<1>14. PICK cA : cA = Ruled(world, A) OBVIOUS
<1>15. PICK cB : cB = Ruled(world, B) OBVIOUS
<1>16. Starts(A, cA) BY <1>11, <1>13, <1>14, RuledStarts
<1>17. B \in Seq(X) BY <1>12
<1>18. Starts(A, cB) BY <1>11, <1>13, <1>15, <1>17, RuledStarts
<1>19. A = E!Plain.layers
  <2>1. ResolvedAs(world, E!Unnamed, A, E!Plain) BY <1>1, <1>4, ResolveOf
  <2>. QED BY <2>1 DEF ResolvedAs
<1>20. h \in 1..Len(A) /\ x \in A[h].blob.on \cup A[h].blob.off BY <1>11, <1>19
<1>21. PICK v : v = MentionOf(A, x) OBVIOUS
<1>22. MentionOf(cA, x) = v /\ v \in 1..Len(A) /\ cA[v] = A[v] BY <1>11, <1>16, <1>20, <1>21, RuleKept
<1>23. MentionOf(cB, x) = v /\ cB[v] = A[v] BY <1>11, <1>18, <1>20, <1>21, RuleKept
<1>24. x \in E!Plain.exclude <=> v > 0 /\ x \in cA[v].blob.off
  BY <1>1, <1>4, <1>14, <1>22, ExcludeOf
<1>25. x \in E!Given.exclude <=> v > 0 /\ x \in cB[v].blob.off
  BY <1>1, <1>3, <1>5, <1>15, <1>23, ExcludeOf
<1>. QED BY <1>22, <1>23, <1>24, <1>25

\* Asking keeps what was served the answer to what was asked.
LEMMA LayersInvStep == LayersInv /\ E!Ask => LayersInv'
<1>. SUFFICES ASSUME LayersInv, E!Ask PROVE LayersInv' OBVIOUS
<1>1. PICK p \in Profiles \cup {E!Unnamed, E!OptOut}, route \in [Fields -> E!Routes] :
        /\ asked' = [profile |-> p, route |-> route]
        /\ \E r \in {E!Resolve(world, p)}, q \in {E!Resolve(world, E!Unnamed)} :
             served' = <<[resolved |-> r, plain |-> q,
                          used |-> [f \in Fields |-> E!Used(world, r, route, f)],
                          ignored |-> E!Ignored(world, r, route)]>>
  BY DEF E!Ask
<1>2. world' = world BY DEF E!Ask
<1>3. world' \in E!World BY <1>2 DEF LayersInv
<1>4. asked'.profile = p /\ asked'.route = route BY <1>1
<1>5. PICK r, q : /\ r = E!Resolve(world, p) /\ q = E!Resolve(world, E!Unnamed)
                  /\ served' = <<[resolved |-> r, plain |-> q,
                          used |-> [f \in Fields |-> E!Used(world, r, route, f)],
                          ignored |-> E!Ignored(world, r, route)]>>
  BY <1>1
<1>6. r = E!Resolve(world', asked'.profile) /\ q = E!Resolve(world', E!Unnamed) BY <1>2, <1>4, <1>5
<1>7. served' = <<[resolved |-> r, plain |-> q,
                   used |-> [f \in Fields |-> E!Used(world', r, asked'.route, f)],
                   ignored |-> E!Ignored(world', r, asked'.route)]>>
  BY <1>2, <1>4, <1>5
<1>. QED BY <1>1, <1>3, <1>4, <1>6, <1>7 DEF LayersInv

(***************************************************************************)
(* What a request may change, together.                                     *)
(***************************************************************************)

\* Before anything is asked.
LEMMA LayersStart == ASSUME E!ConfigInit \/ NoLayers PROVE LayersInv
<1>1. world \in Worlds BY OverridesAssumption DEF E!ConfigInit, NoLayers, SomeWorld
<1>2. world \in E!World BY <1>1, OverridesAssumption
<1>3. asked = E!NotAsked /\ served = <<>> BY DEF E!ConfigInit, NoLayers
<1>4. asked.profile = E!Unnamed /\ asked.route = [f \in Fields |-> "absent"] BY <1>3 DEF E!NotAsked
<1>5. asked.route \in [Fields -> E!Routes] BY <1>4 DEF E!Routes
<1>. QED BY <1>2, <1>3, <1>4, <1>5 DEF LayersInv

\* The gates' invariant at the start.
LEMMA GatesStart == ASSUME G!GatesInit \/ NoGates PROVE GatesInv
<1>1. session = G!Waiting /\ sent = G!NoGates BY DEF G!GatesInit, NoGates
<1>2. sent \in [{} -> Nat] BY <1>1 DEF G!NoGates
<1>3. {} \in SUBSET G!Gates OBVIOUS
<1>4. ASSUME NoGates PROVE GateTypes
  <2>1. running = [inner |-> 120, outer |-> 1280, hard |-> 0] BY <1>4 DEF NoGates
  <2>2. running \in [G!Gates -> Nat] /\ running["outer"] >= 100 BY <2>1 DEF G!Gates
  <2>3. locked = {} /\ pinned = {} /\ open = FALSE BY <1>4 DEF NoGates
  <2>. QED BY <2>2, <2>3 DEF GateTypes
<1>5. ASSUME G!GatesInit PROVE GateTypes
  <2>1. running \in G!AnyValues /\ \A g \in G!Gates : running[g] >= G!Lowest[g]
    BY <1>5 DEF G!GatesInit
  <2>2. Candidates["inner"] \subseteq Nat /\ Candidates["outer"] \subseteq Nat
        /\ Candidates["hard"] \subseteq Nat
    BY OverridesAssumption DEF G!Gates
  <2>3. running \in [G!Gates -> Nat] BY <2>1, <2>2 DEF G!AnyValues, G!Gates
  <2>4. running["outer"] >= 100 BY <2>1 DEF G!Gates, G!Lowest
  <2>5. locked \in SUBSET G!Gates /\ open \in BOOLEAN BY <1>5 DEF G!GatesInit
  <2>6. pinned \in SUBSET G!Gates
    <3>1. pinned \in Pins BY <1>5 DEF G!GatesInit
    <3>2. Pins \subseteq SUBSET G!Gates BY OverridesAssumption
    <3>. QED BY <3>1, <3>2
  <2>. QED BY <2>3, <2>4, <2>5, <2>6 DEF GateTypes
<1>6. GateTypes BY <1>4, <1>5
<1>. QED BY <1>1, <1>2, <1>3, <1>6 DEF GatesInv

\* The hints' invariant at the start.
LEMMA HintsStart == ASSUME K!HintsInit \/ NoHints PROVE HintsInv
<1>1. answer = K!Pending /\ hintsAsked = K!Nothing BY DEF K!HintsInit, NoHints
<1>2. hintsAsked \in [{} -> Nat] BY <1>1 DEF K!Nothing
<1>3. {} \in SUBSET K!Hints OBVIOUS
<1>4. K!Values \subseteq Nat BY OverridesAssumption DEF K!Values
<1>5. ASSUME K!HintsInit PROVE HintTypes
  <2>1. hinted \in [K!Hints -> K!Values] /\ hintLocks \in SUBSET K!Hints BY <1>5 DEF K!HintsInit
  <2>2. hinted \in [K!Hints -> Nat] BY <1>4, <2>1
  <2>. QED BY <2>1, <2>2 DEF HintTypes
<1>6. ASSUME NoHints PROVE HintTypes
  <2>1. hinted = [h \in K!Hints |-> 0] /\ hintLocks = {} BY <1>6 DEF NoHints
  <2>2. hinted \in [K!Hints -> Nat] BY <2>1
  <2>. QED BY <2>1, <2>2 DEF HintTypes
<1>7. HintTypes BY <1>5, <1>6
<1>. QED BY <1>1, <1>2, <1>3, <1>7 DEF HintsInv

\* What asks nothing of a part leaves it as it is.
LEMMA LayersStay == ASSUME LayersInv, UNCHANGED layerVars PROVE LayersInv'
<1>1. world' = world /\ asked' = asked /\ served' = served BY DEF layerVars
<1>. QED BY <1>1 DEF LayersInv

\* The gates' invariant while their variables stand still.
LEMMA GatesStay == ASSUME GatesInv, UNCHANGED gateVars PROVE GatesInv'
<1>1. running' = running /\ valued' = valued /\ locked' = locked /\ pinned' = pinned
      /\ open' = open /\ sent' = sent /\ session' = session
  BY DEF gateVars
<1>2. GateTypes' BY <1>1 DEF GatesInv, GateTypes
<1>3. \A own : G!Over(own)' = G!Over(own) BY <1>1 DEF G!Over
<1>4. \A D : G!Locks(D)' = G!Locks(D) BY <1>1 DEF G!Locks
<1>5. PICK x : x = sent OBVIOUS
<1>6. G!ClientValues(x)' = G!ClientValues(x) BY <1>1, <1>3, <1>4, ZenonT(60) DEF G!ClientValues
<1>7. session # G!Waiting =>
        \E c \in {G!ClientValues(x)} :
          session = [gates |-> G!Fit(G!Over(c.own), G!Locks(DOMAIN c.own)),
                     own |-> c.own, notes |-> c.notes]
  BY <1>5 DEF GatesInv
<1>8. session # G!Waiting =>
        \E c \in {G!ClientValues(x)'} :
          session = [gates |-> G!Fit(G!Over(c.own)', G!Locks(DOMAIN c.own)'),
                     own |-> c.own, notes |-> c.notes]
  BY <1>3, <1>4, <1>6, <1>7
<1>9. \E S \in SUBSET G!Gates : sent' \in [S -> Nat] BY <1>1 DEF GatesInv
<1>. QED BY <1>1, <1>2, <1>5, <1>8, <1>9 DEF GatesInv

\* The hints' invariant while their variables stand still.
LEMMA HintsStay == ASSUME HintsInv, UNCHANGED hintVars PROVE HintsInv'
<1>1. hinted' = hinted /\ hintLocks' = hintLocks /\ hintsAsked' = hintsAsked /\ answer' = answer
  BY DEF hintVars
<1>2. \A q, L : K!Reconciled(q, L)' = K!Reconciled(q, L)
  BY <1>1 DEF K!Reconciled, K!Fitted, K!Reported, K!Chosen, K!Rank, K!Refused, K!Barred
<1>. QED BY <1>1, <1>2 DEF HintsInv, HintTypes

BoundedInv == LayersInv /\ GatesInv /\ HintsInv

\* Of the three parts, the one a run follows starts right and the others are empty.
LEMMA BoundedStart == ServicesInit => BoundedInv
BY LayersStart, GatesStart, HintsStart DEF ServicesInit, BoundedInv

\* A step of what a request may change keeps the invariant of its part, and the
\* others stand still.
LEMMA BoundedKept ==
  ASSUME BoundedInv, [E!Ask]_layerVars, [G!Connect]_gateVars, [K!Reconcile]_hintVars
  PROVE  BoundedInv'
<1>1. LayersInv /\ GatesInv /\ HintsInv BY DEF BoundedInv
<1>2. LayersInv' BY <1>1, LayersInvStep, LayersStay
<1>3. GatesInv' BY <1>1, GatesInvStep, GatesStay
<1>4. HintsInv' BY <1>1, HintsInvStep, HintsStay
<1>. QED BY <1>2, <1>3, <1>4 DEF BoundedInv

(***************************************************************************)
(* The services side by side: the steps of one leave the others alone.      *)
(***************************************************************************)

\* A step of the services is a step of each of them, or none.
LEMMA StepOfEach ==
  ASSUME [ServicesNext]_allVars
  PROVE  /\ [Next]_vars /\ [R!RunNext]_runVars /\ [H!HoldNext]_holdVars
         /\ [E!Ask]_layerVars /\ [G!Connect]_gateVars /\ [K!Reconcile]_hintVars
BY DEF ServicesNext, SettingsStep, TranslationStep, ReceiptStep, ReplyStep, LayersStep,
       SilencesStep, HintsStep, allVars

\* The invariants hold in every state of every service.
THEOREM SettingsInvariance == ServicesSpec => []SettingsInv
<1>1. ServicesInit => SettingsInv BY SettingsStart DEF ServicesInit
<1>2. SettingsInv /\ [ServicesNext]_allVars
        => SettingsInv'
  BY StepOfEach, SettingsKept
<1>. QED BY <1>1, <1>2, PTL DEF ServicesSpec

\* The same of a translation.
THEOREM RunInvariance == ServicesSpec => []RunInv
<1>1. ServicesInit => RunInv BY RunStart DEF ServicesInit
<1>2. RunInv /\ [ServicesNext]_allVars
        => RunInv'
  BY StepOfEach, RunKept
<1>. QED BY <1>1, <1>2, PTL DEF ServicesSpec

\* The same of the receipts.
THEOREM HoldInvariance == ServicesSpec => []HoldInv
<1>1. ServicesInit => HoldInv BY HoldStart DEF ServicesInit
<1>2. HoldInv /\ [ServicesNext]_allVars
        => HoldInv'
  BY StepOfEach, HoldKept
<1>. QED BY <1>1, <1>2, PTL DEF ServicesSpec

\* Overlapping saves, renames and cascades end with what was saved running,
\* compiled and resolved, and a stored binding always names a running profile,
\* for any requests, rules and numbers of failures (apply_hot_changes,
\* _PROFILES_LOCK).
THEOREM SavesTakeEffectAlways == ServicesSpec => []SavesTakeEffect
<1>1. SettingsInv => SavesTakeEffect BY SettingsSettled DEF SavesTakeEffect
<1>. QED BY <1>1, SettingsInvariance, PTL

\* A save changes only what its request edits, and a fingerprinted patch a rule
\* that is as its page showed it (atomic_json.save_lock, rules_lock).
THEOREM NoEditIsLost == ServicesSpec => NoLostEdit
<1>1. SettingsInv /\ [ServicesNext]_allVars =>
        [\A t \in Tasks : Saves(t) => SavedAsAsked(t)]_vars
  BY StepOfEach, EditsStand
<1>. QED BY <1>1, SettingsInvariance, PTL DEF ServicesSpec, NoLostEdit

\* The batch loop moves on or sends less at every step, whatever the model
\* answers, and a cue done stays as it is (translate_segments).
THEOREM TranslationGoesOn == ServicesSpec => TranslationAdvances
<1>1. RunInv /\ [ServicesNext]_allVars =>
        [/\ ended = "running" /\ ended' = "running" => at' > at \/ (at' = at /\ k' < k)
         /\ \A j \in 1..R!N : results[j] # R!NotYet => results'[j] = results[j]]_(R!runVars)
  BY StepOfEach, RunAdvances
<1>. QED BY <1>1, RunInvariance, PTL DEF ServicesSpec, TranslationAdvances, R!MakesProgress

\* A batch size that failed twice right after growing is not grown to again
\* (failed_grown, k_ceil): a part of CuesKeepTheirWords.
THEOREM NoThirdTryEver == ServicesSpec => []R!NoThirdTry
BY RunInvariance, NoThird, PTL

\* A receipt parked is held, in the overflow or logged, exactly once, for any
\* captures, requests, cap and hold time (receipt_hold).
THEOREM ReceiptsAccounted == ServicesSpec => []NoReceiptLost
<1>1. HoldInv => NoReceiptLost BY HoldLosesNone DEF NoReceiptLost
<1>. QED BY <1>1, HoldInvariance, PTL

\* The same of what a request may change.
THEOREM BoundedInvariance == ServicesSpec => []BoundedInv
<1>1. BoundedInv /\ [ServicesNext]_allVars => BoundedInv' BY StepOfEach, BoundedKept
<1>. QED BY <1>1, BoundedStart, PTL DEF ServicesSpec

\* What an administrator bound or locked stands and what the caller is told is so,
\* for any fields, rules, profiles, layers, silences and speaker hints (resolve,
\* fit_silence_gates, _client_stream_values, transcribe).
THEOREM RequestsBoundedAlways == ServicesSpec => []RequestsBounded
<1>1. LayersInv => /\ E!BoundStands /\ E!FaultRefusesAll /\ E!RulesStand
                   /\ E!AppliedIsOffered /\ E!WaterfallTrue
  BY LayersBoundStands, LayersFaultRefuses, LayersRulesStand, LayersOffered, LayersWaterfall
<1>2. GatesInv => G!LockedStay /\ G!GatesWork /\ G!ClientTold /\ G!ShownIsRun
  BY GatesLockedStay, GatesDoWork, GatesClientTold, GatesShownIsRun
<1>3. HintsInv => K!Accepted /\ K!LocksRespected /\ K!LossesReported /\ K!OwnHintsKept
  BY HintsAccepted, HintsLocksRespected, HintsLossesReported, HintsOwnKept
<1>4. BoundedInv => RequestsBounded BY <1>1, <1>2, <1>3 DEF BoundedInv, RequestsBounded
<1>. QED BY <1>4, BoundedInvariance, PTL

=============================================================================
