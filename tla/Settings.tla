------------------------------ MODULE Settings ------------------------------
(* Configuration saves of one worker: the page handlers (admin/routes.py,      *)
(* quick_config/routes.py, admin/overrides_routes.py, the binding routes of    *)
(* admin/api_keys_routes.py), the read-modify-write of config.local.json on a  *)
(* thread (config_store.save_overrides), the hot apply to the running          *)
(* configuration (pipeline/apply.py), and what follows it: the compiled rules, *)
(* a streaming connection's resolved view, a model built from its overrides.   *)
(* A handler runs to its end (run_to_end): a dropped connection loses only the *)
(* answer.                                                                     *)
EXTENDS Integers, FiniteSets

CONSTANTS
  Slugs,     \* pipeline rules
  Req,       \* per request: what it asks for
  MaxPosts,  \* bound: requests posted
  MaxFails   \* bound: saves and cascades that fail

Tasks == DOMAIN Req
Default == "default"
NoCopy == <<>>      \* config.local.json carries no rules of its own
Nobody == "nobody"
None == "none"
Unset == [k \in {} |-> None]

Parts == {"over", "rules", "profiles"}
Ops == {"over", "rules", "patch", "factory", "clear", "rename", "delete", "bind"}

\* What a request names; a rule is no other part of the file.
ASSUME SettingsAssumption ==
  /\ Slugs # {} /\ Slugs \cap Parts = {}
  /\ Nobody \notin Tasks
  /\ \A t \in Tasks : Req[t].op \in Ops /\ (Req[t].op = "patch" => Req[t].slug \in Slugs)

\* The lock each request runs under.
RulesOps == {"rules", "patch", "factory", "clear"}
ProfileOps == {"rename", "delete"}

VARIABLES
  disk,      \* config.local.json: over (MODEL_OVERRIDES), rules, profiles
  factory,   \* the rules of config.json
  cfg,       \* the running configuration
  compiled,  \* _COMPILED_RULES: the rules they were compiled from
  bound,     \* the profiles an identity's stored binding names
  behind,    \* the connection's _ident_version differs from _CONFIG_VERSION
  view,      \* what the connection resolved
  resident,  \* the overrides the loaded model was built from
  task,      \* per request: its handler
  locks,     \* the holder of each lock
  posts, fails

fileVars == <<disk, factory>>
viewVars == <<behind, view, resident>>
vars == <<fileVars, cfg, compiled, bound, viewVars, task, locks, posts, fails>>

\* A handler: what its page showed, what it saves, the profiles a rename would
\* restore, the file as it last read it, the parts its save changed.
At(pc) == [pc |-> pc, page |-> None, put |-> Unset, orig |-> {}, read |-> Unset, written |-> {}]
Active(t) == task[t].pc \notin {"idle", "done", "aliased"}

\* The rules in force: a local copy shadows the factory list.
InForce(rules) == IF rules = NoCopy THEN factory ELSE rules
Resolved == [over |-> cfg.over, layers |-> bound \cap cfg.profiles]

Init ==
  /\ disk = [over |-> Default, rules |-> NoCopy, profiles |-> {"p", "q"}]
  /\ factory = [s \in Slugs |-> Default]
  /\ cfg = [over |-> Default, rules |-> factory, profiles |-> {"p", "q"}]
  /\ compiled = factory
  /\ bound = {"p"}
  /\ behind = FALSE
  /\ view = Resolved
  /\ resident = None
  /\ task = [t \in Tasks |-> At("idle")]
  /\ locks = [rules |-> Nobody, profiles |-> Nobody, refs |-> Nobody,
              save |-> Nobody, apply |-> Nobody]
  /\ posts = 0 /\ fails = 0

Goto(t, pc) == task' = [task EXCEPT ![t].pc = pc]
Free(l) == locks[l] = Nobody
Release(t) == [l \in DOMAIN locks |-> IF locks[l] = t THEN Nobody ELSE locks[l]]

-----------------------------------------------------------------------------
(* The handlers, up to their save.                                             *)

\* A page posts what its owner edited, from what the page showed.
Post(t) ==
  LET r == Req[t] IN
  /\ task[t].pc = "idle"
  /\ posts < MaxPosts
  /\ posts' = posts + 1
  /\ task' = [task EXCEPT ![t] =
       [At("posted") EXCEPT
          !.page = CASE r.op = "patch" -> cfg.rules[r.slug]
                     [] r.op = "delete" -> cfg.profiles \ {r.name}
                     [] r.op = "bind" -> bound \cup {r.name}
                     [] OTHER -> None]]
  /\ UNCHANGED <<fileVars, cfg, compiled, bound, viewVars, locks, fails>>

\* Mutant: a profile save does not exclude a binding save.
LocksOfNoRefs(t) == CASE Req[t].op \in RulesOps -> {"rules"}
                      [] Req[t].op \in ProfileOps -> {"profiles"}
                      [] Req[t].op = "bind" -> {"refs"}
                      [] OTHER -> {}

LocksOf(t) == CASE Req[t].op \in RulesOps -> {"rules"}
                [] Req[t].op \in ProfileOps -> {"profiles", "refs"}
                [] Req[t].op = "bind" -> {"refs"}
                [] OTHER -> {}

\* What the handler checks under its lock.
Admissible(t) ==
  LET r == Req[t] IN
  CASE r.op = "patch" -> r.fp => cfg.rules[r.slug] = task[t].page
    [] r.op = "rename" -> r.old \in cfg.profiles /\ r.new \notin cfg.profiles
    [] r.op = "delete" -> (cfg.profiles \ task[t].page) \cap bound = {}
    [] r.op = "bind" -> task[t].page \subseteq cfg.profiles \cup bound
    [] OTHER -> TRUE

\* What it hands to the save. A rules patch writes back the whole list.
Payload(t) ==
  LET r == Req[t] IN
  CASE r.op = "over" -> [over |-> r.value]
    [] r.op \in {"rules", "factory"} -> [rules |-> [s \in Slugs |-> t]]
    [] r.op = "patch" -> [rules |-> [cfg.rules EXCEPT ![r.slug] = t]]
    [] r.op = "clear" -> [rules |-> NoCopy]
    [] r.op = "rename" -> [profiles |-> (cfg.profiles \ {r.old}) \cup {r.new}]
    [] r.op = "delete" -> [profiles |-> task[t].page]
    [] r.op = "bind" -> Unset

Admit(t) ==
  /\ task[t].pc = "posted"
  /\ \A l \in LocksOf(t) : Free(l)
  /\ IF Admissible(t)
     THEN /\ task' = [task EXCEPT
                ![t].pc = IF Req[t].op \in {"factory", "bind"} THEN "store" ELSE "queued",
                ![t].put = Payload(t),
                ![t].orig = IF Req[t].op = "rename" THEN cfg.profiles ELSE {}]
          /\ locks' = [l \in DOMAIN locks |-> IF l \in LocksOf(t) THEN t ELSE locks[l]]
     ELSE /\ task' = [task EXCEPT ![t] = At("done")]
          /\ UNCHANGED locks
  /\ UNCHANGED <<fileVars, cfg, compiled, bound, viewVars, posts, fails>>

-----------------------------------------------------------------------------
(* The save, on a thread: read the file, merge the edited keys, validate, write *)
(* the whole document back.                                                    *)

\* Mutant: the read-modify-write without its lock.
CanSaveUnlocked == TRUE

\* save_lock.
CanSave == Free("save")

ReadFile(t) ==
  /\ task[t].pc = "queued"
  /\ CanSave
  /\ locks' = [locks EXCEPT !["save"] = t]
  /\ task' = [task EXCEPT ![t].pc = "saving", ![t].read = disk]
  /\ UNCHANGED <<fileVars, cfg, compiled, bound, viewVars, posts, fails>>

\* What the handler does next. A hot apply reloads the file for the keys that
\* changed; a clear and a rename first set the running configuration themselves.
After(t) ==
  CASE Req[t].op = "clear" -> "clear"
    [] Req[t].op = "rename" /\ task[t].put.profiles # task[t].orig -> "alias"
    [] OTHER -> "apply"

Merged(put, old) == [k \in Parts |-> IF k \in DOMAIN put THEN put[k] ELSE old[k]]

\* The version moves with the file.
WriteFile(t) ==
  LET put == task[t].put
      old == task[t].read
  IN
  /\ task[t].pc = "saving"
  /\ disk' = Merged(put, old)
  /\ behind' = TRUE
  /\ locks' = [locks EXCEPT !["save"] = Nobody]
  /\ task' = [task EXCEPT ![t].pc = After(t),
                           ![t].written = {k \in DOMAIN put : put[k] # old[k]}]
  /\ UNCHANGED <<factory, cfg, compiled, bound, view, resident, posts, fails>>

\* The guard or the schema refuses the document, the lock or the write times out.
\* A rename whose rollback fails leaves both names in the running configuration.
SaveFails(t) ==
  /\ task[t].pc \in {"queued", "saving", "store"}
  /\ fails < MaxFails
  /\ fails' = fails + 1
  /\ task' = [task EXCEPT ![t] =
       IF Req[t].op = "rename" /\ task[t].put.profiles = task[t].orig
       THEN At("aliased") ELSE At("done")]
  /\ locks' = Release(t)
  /\ UNCHANGED <<fileVars, cfg, compiled, bound, viewVars, posts>>

\* The factory list read before the save is in force.
ApplyClear(t) ==
  /\ task[t].pc = "clear"
  /\ cfg' = [cfg EXCEPT !.rules = factory]
  /\ Goto(t, "compile")
  /\ UNCHANGED <<fileVars, compiled, bound, viewVars, locks, posts, fails>>

\* Both names resolve until the cascade has moved the bindings.
Alias(t) ==
  /\ task[t].pc = "alias"
  /\ cfg' = [cfg EXCEPT !.profiles = @ \cup {Req[t].new}]
  /\ Goto(t, "cascade")
  /\ UNCHANGED <<fileVars, compiled, bound, viewVars, locks, posts, fails>>

\* rename_profile_refs, one transaction; when it fails the original profiles are
\* saved back.
Cascade(t) ==
  LET r == Req[t] IN
  /\ task[t].pc = "cascade"
  /\ bound' = IF r.old \in bound THEN (bound \ {r.old}) \cup {r.new} ELSE bound
  /\ behind' = (behind \/ r.old \in bound)
  /\ Goto(t, "apply")
  /\ UNCHANGED <<fileVars, cfg, compiled, view, resident, locks, posts, fails>>

CascadeFails(t) ==
  /\ task[t].pc = "cascade"
  /\ fails < MaxFails
  /\ fails' = fails + 1
  /\ task' = [task EXCEPT ![t].pc = "queued", ![t].put = [profiles |-> task[t].orig]]
  /\ UNCHANGED <<fileVars, cfg, compiled, bound, viewVars, locks, posts>>

\* set_key_config, in the handler's own thread.
StoreBinding(t) ==
  /\ task[t].pc = "store" /\ Req[t].op = "bind"
  /\ bound' = task[t].page
  /\ behind' = TRUE
  /\ task' = [task EXCEPT ![t] = At("done")]
  /\ locks' = Release(t)
  /\ UNCHANGED <<fileVars, cfg, compiled, view, resident, posts, fails>>

\* save_factory_rules, then what is in force: a local copy still shadows it.
StoreFactory(t) ==
  /\ task[t].pc = "store" /\ Req[t].op = "factory"
  /\ factory' = task[t].put.rules
  /\ Goto(t, "inForce")
  /\ UNCHANGED <<disk, cfg, compiled, bound, viewVars, locks, posts, fails>>

ApplyFactory(t) ==
  /\ task[t].pc = "inForce"
  /\ cfg' = [cfg EXCEPT !.rules = InForce(disk.rules)]
  /\ Goto(t, "compile")
  /\ UNCHANGED <<fileVars, compiled, bound, viewVars, locks, posts, fails>>

-----------------------------------------------------------------------------
(* The hot apply (_apply_hot_changes).                                         *)

\* Mutant: reload and setattr of two saves interleave.
CanApplyUnlocked == TRUE

\* _APPLY_LOCK.
CanApply == Free("apply")

LoadOverrides(t) ==
  /\ task[t].pc = "apply"
  /\ CanApply
  /\ locks' = [locks EXCEPT !["apply"] = t]
  /\ task' = [task EXCEPT ![t].pc = "loaded", ![t].read = disk]
  /\ UNCHANGED <<fileVars, cfg, compiled, bound, viewVars, posts, fails>>

\* Mutant: the bump of the save is the only one.
BehindAsBefore == behind

\* The version moves again once the running configuration is current.
Behind == TRUE

\* Mutant: the diff is taken after the setattr.
ReplacedAfter(t) == task[t].read.over

\* The overrides are compared with those the setattr replaces.
Replaced(t) == cfg.over

SetRunning(t) ==
  LET read == task[t].read
      new == [read EXCEPT !.rules = InForce(read.rules)]
      keys == task[t].written
      then == IF "rules" \in keys THEN "compile"
              ELSE IF "over" \in keys /\ Replaced(t) # new.over THEN "drain"
              ELSE "done"
      over == [locks EXCEPT !["apply"] = Nobody]
  IN
  /\ task[t].pc = "loaded"
  /\ cfg' = [k \in Parts |-> IF k \in keys THEN new[k] ELSE cfg[k]]
  /\ behind' = IF then = "compile" THEN behind ELSE Behind
  /\ IF then = "done"
     THEN /\ task' = [task EXCEPT ![t] = At("done")]
          /\ locks' = [l \in DOMAIN over |-> IF over[l] = t THEN Nobody ELSE over[l]]
     ELSE /\ Goto(t, then)
          /\ locks' = over
  /\ UNCHANGED <<fileVars, compiled, bound, view, resident, posts, fails>>

\* Mutant: the handlers that set the rules themselves compile nothing.
CompiledByHot(t) == IF Req[t].op \in {"factory", "clear"} THEN compiled ELSE cfg.rules

\* rebuild_caches.
CompiledBy(t) == cfg.rules

Compile(t) ==
  /\ task[t].pc = "compile"
  /\ compiled' = CompiledBy(t)
  /\ behind' = (behind \/ Req[t].op \notin {"factory", "clear"})
  /\ task' = [task EXCEPT ![t] = At("done")]
  /\ locks' = Release(t)
  /\ UNCHANGED <<fileVars, cfg, bound, view, resident, posts, fails>>

\* drain_then_evict, once the model-load lock is free.
Drain(t) ==
  /\ task[t].pc = "drain"
  /\ resident' = None
  /\ task' = [task EXCEPT ![t] = At("done")]
  /\ locks' = Release(t)
  /\ UNCHANGED <<fileVars, cfg, compiled, bound, behind, view, posts, fails>>

-----------------------------------------------------------------------------
(* What reads the running configuration.                                       *)

\* _refresh_ident, on the connection's next decode.
RefreshIdent ==
  /\ behind
  /\ behind' = FALSE
  /\ view' = Resolved
  /\ UNCHANGED <<fileVars, cfg, compiled, bound, resident, task, locks, posts, fails>>

LoadModel ==
  /\ resident = None
  /\ resident' = cfg.over
  /\ UNCHANGED <<fileVars, cfg, compiled, bound, behind, view, task, locks, posts, fails>>

Next ==
  \/ RefreshIdent
  \/ LoadModel
  \/ \E t \in Tasks :
       \/ Post(t) \/ Admit(t)
       \/ ReadFile(t) \/ WriteFile(t) \/ SaveFails(t)
       \/ ApplyClear(t) \/ Alias(t) \/ Cascade(t) \/ CascadeFails(t) \/ StoreBinding(t)
       \/ StoreFactory(t) \/ ApplyFactory(t)
       \/ LoadOverrides(t) \/ SetRunning(t) \/ Compile(t) \/ Drain(t)

Spec == Init /\ [][Next]_vars

-----------------------------------------------------------------------------
(* Properties.                                                                 *)

\* The effective value of each key of the file.
Keys == {"over", "profiles"} \cup Slugs
Value(d, k) == IF k \in Slugs THEN InForce(d.rules)[k] ELSE d[k]

\* The keys a request edits: everything else of the document it writes back is
\* what other requests saved.
Edits(t) ==
  LET r == Req[t] IN
  CASE r.op = "over" -> {"over"}
    [] r.op \in {"rules", "clear"} -> Slugs
    [] r.op = "patch" -> {r.slug}
    [] OTHER -> {"profiles"}

SavedAsAsked(t) ==
  /\ \A k \in Keys \ Edits(t) : Value(disk, k) = Value(disk', k)
  /\ Req[t].op = "patch" /\ Req[t].fp => Value(disk, Req[t].slug) = task[t].page
Saves(t) == task[t].pc = "saving" /\ task'[t].pc \in {"apply", "clear", "alias"}

\* A save changes the keys its request edits and no other, whatever was saved
\* while it waited or validated, and a rule patched from a page that carried its
\* fingerprint still had the text of that page (atomic_json.save_lock,
\* pl_apply.rules_lock, apply_rules_patch).
NoLostEdit == [][\A t \in Tasks : Saves(t) => SavedAsAsked(t)]_vars

Quiet == \A t \in Tasks : ~Active(t)

RunningIsSaved ==
  /\ cfg.over = disk.over
  /\ cfg.rules = InForce(disk.rules)
  /\ (\A t \in Tasks : task[t].pc # "aliased") => cfg.profiles = disk.profiles
ViewIsCurrent == ~behind => view = Resolved
ModelIsCurrent == resident \in {None, cfg.over}

\* Once no save is under way, the running configuration is the saved one, the
\* rules are compiled from it, a connection that has seen the current version
\* resolved it, and no model stays loaded under overrides replaced meanwhile
\* (apply_hot_changes).
Settled ==
  Quiet => RunningIsSaved /\ compiled = cfg.rules /\ ViewIsCurrent /\ ModelIsCurrent

\* At no moment does a stored binding name a profile the running configuration
\* lacks: a missing profile drops its layer, and the locks it set (_PROFILES_LOCK,
\* PROFILE_REFS_LOCK, the alias of rename_profile).
LayersHold == bound \subseteq cfg.profiles

=============================================================================
