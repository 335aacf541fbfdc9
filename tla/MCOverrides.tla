----------------------------- MODULE MCOverrides -----------------------------
(* Configurations to check EffectiveConfig and SilenceGates with: one field, one *)
(* rule and two profiles, each request in one of them.                           *)
EXTENDS Integers, Sequences

\* Any bound layers under open gates or with one thing closed; any opinions on the
\* gates over two profiles, one of them bound.
None == [sets |-> {}, locks |-> {}, on |-> {}, off |-> {}]
Sets == [None EXCEPT !.sets = {"f"}]
Locks == [None EXCEPT !.locks = {"f"}, !.on = {"x"}]
Both == [None EXCEPT !.sets = {"f"}, !.locks = {"f"}, !.off = {"x"}]
Blobs == {None, Sets, Locks, Both}

Nobody == [direct |-> None, profiles |-> <<>>, naming |-> "none", overriding |-> "none",
           allow |-> {}, bare |-> FALSE]
Plain ==
  [bound |-> [s \in {"key", "user"} |-> Nobody], unread |-> {},
   stored |-> [p \in {"p", "q"} |-> Sets], hidden |-> {}, naming |-> TRUE,
   overriding |-> TRUE, model |-> None, globals |-> {"f"}]
Closed ==
  {Plain, [Plain EXCEPT !.naming = FALSE], [Plain EXCEPT !.overriding = FALSE],
   [Plain EXCEPT !.unread = {"user"}], [Plain EXCEPT !.unread = {"key"}],
   [Plain EXCEPT !.bound["key"].bare = TRUE], [Plain EXCEPT !.hidden = {"p"}],
   [Plain EXCEPT !.bound["user"].naming = "refuse"]}

MCWorlds ==
  {[c EXCEPT !.bound["key"].direct = kd, !.bound["key"].profiles = kp,
             !.bound["user"].direct = ud, !.bound["user"].profiles = up,
             !.stored["p"] = p, !.stored["q"] = q, !.model = m] :
     c \in Closed, kd \in Blobs, kp \in {<<>>, <<"q", "p">>}, ud \in Blobs \ {Sets},
     up \in {<<>>, <<"q">>}, p \in Blobs, q \in {Sets, Locks},
     m \in {[Sets EXCEPT !.off = {"x"}]}}
  \cup
  {[Plain EXCEPT
      !.bound["key"] = [Nobody EXCEPT !.naming = kn, !.overriding = ko, !.allow = ka],
      !.bound["user"] = [Nobody EXCEPT !.naming = un, !.overriding = uo, !.allow = ua,
                                       !.profiles = <<"q">>],
      !.naming = n, !.overriding = o,
      !.globals = IF o THEN {"f"} ELSE {}] :
     kn \in {"allow", "refuse", "none"}, ko \in {"allow", "refuse", "none"},
     un \in {"allow", "refuse", "none"}, uo \in {"refuse", "none"},
     n \in BOOLEAN, o \in BOOLEAN,
     ka \in {{}, {{"p"}}, {{"*"}}}, ua \in {{}, {{"p"}}}}

\* A hard break at and one past what fires after every finalize; one that an outer
\* can move under; an outer to be clamped.
MCSilences == [inner |-> {120, 400}, outer |-> {50, 100, 1280}, hard |-> {0, 160, 161, 1300}]
MCPins == {{}, {"inner"}}

=============================================================================
