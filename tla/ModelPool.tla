----------------------------- MODULE ModelPool ------------------------------
(***************************************************************************)
(* What a cache of loaded models promises the callers that lease from it:  *)
(* one resident instance per model, and an instance in use stays resident  *)
(* until its users are done, its model is revoked (its load-time settings  *)
(* were edited), or the load that brought it in fails before confirming it.*)
(* When instances are unloaded, and in which order, is left open.          *)
(***************************************************************************)
CONSTANTS Models, Clients, Instances, None

VARIABLES
  resident,     \* the instance loaded for each model, or None
  users,        \* the clients using each instance, resident or not
  unconfirmed,  \* models whose load has not returned yet
  revoked       \* models whose resident instance may be taken from its users

vars == <<resident, users, unconfirmed, revoked>>

Init ==
  /\ resident = [m \in Models |-> None]
  /\ users = [i \in Instances |-> {}]
  /\ unconfirmed = {}
  /\ revoked = {}

Without(S) == [m \in Models |-> IF m \in S THEN None ELSE resident[m]]

\* One client starts to use the resident instance of m.
Acquire(c, m) ==
  /\ resident[m] # None
  /\ users' = [users EXCEPT ![resident[m]] = @ \cup {c}]
  /\ UNCHANGED <<resident, unconfirmed, revoked>>

Release(c, i) ==
  /\ c \in users[i]
  /\ users' = [users EXCEPT ![i] = @ \ {c}]
  /\ UNCHANGED <<resident, unconfirmed, revoked>>

\* A new instance, which nobody or only its loader uses.
Load(m, i, loaders) ==
  /\ resident[m] = None
  /\ users[i] = {} /\ \A n \in Models : resident[n] # i
  /\ resident' = [resident EXCEPT ![m] = i]
  /\ users' = [users EXCEPT ![i] = loaders]
  /\ unconfirmed' = unconfirmed \cup {m}
  /\ UNCHANGED revoked

\* The load of m returns, to its loader or, if that was cancelled, to nobody.
Confirm(m, leaving) ==
  /\ m \in unconfirmed
  /\ unconfirmed' = unconfirmed \ {m}
  /\ users' = [users EXCEPT ![resident[m]] = @ \ leaving]
  /\ UNCHANGED <<resident, revoked>>

\* The load of m fails after all.
Withdraw(m, leaving) ==
  /\ m \in unconfirmed
  /\ unconfirmed' = unconfirmed \ {m}
  /\ users' = [users EXCEPT ![resident[m]] = @ \ leaving]
  /\ resident' = Without({m})
  /\ UNCHANGED revoked

\* Unload instances nobody uses.
Evict(S) ==
  /\ \A m \in S : resident[m] # None => users[resident[m]] = {}
  /\ S \cap unconfirmed = {}
  /\ resident' = Without(S)
  /\ UNCHANGED <<users, unconfirmed, revoked>>

Revoke(S) ==
  /\ revoked' = revoked \cup S
  /\ UNCHANGED <<resident, users, unconfirmed>>

\* Unload revoked models from under their users, who keep their instance.
Detach(S) ==
  /\ S \subseteq revoked
  /\ S \cap unconfirmed = {}
  /\ resident' = Without(S)
  /\ revoked' \in {T \in SUBSET revoked : revoked \ S \subseteq T}
  /\ UNCHANGED <<users, unconfirmed>>

AtMostOne == {{}} \cup {{c} : c \in Clients}

Next ==
  \/ \E m \in Models :
       \/ \E c \in Clients : Acquire(c, m)
       \/ \E i \in Instances, C \in AtMostOne : Load(m, i, C)
       \/ \E C \in AtMostOne : Confirm(m, C) \/ Withdraw(m, C)
  \/ \E c \in Clients, i \in Instances : Release(c, i)
  \/ \E S \in SUBSET Models : Evict(S) \/ Revoke(S) \/ Detach(S)

Spec == Init /\ [][Next]_vars
=============================================================================
