--------------------------- MODULE MCSessionsStore ---------------------------
(* Small instances of SessionsStore.                                          *)
EXTENDS SessionsStore, FiniteSets, TLC

CONSTANTS w1, w2

\* All streams on one worker, so that sign-outs come from it and from a sibling.
OneHome == [s \in Streams |-> w1]

Symmetry == Permutations(Tokens) \cup Permutations(Streams)

\* Bound: after a mishap, two sessions only while no stream is open.
Born == {t \in Tokens : rows[t] # "unborn"}
FewAfterMishap ==
  \/ mishaps = 0
  \/ Cardinality(Born) <= 1
  \/ \A s \in Streams : stream[s] = "closed"
=============================================================================
