-------------------------------- MODULE Sums --------------------------------
(* The sum that FiniteSetsExt's MapThenSumSet is, in a module of its own: the    *)
(* stores are instantiated where they are proved about, and every operator an     *)
(* instance brings along makes each proof step slower.                            *)
EXTENDS Integers, Folds

\* Of n(x) over the elements x of S.
SumSet(n(_), S) == MapThenFoldSet(+, 0, n, LAMBDA T : CHOOSE x \in T : TRUE, S)

=============================================================================
