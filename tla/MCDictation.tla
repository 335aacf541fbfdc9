------------------------------ MODULE MCDictation ------------------------------
(* Instances of DictationStream for TLC: a joiner the hold-back knows, one it  *)
(* does not, a filler and a sentence end, in every position by the run's cfg.  *)
EXTENDS DictationStream

OneModel == <<"final">>
TwoModels == <<"final", "partial">>

-----------------------------------------------------------------------------

\* No word of the dictation is committed twice and none is lost, and the buffer,
\* the agreed prefix and the held-back tail stay in step (HypothesisBuffer,
\* _maybe_trim, _reanchor, _hard_break).
TextKept == TypeOK /\ EachWordOnce /\ NoWordLost

=============================================================================
