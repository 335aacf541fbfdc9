----------------------------- MODULE MCPreload -----------------------------
(* Two users; a whisper model and the two pipelines of a singleton family.     *)
EXTENDS Preload

MCStage == <<1, 2, 2>>
MCFamily == <<"whisper", "diarization", "diarization">>

\* A client names its plan, a job adopts it by its id, another user guesses it.
MCRequests ==
  {[user |-> "ann", id |-> <<"plan", 0>>, models |-> {1, 2}, ahead |-> FALSE,
    job |-> FALSE],
   [user |-> "ann", id |-> <<"plan", 0>>, models |-> {2, 3}, ahead |-> TRUE,
    job |-> TRUE],
   [user |-> "bob", id |-> <<"plan", 0>>, models |-> {3}, ahead |-> FALSE,
    job |-> TRUE]}

=============================================================================
