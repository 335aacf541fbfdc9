--------------------------- MODULE DictationClient ---------------------------
(* What a live dictation promises the client that draws its frames            *)
(* (streaming/session.py:1-54): a document that only grows between two        *)
(* boundaries under one output wrapper, a committed part that is never taken  *)
(* back, and utterances whose ordinals only grow, each announced one closed   *)
(* by exactly one terminal frame.                                             *)
EXTENDS Naturals, Sequences, SequencesExt

VARIABLES
  doc,     \* the document on screen
  locked,  \* how many of its tokens were sent as committed
  wrap,    \* the output prefix and suffix it was opened with; 0 before
  utt,     \* the announced utterance that waits for its terminal frame; 0: none
  used     \* the greatest ordinal a terminal frame has carried

vars == <<doc, locked, wrap, utt, used>>

Init ==
  /\ doc = <<>>
  /\ locked = 0
  /\ wrap = 0
  /\ utt = 0
  /\ used = 0

\* The utterance frames "open" and "decoding".
Announced(n) ==
  /\ utt \in {0, n}
  /\ n > used
  /\ utt' = n
  /\ UNCHANGED <<doc, locked, wrap, used>>

\* The utterance frame "dropped".
Dropped(n) ==
  /\ utt = n
  /\ utt' = 0
  /\ used' = n
  /\ UNCHANGED <<doc, locked, wrap>>

\* The text of a final: it extends what is on screen.
Grows(d, c, w) ==
  /\ d # <<>>
  /\ IsPrefix(doc, d)
  /\ c \in locked..Len(d)
  /\ wrap \in {0, w}
  /\ doc' = d
  /\ locked' = c
  /\ wrap' = w

\* A final with an ordinal: an utterance's, or the closing document's, whose
\* ordinal belongs to no utterance.
Final(n, d, c, w) ==
  /\ utt \in {0, n}
  /\ n > used
  /\ utt' = 0
  /\ used' = n
  /\ Grows(d, c, w)

\* A release final: held-back words, of no utterance.
Release(d, w) ==
  /\ utt = 0
  /\ Grows(d, Len(d), w)
  /\ UNCHANGED <<utt, used>>

\* A hard break: the next final starts a fresh document.
Boundary ==
  /\ utt = 0
  /\ doc # <<>>
  /\ doc' = <<>>
  /\ locked' = 0
  /\ wrap' = 0
  /\ UNCHANGED <<utt, used>>

\* The frame a step carries is read off the next state.
Next ==
  \/ Announced(utt')
  \/ Dropped(used')
  \/ Final(used', doc', locked', wrap')
  \/ Release(doc', wrap')
  \/ Boundary

Spec == Init /\ [][Next]_vars
=============================================================================
