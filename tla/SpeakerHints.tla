---------------------------- MODULE SpeakerHints ----------------------------
(* The speaker hints of a batch request (main.py): a count and a range of      *)
(* speakers, each from a lock, the client or the configuration, reconciled to  *)
(* what the diarizer accepts, which is a count or a range that is not inverted. *)
EXTENDS Integers, FiniteSets

CONSTANTS
  MaxSpeakers   \* bounds the values (32 in the code)

Hints == {"num", "min", "max"}
Bounds == {"min", "max"}
Other(b) == IF b = "min" THEN "max" ELSE "min"
Values == 0..MaxSpeakers   \* 0: none

VARIABLES
  configured,   \* what cfg_for resolves
  locked,       \* the hints an identity layer locks
  asked,        \* what the client sent: hint -> value; an absent hint is inherited
  answer        \* the hints given to the diarizer and those reported as ignored

hintsVars == <<configured, locked, asked, answer>>

Nothing == [h \in {} |-> 0]
Pending == [hints |-> Nothing, ignored |-> {}]

HintsTypeOK ==
  /\ configured \in [Hints -> Values] /\ locked \subseteq Hints
  /\ asked \in UNION {[S -> Values] : S \in SUBSET Hints}
  /\ answer # Pending => /\ answer.hints \in [Hints -> Values]
                         /\ answer.ignored \subseteq Hints

HintsInit ==
  /\ configured \in [Hints -> Values] /\ locked \in SUBSET Hints
  /\ asked = Nothing /\ answer = Pending

-----------------------------------------------------------------------------
\* Of a request q under the locks L.

Crossed(b, v, w) == v > 0 /\ w > 0 /\ IF b = "min" THEN v > w ELSE v < w

Sends(q, h) == h \in DOMAIN q /\ q[h] > 0

\* A client bound on the wrong side of the opposite locked bound.
Refused(q, L) ==
  {b \in Bounds \ L : /\ Sends(q, b) /\ Other(b) \in L
                      /\ Crossed(b, q[b], configured[Other(b)])}

\* Who set a hint: 2 a lock, 1 the client, 0 inherited.
Rank(q, L, h) ==
  IF h \in L THEN 2 ELSE IF h \in DOMAIN q \ Refused(q, L) THEN 1 ELSE 0

\* The client's own range outranks an inherited count.
Chosen(q, L) ==
  LET ownRange == \E b \in Bounds \ (L \cup Refused(q, L)) : Sends(q, b)
  IN [h \in Hints |->
        CASE Rank(q, L, h) = 2 -> configured[h]
          [] Rank(q, L, h) = 1 -> q[h]
          [] OTHER -> IF h \in Refused(q, L) \/ (h = "num" /\ ownRange) THEN 0
                      ELSE configured[h]]

\* Mutants of Barred and of Reported.
BarredClient(q, L, c) ==
  /\ c["num"] > 0 /\ Rank(q, L, "num") = 1
  /\ \E b \in Bounds \cap L : Crossed(b, c[b], c["num"])
ReportedLocked(q, L, c, d) == {h \in DOMAIN q \cap L : q[h] # configured[h]}

\* An unlocked count outside a locked bound would override that lock.
Barred(q, L, c) ==
  /\ c["num"] > 0 /\ "num" \notin L
  /\ \E b \in Bounds \cap L : Crossed(b, c[b], c["num"])

\* A count replaces the range; an inverted range loses its lower-ranked side, or,
\* ranked alike, has its minimum lowered.
Fitted(q, L, c) ==
  LET lo == Rank(q, L, "min")  hi == Rank(q, L, "max")
  IN IF c["num"] > 0 THEN [c EXCEPT !["min"] = 0, !["max"] = 0]
     ELSE IF ~Crossed("min", c["min"], c["max"]) THEN c
     ELSE IF lo = hi THEN [c EXCEPT !["min"] = c["max"]]
     ELSE [c EXCEPT ![IF lo > hi THEN "max" ELSE "min"] = 0]

\* What the client sent and a lock kept from it: a locked hint, a refused bound, a
\* barred count, the bounds beside a locked count, the losing side of a range.
Reported(q, L, c, d) ==
  {h \in DOMAIN q \cap L : q[h] # configured[h]} \cup Refused(q, L)
  \cup {h \in {"num"} : Barred(q, L, c) /\ Rank(q, L, h) = 1}
  \cup {b \in Bounds : d["num"] > 0 /\ "num" \in L /\ Sends(q, b)}
  \cup {b \in Bounds : /\ d["num"] = 0 /\ Crossed(b, d[b], d[Other(b)])
                       /\ Rank(q, L, b) = 1 /\ Rank(q, L, Other(b)) = 2}

Reconciled(q, L) ==
  LET c == Chosen(q, L)
      d == [c EXCEPT !["num"] = IF Barred(q, L, c) THEN 0 ELSE @]
  IN [hints |-> Fitted(q, L, d), ignored |-> Reported(q, L, c, d)]

Reconcile ==
  /\ answer = Pending
  /\ \E S \in SUBSET Hints : asked' \in [S -> Values]
  /\ answer' = Reconciled(asked', locked)
  /\ UNCHANGED <<configured, locked>>

HintsSpec == HintsInit /\ [][Reconcile]_hintsVars

-----------------------------------------------------------------------------

\* The diarizer is given a count or a range, and no inverted range (the speaker
\* reconciliation of transcribe).
Accepted ==
  answer # Pending =>
    /\ answer.hints["num"] > 0 => answer.hints["min"] = 0 /\ answer.hints["max"] = 0
    /\ ~Crossed("min", answer.hints["min"], answer.hints["max"])

\* No two locks contradict each other.
Coherent ==
  LET Lock(h) == IF h \in locked THEN configured[h] ELSE 0
  IN /\ ~Crossed("min", Lock("min"), Lock("max"))
     /\ \A b \in Bounds : ~Crossed(b, Lock(b), Lock("num"))

\* A lock is respected: what the diarizer is given never lies outside a locked
\* hint, unless two locks contradict each other (the ranks).
LocksRespected ==
  LET Lock(h) == IF h \in locked THEN configured[h] ELSE 0
  IN answer # Pending /\ Coherent =>
       /\ Lock("num") > 0 => answer.hints["num"] = Lock("num")
       /\ \A b \in Bounds : Lock(b) > 0 /\ Lock("num") = 0 =>
            IF answer.hints["num"] > 0 THEN ~Crossed(b, Lock(b), answer.hints["num"])
            ELSE answer.hints[b] = Lock(b)

\* A hint the client would have got but for a lock that says otherwise is reported
\* as ignored.
LossesReported ==
  answer # Pending /\ Coherent =>
    \A h \in {g \in DOMAIN asked \ answer.ignored : g \in locked => asked[g] # configured[g]} :
      asked[h] > 0 /\ answer.hints[h] # asked[h]
      => Reconciled(asked, {}).hints[h] # asked[h]

\* Without locks nothing is reported, and a hint is the client's own unless
\* another of its hints contradicts it.
OwnHintsKept ==
  answer # Pending /\ locked = {} =>
    /\ answer.ignored = {}
    /\ "num" \in DOMAIN asked => answer.hints["num"] = asked["num"]

=============================================================================
