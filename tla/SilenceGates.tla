---------------------------- MODULE SilenceGates ----------------------------
(* The three silences of live dictation (effective_config.py, streaming/       *)
(* routes.py): partials stop after the inner one, the outer one finalizes the  *)
(* utterance, the hard break starts a new document. They only work as a set;   *)
(* what a session runs is fitted from the configuration, the locks and what    *)
(* the client sent, and the client is told of each change of a value of its own. *)
EXTENDS Integers

CONSTANTS
  Candidates,   \* gate -> the values, in ms, that configuration, identity and client use
  Pins          \* the sets of gates a WHISPER_* variable may pin

Gates == {"inner", "outer", "hard"}
FrameMs == 32
Lowest == [inner |-> 0, outer |-> 100, hard |-> 0]          \* of the schema
Highest == [inner |-> 5000, outer |-> 10000, hard |-> 120000]

AnyValues ==
  [inner : Candidates["inner"], outer : Candidates["outer"], hard : Candidates["hard"]]

VARIABLES
  running,    \* what cfg_for resolves: gate -> ms
  valued,     \* the gates an identity layer gives a value
  locked,     \* the gates an identity layer locks
  pinned,     \* the gates an environment variable pins
  open,       \* the caller may send decode overrides
  sent,       \* what the handshake carries: gate -> ms
  session     \* the gates the session runs and what the client is told

gatesVars == <<running, valued, locked, pinned, open, sent, session>>

Larger(a, b) == IF a < b THEN b ELSE a
WithinBounds(g, v) ==
  IF v < Lowest[g] THEN Lowest[g] ELSE IF Highest[g] < v THEN Highest[g] ELSE v

NoGates == [g \in {} |-> 0]
Waiting == [gates |-> NoGates, own |-> NoGates, notes |-> {}]

-----------------------------------------------------------------------------

\* The longest hard break that fires right after every finalize.
HardBreakFloor(outer) == FrameMs * ((outer + FrameMs - 1) \div FrameMs + 1)

\* Mutants of BreaksEach and, below, of ClientValues.
BreaksEachBelow(hard, outer) == 0 < hard /\ hard < HardBreakFloor(outer)

BreaksEach(hard, outer) == 0 < hard /\ hard <= HardBreakFloor(outer)

\* What no longer fits an outer gate.
Refuse(g, outer) ==
  (IF g.inner >= outer THEN {"inner"} ELSE {})
  \cup (IF BreaksEach(g.hard, outer) THEN {"hard"} ELSE {})

\* An unlocked outer moves to its locked partners, if that helps.
MovedOuter(g, L) ==
  LET forHard == IF "hard" \in L \cap Refuse(g, g.outer)
                 THEN Larger(Lowest["outer"], g.hard - 1000) ELSE g.outer
      forBoth == IF "inner" \in L \cap Refuse(g, forHard) THEN g.inner + 50 ELSE forHard
  IN IF "outer" \in L \/ L \cap Refuse(g, forBoth) # {} THEN g.outer ELSE forBoth

\* Its unlocked partners follow.
Fit(g, L) ==
  LET outer == MovedOuter(g, L)
      follow == Refuse(g, outer) \ L
  IN [inner |-> IF "inner" \in follow THEN Larger(0, outer - 50) ELSE g.inner,
      outer |-> outer,
      hard  |-> IF "hard" \in follow THEN outer + 1000 ELSE g.hard]

Fits(g) == Refuse(g, g.outer) = {}

\* The gates a fit must never move; one the client set is its own.
Locks(client) ==
  {g \in Gates \ client : g \in locked \/ (g \in pinned /\ g \notin valued)}

Over(own) == [g \in Gates |-> IF g \in DOMAIN own THEN own[g] ELSE running[g]]
Without(own, g) == [h \in DOMAIN own \ {g} |-> own[h]]

ClientValuesKept(q) ==
  LET own == [g \in IF open THEN DOMAIN q \ locked ELSE {} |-> WithinBounds(g, q[g])]
      fitted == Fit(Over(own), Locks(DOMAIN own))
      moved == {g \in {"inner", "hard"} : /\ {g, "outer"} \cap DOMAIN own # {}
                                          /\ fitted[g] # Over(own)[g]}
  IN [own |-> [g \in DOMAIN own \cup moved |-> IF g \in moved THEN fitted[g] ELSE own[g]],
      notes |-> moved]

\* What the connection's own values come to, with a note for each one changed: an
\* outer that a locked partner refuses is dropped.
ClientValues(q) ==
  LET taken == IF open THEN DOMAIN q \ locked ELSE {}
      clamped == [g \in taken |-> WithinBounds(g, q[g])]
      dropped == /\ "outer" \in taken
                 /\ Refuse(Over(clamped), clamped["outer"]) \cap Locks(taken) # {}
      own == IF dropped THEN Without(clamped, "outer") ELSE clamped
      fitted == Fit(Over(own), Locks(DOMAIN own))
      moved == {g \in {"inner", "hard"} : /\ {g, "outer"} \cap DOMAIN own # {}
                                          /\ fitted[g] # Over(own)[g]}
  IN [own |-> [g \in DOMAIN own \cup moved |-> IF g \in moved THEN fitted[g] ELSE own[g]],
      notes |-> moved \cup (IF dropped THEN {"outer"} ELSE {})]

\* A session runs its own values, then the configuration, fitted once more.
Connect ==
  /\ session = Waiting
  /\ \E S \in SUBSET Gates : \E q \in AnyValues :
       /\ \A g \in Gates \ S : q[g] = running[g]
       /\ sent' = [g \in S |-> q[g]]
  /\ \E c \in {ClientValues(sent')} :
       session' = [gates |-> Fit(Over(c.own), Locks(DOMAIN c.own)),
                    own |-> c.own, notes |-> c.notes]
  /\ UNCHANGED <<running, valued, locked, pinned, open>>

GatesInit ==
  /\ running \in {r \in AnyValues : \A g \in Gates : r[g] >= Lowest[g]}
  /\ valued \in SUBSET Gates /\ locked \in SUBSET Gates
  /\ pinned \in Pins /\ open \in BOOLEAN
  /\ ~open => locked = {} /\ pinned = {}   \* then nothing of the client's is taken
  \* A save of a global set that does not fit is refused (_validate_silence_gates).
  /\ \A g \in Refuse(running, running["outer"]) : {g, "outer"} \cap (valued \cup pinned) # {}
  /\ sent = NoGates /\ session = Waiting

GatesSpec == GatesInit /\ [][Connect]_gatesVars

-----------------------------------------------------------------------------

\* The first frame at or past the outer silence finalizes; the hard break is due a
\* frame later.
FinalizedAt(outer) == CHOOSE n \in 1..outer : n * FrameMs >= outer /\ (n - 1) * FrameMs < outer
SplitsEach(g) == g.hard > 0 /\ (FinalizedAt(g.outer) + 1) * FrameMs >= g.hard

\* Some outer within its bounds fits the locked gates.
SomeOuterFits(L) ==
  LET low == IF "inner" \in L THEN Larger(Lowest["outer"], running["inner"] + 1) ELSE Lowest["outer"]
      outer == IF "outer" \in L THEN running["outer"] ELSE low
  IN Refuse(running, outer) \cap L = {}

Connected == session # Waiting
Fixed == Locks(DOMAIN session.own)

\* No locked or pinned gate is moved by a session or by its client
\* (silence_gate_locks).
LockedStay == Connected => \A g \in Fixed : session.gates[g] = running[g]

\* Partials stop before an utterance is finalized and no finalize starts a new
\* document by itself, as the frames are counted, wherever the locked gates leave
\* room for that; with both the inner gate and the hard break locked the fit looks
\* no further than two outer gates.
GatesWork ==
  Connected =>
    \/ session.gates.inner < session.gates.outer /\ ~SplitsEach(session.gates)
    \/ ~SomeOuterFits(Fixed)
    \/ {"inner", "hard"} \subseteq Fixed /\ "outer" \notin Fixed

\* A value the client sent, unlocked, is the one its session runs, but for its
\* bounds, or the client is told (the notes of _client_stream_values).
ClientTold ==
  Connected =>
    \A g \in DOMAIN sent :
      open /\ g \notin locked =>
        \/ session.gates[g] = WithinBounds(g, sent[g])
        \/ g \in session.notes

\* What the simulation of /resolve shows of a client value is what a session runs.
ShownIsRun == Connected => \A g \in DOMAIN session.own : session.gates[g] = session.own[g]

=============================================================================
