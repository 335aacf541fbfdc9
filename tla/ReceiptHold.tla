----------------------------- MODULE ReceiptHold -----------------------------
(* Dictation receipts held back until their translation lands                  *)
(* (transcription/receipt_hold.py), parked by a stream, claimed or released by  *)
(* a translate request (translation/routes.py), swept when idle, flushed when   *)
(* the server stops.                                                            *)
EXTENDS Integers, FiniteSets

CONSTANTS
  Keys,      \* captured_id
  Cap,       \* _MAX_HELD
  Hold,      \* LOG_RECEIPT_HOLD_S, in ticks
  Requests,  \* translate requests
  MaxParks   \* bound: receipts parked, numbered in order

VARIABLES
  held,      \* _held: key -> the receipt and how long it was not touched
  earlier,   \* the pairs of held keys of which the first was touched before the other
  overflow,  \* _overflow: how often each receipt is in it
  logged,    \* how often each receipt was logged
  parked,    \* receipts parked so far
  req,       \* per request: its key and phase
  stopped    \* flush_all has run

holdVars == <<held, earlier, overflow, logged, parked, req, stopped>>

Receipts == 1..MaxParks

HoldInit ==
  /\ held = [key \in {} |-> 0] /\ earlier = {}
  /\ overflow = [n \in Receipts |-> 0]
  /\ logged = [n \in Receipts |-> 0]
  /\ parked = 0
  /\ req = [r \in Requests |-> [phase |-> "idle"]]
  /\ stopped = FALSE

Held == DOMAIN held
Without(out) == [key \in Held \ out |-> held[key]]
\* How many of the entries of these keys are receipt n.
Of(ks, n) == Cardinality({key \in ks : held[key].receipt = n})
Among(ks) == {pair \in earlier : pair[1] \in ks /\ pair[2] \in ks}
\* The key is the one touched last.
Latest(key, others) == Among(others) \cup {<<other, key>> : other \in others}

\* Mutant: a second park on the key overwrites the first.
DisplacedNone(key) == {}

\* A receipt of the same key still waiting.
Displaced(key) == {key} \cap Held

LeastTouched == {key \in Held : \A other \in Held \ {key} : <<key, other>> \in earlier}

\* At the cap the least recently touched makes room for a new key.
Park(key) ==
  LET full == key \notin Held /\ Cardinality(Held) >= Cap IN
  /\ ~stopped /\ parked < MaxParks
  /\ parked' = parked + 1
  /\ \E evicted \in IF full THEN {{victim} : victim \in LeastTouched} ELSE {{}} :
       LET others == Held \ (evicted \cup {key})  out == evicted \cup Displaced(key) IN
       /\ held' = [k \in others \cup {key} |->
                     IF k = key THEN [receipt |-> parked + 1, idle |-> 0] ELSE held[k]]
       /\ earlier' = Latest(key, others)
       /\ overflow' = [n \in Receipts |-> overflow[n] + Of(out, n)]
  /\ UNCHANGED <<logged, req, stopped>>

\* A translate request names the capture it translates; queued for the GPU or
\* waiting for a cold model it heartbeats, then its progress does.
Request(r, key) ==
  /\ req[r].phase = "idle"
  /\ req' = [req EXCEPT ![r] = [phase |-> "running", key |-> key]]
  /\ UNCHANGED <<held, earlier, overflow, logged, parked, stopped>>

Touch(key) ==
  IF key \in Held
  THEN held' = [held EXCEPT ![key].idle = 0] /\ earlier' = Latest(key, Held \ {key})
  ELSE UNCHANGED <<held, earlier>>

Beat(r) ==
  /\ req[r].phase = "running"
  /\ Touch(req[r].key)
  /\ UNCHANGED <<overflow, logged, parked, req, stopped>>

\* Entries leave to be logged.
Leave(ks) == held' = Without(ks) /\ earlier' = Among(Held \ ks)

\* The translation returned: the receipt is logged with it, or the request logs
\* one of its own. A failed, cancelled, refused or dropped request releases it.
End(r) ==
  LET claimed == {req[r].key} \cap Held IN
  /\ req[r].phase = "running"
  /\ Leave(claimed)
  /\ logged' = [n \in Receipts |-> logged[n] + Of(claimed, n)]
  /\ req' = [req EXCEPT ![r] = [phase |-> "done"]]
  /\ UNCHANGED <<overflow, parked, stopped>>

Pass ==
  /\ \E key \in Held : held[key].idle <= Hold
  /\ held' = [key \in Held |-> [held[key] EXCEPT !.idle = IF @ > Hold THEN @ ELSE @ + 1]]
  /\ UNCHANGED <<earlier, overflow, logged, parked, req, stopped>>

Stale == {key \in Held : held[key].idle > Hold}

\* Mutant: the sweep forgets the overflow it empties.
SweptHeld(n) == Of(Stale, n)

Swept(n) == Of(Stale, n) + overflow[n]

Sweep ==
  /\ ~stopped
  /\ Leave(Stale)
  /\ overflow' = [n \in Receipts |-> 0]
  /\ logged' = [n \in Receipts |-> logged[n] + Swept(n)]
  /\ UNCHANGED <<parked, req, stopped>>

\* The lifespan's end, once the streams are closed.
FlushAll ==
  /\ ~stopped
  /\ stopped' = TRUE
  /\ Leave(Held)
  /\ overflow' = [n \in Receipts |-> 0]
  /\ logged' = [n \in Receipts |-> logged[n] + Of(Held, n) + overflow[n]]
  /\ UNCHANGED <<parked, req>>

HoldNext ==
  \/ \E key \in Keys : Park(key)
  \/ \E r \in Requests : Beat(r) \/ End(r) \/ \E key \in Keys : Request(r, key)
  \/ Pass \/ Sweep \/ FlushAll

-----------------------------------------------------------------------------

\* No receipt is ever silently lost, nor logged twice: each one parked is held,
\* waits in the overflow or was logged, exactly once, whoever parks over it,
\* claims, releases, evicts, sweeps or flushes it (receipt_hold).
NothingLost == \A n \in 1..parked : logged[n] + Of(Held, n) + overflow[n] = 1

=============================================================================
