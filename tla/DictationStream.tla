--------------------------- MODULE DictationStream ---------------------------
(* One WebSocket dictation from handshake to teardown (streaming/routes.py,    *)
(* transcribe_stream): the receive loop, the pump that feeds the session, the  *)
(* model loads and their leases, the session slots, and what a revocation, a   *)
(* vanished client or the server's shutdown does at every await.               *)
EXTENDS DictationSession

CONSTANTS
  Models,    \* the final model and, if it has its own, the partial model
  QueueCap,  \* bound: the backlog cap, in items
  MaxBumps,  \* bound: configuration edits and revocations
  MaxCancels \* bound: cancellations of the handler, and disconnects

ASSUME StreamAssumption ==
  /\ Models \in {<<"final">>, <<"final", "partial">>}
  /\ QueueCap \in Nat \ {0}
  /\ {MaxBumps, MaxCancels} \subseteq Nat

VARIABLES
  phase,     \* where the handler is
  slots,     \* what it occupies: the per-user slot, the session table
  load,      \* per model: its load task
  direct,    \* the client vanished during a load: no more keepalives
  leased,    \* models leased and not released
  held,      \* _model_leases_held
  handover,  \* loads whose done-callback releases their lease
  frames,    \* audio frames received so far
  queue,     \* audio_q
  pending,   \* _flush_pending
  pump,      \* none, running, stopped
  skip,      \* _skip_partials
  cancels

handlerVars == <<phase, slots, load, direct, leased, held, handover, frames,
                 queue, pending, pump, skip, cancels>>
vars == <<sessionVars, handlerVars>>

Loads == DOMAIN Models

Init ==
  /\ SessionInit
  /\ phase = "new"
  /\ slots = {}
  /\ load = [i \in Loads |-> "none"]
  /\ direct = FALSE
  /\ leased = {}
  /\ held = {}
  /\ handover = {}
  /\ frames = 0
  /\ queue = <<>>
  /\ pending = FALSE
  /\ pump = "none"
  /\ skip = FALSE
  /\ cancels = 0

-----------------------------------------------------------------------------
(* Handshake and model loads.                                                  *)

loadVars == <<load, direct, leased, held, handover>>
queueVars == <<frames, queue, pending, pump, skip>>

\* authenticate_ws after the version snapshot, then both caps: a full server
\* gives the slot of the user back.
Handshake ==
  /\ phase = "new"
  /\ seen' = version
  /\ \/ valid /\ slots' = {"user", "session"} /\ phase' = "accept"
     \/ slots' = {} /\ phase' = "done"
  /\ UNCHANGED <<pc, ctx, utt, idle, ord, la, text, lang, spoken, doc, client, wire,
                 version, valid, revoked, mishaps, loadVars, queueVars, cancels>>

\* ws.accept: a client that went away raises, and both slots go back.
Accept ==
  /\ phase = "accept"
  /\ IF wire = "open" THEN phase' = "first" /\ UNCHANGED slots
     ELSE phase' = "done" /\ slots' = {}
  /\ UNCHANGED <<sessionVars, loadVars, queueVars, cancels>>

\* The first message: a configuration, or at once audio; idle for too long, a
\* disconnect or an unsupported format end the connection.
First(audio) ==
  /\ phase = "first"
  /\ \/ /\ wire = "open"
        /\ load' = [load EXCEPT ![1] = "running"]
        /\ phase' = "load"
        /\ frames' = IF audio THEN 1 ELSE 0
        /\ queue' = IF audio THEN <<"pcm">> ELSE <<>>
     \/ /\ phase' = "teardown"
        /\ UNCHANGED <<load, frames, queue>>
  /\ UNCHANGED <<sessionVars, slots, direct, leased, held, handover, pending,
                 pump, skip, cancels>>

\* The load task ends, taking a lease or failing; a hand-over releases it.
LoadEnds(i, ok) ==
  /\ load[i] = "running"
  /\ load' = [load EXCEPT ![i] = IF ok THEN "landed" ELSE "failed"]
  /\ leased' = IF ok /\ i \notin handover THEN leased \cup {i} ELSE leased
  /\ UNCHANGED <<sessionVars, phase, slots, direct, held, handover, queueVars, cancels>>

Loading(i) == phase = "load" /\ load[i] # "none" /\ \A j \in Loads : j > i => load[j] = "none"

\* A keepalive that fails: the rest of the load is awaited directly.
KeepaliveFails ==
  /\ \E i \in Loads : Loading(i) /\ load[i] = "running"
  /\ wire # "open"
  /\ ~direct
  /\ direct' = TRUE
  /\ UNCHANGED <<sessionVars, phase, slots, load, leased, held, handover,
                 queueVars, cancels>>

\* _load_with_keepalive returned: its lease is the session's; the partial model
\* loads next, or the transport and the pump start.
LoadReturns(i, starts) ==
  /\ Loading(i)
  /\ load[i] = "landed"
  /\ held' = held \cup {i}
  /\ direct' = FALSE
  /\ IF i + 1 \in Loads
     THEN load' = [load EXCEPT ![i + 1] = "running"] /\ UNCHANGED <<phase, pump>>
     ELSE /\ phase' = IF starts THEN "live" ELSE "teardown"
          /\ pump' = IF starts THEN "running" ELSE "none"
          /\ UNCHANGED load
  /\ UNCHANGED <<sessionVars, slots, leased, handover, frames, queue, pending, skip,
                 cancels>>

LoadRaises(i) ==
  /\ Loading(i)
  /\ load[i] = "failed"
  /\ phase' = "teardown"
  /\ UNCHANGED <<sessionVars, slots, loadVars, queueVars, cancels>>

-----------------------------------------------------------------------------
(* The receive loop.                                                           *)

\* sink: shed the oldest items over the cap, then queue the audio; a flush
\* queued before it does not cover it, a flush that is shed can be asked again.
Sink == queue' = Append(SubSeq(queue, Max({1, Len(queue) + 2 - QueueCap}), Len(queue)),
                        "pcm")

\* Mutant: audio that arrives behind a flush counts as covered by it.
ReceiveAudioCovered ==
  /\ phase = "live"
  /\ wire = "open"
  /\ ~revoked
  /\ frames < MaxFrames
  /\ frames' = frames + 1
  /\ Sink
  /\ UNCHANGED <<sessionVars, phase, slots, loadVars, pending, pump, skip, cancels>>

ReceiveAudio ==
  /\ phase = "live"
  /\ wire = "open"
  /\ ~revoked
  /\ frames < MaxFrames
  /\ frames' = frames + 1
  /\ Sink
  /\ pending' = FALSE
  /\ UNCHANGED <<sessionVars, phase, slots, loadVars, pump, skip, cancels>>

ReceiveFlush ==
  /\ phase = "live"
  /\ wire = "open"
  /\ ~revoked
  /\ ~pending
  /\ Len(queue) < QueueCap
  /\ queue' = Append(queue, "flush")
  /\ pending' = TRUE
  /\ UNCHANGED <<sessionVars, phase, slots, loadVars, frames, pump, skip, cancels>>

\* Mutant: the stop of a stream with an encoded tail is forgotten.
EndOfAudioUnstopped(tail) ==
  /\ phase = "live"
  /\ phase' = "drain"
  /\ IF tail /\ frames < MaxFrames
     THEN /\ frames' = frames + 1
          /\ queue' = Append(queue, "pcm")
          /\ pending' = FALSE
     ELSE queue' = Append(queue, "stop") /\ UNCHANGED <<frames, pending>>
  /\ UNCHANGED <<sessionVars, slots, loadVars, pump, skip, cancels>>

\* A stop, a disconnect, no audio for too long, a dead decoder or a latched
\* revocation end the loop; the transport's encoded tail still reaches the sink,
\* then the stop.
EndOfAudio(tail) ==
  /\ phase = "live"
  /\ phase' = "drain"
  /\ IF tail /\ frames < MaxFrames
     THEN /\ frames' = frames + 1
          /\ queue' = Append(queue, "pcm") \o <<"stop">>
          /\ pending' = FALSE
     ELSE queue' = Append(queue, "stop") /\ UNCHANGED <<frames, pending>>
  /\ UNCHANGED <<sessionVars, slots, loadVars, pump, skip, cancels>>

-----------------------------------------------------------------------------
(* The pump.                                                                   *)

Pumping == pump = "running" /\ phase \in {"live", "drain", "cancelled", "lastclose"}

\* _pump takes an item; behind realtime it skips previews.
Take ==
  /\ Pumping
  /\ pc = "idle"
  /\ queue # <<>>
  /\ queue' = Tail(queue)
  /\ CASE Head(queue) = "stop" ->
            pump' = "stopped" /\ UNCHANGED <<pc, ctx, pending, skip>>
       [] Head(queue) = "pcm" ->
            /\ pc' = "vad"
            /\ ctx' = "frame"
            /\ skip' = (\E i \in DOMAIN Tail(queue) : Tail(queue)[i] = "pcm")
            /\ UNCHANGED <<pump, pending>>
       [] Head(queue) = "flush" -> StartFlush /\ UNCHANGED <<pump, pending, skip>>
  /\ UNCHANGED <<utt, idle, ord, la, text, lang, spoken, doc, client, outside, seen,
                 revoked, mishaps, phase, slots, loadVars, frames, cancels>>

\* A frame or a step of a decode; a flush re-arms when it ends in any way.
PumpStep ==
  /\ Pumping
  /\ pc # "idle"
  /\ \/ Speech(skip)
     \/ Silence
     \/ SessionStep
  /\ pending' = IF ctx = "flush" /\ pc' \in {"idle", "aborted"} THEN FALSE ELSE pending
  /\ UNCHANGED <<phase, slots, loadVars, frames, queue, pump, skip, cancels>>

\* _CredentialRevoked: the pump answers, closes the socket and stops.
PumpRevoked ==
  /\ Pumping
  /\ pc = "aborted"
  /\ pc' = "idle"
  /\ pump' = "stopped"
  /\ wire' = IF wire = "open" THEN "closed" ELSE wire
  /\ UNCHANGED <<ctx, utt, idle, ord, la, text, lang, spoken, doc, client, version,
                 valid, seen, revoked, mishaps, phase, slots, loadVars, frames,
                 queue, pending, skip, cancels>>

\* The pump is cancelled at its await; a finalize under way ends its utterance,
\* and no one will tell the client of it any more.
CancelPump ==
  /\ pump' = "stopped"
  /\ pc' = "idle"
  /\ IF pc \in {"finalize", "final", "emit", "report"}
     THEN EndUtterance(utt) /\ client' = [client EXCEPT !.utt = 0,
                                                        !.used = Max({@, client.utt})]
     ELSE UNCHANGED <<ord, utt, la, client>>
  /\ UNCHANGED <<ctx, idle, text, lang, spoken, doc, outside, seen, revoked, mishaps>>

-----------------------------------------------------------------------------
(* Close and teardown.                                                         *)

\* The pump has drained: a revoked client is cut off, a cancelled handler goes
\* to its teardown, any other closes the session.
Drained ==
  /\ phase \in {"drain", "cancelled"}
  /\ pump = "stopped"
  /\ CASE phase = "cancelled" ->
            phase' = "teardown" /\ UNCHANGED <<pc, ctx, wire>>
       [] phase = "drain" /\ revoked ->
            /\ phase' = "teardown"
            /\ wire' = IF wire = "open" THEN "closed" ELSE wire
            /\ UNCHANGED <<pc, ctx>>
       [] OTHER -> StartClose /\ phase' = "close" /\ UNCHANGED wire
  /\ UNCHANGED <<utt, idle, ord, la, text, lang, spoken, doc, client, version, valid,
                 seen, revoked, mishaps, slots, loadVars, queueVars, cancels>>

CloseStep ==
  /\ phase \in {"close", "lastclose"}
  /\ pump # "running"
  /\ ctx = "close"
  /\ SessionStep
  /\ UNCHANGED handlerVars

\* session.close returned or raised: the closing frame or the error frame, and
\* the socket closes.
Closed ==
  /\ phase = "close"
  /\ pc \in {"closed", "broken", "aborted"}
  /\ phase' = "teardown"
  /\ pc' = "closed"
  /\ wire' = IF wire = "open" THEN "closed" ELSE wire
  /\ UNCHANGED <<ctx, utt, idle, ord, la, text, lang, spoken, doc, client, version,
                 valid, seen, revoked, mishaps, slots, loadVars, queueVars, cancels>>

\* The finally: the slots and the leases before any await.
Teardown ==
  /\ phase = "teardown"
  /\ slots' = {}
  /\ leased' = leased \ held
  /\ held' = {}
  /\ phase' = "lastclose"
  /\ UNCHANGED <<sessionVars, load, direct, handover, queueVars, cancels>>

\* Its awaits: a pump still running is cancelled; a session that exists and was
\* not closed is closed, best effort.
StopPump ==
  /\ phase = "lastclose"
  /\ pump = "running"
  /\ pc # "aborted"
  /\ CancelPump
  /\ UNCHANGED <<phase, slots, loadVars, frames, queue, pending, skip, cancels>>

LastClose ==
  /\ phase = "lastclose"
  /\ pump = "stopped"
  /\ pc = "idle"
  /\ StartClose
  /\ UNCHANGED <<utt, idle, ord, la, text, lang, spoken, doc, client, outside, seen,
                 revoked, mishaps, handlerVars>>

Done ==
  /\ phase = "lastclose"
  /\ \/ pump = "none"
     \/ pump = "stopped" /\ pc \in {"closed", "broken", "aborted"}
  /\ phase' = "done"
  /\ wire' = IF wire = "open" THEN "closed" ELSE wire
  /\ UNCHANGED <<pc, ctx, utt, idle, ord, la, text, lang, spoken, doc, client, version,
                 valid, seen, revoked, mishaps, slots, loadVars, queueVars, cancels>>

-----------------------------------------------------------------------------
(* The environment.                                                            *)

\* The client's socket is gone: sends are dropped, receive returns a disconnect.
ClientVanishes ==
  /\ wire = "open"
  /\ phase \notin {"new", "done"}
  /\ cancels < MaxCancels
  /\ cancels' = cancels + 1
  /\ wire' = "gone"
  /\ UNCHANGED <<pc, ctx, utt, idle, ord, la, text, lang, spoken, doc, client, version,
                 valid, seen, revoked, mishaps, phase, slots, loadVars, queueVars>>

\* An admin's edit, or the revocation of the connection's credential.
Bump(revokes) ==
  /\ version <= MaxBumps
  /\ phase # "done"
  /\ valid
  /\ version' = version + 1
  /\ valid' = ~revokes
  /\ UNCHANGED <<pc, ctx, utt, idle, ord, la, text, lang, spoken, doc, client, wire,
                 seen, revoked, mishaps, handlerVars>>

\* Mutant: a load in flight is left to itself.
CancelLoadOrphaned(i) ==
  /\ Loading(i)
  /\ cancels < MaxCancels
  /\ cancels' = cancels + 1
  /\ phase' = "teardown"
  /\ IF load[i] = "landed" THEN held' = held \cup {i} /\ UNCHANGED load
     ELSE UNCHANGED <<load, held>>
  /\ UNCHANGED <<sessionVars, slots, direct, leased, handover, queueVars>>

\* A cancellation of the handler (the server shuts down) at the load's await: a
\* load that landed is recorded for the teardown, one in flight releases its own
\* lease, one awaited directly is cancelled with it.
CancelLoad(i) ==
  /\ Loading(i)
  /\ cancels < MaxCancels
  /\ cancels' = cancels + 1
  /\ phase' = "teardown"
  /\ CASE load[i] = "landed" -> held' = held \cup {i} /\ UNCHANGED <<load, handover>>
       [] load[i] = "running" /\ ~direct ->
            handover' = handover \cup {i} /\ UNCHANGED <<load, held>>
       [] load[i] = "running" /\ direct ->
            load' = [load EXCEPT ![i] = "cancelled"] /\ UNCHANGED <<handover, held>>
       [] OTHER -> UNCHANGED <<load, handover, held>>
  /\ UNCHANGED <<sessionVars, slots, direct, leased, queueVars>>

\* ... at ws.accept, at the first receive, at the receive loop, at the drain,
\* at the close.
CancelHandler ==
  /\ cancels < MaxCancels
  /\ cancels' = cancels + 1
  /\ \/ /\ phase = "accept"
        /\ phase' = "done"
        /\ slots' = {}
        /\ UNCHANGED <<sessionVars, queueVars>>
     \/ /\ phase = "first"
        /\ phase' = "teardown"
        /\ UNCHANGED <<sessionVars, queueVars, slots>>
     \/ /\ phase = "live"
        /\ phase' = "cancelled"
        /\ queue' = Append(queue, "stop")
        /\ UNCHANGED <<sessionVars, slots, frames, pending, pump, skip>>
     \/ /\ phase = "live" \* while the transport closes: no stop is queued
        /\ phase' = "teardown"
        /\ UNCHANGED <<sessionVars, slots, queueVars>>
     \/ /\ phase \in {"drain", "cancelled"}
        /\ pump = "running"
        /\ pc # "aborted"
        /\ phase' = "teardown"
        /\ CancelPump
        /\ UNCHANGED <<slots, frames, queue, pending, skip>>
     \/ /\ phase = "close"
        /\ pc \in {"final", "report"}
        /\ phase' = "teardown"
        /\ pc' = "closed"
        /\ EndUtterance(utt)
        /\ UNCHANGED <<ctx, idle, text, lang, spoken, doc, client, outside, seen,
                       revoked, mishaps, slots, queueVars>>
  /\ UNCHANGED loadVars

-----------------------------------------------------------------------------
Next ==
  \/ Handshake
  \/ Accept
  \/ \E audio \in BOOLEAN : First(audio)
  \/ \E i \in Loads : \/ \E ok \in BOOLEAN : LoadEnds(i, ok) \/ LoadReturns(i, ok)
                      \/ LoadRaises(i)
                      \/ CancelLoad(i)
  \/ KeepaliveFails
  \/ ReceiveAudio
  \/ ReceiveFlush
  \/ \E tail \in BOOLEAN : EndOfAudio(tail)
  \/ Take
  \/ PumpStep
  \/ PumpRevoked
  \/ Drained
  \/ CloseStep
  \/ Closed
  \/ Teardown
  \/ StopPump
  \/ LastClose
  \/ Done
  \/ ClientVanishes
  \/ \E revokes \in BOOLEAN : Bump(revokes)
  \/ CancelHandler

Spec == Init /\ [][Next]_vars

\* The event loop runs what is ready: the pump, the session's decodes, the load
\* threads and the handler's own steps; nothing makes a client send or leave.  A
\* session that is not idle can always step, so its weak fairness is written
\* with that in place of ENABLED, which TLC evaluates slowly.
CanStep ==
  /\ pc \notin {"idle", "aborted", "closed", "broken"}
  /\ Pumping \/ (phase \in {"close", "lastclose"} /\ pump # "running")
SessionRuns == []<>~CanStep \/ []<><<PumpStep \/ CloseStep>>_vars

Fairness ==
  /\ SessionRuns
  /\ WF_vars(Take \/ PumpRevoked \/ StopPump)
  /\ WF_vars(Drained \/ Closed \/ Teardown \/ LastClose \/ Done)
  /\ WF_vars(\E i \in Loads, ok \in BOOLEAN : LoadEnds(i, ok))

FairSpec == Spec /\ Fairness

-----------------------------------------------------------------------------
(* Properties.                                                                 *)

Phases == {"new", "accept", "first", "load", "live", "drain", "cancelled",
           "close", "teardown", "lastclose", "done"}
Spoken == 1..MaxFrames
Hypothesis == Seq(Spoken \cup {-w : w \in Spoken})

\* The handler, its session and its document have the shapes the code gives them.
TypeOK ==
  /\ phase \in Phases
  /\ slots \subseteq {"user", "session"}
  /\ load \in [Loads -> {"none", "running", "landed", "failed", "cancelled"}]
  /\ leased \cup held \cup handover \subseteq Loads
  /\ pump \in {"none", "running", "stopped"}
  /\ frames \in 0..MaxFrames
  /\ queue \in Seq({"pcm", "flush", "stop"})
  /\ pc \in {"idle", "vad", "finalize", "final", "emit", "report", "partial",
             "held", "break", "last", "closed", "broken", "aborted"}
  /\ utt.audio \in Seq(0..MaxFrames)
  /\ utt.cut <= Len(utt.audio)
  /\ {la.done, la.tail, text.raw} \subseteq Hypothesis
  /\ text.locked <= Len(text.sent)
  /\ text.anchorRaw <= text.sentEnd
  /\ text.sentEnd <= Len(text.raw)

Rising(s) == \A i \in 1..Len(s) - 1 : Word(s[i]) < Word(s[i + 1])
Tokens(d) == [i \in DOMAIN d |-> d[i][1]]

\* No word is dictated twice: not in the previews' agreement, not across a trim
\* of the buffer, not in the document, whatever its language switches, holds,
\* re-anchorings, failed decodes and failed formats did before.
EachWordOnce ==
  /\ Rising(Transcript)
  /\ Rising(text.raw)
  /\ Rising(Tokens(text.sent))

\* What was banked out of the buffer reaches the document, and the document
\* shows every word it covers that the pipeline keeps.
NoWordLost ==
  /\ pc \in {"emit", "report"} => Range(utt.banked) \subseteq Range(text.raw)
  /\ \A i \in 1..text.sentEnd :
       Word(text.raw[i]) \in Fillers \/ text.raw[i] \in Range(Tokens(text.sent))

\* A final after a long silence, and the closing one, leave nothing held back:
\* once a session closed in order every word of the document is on screen.
NothingHeldAtClose == pc = "closed" /\ phase = "close" => ~HasHeld

\* What the client draws keeps DictationClient's promise.
D == INSTANCE DictationClient
       WITH doc <- client.doc, locked <- client.locked, wrap <- client.wrap,
            utt <- client.utt, used <- client.used
ClientSpec == D!Spec

\* Once a stream saw its credential refused no text reaches its client: not from
\* the rest of the backlog, the closing document or the teardown's best effort.
CutOffIsSilent == [][revoked => client'.doc = client.doc]_vars

\* A lease taken for a stream is released once, whatever ended it: the handler's
\* teardown or the hand-over holds each one, and none is released under a decode
\* the handler still waits for.
LeasesReturned ==
  /\ held \subseteq leased
  /\ phase = "done" => leased = {} /\ slots = {}
  /\ phase \in {"live", "drain", "close"} => leased = Loads

\* While a flush holds further ones back, one is queued or under way and no audio
\* came after it: a flush that is asked for and ignored is covered by it.
FlushCoversAudio ==
  pending /\ pump = "running" =>
    \/ \E i \in DOMAIN queue : /\ queue[i] = "flush"
                               /\ \A j \in i + 1..Len(queue) : queue[j] # "pcm"
    \/ ctx = "flush" /\ pc # "idle" /\ \A j \in DOMAIN queue : queue[j] # "pcm"

\* A stream whose audio ended, or that was cancelled or failed, ends with its slots and its leases given back.
StopEnds == phase \in {"drain", "cancelled", "teardown"} ~> phase = "done"
=============================================================================
