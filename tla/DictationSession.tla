--------------------------- MODULE DictationSession ---------------------------
(* The state machine of one live dictation (streaming/session.py) with its     *)
(* stabiliser (streaming/localagreement.py) and the hooks the route injects.   *)
(*                                                                             *)
(* Audio is a sequence of frames, each silence (0) or the next spoken word (a  *)
(* number); thresholds count frames.  A decode hears the words of the live     *)
(* buffer; a preview may mishear the last one (a negated number).  Text is a   *)
(* sequence of words.  A rule of the pipeline looks at the word that follows   *)
(* when its own word is a Joiner; the hold-back knows every joiner but the     *)
(* Unheld; Fillers format to nothing.  Sending a frame never blocks.           *)
EXTENDS Integers, Sequences, SequencesExt, FiniteSetsExt

CONSTANTS
  MaxFrames,     \* bound: audio frames one client sends
  MinSpeech,     \* min_speech_ms
  ForcedCommit,  \* forced_commit_sec
  CommitSilence, \* commit_silence_ms; the inner gate is one silent frame
  HardBreak,     \* hard_break_silence_ms; 0: off
  IdleRelease,   \* _IDLE_RELEASE_MS
  MaxBuffer,     \* max_buffer_sec
  TrimAt,        \* buffer_trim_sec
  TrimKeep,      \* buffer_trim_keep_sec
  MaxHold,       \* max_hold_chars
  TailMargin,    \* tail_margin_chars
  Joiners, Unheld, Fillers, Terminators,  \* words by what the pipeline does
  MaxMishaps     \* bound: failing decodes, formats and rows

ASSUME ThresholdAssumption ==
  /\ {MaxFrames, MinSpeech, ForcedCommit, CommitSilence, IdleRelease,
      MaxBuffer} \subseteq Nat \ {0}
  /\ {HardBreak, TrimAt, TrimKeep, MaxHold, TailMargin, MaxMishaps} \subseteq Nat
  /\ TrimKeep < TrimAt
  /\ Unheld \subseteq Joiners

VARIABLES
  pc,       \* what the session awaits
  ctx,      \* who finalizes: a frame, a flush or the close
  utt,      \* the utterance being heard
  idle,     \* _idle_silence_ms
  ord,      \* _utterance_index
  la,       \* LocalAgreement: committed words, the tail to agree with
  text,     \* the rolling document
  lang,     \* the language the document is formatted in
  spoken,   \* words spoken so far
  doc,      \* [open, wrap]: the wrapper state of the route's emit
  client,   \* what the client holds (see DictationClient)
  wire,     \* the socket: open, closed by the server, gone
  version,  \* the configuration version
  seen,     \* the version the connection resolved its identity under
  valid,    \* whether its credential still resolves
  revoked,  \* _auth_revoked
  mishaps

sessionVars == <<pc, ctx, utt, idle, ord, la, text, lang, spoken, doc, client,
                 wire, version, seen, valid, revoked, mishaps>>
\* What no step of the session touches.
outside == <<version, valid, wire>>

NoUtt == [in |-> FALSE, speech |-> 0, silence |-> 0, audio |-> <<>>, cut |-> 0,
          banked |-> <<>>, told |-> "none", final |-> FALSE, terminal |-> FALSE]
NoAgreement == [done |-> <<>>, tail |-> <<>>, near |-> <<>>]
NoDocument == [sent |-> <<>>, sentEnd |-> 0, anchorRaw |-> 0, anchor |-> <<>>,
               key |-> 0]
NewText == [raw |-> <<>>, locked |-> 0] @@ NoDocument

SessionInit ==
  /\ pc = "idle"
  /\ ctx = "frame"
  /\ utt = NoUtt
  /\ idle = 0
  /\ ord = 1
  /\ la = NoAgreement
  /\ text = NewText
  /\ lang = 1
  /\ spoken = 0
  /\ doc = [open |-> FALSE, wrap |-> 1]
  /\ client = [doc |-> <<>>, locked |-> 0, wrap |-> 0, utt |-> 0, used |-> 0]
  /\ wire = "open"
  /\ version = 1
  /\ seen = 1
  /\ valid = TRUE
  /\ revoked = FALSE
  /\ mishaps = 0

-----------------------------------------------------------------------------
(* LocalAgreement-2.                                                           *)

Word(t) == IF t < 0 THEN -t ELSE t
WordsIn(frames) == SelectSeq(frames, LAMBDA f : f # 0)
Live == SubSeq(utt.audio, utt.cut + 1, Len(utt.audio))

\* What a decode of the live buffer returns; misheard: its last word is cut off.
Heard(misheard) ==
  LET w == WordsIn(Live) IN
  IF misheard /\ w # <<>> THEN [w EXCEPT ![Len(w)] = -@] ELSE w

\* Mutant: the n-gram guard is missing.
InsertedUnguarded(hyp, jitter) ==
  LET from == IF la.done = <<>> THEN 0 ELSE Word(Last(la.done)) IN
  SelectSeq(hyp, LAMBDA t : Word(t) > from \/ (jitter /\ Word(t) = from))

\* insert: drop what is committed, by time; a jittering timestamp lets the last
\* committed word through, and the n-gram guard drops it.
Inserted(hyp, jitter) ==
  LET from  == IF la.done = <<>> THEN 0 ELSE Word(Last(la.done))
      fresh == SelectSeq(hyp, LAMBDA t : Word(t) > from \/ (jitter /\ Word(t) = from))
      dup   == {i \in 1..Min({Len(la.near), Len(fresh)}) :
                  SubSeq(la.near, Len(la.near) - i + 1, Len(la.near))
                    = SubSeq(fresh, 1, i)}
  IN  IF dup = {} THEN fresh ELSE SubSeq(fresh, Min(dup) + 1, Len(fresh))

\* flush: commit the longest prefix two hypotheses in a row agree on.
Committed(new) ==
  LET n == Max({i \in 0..Min({Len(la.tail), Len(new)}) :
                  SubSeq(la.tail, 1, i) = SubSeq(new, 1, i)})
      agreed == SubSeq(new, 1, n)
  IN  [done |-> la.done \o agreed, near |-> la.near \o agreed,
       tail |-> SubSeq(new, n + 1, Len(new))]

\* The whole utterance as far as the previews heard it.
Transcript == la.done \o la.tail

At(w) == CHOOSE i \in DOMAIN utt.audio : utt.audio[i] = Word(w)

\* _maybe_trim: cut at the last agreed word that is old enough, and bank it.
TrimPoint(l) ==
  LET old == {At(l.done[i]) : i \in {j \in DOMAIN l.done :
                At(l.done[j]) <= Len(utt.audio) - TrimKeep}}
  IN  IF Len(Live) <= TrimAt \/ old = {} THEN utt.cut ELSE Max(old \cup {utt.cut})
Trimmed(l) ==
  LET cut == TrimPoint(l) IN
  [utt EXCEPT !.cut = cut,
              !.banked = @ \o SelectSeq(l.done, LAMBDA w : At(w) \in utt.cut + 1..cut)]

-----------------------------------------------------------------------------
(* The document: hold-back, anchor, committed part.                            *)

\* postprocess: a joiner reads differently once a word follows it, in the
\* language whose rules are tagged so.
Formatted(raw, key) ==
  LET Kept == SelectSeq([i \in DOMAIN raw |-> i],
                        LAMBDA i : Word(raw[i]) \notin Fillers)
  IN  [k \in DOMAIN Kept |->
        LET i == Kept[k] IN
        <<raw[i], Word(raw[i]) \in Joiners /\ key = 1 /\ i < Len(raw)>>]

\* holdback: the trailing words a rule could still join with what follows.
HeldFrom(raw) ==
  Max({0} \cup {i \in DOMAIN raw : Word(raw[i]) \notin Joiners \ Unheld})

FromAnchor(t, end) == t.anchor \o Formatted(SubSeq(t.raw, t.anchorRaw + 1, end), t.key)

\* Mutant: the anchor moves past the words still held back.
ReanchoredPastHeld(t) == [t EXCEPT !.anchorRaw = Len(t.raw), !.anchor = t.sent]

\* _reanchor: what was sent is frozen.
Reanchored(t) == [t EXCEPT !.anchorRaw = t.sentEnd, !.anchor = t.sent]

\* _stable_commit_len: through the last sentence end both documents agree on.
StableLen(t, d, all) ==
  LET agreed == {i \in DOMAIN t.sent : Word(d[i][1]) \in Terminators}
      stop   == Max({0} \cup agreed)
      safe   == IF Len(d) - stop > MaxHold THEN Max({stop, Len(d) - TailMargin})
                ELSE stop
  IN  IF all THEN Len(d) ELSE Max({safe, t.locked})

\* _compose, first half: another language formats from the sent text on.
Keyed(t) ==
  [(IF t.sent # <<>> /\ t.key \notin {0, lang} THEN Reanchored(t) ELSE t)
     EXCEPT !.key = lang]

\* Mutant: a sent document that a rule rewrote is sent again.
ComposedRewriting(t, hold, all) ==
  LET t2  == Keyed(t)
      end == IF hold
             THEN Max({t2.sentEnd,
                       t2.anchorRaw + HeldFrom(SubSeq(t2.raw, t2.anchorRaw + 1,
                                                      Len(t2.raw)))})
             ELSE Len(t2.raw)
      d   == FromAnchor(t2, end)
  IN  [t2 EXCEPT !.sent = d, !.sentEnd = end, !.locked = StableLen(t2, d, all)]

\* _compose and _emit_document: the next document and what of it is committed.
Composed(t, hold, all) ==
  LET t2  == Keyed(t)
      end == IF hold
             THEN Max({t2.sentEnd,
                       t2.anchorRaw + HeldFrom(SubSeq(t2.raw, t2.anchorRaw + 1,
                                                      Len(t2.raw)))})
             ELSE Len(t2.raw)
      t3  == IF IsPrefix(t2.sent, FromAnchor(t2, end)) THEN t2 ELSE Reanchored(t2)
      d   == FromAnchor(t3, end)
  IN  [t3 EXCEPT !.sent = d, !.sentEnd = end, !.locked = StableLen(t2, d, all)]

\* _has_held.
HasHeld == text.sentEnd < Len(text.raw)

-----------------------------------------------------------------------------
(* The route's hooks: emit and the credential check.                           *)

\* A frame reaches the client only on an open socket.
Send(c) == client' = IF wire = "open" THEN c ELSE client

\* emit: the first final of a document takes the current wrapper, the closing
\* one and a boundary end it.
Wrapper == IF doc.open THEN doc.wrap ELSE seen
EmitFinal(t, n) ==
  Send([client EXCEPT !.doc = t.sent, !.locked = t.locked, !.wrap = Wrapper,
                      !.utt = IF n = 0 THEN @ ELSE 0,
                      !.used = IF n = 0 THEN @ ELSE n])

\* _require_live_credential: a version bump re-resolves the identity.
Refused == revoked \/ (version # seen /\ ~valid)
Refresh ==
  /\ seen' = version
  /\ revoked' = Refused

-----------------------------------------------------------------------------
(* Finalizing.                                                                 *)

\* _end_utterance: the ordinal moves when it may have reached the wire.
EndUtterance(u) ==
  /\ ord' = IF u.told # "none" \/ u.final THEN ord + 1 ELSE ord
  /\ utt' = NoUtt
  /\ la' = NoAgreement

\* Where a finalize that ended returns to, and where one that raised does.
Return == pc' = CASE ctx = "frame" -> "idle"
                  [] ctx = "flush" -> "held"
                  [] ctx = "close" -> "last"
Unwind == pc' = IF ctx = "close" THEN "last" ELSE "idle"

\* A revoked credential aborts the session's call; the utterance ends if its
\* finalize was under way.
Abort(finalizing) ==
  /\ pc' = "aborted"
  /\ IF finalizing THEN EndUtterance(utt) ELSE UNCHANGED <<ord, utt, la>>

Fails == mishaps < MaxMishaps /\ mishaps' = mishaps + 1

Dropped == Send([client EXCEPT !.utt = 0, !.used = ord])

\* _finalize_inner up to its decode: the gate that skips it on near-silence,
\* with what LocalAgreement has as the text, or the frame that announces it.
Finalize(quiet) ==
  /\ pc = "finalize"
  /\ IF utt.speech < MinSpeech \/ quiet
     THEN /\ IF Transcript = <<>>
             THEN /\ IF utt.told # "none" THEN Dropped ELSE UNCHANGED client
                  /\ EndUtterance(utt)
                  /\ Return
                  /\ UNCHANGED text
             ELSE /\ text' = [text EXCEPT !.raw = @ \o Transcript]
                  /\ pc' = "emit"
                  /\ UNCHANGED <<client, utt, ord, la>>
          /\ UNCHANGED <<seen, revoked>>
     ELSE /\ Send([client EXCEPT !.utt = ord])
          /\ Refresh
          /\ IF Refused
             THEN Abort(TRUE) \* told decoding: the ordinal moves
             ELSE /\ utt' = [utt EXCEPT !.told = "decoding"]
                  /\ pc' = "final"
                  /\ UNCHANGED <<ord, la>>
          /\ UNCHANGED text
  /\ UNCHANGED <<outside, ctx, idle, lang, spoken, doc, mishaps>>

\* decode_final returned: text, every segment dropped as made up, or nothing.
\* What _maybe_trim banked precedes what the decode heard.
FinalDecoded(raw, l) ==
  /\ pc = "final"
  /\ \/ raw = utt.banked \o Heard(FALSE)
     \/ raw = utt.banked
     \/ raw = Transcript
  /\ text' = [text EXCEPT !.raw = @ \o raw]
  /\ lang' = l
  /\ pc' = "emit"
  /\ UNCHANGED <<outside, ctx, utt, idle, ord, la, spoken, doc, client, seen,
                 revoked, mishaps>>

\* decode_final raised: the previews' transcript stands in; with none the
\* utterance is dropped, and still reported.
FinalFailed ==
  /\ pc = "final"
  /\ Fails
  /\ IF Transcript = <<>>
     THEN /\ Dropped
          /\ utt' = [utt EXCEPT !.terminal = TRUE]
          /\ pc' = "report"
          /\ UNCHANGED text
     ELSE /\ text' = [text EXCEPT !.raw = @ \o Transcript]
          /\ pc' = "emit"
          /\ UNCHANGED <<utt, client>>
  /\ UNCHANGED <<outside, ctx, idle, ord, la, lang, spoken, doc, seen, revoked>>

\* The rest of _finalize_inner: the document goes out, or the utterance is
\* dropped when the document is empty.
EmitUtterance ==
  /\ pc = "emit"
  /\ text' = Composed(text, ctx # "flush", FALSE)
  /\ IF text'.sent # <<>>
     THEN /\ EmitFinal(text', ord)
          /\ doc' = [open |-> TRUE, wrap |-> Wrapper]
          /\ utt' = [utt EXCEPT !.final = TRUE, !.terminal = TRUE]
     ELSE /\ IF utt.told # "none" THEN Dropped ELSE UNCHANGED client
          /\ utt' = [utt EXCEPT !.terminal = utt.told # "none"]
          /\ UNCHANGED doc
  /\ pc' = "report"
  /\ UNCHANGED <<outside, ctx, idle, ord, la, lang, spoken, seen, revoked, mishaps>>

\* postprocess raised: the client is told, the words stay in the document.
EmitFailed ==
  /\ pc = "emit"
  /\ Fails
  /\ text' = Keyed(text)
  /\ IF utt.told # "none" THEN Dropped ELSE UNCHANGED client
  /\ EndUtterance(utt)
  /\ Unwind
  /\ UNCHANGED <<outside, ctx, idle, lang, spoken, doc, seen, revoked>>

\* Mutant: a refused credential costs the rows and no more.
ReportFinalCarriesOn ==
  /\ pc = "report"
  /\ Refresh
  /\ EndUtterance(utt)
  /\ \/ Return /\ UNCHANGED mishaps
     \/ Unwind /\ Fails
  /\ UNCHANGED <<outside, ctx, idle, text, lang, spoken, doc, client>>

\* on_final: the credential once more, then the utterance's rows.
ReportFinal ==
  /\ pc = "report"
  /\ Refresh
  /\ \/ /\ Refused
        /\ Abort(TRUE)
        /\ UNCHANGED mishaps
     \/ /\ ~Refused
        /\ EndUtterance(utt)
        /\ \/ Return /\ UNCHANGED mishaps
           \/ Unwind /\ Fails
  /\ UNCHANGED <<outside, ctx, idle, text, lang, spoken, doc, client>>

-----------------------------------------------------------------------------
(* Frames, previews, releases, breaks.                                         *)

\* _run_partial up to its decode: behind realtime, too little or too quiet
\* audio, or a revoked credential means no preview.
StartPartial(u, skip) ==
  /\ utt' = u
  /\ IF skip \/ u.speech < MinSpeech
     THEN pc' = "idle" /\ UNCHANGED <<seen, revoked>>
     ELSE Refresh /\ pc' = IF Refused THEN "aborted" ELSE "partial"

\* _consume_frame on a frame with speech.
Speech(skip) ==
  /\ pc = "vad"
  /\ LET u == [utt EXCEPT !.in = TRUE, !.speech = @ + 1, !.silence = 0,
                          !.audio = Append(@, spoken + 1)]
         opens == u.told = "none" /\ u.speech >= MinSpeech
         v == IF opens THEN [u EXCEPT !.told = "open"] ELSE u
     IN  /\ spoken' = spoken + 1
         /\ IF Len(u.audio) >= MaxBuffer
            THEN /\ utt' = [utt EXCEPT !.audio = u.audio]
                 /\ pc' = "finalize"
                 /\ UNCHANGED <<client, idle, seen, revoked>>
            ELSE /\ idle' = 0
                 /\ IF opens THEN Send([client EXCEPT !.utt = ord])
                    ELSE UNCHANGED client
                 /\ IF v.speech >= ForcedCommit
                    THEN pc' = "finalize" /\ utt' = v /\ UNCHANGED <<seen, revoked>>
                    ELSE StartPartial(v, skip)
  /\ UNCHANGED <<outside, ctx, ord, la, text, lang, doc, mishaps>>

\* _consume_frame on a silent frame: it commits the utterance, ends the
\* document, or releases what is held.
LongestIdle == Max({HardBreak, IdleRelease})
Silence ==
  /\ pc = "vad"
  /\ LET long == Min({idle + 1, LongestIdle})
         u == [utt EXCEPT !.silence = @ + 1, !.audio = Append(@, 0)]
     IN  IF utt.in
         THEN IF Len(u.audio) >= MaxBuffer
              THEN /\ utt' = [utt EXCEPT !.audio = u.audio]
                   /\ pc' = "finalize"
                   /\ UNCHANGED idle
              ELSE /\ utt' = u
                   /\ idle' = long
                   /\ pc' = IF u.silence >= CommitSilence THEN "finalize" ELSE "idle"
         ELSE /\ idle' = long
              /\ pc' = CASE HardBreak > 0 /\ text.raw # <<>> /\ long >= HardBreak -> "break"
                         [] HardBreak = 0 /\ HasHeld /\ long >= IdleRelease -> "held"
                         [] OTHER -> "idle"
              /\ UNCHANGED utt
  /\ UNCHANGED <<outside, ctx, ord, la, text, lang, spoken, doc, client, seen,
                 revoked, mishaps>>

\* What LocalAgreement may hold after a preview.
Agreements == {Committed(Inserted(Heard(misheard), jitter)) :
                 misheard, jitter \in BOOLEAN}

\* decode_partial returned, l is what it agrees on: show, trim.
PartialDecoded(l) ==
  /\ pc = "partial"
  /\ utt' = Trimmed(l)
  /\ la' = [l EXCEPT !.near = SelectSeq(@, LAMBDA w : At(w) > utt'.cut)]
  /\ pc' = "idle"
  /\ UNCHANGED <<outside, ctx, idle, ord, text, lang, spoken, doc, client, seen,
                 revoked, mishaps>>

\* decode_partial raised: a preview less.
PartialFailed ==
  /\ pc = "partial"
  /\ Fails
  /\ pc' = "idle"
  /\ UNCHANGED <<outside, ctx, utt, idle, ord, la, text, lang, spoken, doc,
                 client, seen, revoked>>

\* _release_held, with its callers' test: after a flush, before a break, or
\* after a long silence.
Release ==
  /\ pc \in {"held", "break"}
  /\ HasHeld
  /\ text' = Composed(text, FALSE, TRUE)
  /\ IF text'.sent # <<>>
     THEN EmitFinal(text', 0) /\ doc' = [open |-> TRUE, wrap |-> Wrapper]
     ELSE UNCHANGED <<client, doc>>
  /\ pc' = IF pc = "held" THEN "idle" ELSE pc
  /\ UNCHANGED <<outside, ctx, utt, idle, ord, la, lang, spoken, seen, revoked,
                 mishaps>>

ReleaseFailed ==
  /\ pc \in {"held", "break"}
  /\ HasHeld
  /\ Fails
  /\ text' = Keyed(text)
  /\ pc' = "idle"
  /\ UNCHANGED <<outside, ctx, utt, idle, ord, la, lang, spoken, doc,
                 client, seen, revoked>>

NothingHeld ==
  /\ pc = "held"
  /\ ~HasHeld
  /\ pc' = "idle"
  /\ UNCHANGED <<outside, ctx, utt, idle, ord, la, text, lang, spoken, doc,
                 client, seen, revoked, mishaps>>

\* Mutant: the committed length survives the boundary.
BreakKeepsLocked ==
  /\ pc = "break"
  /\ ~HasHeld
  /\ IF text.sent # <<>>
     THEN /\ Send([client EXCEPT !.doc = <<>>, !.locked = 0, !.wrap = 0])
          /\ doc' = [doc EXCEPT !.open = FALSE]
     ELSE UNCHANGED <<client, doc>>
  /\ text' = [NewText EXCEPT !.locked = text.locked]
  /\ idle' = 0
  /\ pc' = "idle"
  /\ UNCHANGED <<outside, ctx, utt, ord, la, lang, spoken, seen, revoked, mishaps>>

\* The rest of _hard_break: a boundary if a document was sent, a fresh one.
Break ==
  /\ pc = "break"
  /\ ~HasHeld
  /\ IF text.sent # <<>>
     THEN /\ Send([client EXCEPT !.doc = <<>>, !.locked = 0, !.wrap = 0])
          /\ doc' = [doc EXCEPT !.open = FALSE]
     ELSE UNCHANGED <<client, doc>>
  /\ text' = NewText
  /\ idle' = 0
  /\ pc' = "idle"
  /\ UNCHANGED <<outside, ctx, utt, ord, la, lang, spoken, seen, revoked, mishaps>>

-----------------------------------------------------------------------------
(* Flush and close.                                                            *)

\* flush_utterance.
StartFlush ==
  /\ ctx' = "flush"
  /\ pc' = IF utt.in THEN "finalize" ELSE "held"

\* close: the utterance in flight, then the closing document.
StartClose ==
  /\ ctx' = "close"
  /\ pc' = IF utt.in THEN "finalize" ELSE "last"

EmitLast ==
  /\ pc = "last"
  /\ text' = Composed(text, FALSE, TRUE)
  /\ IF text'.sent # <<>>
     THEN EmitFinal(text', ord) /\ doc' = [open |-> FALSE, wrap |-> Wrapper]
     ELSE UNCHANGED <<client, doc>>
  /\ pc' = "closed"
  /\ UNCHANGED <<outside, ctx, utt, idle, ord, la, lang, spoken, seen, revoked,
                 mishaps>>

EmitLastFailed ==
  /\ pc = "last"
  /\ Fails
  /\ text' = Keyed(text)
  /\ pc' = "broken"
  /\ UNCHANGED <<outside, ctx, utt, idle, ord, la, lang, spoken, doc,
                 client, seen, revoked>>

\* A step of a decode, a format, a row or a frame that is under way.
SessionStep ==
  \/ \E quiet \in BOOLEAN : Finalize(quiet)
  \/ \E raw \in {utt.banked \o Heard(FALSE), utt.banked, Transcript}, l \in 1..2 :
       FinalDecoded(raw, l)
  \/ FinalFailed
  \/ EmitUtterance
  \/ EmitFailed
  \/ ReportFinal
  \/ \E l \in Agreements : PartialDecoded(l)
  \/ PartialFailed
  \/ Release
  \/ ReleaseFailed
  \/ NothingHeld
  \/ Break
  \/ EmitLast
  \/ EmitLastFailed
=============================================================================
