---------------------------- MODULE TranslateRun ----------------------------
(* One translate_segments call for one target (translation/engine.py): the     *)
(* faithful loop of numbered batches, halved at a mismatch and grown back, and  *)
(* the fluent loop over sentence groups. The model may answer anything: Replies *)
(* to a numbered batch, a prompt too long, an output the guard refuses.         *)
EXTENDS TranslateText

CONSTANTS
  Inputs,   \* the calls: [mode, segs], a segment [text, final, spk]
  Batch     \* TRANSLATION_BATCH_SEGMENTS

VARIABLES
  call,     \* the call's mode and segments
  at,       \* i: segments before it are done; in fluent mode a group's first
  k, kCeil, grown, failedGrown,
  results,  \* results[j][target]
  kept,     \* segments warned about as kept originals
  ended,    \* "idle", "running", "returned", "cancelled", "failed"
  fails     \* history: per size, failures as a grown size since a batch of that size or more was numbered

loopVars == <<at, k, kCeil, grown, failedGrown, fails>>
runVars == <<call, loopVars, results, kept, ended>>

Segs == call.segs
N == Len(Segs)
Faithful == call.mode = "faithful"
GroupOf == MergeSentences(Segs)
NotYet == [kind |-> "none", of |-> <<>>]
Blank == [kind |-> "blank", of |-> <<>>]
Kept == [kind |-> "kept", of |-> <<>>]
Translated(of) == [kind |-> "translated", of |-> of]
Most(a, b) == IF a >= b THEN a ELSE b

NoCall == [mode |-> "none", segs |-> <<>>]

RunInit ==
  /\ call = NoCall
  /\ at = 1
  /\ k = Batch /\ kCeil = Batch
  /\ grown = FALSE /\ failedGrown = {}
  /\ results = <<>>
  /\ kept = {}
  /\ ended = "idle"
  /\ fails = [s \in 1..Batch |-> 0]

Begin ==
  /\ ended = "idle"
  /\ \E c \in Inputs :
       /\ call' = c
       /\ results' = [j \in 1..Len(c.segs) |-> NotYet]
  /\ ended' = "running"
  /\ UNCHANGED <<loopVars, kept>>

-----------------------------------------------------------------------------
(* The faithful loop.                                                          *)

InBatch == at..Smaller(at + k - 1, N)
Live == {j \in InBatch : Segs[j].text}
Going == ended = "running" /\ at <= N /\ Faithful
Stays == UNCHANGED <<call, ended>>

\* Past the batch: a halving gets past one failing position, and k grows back.
Advance ==
  LET next == at + Cardinality(InBatch)
      grows == k < kCeil /\ next <= N
  IN /\ at' = next
     /\ grown' = grows
     /\ k' = IF grows THEN Smaller(kCeil, 2 * k) ELSE k

BlankBatch ==
  /\ Going
  /\ Live = {}
  /\ results' = [j \in 1..N |-> IF j \in InBatch THEN Blank ELSE results[j]]
  /\ at' = at + Cardinality(InBatch)
  /\ UNCHANGED <<k, kCeil, grown, failedGrown, fails, kept>> /\ Stays

WithBlanks == [j \in 1..N |-> IF j \in InBatch \ Live THEN Blank ELSE results[j]]

\* A lone prompt, retried without its context at most once, then kept.
SingleBatch ==
  /\ Going
  /\ Cardinality(Live) = 1
  /\ \E refused \in BOOLEAN, j \in Live :
       /\ results' = [WithBlanks EXCEPT ![j] = IF refused THEN Kept ELSE Translated(<<j>>)]
       /\ kept' = IF refused THEN kept \cup {j} ELSE kept
  /\ Advance
  /\ UNCHANGED <<kCeil, failedGrown, fails>> /\ Stays

\* The segment an item of the reply is about.
Member(x) == SetToSortSeq(Live, LAMBDA a, b : a < b)[x]
Meant(of) == [y \in DOMAIN of |-> IF of[y] \in 1..Cardinality(Live) THEN Member(of[y]) ELSE of[y]]

\* Every item passes its guard, is translated alone, or stays as it was.
NumberedBatch ==
  /\ Going
  /\ Cardinality(Live) > 1
  /\ \E reply \in Replies(Cardinality(Live)), bad \in SUBSET Live, lost \in SUBSET Live :
       LET parsed == ParseNumbered(reply, Cardinality(Live)) IN
       /\ parsed # Mismatch
       /\ lost \subseteq bad
       /\ results' = [j \in 1..N |->
            IF j \in lost THEN Kept
            ELSE IF j \in bad THEN Translated(<<j>>)
            ELSE IF j \in Live
            THEN Translated(Meant(parsed[CHOOSE x \in 1..Cardinality(Live) : Member(x) = j]))
            ELSE WithBlanks[j]]
       /\ kept' = kept \cup lost
  /\ failedGrown' = {s \in failedGrown : s > k}
  /\ fails' = [s \in DOMAIN fails |-> IF s <= k THEN 0 ELSE fails[s]]
  /\ Advance
  /\ UNCHANGED kCeil /\ Stays

\* Mutant: the size is halved, leading blanks on top, not the span that was sent.
HalvedSize == Most(1, (FirstOf(Live) - at) + (k + 1) \div 2)

\* Half of the span actually sent, with the leading blanks on top.
Halved == Most(1, (FirstOf(Live) - at) + (LastOf(Live) - FirstOf(Live) + 1) \div 2)

\* Mutant: a grown size that failed is forgotten once the batch is halved.
CappedNever == FALSE

\* The second failure of a grown size in a row.
Capped == grown /\ k \in failedGrown

\* A mismatch, or a prompt past the context window.
MismatchedBatch ==
  /\ Going
  /\ Cardinality(Live) > 1
  /\ results' = WithBlanks
  /\ failedGrown' = IF grown THEN failedGrown \cup {k} ELSE failedGrown
  /\ fails' = IF grown THEN [fails EXCEPT ![k] = @ + 1] ELSE fails
  /\ k' = Halved
  /\ kCeil' = IF Capped THEN Halved ELSE kCeil
  /\ grown' = FALSE
  /\ UNCHANGED <<at, kept>> /\ Stays

-----------------------------------------------------------------------------
(* The fluent loop.                                                            *)

Fluent == ended = "running" /\ ~Faithful /\ at <= N
Group == {j \in 1..N : GroupOf[j] = at}
NextGroup ==
  /\ at' = FirstOf({j \in 1..N : GroupOf[j] = j /\ j > at} \cup {N + 1})
  /\ UNCHANGED <<k, kCeil, grown, failedGrown, fails>>

BlankGroup ==
  /\ Fluent
  /\ \A j \in Group : ~Segs[j].text
  /\ results' = [j \in 1..N |-> IF j \in Group THEN Blank ELSE results[j]]
  /\ NextGroup
  /\ UNCHANGED kept /\ Stays

\* The reply is cut back over the members that have text.
TranslatedGroup ==
  /\ Fluent
  /\ \E j \in Group : Segs[j].text
  /\ results' = [j \in 1..N |-> IF j \notin Group THEN results[j]
                                ELSE IF Segs[j].text THEN Translated(SetToSortSeq(Group, LAMBDA a, b : a < b)) ELSE Blank]
  /\ NextGroup
  /\ UNCHANGED kept /\ Stays

\* The guard refused both replies, or a piece came out blank.
RevertedGroup ==
  /\ Fluent
  /\ \E j \in Group : Segs[j].text
  /\ results' = [j \in 1..N |-> IF j \notin Group THEN results[j]
                                ELSE IF Segs[j].text THEN Kept ELSE Blank]
  /\ kept' = kept \cup {j \in Group : Segs[j].text}
  /\ NextGroup /\ Stays

-----------------------------------------------------------------------------

Return ==
  /\ ended = "running"
  /\ at > N
  /\ ended' = "returned"
  /\ UNCHANGED <<call, loopVars, results, kept>>

\* Between two batches (a cancel) or in one (an inference that fails).
Abort ==
  /\ ended = "running"
  /\ ended' \in {"cancelled", "failed"}
  /\ UNCHANGED <<call, loopVars, results, kept>>

Work ==
  \/ BlankBatch \/ SingleBatch \/ NumberedBatch \/ MismatchedBatch
  \/ BlankGroup \/ TranslatedGroup \/ RevertedGroup
  \/ Return

RunNext == Begin \/ Work \/ Abort

-----------------------------------------------------------------------------

Speakers(of) == {Segs[of[y]].spk : y \in DOMAIN of} \ {""}

\* Every cue gets its own words: an item of a numbered reply never lands on
\* another cue and is never half an item, no cue is shown words of a sentence two
\* known speakers share; a cue is reported as kept exactly if it kept its text,
\* blank ones stay blank, and none is left out (_parse_numbered,
\* _merge_sentences, translate_segments).
OwnWords ==
  /\ \A j \in 1..N :
       /\ results[j].kind = "translated" =>
            IF Faithful THEN results[j].of = <<j>> ELSE Cardinality(Speakers(results[j].of)) <= 1
       /\ j \in kept <=> results[j] = Kept
       /\ results[j] = Blank => ~Segs[j].text
  /\ ended = "returned" =>
       \A j \in 1..N : results[j] # NotYet /\ (~Segs[j].text => results[j] = Blank)

\* A size that failed twice in a row right after growing to it is never grown to
\* again: a model that cannot number it does not cost a decode every few cues
\* (failed_grown, k_ceil).
NoThirdTry == grown => fails[k] < 2

\* The loop ends whatever the model answers: each round moves past its segments
\* or sends fewer, and a cue done is never sent again (the halving).
MakesProgress ==
  [][/\ ended = "running" /\ ended' = "running" => at' > at \/ (at' = at /\ k' < k)
     /\ \A j \in 1..N : results[j] # NotYet => results'[j] = results[j]]_runVars

=============================================================================
