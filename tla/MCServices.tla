----------------------------- MODULE MCServices -----------------------------
(* Services that share no state, checked side by side; each behaviour is of    *)
(* one of them: the settings, a translation, a reply cut over its cues, the     *)
(* receipts held back, what a request may change: the layers of its              *)
(* configuration, the silences of its dictation, its speaker hints.              *)
EXTENDS Settings, Sequences, TLC

CONSTANTS
  Inputs, MaxGroup, Batch, MCLetters, MCReplyLen,  \* a translation
  MCCaptures, Cap, Hold, Requests, MaxParks,       \* the receipts
  Fields, RuleSlugs, Profiles, Worlds,             \* the layers of a configuration
  Candidates, Pins,                                \* the silences
  MaxSpeakers                                      \* the speaker hints

\* A call has its cues, a batch at least one of them.
ASSUME ServicesAssumption ==
  /\ \A c \in Inputs :
       Len(c.segs) \in Nat /\ \A j \in 1..Len(c.segs) : c.segs[j].text \in BOOLEAN
  /\ Batch \in Nat \ {0}
  /\ MaxParks \in Nat

VARIABLES
  part,
  call, at, k, kCeil, grown, failedGrown, results, kept, ended, grownFails,
  reply,     \* the characters of a translation
  held, earlier, overflow, logged, parked, req, stopped,
  world, asked, served, running, valued, locked, pinned, open, sent, session,
  hinted, hintLocks, hintsAsked, answer

\* One of each handler; two of those that can interleave with themselves.
MCReq ==
  "o1" :> [op |-> "over", value |-> "o1"] @@
  "o2" :> [op |-> "over", value |-> Default] @@
  "rules" :> [op |-> "rules"] @@
  "patch" :> [op |-> "patch", slug |-> "s1", fp |-> TRUE] @@
  "blind" :> [op |-> "patch", slug |-> "s2", fp |-> FALSE] @@
  "factory" :> [op |-> "factory"] @@
  "clear" :> [op |-> "clear"] @@
  "rename" :> [op |-> "rename", old |-> "p", new |-> "n"] @@
  "delete" :> [op |-> "delete", name |-> "q"] @@
  "bind" :> [op |-> "bind", name |-> "q"]

\* Six cues of which any are blank, more than one batch holds; four cues with any
\* sentence ends and speakers.
MCInputs ==
  LET Cue(text) == [text |-> text, final |-> FALSE, spk |-> ""]
      Cues == {Cue(FALSE)} \cup [text : {TRUE}, final : BOOLEAN, spk : {"", "A", "B"}]
  IN {[mode |-> "faithful", segs |-> [j \in 1..6 |-> Cue(j \in T)]] : T \in SUBSET (1..6)}
     \cup {[mode |-> "fluent", segs |-> s] : s \in [1..4 -> Cues]}

\* The lengths of a group's cues: equal, with a blank one, one much longer.
MCGroups == {<<1, 1>>, <<1, 0, 3>>, <<3, 1, 1>>}

R == INSTANCE TranslateRun WITH fails <- grownFails
H == INSTANCE ReceiptHold WITH Keys <- MCCaptures
E == INSTANCE EffectiveConfig WITH Slugs <- RuleSlugs
G == INSTANCE SilenceGates
K == INSTANCE SpeakerHints WITH configured <- hinted, locked <- hintLocks, asked <- hintsAsked
O == INSTANCE MCOverrides

MCWorlds == O!MCWorlds
MCSilences == O!MCSilences
MCPins == O!MCPins

\* No profile has the name of something else; a silence is a time the schema takes.
ASSUME OverridesAssumption ==
  /\ Worlds # {} /\ Worlds \subseteq E!World
  /\ {E!OptOut, E!Unnamed, "direct"} \cap Profiles = {}
  /\ \A g \in G!Gates : Candidates[g] \subseteq Nat
  /\ Pins \subseteq SUBSET G!Gates
  /\ MaxSpeakers \in Nat

runVars == <<call, at, k, kCeil, grown, failedGrown, results, kept, ended, grownFails>>
holdVars == <<held, earlier, overflow, logged, parked, req, stopped>>
layerVars == <<world, asked, served>>
gateVars == <<running, valued, locked, pinned, open, sent, session>>
hintVars == <<hinted, hintLocks, hintsAsked, answer>>
allVars == <<part, vars, runVars, reply, holdVars, layerVars, gateVars, hintVars>>

\* Nothing is asked of a part.
SomeWorld == CHOOSE w \in Worlds : TRUE
NoLayers == world = SomeWorld /\ asked = E!NotAsked /\ served = <<>>
NoGates ==
  /\ running = [inner |-> 120, outer |-> 1280, hard |-> 0]
  /\ valued = {} /\ locked = {} /\ pinned = {} /\ open = FALSE
  /\ sent = G!NoGates /\ session = G!Waiting
NoHints ==
  /\ hinted = [h \in K!Hints |-> 0] /\ hintLocks = {}
  /\ hintsAsked = K!Nothing /\ answer = K!Pending

ServicesInit ==
  /\ part \in {"settings", "translation", "reply", "receipts", "layers", "silences", "hints"}
  /\ Init /\ R!RunInit /\ H!HoldInit
  /\ reply = <<>>
  /\ IF part = "layers" THEN E!ConfigInit ELSE NoLayers
  /\ IF part = "silences" THEN G!GatesInit ELSE NoGates
  /\ IF part = "hints" THEN K!HintsInit ELSE NoHints

SettingsStep ==
  /\ part = "settings" /\ Next
  /\ UNCHANGED <<part, runVars, reply, holdVars, layerVars, gateVars, hintVars>>
TranslationStep ==
  /\ part = "translation" /\ R!RunNext
  /\ UNCHANGED <<part, vars, reply, holdVars, layerVars, gateVars, hintVars>>
ReceiptStep ==
  /\ part = "receipts" /\ H!HoldNext
  /\ UNCHANGED <<part, vars, runVars, reply, layerVars, gateVars, hintVars>>

LayersStep ==
  part = "layers" /\ E!Ask
  /\ UNCHANGED <<part, vars, runVars, reply, holdVars, gateVars, hintVars>>
SilencesStep ==
  part = "silences" /\ G!Connect
  /\ UNCHANGED <<part, vars, runVars, reply, holdVars, layerVars, hintVars>>
HintsStep ==
  part = "hints" /\ K!Reconcile
  /\ UNCHANGED <<part, vars, runVars, reply, holdVars, layerVars, gateVars>>

\* A reply of every shape, a character at a time.
ReplyStep ==
  /\ part = "reply"
  /\ Len(reply) < MCReplyLen
  /\ \E c \in MCLetters : reply' = Append(reply, c)
  /\ UNCHANGED <<part, vars, runVars, holdVars, layerVars, gateVars, hintVars>>

ServicesNext ==
  \/ SettingsStep \/ TranslationStep \/ ReceiptStep \/ ReplyStep
  \/ LayersStep \/ SilencesStep \/ HintsStep

ServicesSpec == ServicesInit /\ [][ServicesNext]_allVars

-----------------------------------------------------------------------------

\* Overlapping saves, renames and cascades end with the saved values running,
\* compiled and resolved, and at no moment does a stored binding name a profile
\* the running configuration lacks (apply_hot_changes, _PROFILES_LOCK).
SavesTakeEffect == part = "settings" => Settled /\ LayersHold

\* The batch loop ends whatever the model answers, and a cue done stays as it is
\* (the halving in translate_segments).
TranslationAdvances == R!MakesProgress

\* The pieces a reply was cut into.
Whole(t, pieces) ==
  \A x \in DOMAIN t : t[x] # " " =>
    Cardinality({i \in DOMAIN pieces : pieces[i][1] < x /\ x <= pieces[i][2]}) = 1
Filled(t, lens, pieces) ==
  Cardinality(R!Clusters(t)) >= Cardinality({i \in DOMAIN lens : lens[i] > 0}) =>
    \A i \in DOMAIN lens : R!HasText(t, pieces[i][1], pieces[i][2]) <=> lens[i] > 0

\* A reply is cut without losing or repeating a character, and while it has a
\* character cluster for each cue that has text, each of them gets some and a
\* blank cue none.
PiecesFilled ==
  reply # <<>> /\ reply[1] # " " /\ reply[Len(reply)] # " " =>
    \A lens \in MCGroups : \E pieces \in {R!Redistribute(lens, reply)} :
      Whole(reply, pieces) /\ Filled(reply, lens, pieces)

\* No cue is shown another's words, a kept cue is reported as kept, a batch size
\* that failed twice right after growing is not grown to again, and a reply is cut
\* over its cues whole, each with some of it (_parse_numbered, _merge_sentences,
\* translate_segments, _redistribute).
CuesKeepTheirWords ==
  /\ part = "translation" => R!OwnWords /\ R!NoThirdTry
  /\ part = "reply" => PiecesFilled

\* No receipt is lost, and none logged twice, whoever parks over it, claims,
\* releases, evicts, sweeps or flushes it (receipt_hold).
NoReceiptLost == part = "receipts" => H!NothingLost

\* What an administrator bound or locked stands, a binding that cannot be read
\* refuses everything, and what the caller is told it may name, was given or lost
\* is so: for its configuration, its dictation's silences and its speaker hints
\* (resolve, fit_silence_gates, _client_stream_values, transcribe).
RequestsBounded ==
  /\ part = "layers" =>
       /\ E!BoundStands /\ E!FaultRefusesAll /\ E!RulesStand
       /\ E!AppliedIsOffered /\ E!WaterfallTrue
  /\ part = "silences" => G!LockedStay /\ G!GatesWork /\ G!ClientTold /\ G!ShownIsRun
  /\ part = "hints" => K!Accepted /\ K!LocksRespected /\ K!LossesReported /\ K!OwnHintsKept

=============================================================================
