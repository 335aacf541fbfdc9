--------------------------- MODULE EffectiveConfig ---------------------------
(* The effective configuration of a request (effective_config.py): the layers  *)
(* of the caller's key, its user, the profiles bound to them and the profile    *)
(* the request names, over the model's and the global values. The first layer   *)
(* with an opinion on a field owns its value and its lock; a request can only    *)
(* add below what an administrator bound, within the gates, or opt out of bound  *)
(* profiles where it is allowed to. A value is the name of the layer it is of.   *)
EXTENDS Integers, Sequences

CONSTANTS
  Fields,       \* LOCKABLE_FIELDS; each can be sent as a decode override or as a form field
  Slugs,        \* of pipeline rules
  Profiles,     \* names that OVERRIDE_PROFILES may hold
  Worlds        \* the configurations checked, of the type World below

Scopes == {"key", "user"}
OptOut == "__none__"        \* NO_PROFILE_SENTINEL
Unnamed == "unnamed"        \* the request names no profile
Wildcard == "*"             \* ALLOWED_PROFILES_WILDCARD

Blob == [sets : SUBSET Fields, locks : SUBSET Fields, on : SUBSET Slugs, off : SUBSET Slugs]
Empty == [sets |-> {}, locks |-> {}, on |-> {}, off |-> {}]
Opinion == {"allow", "refuse", "none"}

\* A binding lists its profiles, its opinion on the two gates and, at most one,
\* its allowlist.
Binding ==
  [direct : Blob, profiles : Seq(Profiles), naming : Opinion, overriding : Opinion,
   allow : {{}} \cup {{a} : a \in SUBSET (Profiles \cup {Wildcard})}, bare : BOOLEAN]
Unbound == [direct |-> Empty, profiles |-> <<>>, naming |-> "none", overriding |-> "none",
            allow |-> {}, bare |-> FALSE]

\* unread: the scopes whose store read fails; hidden: the profiles no request may
\* name; naming, overriding: the global gates.
World ==
  [bound : [Scopes -> Binding], unread : SUBSET Scopes,
   stored : UNION {[P -> Blob] : P \in SUBSET Profiles}, hidden : SUBSET Profiles,
   naming : BOOLEAN, overriding : BOOLEAN, model : Blob, globals : SUBSET Fields]

VARIABLES
  world,
  asked,    \* [profile, route : field -> how it is sent]
  served    \* what the request was given, and what it had been given asking nothing

configVars == <<world, asked, served>>

Routes == {"absent", "override", "form"}
NotAsked == [profile |-> Unnamed, route |-> [f \in Fields |-> "absent"]]

-----------------------------------------------------------------------------
\* The gates of world w.

ReadBinding(w, s) == IF s \in w.unread THEN Unbound ELSE w.bound[s]

\* A binding narrows the global gate and never widens it; an unreadable one closes it.
EffectiveFlag(w, gate) ==
  /\ w.unread = {} /\ w[gate]
  /\ \/ w.bound["key"][gate] = "allow"
     \/ w.bound["key"][gate] = "none" /\ w.bound["user"][gate] # "refuse"
MayName(w) == EffectiveFlag(w, "naming")
MayOverride(w) == EffectiveFlag(w, "overriding")

\* The key's allowlist, else the user's; none permits every name.
Permits(w, p) ==
  /\ w.unread = {}
  /\ LET lists == IF w.bound["key"].allow # {} THEN w.bound["key"].allow
                  ELSE w.bound["user"].allow
     IN \A a \in lists : Wildcard \in a \/ p \in a

\* Names the caller is told it may name (allowed_profile_names).
Offered(w) == {p \in DOMAIN w.stored \ w.hidden : MayName(w) /\ Permits(w, p)}

-----------------------------------------------------------------------------
\* The layers, most specific first.

Layer(id, blob) == IF blob = Empty THEN <<>> ELSE <<[id |-> id, blob |-> blob]>>
ProfileLayer(w, s, p) == IF p \in DOMAIN w.stored THEN Layer(<<s, p>>, w.stored[p]) ELSE <<>>

\* A mutant of Suppressed.
SuppressedUngated(w, p) == ReadBinding(w, "key").bare \/ p = OptOut

\* An administrator's flag on the key, or the request's own opt-out, skips every
\* profile.
Suppressed(w, p) == ReadBinding(w, "key").bare \/ (p = OptOut /\ MayName(w))

Joined(lists) ==
  LET upTo[n \in 0..Len(lists)] == IF n = 0 THEN <<>> ELSE upTo[n - 1] \o lists[n]
  IN  upTo[Len(lists)]

Bound(w, p, s) ==
  LET b == ReadBinding(w, s)
      profiles == IF Suppressed(w, p) THEN <<>>
                  ELSE Joined([i \in DOMAIN b.profiles |-> ProfileLayer(w, s, b.profiles[i])])
  IN Layer(<<s, "direct">>, b.direct) \o profiles

RequestLayer(w, p) ==
  IF /\ p \in Profiles /\ MayName(w) /\ Permits(w, p) /\ p \notin w.hidden
     /\ ~Suppressed(w, p)
  THEN ProfileLayer(w, "request", p) ELSE <<>>

\* Mutants of Layers and, below, of OpinionOf.
LayersRequestFirst(w, p) == RequestLayer(w, p) \o Bound(w, p, "key") \o Bound(w, p, "user")

Layers(w, p) == Bound(w, p, "key") \o Bound(w, p, "user") \o RequestLayer(w, p)

OpinionOfValue(layer, f) == f \in layer.blob.sets
\* A lock without a value is an opinion too: it pins what is inherited.
OpinionOf(layer, f) == f \in layer.blob.sets \cup layer.blob.locks

\* The first of them, 0 if there is none.
First(places) == IF places = {} THEN 0 ELSE CHOOSE i \in places : \A j \in places : i <= j
Winner(layers, f) == First({i \in DOMAIN layers : OpinionOf(layers[i], f)})

\* An override of a locked field, or any while the gate is closed, is dropped; a
\* form field looks at the locks only.
Resolve(w, p) ==
  LET layers == Layers(w, p)
      Owner(f) == layers[Winner(layers, f)]
      owned == {f \in Fields : Winner(layers, f) > 0}
      valued == {f \in owned : f \in Owner(f).blob.sets}
      locked == IF w.unread # {} THEN Fields
                ELSE {f \in owned : f \in Owner(f).blob.locks}
      ruled == IF w.model.on \cup w.model.off = {} THEN layers
               ELSE Append(layers, [id |-> <<"model">>, blob |-> w.model])
      Mention(x) == First({i \in DOMAIN ruled : x \in ruled[i].blob.on \cup ruled[i].blob.off})
      mentioned == {x \in Slugs : Mention(x) > 0}
  IN [layers |-> layers,
      values |-> [f \in valued |-> Owner(f).id],
      locked |-> locked,
      refused |-> IF MayOverride(w) THEN locked ELSE Fields,
      exclude |-> {x \in mentioned : x \in ruled[Mention(x)].blob.off},
      include |-> {x \in mentioned : x \notin ruled[Mention(x)].blob.off},
      applied |-> IF \E i \in DOMAIN layers : layers[i].id = <<"request", p>>
                  THEN {p} ELSE {}]

\* Identity, then the model, then the global value, which may be unset.
CfgFor(w, r, f) ==
  IF f \in DOMAIN r.values THEN r.values[f]
  ELSE IF f \in w.model.sets THEN <<"model">>
  ELSE IF f \in w.globals THEN <<"global">> ELSE <<"builtin">>

\* What a field comes to, and the fields reported as ignored.
Sent == <<"client">>
Used(w, r, route, f) ==
  IF \/ route[f] = "override" /\ f \notin r.refused
     \/ route[f] = "form" /\ f \notin r.locked
  THEN Sent ELSE CfgFor(w, r, f)
Ignored(w, r, route) ==
  {f \in Fields : \/ route[f] = "override" /\ f \in r.refused
                  \/ route[f] = "form" /\ f \in r.locked}

-----------------------------------------------------------------------------
\* The waterfall: a row per layer, then the model's and the global one.

Waterfall(w, r, f) ==
  LET won == Winner(r.layers, f)
      sets == won > 0 /\ f \in r.layers[won].blob.sets
      rows == [i \in DOMAIN r.layers |->
                 [value |-> r.layers[i].id, winner |-> i = won /\ sets,
                  locked |-> i = won /\ f \in r.layers[i].blob.locks]]
  IN rows \o <<[value |-> <<"model">>, locked |-> FALSE,
                winner |-> ~sets /\ f \in w.model.sets],
               [value |-> <<"global">>, locked |-> FALSE,
                winner |-> ~sets /\ f \notin w.model.sets /\ f \in w.globals]>>

-----------------------------------------------------------------------------

Ask ==
  /\ served = <<>>
  /\ \E p \in Profiles \cup {Unnamed, OptOut} : \E route \in [Fields -> Routes] :
       /\ asked' = [profile |-> p, route |-> route]
       /\ \E r \in {Resolve(world, p)}, plain \in {Resolve(world, Unnamed)} :
            served' = <<[resolved |-> r, plain |-> plain,
                         used |-> [f \in Fields |-> Used(world, r, route, f)],
                         ignored |-> Ignored(world, r, route)]>>
  /\ UNCHANGED world

ConfigInit == world \in Worlds /\ asked = NotAsked /\ served = <<>>
ConfigSpec == ConfigInit /\ [][Ask]_configVars

-----------------------------------------------------------------------------
\* Each against what the same caller is given when it asks for nothing.

Served == served # <<>>
Given == served[1].resolved
Plain == served[1].plain

Says(layer, f) == f \in layer.blob.sets \cup layer.blob.locks
SaidBy(layers) == {f \in Fields : \E i \in DOMAIN layers : Says(layers[i], f)}
SaidDirectly(layers) ==
  {f \in Fields : \E i \in DOMAIN layers :
     /\ Says(layers[i], f) /\ layers[i].id[2] = "direct"
     /\ \A j \in 1..(i - 1) : ~Says(layers[j], f)}
OptedOut == asked.profile = OptOut /\ MayName(world)

\* What an administrator bound stands: a field or a rule that a bound layer has an
\* opinion on keeps its value and its lock whatever the request names, an opt-out
\* only loses bound profiles, and only where naming one is allowed.
BoundStands ==
  Served =>
    LET kept == IF OptedOut THEN SaidDirectly(Plain.layers) ELSE SaidBy(Plain.layers)
    IN /\ \A f \in kept : /\ CfgFor(world, Given, f) = CfgFor(world, Plain, f)
                          /\ f \in Plain.locked <=> f \in Given.locked
       /\ \A f \in kept \cap Plain.locked :
            /\ served[1].used[f] = CfgFor(world, Plain, f)
            /\ asked.route[f] # "absent" => f \in served[1].ignored
       /\ ~MayName(world) => Given = Plain

\* A binding that cannot be read leaves the request nothing to change: no profile,
\* no override, no form field of a lockable one.
FaultRefusesAll ==
  Served /\ world.unread # {} =>
    /\ Given = Plain /\ Given.applied = {}
    /\ \A f \in Fields : served[1].used[f] = CfgFor(world, Plain, f)

\* A profile applied is one the caller is told it may name, and one it is told of
\* applies, unless its key takes no profiles (allowed_profile_names, resolve).
AppliedIsOffered ==
  Served =>
    /\ Given.applied \subseteq Offered(world)
    /\ /\ asked.profile \in Offered(world) /\ world.stored[asked.profile] # Empty
       /\ ~world.bound["key"].bare
       => asked.profile \in Given.applied

\* The waterfall names the value in force and the lock that holds, once each.
WaterfallTrue ==
  Served =>
    \A f \in Fields :
      LET rows == Waterfall(world, Given, f)
          winners == {i \in DOMAIN rows : rows[i].winner}
      IN /\ \A i, j \in winners : i = j
         /\ CfgFor(world, Given, f)
              = IF winners = {} THEN <<"builtin">>
                ELSE rows[CHOOSE i \in winners : TRUE].value
         /\ world.unread = {} =>
              (f \in Given.locked <=> \E i \in DOMAIN rows : rows[i].locked)

\* No rule is both forced on and off, and a rule a bound layer mentions is not
\* flipped by the request.
RulesStand ==
  Served /\ ~OptedOut =>
    \A x \in Slugs :
      (\E i \in DOMAIN Plain.layers : x \in Plain.layers[i].blob.on \cup Plain.layers[i].blob.off)
      => (x \in Given.exclude <=> x \in Plain.exclude)

=============================================================================
