------------------------------- MODULE MediaStore -------------------------------
(* The media store (media/media_store.py) and what fills it: raw-body uploads    *)
(* (media/routes.py upload_media), a link's audio and a run's video              *)
(* (_download_link_audio, _download_video_for_run).  Each fetch's file goes from *)
(* staging to the retained directory on a thread, beside the janitor's thread.   *)
(* A tick is the least age the janitor acts on (a minute for a retained file);   *)
(* handlers' unlinks and a row's pop with its unlink are one step.               *)
EXTENDS Integers, FiniteSets, Sequences, Sums

CONSTANTS
  Uploads, Audios, Videos,   \* the fetches, each made once at most
  Size,                      \* each one's bytes
  Made,                      \* bound: how many of them are made
  Cap,                       \* RETAINED_MEDIA_MAX_BYTES, not 0: no cap
  Slots,                     \* downloads at a time
  AudioWall, VideoWall,      \* ticks a download may take
  UploadIdle,                \* ticks after which an upload's spool is dead
  Ttl                        \* ticks an entry is kept

Links == Audios \cup Videos
Fetches == Uploads \cup Links
Wall(f) == IF f \in Videos THEN VideoWall ELSE AudioWall
LongerWall == IF AudioWall > VideoWall THEN AudioWall ELSE VideoWall

\* What the janitor tells apart: ages beyond these are the same to it.
OldAge(f, p) ==
  CASE p = "none" -> 0 [] p = "retained" -> 1
    [] p = "staging" -> IF f \in Uploads THEN UploadIdle ELSE LongerWall + 1

VARIABLES
  at,       \* where each fetch's handler is
  reg,      \* where its register() is, on a thread
  where,    \* its file: "staging", "retained" or "none"
  age,      \* ticks since the job dir was made, the last chunk, the mtime
  entries,  \* _REG, the oldest first
  held,     \* ticks since each entry was made or touched
  doomed,   \* what each register() has still to evict
  sweep,    \* where the janitor is
  left,     \* what it has still to look at
  live,     \* its snapshot of the entries
  calm      \* its sweep began with every fetch over and every file old

handlerVars == <<at, reg>>
storeVars == <<where, age, entries, held, doomed>>
janitorVars == <<sweep, left, live, calm>>
vars == <<handlerVars, storeVars, janitorVars>>

Listed == {entries[i] : i \in DOMAIN entries}
Total(S) == SumSet(LAMBDA f : Size[f], S)
Without(f) ==
  IF f \notin Listed THEN entries
  ELSE LET k == CHOOSE i \in DOMAIN entries : entries[i] = f
       IN  SubSeq(entries, 1, k - 1) \o SubSeq(entries, k + 1, Len(entries))

MediaInit ==
  /\ at \in [Fetches -> {"idle", "ended"}]
  /\ Cardinality({f \in Fetches : at[f] = "idle"}) = Made
  /\ reg = [f \in Fetches |-> "no"]
  /\ where = [f \in Fetches |-> "none"]
  /\ age = [f \in Fetches |-> 0] /\ entries = <<>> /\ held = [f \in Fetches |-> 0]
  /\ doomed = [f \in Fetches |-> {}]
  /\ sweep = "idle" /\ left = {} /\ live = {} /\ calm = FALSE

Goes(f, from, to) == at[f] = from /\ at' = [at EXCEPT ![f] = to]
Placed(f, p, n) == where' = [where EXCEPT ![f] = p] /\ age' = [age EXCEPT ![f] = n]
Unlink(f) == Placed(f, "none", 0)
UnlinkStaged(f) == IF where[f] = "staging" THEN Unlink(f) ELSE UNCHANGED <<where, age>>

-----------------------------------------------------------------------------
(* Uploads *)

\* The spool is created before the first chunk; a chunk moves its mtime.
Upload(f) ==
  /\ f \in Uploads /\ Goes(f, "idle", "receiving")
  /\ Placed(f, "staging", 0)
  /\ UNCHANGED <<reg, entries, held, doomed, janitorVars>>

Chunk(f) ==
  /\ f \in Uploads /\ at[f] = "receiving" /\ age[f] > 0
  /\ age' = [age EXCEPT ![f] = 0]
  /\ UNCHANGED <<handlerVars, where, entries, held, doomed, janitorVars>>

\* Over the cap, a full disk, an empty or interrupted body: the finally unlinks.
Refuse(f) ==
  /\ f \in Uploads /\ Goes(f, "receiving", "ended") /\ UnlinkStaged(f)
  /\ UNCHANGED <<reg, entries, held, doomed, janitorVars>>

\* The rename needs the spool; the cap may have been lowered since it was read.
Named(f) ==
  /\ f \in Uploads /\ where[f] = "staging" /\ Goes(f, "receiving", "registering")
  /\ reg' = [reg EXCEPT ![f] = "queued"]
  /\ UNCHANGED <<storeVars, janitorVars>>

-----------------------------------------------------------------------------
(* Link fetches *)

\* A run's video is fetched once its audio is in.
Ask(f) ==
  /\ f \in Links /\ Goes(f, "idle", "queued")
  /\ f \in Videos => \A a \in Audios : at[a] = "ended"
  /\ UNCHANGED <<reg, storeVars, janitorVars>>

GiveUp(f) ==
  /\ Goes(f, "queued", "ended")
  /\ UNCHANGED <<reg, storeVars, janitorVars>>

\* The job directory is made once the slot is held, so that its age is the
\* download's.
JobAgesQueued == 0 .. LongerWall + 1
JobAges == {0}
Start(f) ==
  /\ Cardinality({g \in Links : at[g] = "downloading"}) < Slots
  /\ Goes(f, "queued", "downloading")
  /\ \E n \in JobAges : Placed(f, "staging", n)
  /\ UNCHANGED <<reg, entries, held, doomed, janitorVars>>

Landed(f) ==
  /\ where[f] = "staging" /\ Goes(f, "downloading", "registering")
  /\ reg' = [reg EXCEPT ![f] = "queued"]
  /\ UNCHANGED <<storeVars, janitorVars>>

\* Failed, timed out or cancelled: the job directory is removed on a thread.
Fail(f) ==
  /\ Goes(f, "downloading", "leaving")
  /\ UNCHANGED <<reg, storeVars, janitorVars>>

Leave(f) ==
  /\ Goes(f, "leaving", "ended") /\ UnlinkStaged(f)
  /\ UNCHANGED <<reg, entries, held, doomed, janitorVars>>

-----------------------------------------------------------------------------
(* register(), on a thread that outlives a handler cut meanwhile *)

After(f) == IF f \in Uploads THEN "ended" ELSE "leaving"

\* The answer; a refused upload unlinks what is still there.
Answer(f) ==
  /\ reg[f] \in {"kept", "refused"} /\ Goes(f, "registering", After(f))
  /\ IF f \in Uploads /\ reg[f] = "refused" THEN UnlinkStaged(f) ELSE UNCHANGED <<where, age>>
  /\ UNCHANGED <<reg, entries, held, doomed, janitorVars>>

Cut(f) ==
  /\ reg[f] \notin {"kept", "refused"} /\ Goes(f, "registering", After(f))
  /\ UNCHANGED <<reg, storeVars, janitorVars>>

Reg(f, from, to) == reg[f] = from /\ reg' = [reg EXCEPT ![f] = to]

\* The move keeps the source's mtime.
Move(f) ==
  /\ where[f] = "staging" /\ Reg(f, "queued", "moved")
  /\ \E n \in {0, IF age[f] = 0 THEN 0 ELSE 1} : Placed(f, "retained", n)
  /\ UNCHANGED <<at, entries, held, doomed, janitorVars>>

DateNever(f) ==
  /\ where[f] = "retained" /\ Reg(f, "moved", "dated")
  /\ UNCHANGED <<at, storeVars, janitorVars>>
Date(f) ==
  /\ where[f] = "retained" /\ Reg(f, "moved", "dated")
  /\ age' = [age EXCEPT ![f] = 0]
  /\ UNCHANGED <<at, where, entries, held, doomed, janitorVars>>
\* The directory is unusable or the file is gone.
CannotKeep(f) ==
  /\ \E from \in {"queued", "moved", "dated"} : Reg(f, from, "refused")
  /\ reg[f] = "queued" \/ where[f] = "none"
  /\ UNCHANGED <<at, storeVars, janitorVars>>

Insert(f) ==
  /\ where[f] = "retained" /\ Reg(f, "dated", "inserted")
  /\ entries' = Append(entries, f) /\ held' = [held EXCEPT ![f] = 0]
  /\ UNCHANGED <<at, where, age, doomed, janitorVars>>

\* Oldest first until the rest fits, sparing `keep`.
OverCapByOne(order, keep) ==
  LET all == {order[i] : i \in DOMAIN order}
      before(i) == {order[j] : j \in 1 .. i - 1} \ keep
  IN  {order[i] : i \in {i \in DOMAIN order : /\ order[i] \notin keep
                                              /\ Total(all \ before(i)) > Cap + 1}}
OverCap(order, keep) ==
  LET all == {order[i] : i \in DOMAIN order}
      before(i) == {order[j] : j \in 1 .. i - 1} \ keep
  IN  {order[i] : i \in {i \in DOMAIN order : /\ order[i] \notin keep
                                              /\ Total(all \ before(i)) > Cap}}
\* A run's video spares the audio its client is about to be told of.
Keep(f) == {f} \cup (IF f \in Videos THEN Audios ELSE {})

\* The row goes, and the file unless it is being served (Windows).
Drop(f) ==
  /\ entries' = Without(f) /\ held' = [held EXCEPT ![f] = 0]
  /\ \/ UNCHANGED <<where, age>>
     \/ f \in Listed /\ Unlink(f)

\* A file that alone is over the cap goes at once, sparing the others.
Evict(f) ==
  /\ Reg(f, "inserted", "evicting")
  /\ IF Size[f] > Cap
     THEN Drop(f) /\ doomed' = [doomed EXCEPT ![f] = OverCap(Without(f), Keep(f))]
     ELSE /\ doomed' = [doomed EXCEPT ![f] = OverCap(entries, Keep(f))]
          /\ UNCHANGED <<where, age, entries, held>>
  /\ UNCHANGED <<at, janitorVars>>

EvictNext(f) ==
  /\ reg[f] = "evicting"
  /\ \E g \in doomed[f] : Drop(g) /\ doomed' = [doomed EXCEPT ![f] = @ \ {g}]
  /\ UNCHANGED <<handlerVars, janitorVars>>

Returned(f) ==
  /\ doomed[f] = {}
  /\ Reg(f, "evicting", IF f \in Listed THEN "kept" ELSE "refused")
  /\ UNCHANGED <<at, storeVars, janitorVars>>

-----------------------------------------------------------------------------
(* Readers *)

\* resolve_entry: an entry past its time, or without its file, loses its row only.
Resolve(f) ==
  /\ f \in Listed /\ (held[f] > Ttl \/ where[f] # "retained")
  /\ entries' = Without(f) /\ held' = [held EXCEPT ![f] = 0]
  /\ UNCHANGED <<handlerVars, where, age, doomed, janitorVars>>

\* A run of the same link hands out the language check's audio as its own.
Touch(a) ==
  /\ a \in Audios /\ a \in Listed /\ held[a] <= Ttl
  /\ held' = [held EXCEPT ![a] = 0] /\ entries' = Append(Without(a), a)
  /\ UNCHANGED <<handlerVars, where, age, doomed, janitorVars>>

-----------------------------------------------------------------------------
(* The janitor *)

Over == \A f \in Fetches : at[f] = "ended" /\ reg[f] \in {"no", "kept", "refused"}
Old(f) == age[f] = OldAge(f, where[f]) /\ (f \notin Listed \/ held[f] > Ttl)

ListExpired ==
  /\ sweep = "idle" /\ sweep' = "expiring"
  /\ left' = {f \in Listed : held[f] > Ttl}
  /\ calm' = (Over /\ \A f \in Fetches : Old(f))
  /\ UNCHANGED <<handlerVars, storeVars, live>>

DropNext ==
  /\ sweep \in {"expiring", "evicting"}
  /\ \E f \in left : Drop(f) /\ left' = left \ {f}
  /\ UNCHANGED <<handlerVars, doomed, sweep, live, calm>>

SweepEvict ==
  /\ sweep = "expiring" /\ left = {} /\ sweep' = "evicting"
  /\ left' = OverCap(entries, {})
  /\ UNCHANGED <<handlerVars, storeVars, live, calm>>

Snapshot ==
  /\ sweep = "evicting" /\ left = {} /\ sweep' = "snapshot" /\ live' = Listed
  /\ UNCHANGED <<handlerVars, storeVars, left, calm>>

ListDir ==
  /\ sweep = "snapshot" /\ sweep' = "scanning"
  /\ left' = {f \in Fetches : where[f] = "retained"} \ live
  /\ UNCHANGED <<handlerVars, storeVars, live, calm>>

\* The age is measured at the listing, which no tick follows.
ScanNext ==
  /\ sweep = "scanning"
  /\ \E f \in left :
       /\ IF where[f] = "retained" /\ age[f] > 0 THEN Unlink(f)
          ELSE UNCHANGED <<where, age>>
       /\ left' = left \ {f}
  /\ UNCHANGED <<handlerVars, entries, held, doomed, sweep, live, calm>>

\* A job directory goes when older than the longer of the two walls.
StaleAudio(f) == age[f] >= IF f \in Uploads THEN UploadIdle ELSE AudioWall + 1
StaleLinks(f) == f \in Links /\ age[f] > LongerWall
Stale(f) == age[f] >= IF f \in Uploads THEN UploadIdle ELSE LongerWall + 1
\* The stale names in staging, judged one by one.
ReapStaging ==
  /\ sweep = "scanning" /\ left = {} /\ sweep' = "swept"
  /\ LET stale == {f \in Fetches : where[f] = "staging" /\ Stale(f)} IN
       /\ where' = [f \in Fetches |-> IF f \in stale THEN "none" ELSE where[f]]
       /\ age' = [f \in Fetches |-> IF f \in stale THEN 0 ELSE age[f]]
  /\ UNCHANGED <<handlerVars, entries, held, doomed, left, live, calm>>

EndSweep ==
  /\ sweep = "swept" /\ sweep' = "idle" /\ calm' = FALSE /\ live' = {}
  /\ UNCHANGED <<handlerVars, storeVars, left>>

\* A download is killed at its wall; registering it takes less than the margin,
\* dating and inserting a row less than a tick.
Tick ==
  /\ \A f \in Links :
       at[f] \in {"downloading", "registering"} /\ where[f] = "staging" => age[f] < Wall(f)
  /\ \A f \in Fetches : reg[f] # "dated"
  /\ sweep \notin {"snapshot", "scanning"}
  /\ age' = [f \in Fetches |-> IF age[f] = OldAge(f, where[f]) THEN age[f] ELSE age[f] + 1]
  /\ held' = [f \in Fetches |-> IF f \notin Listed \/ held[f] > Ttl THEN held[f]
                                 ELSE held[f] + 1]
  /\ UNCHANGED <<handlerVars, where, entries, doomed, janitorVars>>

Register(f) ==
  Move(f) \/ Date(f) \/ CannotKeep(f) \/ Insert(f) \/ Evict(f) \/ EvictNext(f) \/ Returned(f)

Janitor ==
  ListExpired \/ DropNext \/ SweepEvict \/ Snapshot \/ ListDir \/ ScanNext
  \/ ReapStaging \/ EndSweep

MediaNext ==
  \/ Tick \/ Janitor
  \/ \E f \in Fetches :
       \/ Upload(f) \/ Chunk(f) \/ Refuse(f) \/ Named(f)
       \/ Ask(f) \/ GiveUp(f) \/ Start(f) \/ Landed(f) \/ Fail(f) \/ Leave(f)
       \/ Answer(f) \/ Cut(f) \/ Register(f) \/ Resolve(f) \/ Touch(f)

-----------------------------------------------------------------------------

\* An entry has its file: the orphan scan, which sees the directory later than
\* the entries, never takes a file that register() is about to list (sweep,
\* register).
EntriesHaveFiles == \A f \in Listed : where[f] = "retained"

\* The janitor never takes a live download's directory, however long it was
\* queued and whichever of the two walls it has (_reap_stale_staging).
LiveJobsKept ==
  \A f \in Links :
    at[f] = "downloading" \/ (at[f] = "registering" /\ reg[f] = "queued")
      => where[f] = "staging"

\* Whatever registers and sweeps overlap, once each register() is through the
\* store is within its cap, but for the audio a video's registration spared
\* (_evict_over_cap).
CapHolds ==
  (\A f \in Fetches : reg[f] \notin {"inserted", "evicting"})
    => Total(Listed \ IF Listed \cap Videos # {} THEN Audios ELSE {}) <= Cap

\* Whatever failed, was cut or could not be unlinked before, a sweep that finds
\* every fetch over and every file old leaves nothing on disk (sweep).
QuietSweepClears == sweep = "swept" /\ calm => \A f \in Fetches : where[f] = "none"

=============================================================================
