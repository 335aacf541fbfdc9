---------------------------- MODULE CaptureStore ----------------------------
(* The captures store (captures/store.py): a row and a WAV per recorded        *)
(* capture. The WAV is written before its row and unlinked after it, with no    *)
(* lock; the row cap evicts; a start reconciles rows and files. Each block      *)
(* under the store's lock is one step.                                         *)
EXTENDS Integers, FiniteSets

CONSTANTS
  Tasks,        \* ingests, deletions, the retention sweep and the clear
  RowCap,       \* CAPTURES_MAX
  MaxCaptures,  \* bound: captures, numbered by age
  MaxEvents     \* bound: deletions, clears, files lost or restored, restarts

VARIABLES
  rows,      \* the captures listed
  status,    \* their status
  earlier,   \* status_before_missing
  merged,    \* rows that are a member of a sample
  files,     \* WAVs on disk
  lost,      \* WAVs the disk once lost; a late mount or a backup may bring them back
  recorded,  \* captures begun
  doing,     \* per task: its step and the captures it is about
  events,
  given      \* the last status a reviewer gave each capture

storeVars == <<rows, status, earlier, merged, files, lost, recorded, doing, events,
               given>>

Ids == 1..MaxCaptures
Reviews == {"dismissed", "reviewed", "new", "ready"}
Resting == [step |-> "none", ids |-> {}]

StoreInit ==
  /\ rows = {} /\ merged = {} /\ files = {} /\ lost = {}
  /\ status = [i \in Ids |-> "new"]
  /\ earlier = [i \in Ids |-> "new"]
  /\ given = [i \in Ids |-> "new"]
  /\ recorded = 0 /\ events = 0
  /\ doing = [t \in Tasks |-> Resting]

Ungrouped == rows \ merged
Event == events < MaxEvents /\ events' = events + 1
Set(t, step, ids) == doing' = [doing EXCEPT ![t] = [step |-> step, ids |-> ids]]

-----------------------------------------------------------------------------
(* create_capture.                                                            *)

\* ready_fills_cap is asked before the transcode.
ReadyFillsCap == Cardinality({i \in Ungrouped : status[i] = "ready"}) >= RowCap

WriteWav(t) ==
  /\ doing[t] = Resting
  /\ recorded < MaxCaptures
  /\ ~ReadyFillsCap
  /\ recorded' = recorded + 1
  /\ files' = files \cup {recorded + 1}
  /\ Set(t, "insert", {recorded + 1})
  /\ UNCHANGED <<rows, status, earlier, merged, lost, events, given>>

\* Mutant: reviewed work goes last, before the unreviewed.
RankReviewed(s) == CASE s = "dismissed" -> 1 [] s = "audio_missing" -> 2 [] s = "new" -> 3
                     [] s = "ready" -> 4 [] OTHER -> 5

\* _EVICTION_ORDER.
Rank(s) == CASE s = "dismissed" -> 1 [] s = "audio_missing" -> 2 [] s = "reviewed" -> 3
             [] s = "new" -> 4 [] OTHER -> 5

Before(st, i, j) ==
  \/ Rank(st[i]) < Rank(st[j])
  \/ Rank(st[i]) = Rank(st[j]) /\ i < j

\* _evict_to_cap: the first in that order, oldest first, of the ungrouped rows.
Evicted(rs, st) ==
  LET free == rs \ merged IN
  {i \in free : Cardinality({j \in free : Before(st, j, i)}) < Cardinality(free) - RowCap}

\* Mutant: the row is inserted without looking for its WAV.
StillThereAlways(i) == TRUE

\* A clear may have wiped the WAV since it was written.
StillThere(i) == i \in files

InsertRow(t) ==
  LET i == CHOOSE x \in doing[t].ids : TRUE
      st == [status EXCEPT ![i] = "new"]
      out == Evicted(rows \cup {i}, st) IN
  /\ doing[t].step = "insert"
  /\ IF StillThere(i)
     THEN /\ rows' = (rows \cup {i}) \ out
          /\ files' = files \ out
          /\ status' = st
     ELSE UNCHANGED <<rows, files, status>>
  /\ Set(t, "none", {})
  /\ UNCHANGED <<earlier, merged, lost, recorded, events, given>>

\* A failing insert takes its WAV with it.
InsertFails(t) ==
  /\ doing[t].step = "insert"
  /\ files' = files \ doing[t].ids
  /\ Set(t, "none", {})
  /\ UNCHANGED <<rows, status, earlier, merged, lost, recorded, events, given>>

-----------------------------------------------------------------------------
(* Review, merges and deletions.                                              *)

\* update_capture, bulk_update_status: refused while the audio is missing.
Review(i, s) ==
  /\ i \in rows
  /\ status[i] = "audio_missing" => i \in files
  /\ s # given[i] \/ status[i] # s
  /\ status' = [status EXCEPT ![i] = s]
  /\ given' = [given EXCEPT ![i] = s]
  /\ UNCHANGED <<rows, earlier, merged, files, lost, recorded, doing, events>>

Merge(i) ==
  /\ i \in rows /\ i \in files
  /\ merged' = IF i \in merged THEN merged \ {i} ELSE merged \cup {i}
  /\ Event
  /\ UNCHANGED <<rows, status, earlier, files, lost, recorded, doing, given>>

\* delete_capture, and sweep_retention, which has dissolved the old samples and
\* deletes every ungrouped row up to an age: the rows go first.
DeleteRows(t, ids) ==
  /\ doing[t] = Resting /\ ids # {} /\ ids \subseteq rows
  /\ Event
  /\ rows' = rows \ ids
  /\ merged' = merged \ ids
  /\ Set(t, "unlink", ids)
  /\ UNCHANGED <<status, earlier, files, lost, recorded, given>>

Unlink(t) ==
  /\ doing[t].step = "unlink"
  /\ files' = files \ doing[t].ids
  /\ Set(t, "none", {})
  /\ UNCHANGED <<rows, status, earlier, merged, lost, recorded, events, given>>

\* clear_all, its wipe under the lock.
Clear ==
  /\ Event
  /\ rows' = {} /\ merged' = {} /\ files' = {}
  /\ UNCHANGED <<status, earlier, lost, recorded, doing, given>>

-----------------------------------------------------------------------------
(* The disk, and a restart.                                                   *)

Lose(i) ==
  /\ i \in files
  /\ Event
  /\ files' = files \ {i}
  /\ lost' = lost \cup {i}
  /\ UNCHANGED <<rows, status, earlier, merged, recorded, doing, given>>

BringBack(i) ==
  /\ i \in lost \ files
  /\ Event
  /\ files' = files \cup {i}
  /\ UNCHANGED <<rows, status, earlier, merged, lost, recorded, doing, given>>

\* Mutant: what was marked missing once more overwrites the status it had.
MarkedTwice(i) == i \notin files

\* reconcile_on_startup marks a row whose WAV is gone, and keeps its status.
Marked(i) == i \notin files /\ status[i] # "audio_missing"
Restored(i) == i \in files /\ status[i] = "audio_missing"

\* The process stops at any point; the next one reconciles before it serves.
Restart ==
  /\ Event
  /\ doing' = [t \in Tasks |-> Resting]
  /\ status' = [i \in Ids |-> IF i \notin rows THEN status[i]
                              ELSE IF Marked(i) THEN "audio_missing"
                              ELSE IF Restored(i) THEN earlier[i] ELSE status[i]]
  /\ earlier' = [i \in Ids |-> IF i \in rows /\ Marked(i) THEN status[i] ELSE earlier[i]]
  /\ files' = files \cap rows
  /\ UNCHANGED <<rows, merged, lost, recorded, given>>

StoreNext ==
  \/ \E t \in Tasks : \/ WriteWav(t) \/ InsertRow(t) \/ InsertFails(t) \/ Unlink(t)
                      \/ \E i \in Ids : DeleteRows(t, {i}) \/ DeleteRows(t, Ungrouped \cap 1..i)
  \/ \E i \in Ids : \/ \E s \in Reviews : Review(i, s)
                    \/ Merge(i) \/ Lose(i) \/ BringBack(i)
  \/ Clear \/ Restart

-----------------------------------------------------------------------------

\* An insert evicts no ready capture while a row of any other status is left to
\* go, no unreviewed one while a reviewed one is, and no member of a sample
\* (_evict_to_cap: "ready" wins, unreviewed work is protected).
EvictionOrder ==
  [][\A t \in Tasks : doing[t].step = "insert" /\ doing'[t] # doing[t] =>
       \A i \in rows \ rows' :
         /\ i \notin merged
         /\ status[i] = "ready" => \A j \in rows' \ merged : status'[j] = "ready"
         /\ status[i] = "new" => \A j \in rows' \ merged : status'[j] \in {"new", "ready"}]_storeVars

\* Every row has its WAV unless the disk lost it: an insert racing a clear, a
\* deletion or an eviction never lists a capture without audio.
RowsHaveAudio ==
  \A i \in rows : i \in files \/ i \in lost \/ status[i] = "audio_missing"

\* With nothing in flight no WAV is left without its row: a failed insert, an
\* eviction and a deletion unlink it, a crash's are unlinked by the next start.
NoStrayAudio == (\A t \in Tasks : doing[t] = Resting) => files \subseteq rows \cup lost

\* The status a reviewer gave is the row's, or the one it gets back when its
\* WAV returns, however often the WAV is lost and restarts reconcile.
ReviewKept ==
  \A i \in rows : given[i] = IF status[i] = "audio_missing" THEN earlier[i] ELSE status[i]

=============================================================================
