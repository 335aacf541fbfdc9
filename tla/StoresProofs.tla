---------------------------- MODULE StoresProofs ----------------------------
(* Proofs about the stores of MCStores: the captures, the media store, the      *)
(* usage tables, the samples. Each invariant is of one store's variables, which *)
(* the steps of the other stores leave alone. The lemmas about sums over finite *)
(* sets come before the media store, which counts bytes.                        *)
EXTENDS MCStores, Sums, TLAPS, FiniteSetTheorems, Integers, Sequences

(***************************************************************************)
(* The captures. What a task is in the middle of is about captures that no  *)
(* row names and no other insert is about; a WAV is a row's, a task's or    *)
(* one the disk lost; what was never listed was never reviewed.             *)
(***************************************************************************)

CaptureSteps == {"none", "insert", "unlink"}
Doings == [step : CaptureSteps, ids : SUBSET C!Ids]
Statuses == C!Reviews \cup {"audio_missing"}

CaptureTypes ==
  /\ rows \in SUBSET C!Ids /\ merged \in SUBSET C!Ids
  /\ files \in SUBSET C!Ids /\ lost \in SUBSET C!Ids
  /\ status \in [C!Ids -> Statuses]
  /\ earlier \in [C!Ids -> C!Reviews] /\ given \in [C!Ids -> C!Reviews]
  /\ recorded \in 0..MaxCaptures
  /\ doing \in [Tasks -> Doings]

CaptureOwn ==
  /\ rows \subseteq 1..recorded
  /\ \A t \in Tasks :
       /\ doing[t].ids \subseteq (1..recorded) \ rows
       /\ doing[t].step = "none" => doing[t].ids = {}
       /\ doing[t].step = "insert" =>
            /\ \E i \in C!Ids : doing[t].ids = {i}
            /\ \A u \in Tasks \ {t} : doing[t].ids \cap doing[u].ids = {}

CaptureFiles ==
  \A i \in files : i \in rows \/ i \in lost \/ \E t \in Tasks : i \in doing[t].ids

Unlisted(i) == i > recorded \/ \E t \in Tasks : doing[t].step = "insert" /\ i \in doing[t].ids

CaptureReviews == C!ReviewKept /\ \A i \in C!Ids : Unlisted(i) => given[i] = "new"

CaptureInv ==
  CaptureTypes /\ CaptureOwn /\ CaptureFiles /\ C!RowsHaveAudio /\ CaptureReviews

-----------------------------------------------------------------------------

\* An insert is about the one capture of its task: it lists it if its WAV is
\* still there, less what the cap evicts.
LEMMA InsertEffect ==
  ASSUME CaptureTypes, CaptureOwn, NEW t \in Tasks, C!InsertRow(t)
  PROVE \E i \in C!Ids, out \in SUBSET C!Ids :
          /\ doing[t].ids = {i} /\ doing[t].step = "insert" /\ out \cap merged = {}
          /\ out = C!Evicted(rows \cup {i}, [status EXCEPT ![i] = "new"])
          /\ \/ /\ i \in files
                /\ rows' = (rows \cup {i}) \ out /\ files' = files \ out
                /\ status' = [status EXCEPT ![i] = "new"]
             \/ rows' = rows /\ files' = files /\ status' = status /\ i \notin files
          /\ doing' = [doing EXCEPT ![t] = C!Resting]
          /\ UNCHANGED <<earlier, merged, lost, recorded, given>>
<1>1. PICK i \in C!Ids : doing[t].ids = {i} BY DEF C!InsertRow, CaptureOwn
<1>2. (CHOOSE x \in doing[t].ids : TRUE) = i BY <1>1
<1> DEFINE st == [status EXCEPT ![i] = "new"]
           out == C!Evicted(rows \cup {i}, st)
<1>3. out \in SUBSET C!Ids /\ out \cap merged = {}
  BY DEF C!Evicted, CaptureTypes
<1>4. /\ doing[t].step = "insert"
      /\ IF C!StillThere(i)
         THEN /\ rows' = (rows \cup {i}) \ out /\ files' = files \ out /\ status' = st
         ELSE UNCHANGED <<rows, files, status>>
      /\ C!Set(t, "none", {})
      /\ UNCHANGED <<earlier, merged, lost, recorded, events, given>>
  BY <1>2 DEF C!InsertRow
<1>5. doing' = [doing EXCEPT ![t] = C!Resting] BY <1>4 DEF C!Set, C!Resting
<1> HIDE DEF out
<1>6. QED BY <1>1, <1>3, <1>4, <1>5 DEF C!StillThere, out

LEMMA CaptureTypesKept ==
  ASSUME StoresAssumption, CaptureTypes, CaptureOwn, [C!StoreNext]_storeVars
  PROVE CaptureTypes'
<1> USE DEF CaptureTypes, Doings, CaptureSteps
<1>1. ASSUME NEW t \in Tasks, C!WriteWav(t) PROVE CaptureTypes'
  <2>1. recorded + 1 \in 1..MaxCaptures BY <1>1 DEF C!WriteWav, StoresAssumption
  <2>2. QED BY <1>1, <2>1 DEF C!WriteWav, C!Set, C!Ids
<1>2. ASSUME NEW t \in Tasks, C!InsertRow(t) PROVE CaptureTypes'
  <2>1. PICK i \in C!Ids, out \in SUBSET C!Ids :
          /\ \/ /\ rows' = (rows \cup {i}) \ out /\ files' = files \ out
                /\ status' = [status EXCEPT ![i] = "new"]
             \/ rows' = rows /\ files' = files /\ status' = status
          /\ doing' = [doing EXCEPT ![t] = C!Resting]
          /\ UNCHANGED <<earlier, merged, lost, recorded, given>>
    BY <1>2, InsertEffect
  <2>2. "new" \in Statuses /\ C!Resting \in Doings BY DEF Statuses, C!Reviews, C!Resting
  <2>3. QED BY <2>1, <2>2
<1>3. ASSUME NEW t \in Tasks, C!InsertFails(t) \/ C!Unlink(t) PROVE CaptureTypes'
  BY <1>3 DEF C!InsertFails, C!Unlink, C!Set
<1>4. ASSUME NEW t \in Tasks, NEW ids, C!DeleteRows(t, ids) PROVE CaptureTypes'
  BY <1>4 DEF C!DeleteRows, C!Set
<1>5. ASSUME NEW i \in C!Ids, NEW s \in C!Reviews, C!Review(i, s) PROVE CaptureTypes'
  BY <1>5 DEF C!Review, Statuses
<1>6. ASSUME NEW i \in C!Ids, C!Merge(i) \/ C!Lose(i) \/ C!BringBack(i) PROVE CaptureTypes'
  BY <1>6 DEF C!Merge, C!Lose, C!BringBack
<1>7. CASE C!Clear BY <1>7 DEF C!Clear
<1>8. CASE C!Restart
  <2>1. C!Resting \in Doings BY DEF C!Resting
  <2>2. doing' \in [Tasks -> Doings] BY <1>8, <2>1 DEF C!Restart
  <2>3. status' \in [C!Ids -> Statuses] BY <1>8 DEF C!Restart, Statuses
  <2>4. earlier' \in [C!Ids -> C!Reviews] BY <1>8 DEF C!Restart, Statuses, C!Marked
  <2>5. QED BY <1>8, <2>2, <2>3, <2>4 DEF C!Restart
<1>9. CASE UNCHANGED storeVars BY <1>9 DEF storeVars
<1>10. QED BY <1>1, <1>2, <1>3, <1>4, <1>5, <1>6, <1>7, <1>8, <1>9 DEF C!StoreNext

LEMMA CaptureOwnKept ==
  ASSUME StoresAssumption, CaptureTypes, CaptureOwn, [C!StoreNext]_storeVars
  PROVE CaptureOwn'
<1> USE DEF CaptureTypes, CaptureOwn, Doings
<1>1. ASSUME NEW t \in Tasks, C!WriteWav(t) PROVE CaptureOwn'
  <2>1. /\ recorded' = recorded + 1 /\ rows' = rows
        /\ doing' = [doing EXCEPT ![t] = [step |-> "insert", ids |-> {recorded + 1}]]
        /\ recorded + 1 \in C!Ids
    BY <1>1 DEF C!WriteWav, C!Set, C!Ids, StoresAssumption
  <2>2. recorded + 1 \notin 1..recorded /\ 1..recorded \subseteq 1..recorded' BY <2>1, StoresAssumption
  <2>3. doing'[t] = [step |-> "insert", ids |-> {recorded + 1}]
        /\ \A u \in Tasks \ {t} : doing'[u] = doing[u]
    BY <2>1
  <2>4. QED BY <2>1, <2>2, <2>3
<1>2. ASSUME NEW t \in Tasks, C!InsertRow(t) PROVE CaptureOwn'
  <2>1. PICK i \in C!Ids, out \in SUBSET C!Ids :
          /\ doing[t].ids = {i} /\ doing[t].step = "insert"
          /\ rows' \subseteq rows \cup {i}
          /\ doing' = [doing EXCEPT ![t] = C!Resting] /\ recorded' = recorded
    BY <1>2, InsertEffect
  <2>2. doing'[t].step = "none" /\ doing'[t].ids = {}
        /\ \A u \in Tasks \ {t} : doing'[u] = doing[u]
    BY <2>1 DEF C!Resting
  <2>3. QED BY <2>1, <2>2
<1>3. ASSUME NEW t \in Tasks, C!InsertFails(t) \/ C!Unlink(t) PROVE CaptureOwn'
  <2>1. doing' = [doing EXCEPT ![t] = C!Resting] /\ rows' = rows /\ recorded' = recorded
    BY <1>3 DEF C!InsertFails, C!Unlink, C!Set, C!Resting
  <2>2. doing'[t].step = "none" /\ doing'[t].ids = {}
        /\ \A u \in Tasks \ {t} : doing'[u] = doing[u]
    BY <2>1 DEF C!Resting
  <2>3. QED BY <2>1, <2>2
<1>4. ASSUME NEW t \in Tasks, NEW ids, C!DeleteRows(t, ids) PROVE CaptureOwn'
  BY <1>4 DEF C!DeleteRows, C!Set
<1>5. ASSUME NEW i \in C!Ids, NEW s \in C!Reviews, C!Review(i, s) PROVE CaptureOwn'
  BY <1>5 DEF C!Review
<1>6. ASSUME NEW i \in C!Ids, C!Merge(i) \/ C!Lose(i) \/ C!BringBack(i) PROVE CaptureOwn'
  BY <1>6 DEF C!Merge, C!Lose, C!BringBack
<1>7. CASE C!Clear BY <1>7 DEF C!Clear
<1>8. CASE C!Restart BY <1>8 DEF C!Restart, C!Resting
<1>9. CASE UNCHANGED storeVars BY <1>9 DEF storeVars
<1>10. QED BY <1>1, <1>2, <1>3, <1>4, <1>5, <1>6, <1>7, <1>8, <1>9 DEF C!StoreNext

LEMMA CaptureFilesKept ==
  ASSUME StoresAssumption, CaptureTypes, CaptureOwn, CaptureFiles, [C!StoreNext]_storeVars
  PROVE CaptureFiles'
<1> USE DEF CaptureTypes, CaptureFiles, Doings
<1>1. ASSUME NEW t \in Tasks, C!WriteWav(t) PROVE CaptureFiles'
  <2>1. /\ doing' = [doing EXCEPT ![t] = [step |-> "insert", ids |-> {recorded + 1}]]
        /\ files' = files \cup {recorded + 1} /\ rows' = rows /\ lost' = lost
        /\ doing[t].ids = {}
    BY <1>1 DEF C!WriteWav, C!Set, C!Resting
  <2>2. doing'[t].ids = {recorded + 1} /\ \A u \in Tasks \ {t} : doing'[u] = doing[u]
    BY <2>1
  <2>3. QED BY <2>1, <2>2
<1>2. ASSUME NEW t \in Tasks, C!InsertRow(t) PROVE CaptureFiles'
  <2>1. PICK i \in C!Ids, out \in SUBSET C!Ids :
          /\ doing[t].ids = {i} /\ lost' = lost
          /\ \/ i \in files /\ rows' = (rows \cup {i}) \ out /\ files' = files \ out
             \/ rows' = rows /\ files' = files /\ i \notin files
          /\ doing' = [doing EXCEPT ![t] = C!Resting]
    BY <1>2, InsertEffect
  <2>2. \A u \in Tasks \ {t} : doing'[u] = doing[u] BY <2>1
  <2>3. QED BY <2>1, <2>2
<1>3. ASSUME NEW t \in Tasks, C!InsertFails(t) \/ C!Unlink(t) PROVE CaptureFiles'
  <2>1. /\ files' = files \ doing[t].ids /\ rows' = rows /\ lost' = lost
        /\ \A u \in Tasks \ {t} : doing'[u] = doing[u]
    BY <1>3 DEF C!InsertFails, C!Unlink, C!Set
  <2>2. QED BY <2>1
<1>4. ASSUME NEW t \in Tasks, NEW ids, C!DeleteRows(t, ids) PROVE CaptureFiles'
  <2>1. /\ rows' = rows \ ids /\ files' = files /\ lost' = lost /\ doing[t].ids = {}
        /\ doing' = [doing EXCEPT ![t] = [step |-> "unlink", ids |-> ids]]
    BY <1>4 DEF C!DeleteRows, C!Set, C!Resting
  <2>2. doing'[t].ids = ids /\ \A u \in Tasks \ {t} : doing'[u] = doing[u] BY <2>1
  <2>3. QED BY <2>1, <2>2
<1>5. ASSUME NEW i \in C!Ids, NEW s \in C!Reviews, C!Review(i, s) PROVE CaptureFiles'
  BY <1>5 DEF C!Review
<1>6. ASSUME NEW i \in C!Ids, C!Merge(i) \/ C!Lose(i) \/ C!BringBack(i) PROVE CaptureFiles'
  BY <1>6 DEF C!Merge, C!Lose, C!BringBack
<1>7. CASE C!Clear BY <1>7 DEF C!Clear
<1>8. CASE C!Restart BY <1>8 DEF C!Restart
<1>9. CASE UNCHANGED storeVars BY <1>9 DEF storeVars
<1>10. QED BY <1>1, <1>2, <1>3, <1>4, <1>5, <1>6, <1>7, <1>8, <1>9 DEF C!StoreNext

LEMMA CaptureAudioKept ==
  ASSUME StoresAssumption, CaptureTypes, CaptureOwn, C!RowsHaveAudio, [C!StoreNext]_storeVars
  PROVE C!RowsHaveAudio'
<1> USE DEF CaptureTypes, C!RowsHaveAudio
<1>1. ASSUME NEW t \in Tasks, C!WriteWav(t) PROVE C!RowsHaveAudio'
  BY <1>1 DEF C!WriteWav
<1>2. ASSUME NEW t \in Tasks, C!InsertRow(t) PROVE C!RowsHaveAudio'
  <2>1. PICK i \in C!Ids, out \in SUBSET C!Ids :
          /\ \/ /\ i \in files
                /\ rows' = (rows \cup {i}) \ out /\ files' = files \ out
                /\ status' = [status EXCEPT ![i] = "new"]
             \/ rows' = rows /\ files' = files /\ status' = status
          /\ lost' = lost
    BY <1>2, InsertEffect
  <2>2. QED BY <2>1
<1>3. ASSUME NEW t \in Tasks, C!InsertFails(t) \/ C!Unlink(t) PROVE C!RowsHaveAudio'
  BY <1>3 DEF C!InsertFails, C!Unlink, CaptureOwn
<1>4. ASSUME NEW t \in Tasks, NEW ids, C!DeleteRows(t, ids) PROVE C!RowsHaveAudio'
  BY <1>4 DEF C!DeleteRows
<1>5. ASSUME NEW i \in C!Ids, NEW s \in C!Reviews, C!Review(i, s) PROVE C!RowsHaveAudio'
  BY <1>5 DEF C!Review
<1>6. ASSUME NEW i \in C!Ids, C!Merge(i) \/ C!Lose(i) \/ C!BringBack(i) PROVE C!RowsHaveAudio'
  BY <1>6 DEF C!Merge, C!Lose, C!BringBack
<1>7. CASE C!Clear BY <1>7 DEF C!Clear
<1>8. CASE C!Restart
  <2>1. ASSUME NEW i \in rows' PROVE i \in files' \/ i \in lost' \/ status'[i] = "audio_missing"
    BY <1>8, <2>1 DEF C!Restart, C!Marked, C!Restored
  <2>2. QED BY <2>1
<1>9. CASE UNCHANGED storeVars BY <1>9 DEF storeVars
<1>10. QED BY <1>1, <1>2, <1>3, <1>4, <1>5, <1>6, <1>7, <1>8, <1>9 DEF C!StoreNext

LEMMA CaptureReviewsKept ==
  ASSUME StoresAssumption, CaptureTypes, CaptureOwn, CaptureReviews, [C!StoreNext]_storeVars
  PROVE CaptureReviews'
<1> USE DEF CaptureTypes, CaptureReviews, C!ReviewKept, Unlisted, Doings
<1>1. ASSUME NEW t \in Tasks, C!WriteWav(t) PROVE CaptureReviews'
  <2>1. /\ doing' = [doing EXCEPT ![t] = [step |-> "insert", ids |-> {recorded + 1}]]
        /\ recorded' = recorded + 1 /\ recorded \in Nat
        /\ UNCHANGED <<rows, status, earlier, given>>
    BY <1>1, StoresAssumption DEF C!WriteWav, C!Set
  <2>2. doing'[t].ids = {recorded + 1} /\ \A u \in Tasks \ {t} : doing'[u] = doing[u]
    BY <2>1
  <2>3. \A i \in C!Ids : i \in Int BY DEF C!Ids
  <2>4. ASSUME NEW i \in C!Ids, Unlisted(i)' PROVE Unlisted(i)
    BY <2>1, <2>2, <2>3, <2>4
  <2>5. QED BY <2>1, <2>4
<1>2. ASSUME NEW t \in Tasks, C!InsertRow(t) PROVE CaptureReviews'
  <2>1. PICK i \in C!Ids, out \in SUBSET C!Ids :
          /\ doing[t].ids = {i} /\ doing[t].step = "insert"
          /\ \/ rows' = (rows \cup {i}) \ out /\ status' = [status EXCEPT ![i] = "new"]
             \/ rows' = rows /\ status' = status
          /\ doing' = [doing EXCEPT ![t] = C!Resting]
          /\ earlier' = earlier /\ recorded' = recorded /\ given' = given
    BY <1>2, InsertEffect
  <2>2. given[i] = "new" BY <2>1
  <2>3. doing'[t].ids = {} /\ \A u \in Tasks \ {t} : doing'[u] = doing[u]
    BY <2>1 DEF C!Resting
  <2>4. \A j \in C!Ids : Unlisted(j)' => Unlisted(j) BY <2>1, <2>3
  <2>5. C!ReviewKept' BY <2>1, <2>2
  <2>6. QED BY <2>1, <2>4, <2>5
<1>3. ASSUME NEW t \in Tasks, C!InsertFails(t) \/ C!Unlink(t) PROVE CaptureReviews'
  <2>1. /\ UNCHANGED <<rows, status, earlier, given, recorded>>
        /\ doing' = [doing EXCEPT ![t] = C!Resting]
    BY <1>3 DEF C!InsertFails, C!Unlink, C!Set, C!Resting
  <2>2. doing'[t].ids = {} /\ \A u \in Tasks \ {t} : doing'[u] = doing[u]
    BY <2>1 DEF C!Resting
  <2>3. QED BY <2>1, <2>2
<1>4. ASSUME NEW t \in Tasks, NEW ids, C!DeleteRows(t, ids) PROVE CaptureReviews'
  <2>1. /\ UNCHANGED <<status, earlier, given, recorded>> /\ rows' \subseteq rows
        /\ doing' = [doing EXCEPT ![t] = [step |-> "unlink", ids |-> ids]]
    BY <1>4 DEF C!DeleteRows, C!Set
  <2>2. doing'[t].step = "unlink" /\ \A u \in Tasks \ {t} : doing'[u] = doing[u] BY <2>1
  <2>3. QED BY <2>1, <2>2
<1>5. ASSUME NEW i \in C!Ids, NEW s \in C!Reviews, C!Review(i, s) PROVE CaptureReviews'
  <2>1. i \in 1..recorded /\ \A t \in Tasks : i \notin doing[t].ids
    BY <1>5 DEF C!Review, CaptureOwn
  <2>2. /\ ~Unlisted(i) /\ s # "audio_missing"
    BY <2>1 DEF C!Reviews
  <2>3. QED BY <1>5, <2>2 DEF C!Review
<1>6. ASSUME NEW i \in C!Ids, C!Merge(i) \/ C!Lose(i) \/ C!BringBack(i) PROVE CaptureReviews'
  BY <1>6 DEF C!Merge, C!Lose, C!BringBack
<1>7. CASE C!Clear BY <1>7 DEF C!Clear
<1>8. CASE C!Restart
  <2>1. /\ UNCHANGED <<given, recorded, rows>> /\ doing' = [t \in Tasks |-> C!Resting]
    BY <1>8 DEF C!Restart
  <2>2. ASSUME NEW i \in rows
        PROVE given'[i] = IF status'[i] = "audio_missing" THEN earlier'[i] ELSE status'[i]
    <3>1. earlier[i] # "audio_missing" BY DEF C!Reviews
    <3>2. CASE C!Marked(i) BY <1>8, <3>2 DEF C!Restart, C!Marked
    <3>3. CASE C!Restored(i) BY <1>8, <3>1, <3>3 DEF C!Restart, C!Restored, C!Marked
    <3>4. CASE ~C!Marked(i) /\ ~C!Restored(i) BY <1>8, <3>4 DEF C!Restart
    <3>5. QED BY <3>2, <3>3, <3>4
  <2>3. \A t \in Tasks : doing'[t].step = "none" BY <2>1 DEF C!Resting
  <2>4. QED BY <2>1, <2>2, <2>3
<1>9. CASE UNCHANGED storeVars BY <1>9 DEF storeVars
<1>10. QED BY <1>1, <1>2, <1>3, <1>4, <1>5, <1>6, <1>7, <1>8, <1>9 DEF C!StoreNext

LEMMA CaptureInit ==
  ASSUME StoresAssumption, C!StoreInit
  PROVE CaptureInv
<1>1. CaptureTypes
  BY StoresAssumption DEF C!StoreInit, CaptureTypes, Statuses, C!Reviews, Doings, CaptureSteps, C!Resting
<1>2. CaptureOwn BY DEF C!StoreInit, CaptureOwn, C!Resting
<1>3. CaptureFiles /\ C!RowsHaveAudio BY DEF C!StoreInit, CaptureFiles, C!RowsHaveAudio
<1>4. CaptureReviews BY DEF C!StoreInit, CaptureReviews, C!ReviewKept
<1>5. QED BY <1>1, <1>2, <1>3, <1>4 DEF CaptureInv

LEMMA CaptureInductive ==
  ASSUME StoresAssumption, CaptureInv, [C!StoreNext]_storeVars
  PROVE CaptureInv'
BY CaptureTypesKept, CaptureOwnKept, CaptureFilesKept, CaptureAudioKept, CaptureReviewsKept
   DEF CaptureInv

\* Whatever store a step is of, it is a step of the captures or leaves them alone.
LEMMA StepOfCaptures ==
  ASSUME [SamplesStep \/ CapturesStep \/ UsageStep \/ MediaStep]_<<part, samplesVars, storeVars,
                                                                 usageVars, mediaVars>>
  PROVE [C!StoreNext]_storeVars
BY DEF SamplesStep, CapturesStep, UsageStep, MediaStep, storeVars

LEMMA CaptureInvariance == StoresSpec => []CaptureInv
<1>1. StoresInit => CaptureInv BY CaptureInit, StoresAssumption DEF StoresInit
<1>2. CaptureInv /\ [SamplesStep \/ CapturesStep \/ UsageStep \/ MediaStep]_<<part, samplesVars,
                       storeVars, usageVars, mediaVars>> => CaptureInv'
  BY CaptureInductive, StepOfCaptures, StoresAssumption
<1>3. QED BY <1>1, <1>2, PTL DEF StoresSpec

\* Every capture listed has its WAV unless the disk lost it, no WAV is left
\* without its row once nothing is in flight, and a review survives its audio's
\* absence; for any number of tasks, captures, deletions and restarts, any cap.
THEOREM CapturesAreAccounted == StoresSpec => []CapturesAccounted
<1>1. CaptureInv => CapturesAccounted
  <2>1. ASSUME CaptureInv PROVE C!NoStrayAudio
    BY <2>1 DEF CaptureInv, C!NoStrayAudio, CaptureFiles, C!Resting
  <2>2. QED BY <2>1 DEF CaptureInv, CapturesAccounted, CaptureReviews
<1>2. QED BY <1>1, CaptureInvariance, PTL

-----------------------------------------------------------------------------
(* What the cap evicts.                                                        *)

LEMMA CaptureCardinality == \A S : C!Cardinality(S) = Cardinality(S)
BY DEF C!Cardinality, Cardinality

LEMMA RankValues == \A s \in Statuses : C!Rank(s) \in 1..5
BY DEF Statuses, C!Reviews, C!Rank

\* The evicted are the first in the order: whoever comes before one is one.
LEMMA EvictedFirst ==
  ASSUME StoresAssumption, NEW rs \in SUBSET C!Ids, NEW st \in [C!Ids -> Statuses],
         NEW i \in C!Evicted(rs, st), NEW j \in rs \ merged, C!Before(st, j, i)
  PROVE j \in C!Evicted(rs, st)
<1> DEFINE free == rs \ merged
           before(k) == {l \in free : C!Before(st, l, k)}
<1>1. IsFiniteSet(free) /\ \A k : IsFiniteSet(before(k)) /\ Cardinality(before(k)) \in Nat
  <2>1. IsFiniteSet(C!Ids) BY FS_Interval, StoresAssumption DEF C!Ids
  <2>2. IsFiniteSet(free) BY <2>1, FS_Subset
  <2>3. \A k : before(k) \subseteq free OBVIOUS
  <2>4. QED BY <2>2, <2>3, FS_Subset, FS_CardinalityType
<1>2. i \in free /\ Cardinality(before(i)) < Cardinality(free) - RowCap
  BY CaptureCardinality DEF C!Evicted
<1>3. before(j) \subseteq before(i)
  <2>1. ASSUME NEW l \in free, C!Before(st, l, j) PROVE C!Before(st, l, i)
    <3>1. C!Rank(st[i]) \in Int /\ C!Rank(st[j]) \in Int /\ C!Rank(st[l]) \in Int
      BY <1>2, RankValues
    <3>2. i \in Int /\ j \in Int /\ l \in Int BY <1>2 DEF C!Ids
    <3>3. QED BY <2>1, <3>1, <3>2 DEF C!Before
  <2>2. QED BY <2>1
<1>4. Cardinality(before(j)) <= Cardinality(before(i)) BY <1>1, <1>3, FS_Subset
<1>5. Cardinality(free) \in Nat BY <1>1, FS_CardinalityType
<1> HIDE DEF before
<1>6. Cardinality(before(j)) < Cardinality(free) - RowCap
  BY <1>1, <1>2, <1>4, <1>5, StoresAssumption
<1>7. QED BY <1>6, CaptureCardinality DEF C!Evicted, before

LEMMA EvictionInOrder ==
  ASSUME StoresAssumption, CaptureTypes, CaptureOwn, [C!StoreNext]_storeVars,
         NEW t \in Tasks, doing[t].step = "insert", doing'[t] # doing[t],
         NEW i \in rows \ rows'
  PROVE /\ i \notin merged
        /\ status[i] = "ready" => \A j \in rows' \ merged : status'[j] = "ready"
        /\ status[i] = "new" => \A j \in rows' \ merged : status'[j] \in {"new", "ready"}
<1> USE DEF CaptureTypes, Doings
<1>1. C!InsertRow(t)
  <2>1. ASSUME NEW u \in Tasks, u # t,
               C!WriteWav(u) \/ C!InsertRow(u) \/ C!InsertFails(u) \/ C!Unlink(u)
                 \/ \E ids : C!DeleteRows(u, ids)
        PROVE FALSE
    BY <2>1 DEF C!WriteWav, C!InsertRow, C!InsertFails, C!Unlink, C!DeleteRows, C!Set
  <2>2. ASSUME C!WriteWav(t) \/ C!InsertFails(t) \/ C!Unlink(t) \/ \E ids : C!DeleteRows(t, ids)
        PROVE FALSE
    BY <2>2 DEF C!WriteWav, C!InsertFails, C!Unlink, C!DeleteRows, C!Resting
  <2>3. ASSUME \/ \E k \in C!Ids, s \in C!Reviews : C!Review(k, s)
               \/ \E k \in C!Ids : C!Merge(k) \/ C!Lose(k) \/ C!BringBack(k)
               \/ C!Clear \/ C!Restart \/ UNCHANGED storeVars
        PROVE FALSE
    BY <2>3 DEF C!Review, C!Merge, C!Lose, C!BringBack, C!Clear, C!Restart, storeVars
  <2>4. QED BY <2>1, <2>2, <2>3 DEF C!StoreNext
<1>2. PICK n \in C!Ids, out \in SUBSET C!Ids :
        /\ doing[t].ids = {n} /\ out \cap merged = {}
        /\ out = C!Evicted(rows \cup {n}, [status EXCEPT ![n] = "new"])
        /\ rows' = (rows \cup {n}) \ out
        /\ status' = [status EXCEPT ![n] = "new"]
  BY <1>1, InsertEffect
<1> DEFINE st == [status EXCEPT ![n] = "new"]
<1>3. st \in [C!Ids -> Statuses] BY DEF Statuses, C!Reviews
<1>4. i \in out /\ i \notin merged /\ st[i] = status[i]
  BY <1>2 DEF CaptureOwn
<1>5. ASSUME NEW j \in rows' \ merged, C!Before(st, j, i) PROVE FALSE
  <2>1. rows \cup {n} \in SUBSET C!Ids /\ j \in (rows \cup {n}) \ merged /\ j \notin out
    BY <1>2
  <2>2. j \in out BY <1>2, <1>3, <1>4, <1>5, <2>1, EvictedFirst
  <2>3. QED BY <2>1, <2>2
<1>6. ASSUME NEW j \in rows' \ merged, C!Rank(st[j]) < C!Rank(st[i]) PROVE FALSE
  BY <1>5, <1>6 DEF C!Before
<1>7. \A j \in rows' : st[j] \in Statuses /\ status'[j] = st[j] BY <1>2, <1>3
<1> HIDE DEF st
<1>8. ASSUME status[i] = "ready", NEW j \in rows' \ merged PROVE status'[j] = "ready"
  <2>1. C!Rank(st[i]) = 5 BY <1>4, <1>8 DEF C!Rank
  <2>2. st[j] # "ready" => C!Rank(st[j]) < 5 BY <1>7 DEF C!Rank, Statuses, C!Reviews
  <2>3. QED BY <1>6, <1>7, <2>1, <2>2
<1>9. ASSUME status[i] = "new", NEW j \in rows' \ merged PROVE status'[j] \in {"new", "ready"}
  <2>1. C!Rank(st[i]) = 4 BY <1>4, <1>9 DEF C!Rank
  <2>2. st[j] \notin {"new", "ready"} => C!Rank(st[j]) < 4
    BY <1>7 DEF C!Rank, Statuses, C!Reviews
  <2>3. QED BY <1>6, <1>7, <2>1, <2>2
<1>10. QED BY <1>4, <1>8, <1>9

(***************************************************************************)
(* Sums over finite sets. SumSet folds with a recursive function, of which a *)
(* proof by induction over the set says nothing directly: where a property   *)
(* fails for some finite subset it fails for a least one.                    *)
(***************************************************************************)

\* A set of numbers that has an element has a least one.
LEMMA LeastExists == ASSUME NEW S, S \subseteq Nat, S # {} PROVE \E a \in S : \A b \in S : a <= b
<1>. DEFINE smaller == OpToRel(<, Nat)
<1>1. \A a \in Nat, b \in Nat : a < b => <<a, b>> \in smaller BY DEF OpToRel
<1>2. IsWellFoundedOn(smaller, Nat) BY NatLessThanWellFounded
<1>3. PICK less : less = smaller OBVIOUS
<1>4. \E a \in S : \A b \in S : ~(<<b, a>> \in less) BY <1>2, <1>3, WFMin
<1>5. PICK a \in S : \A b \in S : ~(<<b, a>> \in less) BY <1>4
<1>6. \A c \in Nat, b \in Nat : c < b => <<c, b>> \in less BY <1>1, <1>3
<1>. HIDE DEF smaller
<1>7. \A b \in S : a <= b
  <2>. SUFFICES ASSUME NEW b \in S PROVE a <= b OBVIOUS
  <2>1. a \in Nat /\ b \in Nat OBVIOUS
  <2>2. <<b, a>> \notin less BY <1>5
  <2>3. ~(b < a) BY <1>6, <2>1, <2>2
  <2>. QED BY <2>1, <2>3
<1>. QED BY <1>7

First(s) == CHOOSE x \in s : TRUE
IsFold(F, S, g) ==
  g = [s \in SUBSET S |-> IF s = {} THEN 0 ELSE F[First(s)] + g[s \ {First(s)}]]
SumOf(F, S) == SumSet(LAMBDA x : F[x], S)

\* The fold of F over the subsets of a finite set exists, by recursion on their size.
LEMMA FoldExists == ASSUME NEW F, NEW S, IsFiniteSet(S) PROVE \E g : IsFold(F, S, g)
<1> DEFINE Small(n) == {s \in SUBSET S : Cardinality(s) <= n}
           Has(n) == \E g : g = [s \in Small(n) |->
                                  IF s = {} THEN 0 ELSE F[First(s)] + g[s \ {First(s)}]]
           Bad == {n \in Nat : ~Has(n)}
<1>1. \A s \in SUBSET S : IsFiniteSet(s) /\ Cardinality(s) \in Nat
  BY FS_Subset, FS_CardinalityType
<1>2. \A s \in SUBSET S : s # {} => /\ First(s) \in s
                                    /\ Cardinality(s \ {First(s)}) = Cardinality(s) - 1
  <2> SUFFICES ASSUME NEW s \in SUBSET S, s # {}
               PROVE First(s) \in s /\ Cardinality(s \ {First(s)}) = Cardinality(s) - 1
    OBVIOUS
  <2>1. First(s) \in s BY DEF First
  <2>2. QED BY <1>1, <2>1, FS_RemoveElement
<1>3. Has(0)
  <2> DEFINE g == [s \in Small(0) |-> 0]
  <2>1. \A s \in Small(0) : s = {} BY <1>1, FS_EmptySet
  <2>2. g = [s \in Small(0) |-> IF s = {} THEN 0 ELSE F[First(s)] + g[s \ {First(s)}]] BY <2>1
  <2>3. QED BY <2>2
<1>4. ASSUME NEW n \in Nat, Has(n) PROVE Has(n + 1)
  <2>1. PICK g : g = [s \in Small(n) |-> IF s = {} THEN 0 ELSE F[First(s)] + g[s \ {First(s)}]]
    BY <1>4
  <2> DEFINE h == [s \in Small(n + 1) |-> IF s = {} THEN 0 ELSE F[First(s)] + g[s \ {First(s)}]]
  <2>2. \A s \in Small(n) : s \in Small(n + 1) BY <1>1
  <2>3. \A s \in Small(n) : h[s] = g[s] BY <2>1, <2>2
  <2>4. \A s \in Small(n + 1) : s # {} => s \ {First(s)} \in Small(n)
    <3> SUFFICES ASSUME NEW s \in Small(n + 1), s # {} PROVE s \ {First(s)} \in Small(n) OBVIOUS
    <3>1. s \in SUBSET S /\ Cardinality(s) <= n + 1 OBVIOUS
    <3>2. Cardinality(s \ {First(s)}) = Cardinality(s) - 1 BY <1>2, <3>1
    <3>3. Cardinality(s) \in Nat BY <1>1, <3>1
    <3>4. Cardinality(s \ {First(s)}) <= n BY <3>1, <3>2, <3>3
    <3>5. QED BY <3>1, <3>4
  <2>5. h = [s \in Small(n + 1) |-> IF s = {} THEN 0 ELSE F[First(s)] + h[s \ {First(s)}]]
    BY <2>3, <2>4
  <2>6. QED BY <2>5
<1> HIDE DEF Has
<1>5. Bad = {}
  <2> SUFFICES ASSUME Bad # {} PROVE FALSE OBVIOUS
  <2>1. PICK m \in Bad : \A b \in Bad : m <= b BY LeastExists
  <2>2. m # 0 BY <1>3
  <2>3. m - 1 \in Nat /\ ~(m <= m - 1) BY <2>2
  <2>4. Has(m - 1) BY <2>1, <2>3
  <2>5. m - 1 + 1 = m BY <2>3
  <2>6. Has(m) BY <1>4, <2>3, <2>4, <2>5
  <2>7. QED BY <2>6
<1>6. Cardinality(S) \in Nat BY FS_CardinalityType
<1>7. Has(Cardinality(S)) BY <1>5, <1>6
<1>8. \A s \in SUBSET S : Cardinality(s) <= Cardinality(S) BY FS_Subset
<1>9. Small(Cardinality(S)) = SUBSET S BY <1>8
<1> HIDE DEF Small
<1>10. QED BY <1>7, <1>9 DEF Has, IsFold

\* Induction over a finite set, on the set of its subsets that are good: one is
\* when all that are smaller by an element are.
LEMMA SetInduction ==
  ASSUME NEW S, IsFiniteSet(S), NEW Good,
         \A T \in SUBSET S : (\A x \in T : T \ {x} \in Good) => T \in Good
  PROVE  S \in Good
<1> DEFINE Bad == {n \in Nat : \E T \in SUBSET S : Cardinality(T) = n /\ T \notin Good}
<1>1. \A T \in SUBSET S : IsFiniteSet(T) /\ Cardinality(T) \in Nat
  BY FS_Subset, FS_CardinalityType
<1>2. Bad \subseteq Nat OBVIOUS
<1>3. Bad = {}
  <2> SUFFICES ASSUME Bad # {} PROVE FALSE OBVIOUS
  <2>1. PICK m \in Bad : \A b \in Bad : m <= b BY <1>2, LeastExists
  <2>2. PICK T \in SUBSET S : Cardinality(T) = m /\ T \notin Good OBVIOUS
  <2>3. PICK x \in T : T \ {x} \notin Good BY <2>2
  <2>4. T \ {x} \in SUBSET S OBVIOUS
  <2>5. Cardinality(T \ {x}) = m - 1 BY <1>1, <2>2, FS_RemoveElement
  <2>6. m - 1 \in Nat BY <1>1, <2>4, <2>5
  <2>7. m - 1 \in Bad BY <2>3, <2>4, <2>5, <2>6
  <2>8. QED BY <2>1, <2>6, <2>7
<1>4. S \in SUBSET S /\ Cardinality(S) \in Nat BY <1>1
<1>5. QED BY <1>3, <1>4

\* Two folds of F, over the subsets of two sets, agree where both are defined.
LEMMA FoldUnique ==
  ASSUME NEW F, NEW S, NEW T, IsFiniteSet(S), NEW g, NEW h,
         IsFold(F, S, g), IsFold(F, T, h), NEW s \in SUBSET S, s \in SUBSET T
  PROVE  g[s] = h[s]
<1> DEFINE Good == {r \in SUBSET s : g[r] = h[r]}
<1>1. IsFiniteSet(s) BY FS_Subset
<1>2. ASSUME NEW r \in SUBSET s, \A x \in r : r \ {x} \in Good PROVE r \in Good
  <2>1. r \in SUBSET S /\ r \in SUBSET T OBVIOUS
  <2>2. /\ g[r] = IF r = {} THEN 0 ELSE F[First(r)] + g[r \ {First(r)}]
        /\ h[r] = IF r = {} THEN 0 ELSE F[First(r)] + h[r \ {First(r)}]
    BY <2>1 DEF IsFold
  <2>3. r # {} => First(r) \in r BY DEF First
  <2>4. r # {} => g[r \ {First(r)}] = h[r \ {First(r)}] BY <1>2, <2>3
  <2>5. QED BY <2>2, <2>4
<1> HIDE DEF Good
<1>3. s \in Good BY <1>1, <1>2, SetInduction
<1>4. QED BY <1>3 DEF Good

\* The sum over a finite set is the one a fold over any greater set gives.
LEMMA SumIsFold ==
  ASSUME NEW F, NEW S, IsFiniteSet(S), NEW s \in SUBSET S, NEW g, IsFold(F, S, g)
  PROVE  SumOf(F, s) = g[s]
<1>1. SumOf(F, s) = (CHOOSE iter : IsFold(F, s, iter))[s]
  BY DEF SumOf, IsFold, First, SumSet, MapThenFoldSet
<1>2. IsFiniteSet(s) BY FS_Subset
<1> DEFINE h == CHOOSE iter : IsFold(F, s, iter)
<1>3. IsFold(F, s, h) BY <1>2, FoldExists
<1> HIDE DEF h
<1>4. g[s] = h[s] BY <1>3, FoldUnique
<1>5. QED BY <1>1, <1>4 DEF h

\* A sum is its first element and the sum over the others.
LEMMA SumFirst ==
  ASSUME NEW F, NEW S, IsFiniteSet(S)
  PROVE  SumOf(F, S) = IF S = {} THEN 0 ELSE F[First(S)] + SumOf(F, S \ {First(S)})
<1>1. PICK g : IsFold(F, S, g) BY FoldExists
<1>2. SumOf(F, S) = g[S] BY <1>1, SumIsFold
<1>3. S \ {First(S)} \in SUBSET S OBVIOUS
<1>4. SumOf(F, S \ {First(S)}) = g[S \ {First(S)}] BY <1>1, <1>3, SumIsFold
<1>5. g[S] = IF S = {} THEN 0 ELSE F[First(S)] + g[S \ {First(S)}] BY <1>1 DEF IsFold
<1>6. QED BY <1>2, <1>4, <1>5

\* The sum over no element.
LEMMA SumEmpty == ASSUME NEW F PROVE SumOf(F, {}) = 0
BY SumFirst, FS_EmptySet

\* A sum is any one element and the sum over the others.
LEMMA SumAdds ==
  ASSUME NEW F, NEW S, IsFiniteSet(S), \A y \in S : F[y] \in Int
  PROVE  /\ SumOf(F, S) \in Int
         /\ \A x \in S : SumOf(F, S \ {x}) \in Int /\ SumOf(F, S) = F[x] + SumOf(F, S \ {x})
<1> DEFINE Splits(r) == /\ SumOf(F, r) \in Int
                        /\ \A x \in r : /\ SumOf(F, r \ {x}) \in Int
                                        /\ SumOf(F, r) = F[x] + SumOf(F, r \ {x})
           Good == {r \in SUBSET S : Splits(r)}
<1>1. ASSUME NEW r \in SUBSET S, \A x \in r : r \ {x} \in Good PROVE r \in Good
  <2>1. CASE r = {} BY <2>1, SumEmpty
  <2>2. CASE r # {}
    <3> DEFINE c == First(r)
    <3>1. c \in r /\ F[c] \in Int BY <2>2 DEF First
    <3>2. SumOf(F, r) = F[c] + SumOf(F, r \ {c}) BY <2>2, SumFirst, FS_Subset
    <3> HIDE DEF c
    <3>3. \A x \in r : Splits(r \ {x}) BY <1>1
    <3> HIDE DEF Splits
    <3>4. \A x \in r : SumOf(F, r \ {x}) \in Int BY <3>3 DEF Splits
    <3>5. ASSUME NEW x \in r PROVE SumOf(F, r) = F[x] + SumOf(F, r \ {x})
      <4>1. CASE x = c BY <3>2, <4>1
      <4>2. CASE x # c
        <5>1. x \in r \ {c} /\ c \in r \ {x} BY <3>1, <4>2
        <5>2. PICK rest : rest = (r \ {c}) \ {x} OBVIOUS
        <5>3. rest = (r \ {x}) \ {c} BY <5>2
        <5>4. SumOf(F, r \ {c}) = F[x] + SumOf(F, rest) /\ SumOf(F, rest) \in Int
          BY <3>1, <3>3, <5>1, <5>2 DEF Splits
        <5>5. SumOf(F, r \ {x}) = F[c] + SumOf(F, rest) BY <3>3, <5>1, <5>3 DEF Splits
        <5>6. F[x] \in Int OBVIOUS
        <5>7. QED BY <3>1, <3>2, <5>4, <5>5, <5>6
      <4>3. QED BY <4>1, <4>2
    <3>6. SumOf(F, r) \in Int BY <3>1, <3>2, <3>4
    <3>7. QED BY <3>4, <3>5, <3>6 DEF Splits
  <2>3. QED BY <2>1, <2>2
<1> HIDE DEF Good
<1>2. S \in Good BY <1>1, SetInduction
<1>3. QED BY <1>2 DEF Good

\* SumAdds for an element of the set.
LEMMA SumSplit ==
  ASSUME NEW F, NEW S, IsFiniteSet(S), NEW x \in S, \A y \in S : F[y] \in Int
  PROVE  SumOf(F, S) = F[x] + SumOf(F, S \ {x}) /\ SumOf(F, S \ {x}) \in Int
<1>1. \A z \in S : SumOf(F, S \ {z}) \in Int /\ SumOf(F, S) = F[z] + SumOf(F, S \ {z}) BY SumAdds
<1>2. QED BY <1>1

\* A sum of numbers is a number.
LEMMA SumNat ==
  ASSUME NEW F, NEW S, IsFiniteSet(S), \A y \in S : F[y] \in Nat
  PROVE  SumOf(F, S) \in Nat
<1> DEFINE Good == {r \in SUBSET S : SumOf(F, r) \in Nat}
<1>1. ASSUME NEW r \in SUBSET S, \A x \in r : r \ {x} \in Good PROVE r \in Good
  <2>1. CASE r = {} BY <2>1, SumEmpty
  <2>2. CASE r # {}
    <3>1. PICK x \in r : TRUE BY <2>2
    <3>2. IsFiniteSet(r) BY FS_Subset
    <3>3. SumOf(F, r) = F[x] + SumOf(F, r \ {x}) BY <3>2, SumAdds
    <3>4. SumOf(F, r \ {x}) \in Nat BY <1>1
    <3>5. F[x] \in Nat OBVIOUS
    <3>6. QED BY <3>3, <3>4, <3>5
  <2>3. QED BY <2>1, <2>2
<1> HIDE DEF Good
<1>2. S \in Good BY <1>1, SetInduction
<1>3. QED BY <1>2 DEF Good

\* The sum of two functions is the sum of their sums.
LEMMA SumPlus ==
  ASSUME NEW F, NEW G, NEW H, NEW S, IsFiniteSet(S),
         \A y \in S : F[y] \in Int /\ G[y] \in Int /\ H[y] = F[y] + G[y]
  PROVE  SumOf(H, S) = SumOf(F, S) + SumOf(G, S)
<1> DEFINE Good == {r \in SUBSET S : SumOf(H, r) = SumOf(F, r) + SumOf(G, r)}
<1>1. ASSUME NEW r \in SUBSET S, \A x \in r : r \ {x} \in Good PROVE r \in Good
  <2>1. CASE r = {} BY <2>1, SumEmpty
  <2>2. CASE r # {}
    <3>1. PICK x \in r : TRUE BY <2>2
    <3>2. IsFiniteSet(r) BY FS_Subset
    <3>3. \A y \in r : F[y] \in Int /\ G[y] \in Int /\ H[y] \in Int OBVIOUS
    <3>4. SumOf(F, r) = F[x] + SumOf(F, r \ {x}) /\ SumOf(F, r \ {x}) \in Int
      <4>1. \A y \in r : F[y] \in Int BY <3>3
      <4>2. QED BY <3>1, <3>2, <4>1, SumSplit
    <3>5. SumOf(G, r) = G[x] + SumOf(G, r \ {x}) /\ SumOf(G, r \ {x}) \in Int
      <4>1. \A y \in r : G[y] \in Int BY <3>3
      <4>2. QED BY <3>1, <3>2, <4>1, SumSplit
    <3>6. SumOf(H, r) = H[x] + SumOf(H, r \ {x})
      <4>1. \A y \in r : H[y] \in Int BY <3>3
      <4>2. QED BY <3>1, <3>2, <4>1, SumSplit
    <3>7. SumOf(H, r \ {x}) = SumOf(F, r \ {x}) + SumOf(G, r \ {x}) BY <1>1
    <3>8. F[x] \in Int /\ G[x] \in Int /\ H[x] = F[x] + G[x] OBVIOUS
    <3>9. QED BY <3>4, <3>5, <3>6, <3>7, <3>8
  <2>3. QED BY <2>1, <2>2
<1> HIDE DEF Good
<1>2. S \in Good BY <1>1, SetInduction
<1>3. QED BY <1>2 DEF Good

\* A sum is at most that of a greater function.
LEMMA SumAtMost ==
  ASSUME NEW F, NEW G, NEW S, IsFiniteSet(S),
         \A y \in S : F[y] \in Int /\ G[y] \in Int /\ F[y] <= G[y]
  PROVE  SumOf(F, S) <= SumOf(G, S)
<1> DEFINE H == [y \in S |-> G[y] - F[y]]
<1>1. \A y \in S : H[y] \in Nat /\ H[y] \in Int /\ G[y] = F[y] + H[y] OBVIOUS
<1> HIDE DEF H
<1>2. SumOf(G, S) = SumOf(F, S) + SumOf(H, S) BY <1>1, SumPlus
<1>3. SumOf(H, S) \in Nat /\ SumOf(F, S) \in Int BY <1>1, SumNat, SumAdds
<1>4. QED BY <1>2, <1>3

\* A sum depends on its function over its set only.
LEMMA SumSame ==
  ASSUME NEW F, NEW G, NEW S, IsFiniteSet(S), \A y \in S : F[y] \in Int /\ G[y] = F[y]
  PROVE  SumOf(G, S) = SumOf(F, S)
<1>1. SumOf(G, S) <= SumOf(F, S) /\ SumOf(F, S) <= SumOf(G, S) BY SumAtMost
<1>2. SumOf(G, S) \in Int /\ SumOf(F, S) \in Int BY SumAdds
<1>3. QED BY <1>1, <1>2

\* The sum over one element.
LEMMA SumSingle == ASSUME NEW F, NEW x, F[x] \in Int PROVE SumOf(F, {x}) = F[x]
<1>1. SumOf(F, {x}) = F[x] + SumOf(F, {x} \ {x}) BY SumAdds, FS_Singleton
<1>2. {x} \ {x} = {} OBVIOUS
<1>3. QED BY <1>1, <1>2, SumEmpty

\* The elements of S that T leaves out count nothing.
LEMMA SumMasked ==
  ASSUME NEW F, NEW G, NEW S, IsFiniteSet(S), NEW T \in SUBSET S,
         \A y \in T : F[y] \in Int, \A y \in S : G[y] = IF y \in T THEN F[y] ELSE 0
  PROVE  SumOf(G, S) = SumOf(F, T)
<1> DEFINE Good == {r \in SUBSET S : SumOf(G, r) = SumOf(F, r \cap T)}
<1>1. ASSUME NEW r \in SUBSET S, \A x \in r : r \ {x} \in Good PROVE r \in Good
  <2>1. CASE r = {} BY <2>1, SumEmpty
  <2>2. CASE r # {}
    <3>1. PICK x \in r : TRUE BY <2>2
    <3>2. IsFiniteSet(r) /\ IsFiniteSet(r \cap T) BY FS_Subset
    <3>3. \A y \in r : G[y] \in Int OBVIOUS
    <3>4. SumOf(G, r) = G[x] + SumOf(G, r \ {x}) /\ SumOf(G, r \ {x}) \in Int
      BY <3>2, <3>3, SumSplit
    <3>5. SumOf(G, r \ {x}) = SumOf(F, (r \ {x}) \cap T) BY <1>1
    <3>6. CASE x \in T
      <4>1. (r \ {x}) \cap T = (r \cap T) \ {x} /\ x \in r \cap T BY <3>6
      <4>2. SumOf(F, r \cap T) = F[x] + SumOf(F, (r \cap T) \ {x}) BY <3>2, <4>1, SumAdds
      <4>3. G[x] = F[x] BY <3>6
      <4>4. QED BY <3>4, <3>5, <4>1, <4>2, <4>3
    <3>7. CASE x \notin T
      <4>1. (r \ {x}) \cap T = r \cap T /\ G[x] = 0 BY <3>7
      <4>2. SumOf(G, r \ {x}) = SumOf(F, r \cap T) BY <3>5, <4>1
      <4>3. QED BY <3>4, <4>1, <4>2
    <3>8. QED BY <3>6, <3>7
  <2>3. QED BY <2>1, <2>2
<1> HIDE DEF Good
<1>2. S \in Good BY <1>1, SetInduction
<1>3. S \cap T = T OBVIOUS
<1>4. QED BY <1>2, <1>3 DEF Good

\* A sum of numbers over a greater set is greater.
LEMMA SumMonotone ==
  ASSUME NEW F, NEW S, IsFiniteSet(S), \A y \in S : F[y] \in Nat, NEW T \in SUBSET S
  PROVE  SumOf(F, T) <= SumOf(F, S)
<1> DEFINE G == [y \in S |-> IF y \in T THEN F[y] ELSE 0]
<1>1. \A y \in S : G[y] \in Int /\ F[y] \in Int /\ G[y] <= F[y] OBVIOUS
<1>2. \A y \in S : G[y] = IF y \in T THEN F[y] ELSE 0 OBVIOUS
<1> HIDE DEF G
<1>3. SumOf(G, S) = SumOf(F, T) BY <1>2, SumMasked
<1>4. QED BY <1>1, <1>3, SumAtMost

\* A sum of which one element changes.
LEMMA SumChange ==
  ASSUME NEW F, NEW G, NEW S, IsFiniteSet(S), NEW x \in S,
         \A y \in S : F[y] \in Int /\ G[y] \in Int, \A y \in S \ {x} : G[y] = F[y]
  PROVE  SumOf(G, S) = SumOf(F, S) + (G[x] - F[x])
<1>1. IsFiniteSet(S \ {x}) BY FS_Subset
<1>2. SumOf(G, S \ {x}) = SumOf(F, S \ {x}) BY <1>1, SumSame
<1>0. (\A y \in S : F[y] \in Int) /\ (\A y \in S : G[y] \in Int) OBVIOUS
<1>3. SumOf(F, S) = F[x] + SumOf(F, S \ {x}) /\ SumOf(F, S \ {x}) \in Int BY <1>0, SumSplit
<1>4. SumOf(G, S) = G[x] + SumOf(G, S \ {x}) BY <1>0, SumSplit
<1>5. F[x] \in Int /\ G[x] \in Int OBVIOUS
<1>6. QED BY <1>2, <1>3, <1>4, <1>5

\* The number of elements of T is the sum of a one for each.
LEMMA SumOnes ==
  ASSUME NEW G, NEW S, IsFiniteSet(S), NEW T \in SUBSET S,
         \A y \in S : G[y] = IF y \in T THEN 1 ELSE 0
  PROVE  SumOf(G, S) = Cardinality(T)
<1> DEFINE F == [y \in T |-> 1]
           Good == {r \in SUBSET T : SumOf(F, r) = Cardinality(r)}
<1>1. \A y \in T : F[y] = 1 OBVIOUS
<1> HIDE DEF F
<1>2. SumOf(G, S) = SumOf(F, T)
  <2>1. \A y \in T : F[y] \in Int BY <1>1
  <2>2. \A y \in S : G[y] = IF y \in T THEN F[y] ELSE 0 BY <1>1
  <2>3. QED BY <2>1, <2>2, SumMasked
<1>3. IsFiniteSet(T) BY FS_Subset
<1>4. ASSUME NEW r \in SUBSET T, \A x \in r : r \ {x} \in Good PROVE r \in Good
  <2>1. CASE r = {} BY <2>1, SumEmpty, FS_EmptySet
  <2>2. CASE r # {}
    <3>1. PICK x \in r : TRUE BY <2>2
    <3>2. IsFiniteSet(r) /\ Cardinality(r) \in Nat BY <1>3, FS_Subset, FS_CardinalityType
    <3>3. \A y \in r : F[y] \in Int BY <1>1
    <3>4. SumOf(F, r) = 1 + SumOf(F, r \ {x}) BY <1>1, <3>2, <3>3, SumAdds
    <3>5. SumOf(F, r \ {x}) = Cardinality(r) - 1 BY <1>4, <3>2, FS_RemoveElement
    <3>6. QED BY <3>2, <3>4, <3>5
  <2>3. QED BY <2>1, <2>2
<1> HIDE DEF Good
<1>5. T \in Good BY <1>3, <1>4, SetInduction
<1>6. QED BY <1>2, <1>5 DEF Good

InClass(J, class, k) == {j \in J : class[j] = k}

\* Elements counted class by class are all counted once.
LEMMA SumOfClasses ==
  ASSUME NEW J, IsFiniteSet(J), NEW K, IsFiniteSet(K), NEW class, \A j \in J : class[j] \in K,
         NEW G, \A k \in K : G[k] = Cardinality(InClass(J, class, k))
  PROVE  SumOf(G, K) = Cardinality(J)
<1> DEFINE Sizes(r) == [k \in K |-> Cardinality({j \in r : class[j] = k})]
           Good == {r \in SUBSET J : SumOf(Sizes(r), K) = Cardinality(r)}
<1>1. \A r \in SUBSET J : \A k : /\ IsFiniteSet({j \in r : class[j] = k})
                                /\ Cardinality({j \in r : class[j] = k}) \in Nat
  <2>1. ASSUME NEW r \in SUBSET J, NEW k PROVE IsFiniteSet({j \in r : class[j] = k})
    <3>1. {j \in r : class[j] = k} \in SUBSET J OBVIOUS
    <3>2. QED BY <3>1, FS_Subset
  <2>2. QED BY <2>1, FS_CardinalityType
<1>2. ASSUME NEW r \in SUBSET J, \A x \in r : r \ {x} \in Good PROVE r \in Good
  <2>1. CASE r = {}
    <3>1. \A k \in K : Cardinality({j \in r : class[j] = k}) = 0
      <4>1. \A k \in K : {j \in r : class[j] = k} = {} BY <2>1
      <4>2. QED BY <4>1, FS_EmptySet
    <3>2. \A k \in K : Sizes(r)[k] = IF k \in {} THEN 1 ELSE 0 BY <3>1
    <3> HIDE DEF Sizes
    <3>3. SumOf(Sizes(r), K) = Cardinality({}) BY <3>2, SumOnes
    <3>4. QED BY <2>1, <3>3
  <2>2. CASE r # {}
    <3>1. PICK x \in r : TRUE BY <2>2
    <3>2. PICK c \in K : c = class[x] BY <3>1
    <3>3. PICK F : F = Sizes(r \ {x}) OBVIOUS
    <3>4. PICK H : H = Sizes(r) OBVIOUS
    <3>5. r \ {x} \in SUBSET J OBVIOUS
    <3>6. \A k \in K : F[k] \in Int /\ H[k] \in Int
      <4> SUFFICES ASSUME NEW k \in K PROVE F[k] \in Int /\ H[k] \in Int OBVIOUS
      <4>1. F[k] \in Nat BY <1>1, <3>3, <3>5
      <4>2. H[k] \in Nat BY <1>1, <3>4
      <4>3. QED BY <4>1, <4>2
    <3>7. \A k \in K \ {c} : H[k] = F[k]
      <4> SUFFICES ASSUME NEW k \in K \ {c} PROVE H[k] = F[k] OBVIOUS
      <4>1. {j \in r : class[j] = k} = {j \in r \ {x} : class[j] = k} BY <3>2
      <4>2. QED BY <3>3, <3>4, <4>1
    <3>8. H[c] = F[c] + 1
      <4>1. {j \in r : class[j] = c} = {j \in r \ {x} : class[j] = c} \cup {x} BY <3>1, <3>2
      <4>2. x \notin {j \in r \ {x} : class[j] = c} OBVIOUS
      <4>3. Cardinality({j \in r : class[j] = c}) = Cardinality({j \in r \ {x} : class[j] = c}) + 1
        <5>1. PICK A : A = {j \in r \ {x} : class[j] = c} OBVIOUS
        <5>2. IsFiniteSet(A) BY <1>1, <3>5, <5>1
        <5>3. Cardinality(A \cup {x}) = Cardinality(A) + 1 BY <4>2, <5>1, <5>2, FS_AddElement
        <5>4. QED BY <4>1, <5>1, <5>3
      <4>4. QED BY <3>3, <3>4, <4>3
    <3>9. SumOf(F, K) = Cardinality(r \ {x}) BY <1>2, <3>3
    <3>10. IsFiniteSet(r) /\ Cardinality(r) \in Nat BY FS_Subset, FS_CardinalityType
    <3>11. Cardinality(r \ {x}) = Cardinality(r) - 1 BY <3>10, FS_RemoveElement
    <3> HIDE DEF Sizes
    <3>12. SumOf(H, K) = SumOf(F, K) + (H[c] - F[c]) BY <3>6, <3>7, SumChange
    <3>13. SumOf(H, K) = Cardinality(r) BY <3>6, <3>8, <3>9, <3>10, <3>11, <3>12
    <3>14. QED BY <3>4, <3>13
  <2>3. QED BY <2>1, <2>2
<1>3. \A k \in K : G[k] = Sizes(J)[k] /\ Sizes(J)[k] \in Int
  BY <1>1 DEF InClass
<1> HIDE DEF Good, Sizes
<1>4. J \in Good BY <1>2, SetInduction
<1>5. SumOf(G, K) = SumOf(Sizes(J), K) BY <1>3, SumSame
<1>6. QED BY <1>4, <1>5 DEF Good

\* A finite set has subsets of every size up to its own.
LEMMA SubsetOfSize ==
  ASSUME NEW S, IsFiniteSet(S), NEW n \in Nat, n <= Cardinality(S)
  PROVE  \E T \in SUBSET S : Cardinality(T) = n
<1> DEFINE Has(r) == n <= Cardinality(r) => \E T \in SUBSET r : Cardinality(T) = n
           Good == {r \in SUBSET S : Has(r)}
<1>1. ASSUME NEW r \in SUBSET S, \A x \in r : r \ {x} \in Good PROVE r \in Good
  <2>1. IsFiniteSet(r) /\ Cardinality(r) \in Nat BY FS_Subset, FS_CardinalityType
  <2>2. SUFFICES ASSUME n <= Cardinality(r) PROVE \E T \in SUBSET r : Cardinality(T) = n OBVIOUS
  <2>3. CASE n = Cardinality(r) BY <2>3
  <2>4. CASE n # Cardinality(r)
    <3>1. r # {} BY <2>1, <2>2, <2>4, FS_EmptySet
    <3>2. PICK x \in r : TRUE BY <3>1
    <3>3. Cardinality(r \ {x}) = Cardinality(r) - 1 BY <2>1, FS_RemoveElement
    <3>4. n <= Cardinality(r \ {x}) BY <2>1, <2>2, <2>4, <3>3
    <3>5. PICK T \in SUBSET (r \ {x}) : Cardinality(T) = n BY <1>1, <3>4
    <3>6. QED BY <3>5
  <2>5. QED BY <2>3, <2>4
<1> HIDE DEF Good
<1>2. S \in Good BY <1>1, SetInduction
<1>3. QED BY <1>2 DEF Good

(***************************************************************************)
(* The media store. A row's file is there, and its fetch past the insert;   *)
(* a live download's file is in staging, younger than its wall; between the *)
(* janitor's snapshot and its scan a row new to it has a file just dated;   *)
(* in a sweep that began with everything over and old, whatever each step   *)
(* was to clear is cleared. What no evictor is about to take fits, or is a  *)
(* video with the audios it spared.                                         *)
(***************************************************************************)

Handlers == {"idle", "receiving", "queued", "downloading", "registering", "leaving", "ended"}
Registers ==
  {"no", "queued", "moved", "dated", "inserted", "evicting", "kept", "refused"}
Sweeps == {"idle", "expiring", "evicting", "snapshot", "scanning", "swept"}

EntriesInv ==
  /\ entries \in Seq(D!Fetches)
  /\ \A i \in DOMAIN entries, j \in DOMAIN entries : entries[i] = entries[j] => i = j

MediaTypes ==
  /\ at \in [D!Fetches -> Handlers] /\ reg \in [D!Fetches -> Registers]
  /\ where \in [D!Fetches -> {"none", "staging", "retained"}]
  /\ age \in [D!Fetches -> Nat] /\ held \in [D!Fetches -> Nat]
  /\ doomed \in [D!Fetches -> SUBSET D!Fetches]
  /\ sweep \in Sweeps
  /\ left \in SUBSET D!Fetches /\ live \in SUBSET D!Fetches /\ calm \in BOOLEAN

LiveJob(f) == at[f] = "downloading" \/ (at[f] = "registering" /\ reg[f] = "queued")

FilePlace(f) ==
  /\ at[f] \in {"idle", "receiving", "queued", "downloading"} => reg[f] = "no"
  /\ f \in D!Listed => where[f] = "retained" /\ reg[f] \in {"inserted", "evicting", "kept"}
  /\ reg[f] = "dated" => age[f] = 0
  /\ f \in D!Links /\ LiveJob(f) => where[f] = "staging" /\ age[f] <= D!Wall(f)
  /\ doomed[f] # {} => reg[f] = "evicting"

FilePlaces == \A f \in D!Fetches : FilePlace(f)

ScanInv ==
  /\ sweep \in {"snapshot", "scanning"} => \A f \in D!Listed \ live : age[f] = 0
  /\ sweep = "scanning" => left \cap live = {}

Quiet(f) ==
  /\ at[f] = "ended" /\ reg[f] \in {"no", "kept", "refused"} /\ D!Old(f)
  /\ sweep # "idle"
  /\ f \in D!Listed => sweep = "expiring" /\ f \in left
  /\ sweep = "snapshot" => f \notin live
  /\ where[f] = "retained" => sweep # "swept" /\ (sweep = "scanning" => f \in left)
  /\ where[f] = "staging" => sweep # "swept"

CalmInv == calm => \A f \in D!Fetches : Quiet(f)

\* The rows that no evictor has still to take.
Staying == D!Listed \ UNION {doomed[f] : f \in D!Fetches}

CapInv ==
  /\ (\A f \in D!Fetches : reg[f] # "inserted") =>
       \/ D!Total(Staying) <= Cap
       \/ \E v \in Videos : Staying \subseteq Audios \cup {v} /\ (v \in Staying => Size[v] <= Cap)
  /\ (\A f \in Audios : reg[f] # "inserted") => D!Total(Staying \cap Audios) <= Cap

MediaInv == EntriesInv /\ MediaTypes /\ FilePlaces /\ ScanInv /\ CalmInv /\ CapInv

Items(s) == {s[i] : i \in DOMAIN s}
Less(s, e) ==
  IF e \notin Items(s) THEN s
  ELSE LET k == CHOOSE i \in DOMAIN s : s[i] = e
       IN  SubSeq(s, 1, k - 1) \o SubSeq(s, k + 1, Len(s))

\* A list without repetitions, less one of its elements.
LEMMA LessDoes ==
  ASSUME NEW X, NEW s \in Seq(X), NEW e,
         \A i \in DOMAIN s, j \in DOMAIN s : s[i] = s[j] => i = j,
         NEW r, r = Less(s, e)
  PROVE
         /\ r \in Seq(X)
         /\ \A i \in DOMAIN r, j \in DOMAIN r : r[i] = r[j] => i = j
         /\ Items(r) = Items(s) \ {e}
<1>1. CASE e \notin Items(s)
  <2>1. r = s BY <1>1 DEF Less
  <2>2. QED BY <1>1, <2>1 DEF Items
<1>2. CASE e \in Items(s)
  <2> DEFINE k == CHOOSE i \in DOMAIN s : s[i] = e
  <2>2. k \in DOMAIN s /\ s[k] = e BY <1>2 DEF Items
  <2>5. r = SubSeq(s, 1, k - 1) \o SubSeq(s, k + 1, Len(s)) BY <1>2 DEF Less
  <2> HIDE DEF k
  <2>4. k \in 1..Len(s) /\ s[k] = e BY <2>2
  <2>6. /\ r \in Seq(X) /\ Len(r) = Len(s) - 1
        /\ \A i \in 1..Len(r) : r[i] = IF i < k THEN s[i] ELSE s[i + 1]
    <3> DEFINE p == SubSeq(s, 1, k - 1)
               q == SubSeq(s, k + 1, Len(s))
    <3>1. k \in Nat /\ Len(s) \in Nat /\ 1 <= k /\ k <= Len(s) BY <2>4
    <3>2. p \in Seq(X) /\ Len(p) = k - 1 /\ \A i \in 1..(k - 1) : p[i] = s[i]
      BY <3>1
    <3>3. q \in Seq(X) /\ Len(q) = Len(s) - k /\ \A i \in 1..(Len(s) - k) : q[i] = s[k + i]
      BY <3>1
    <3> HIDE DEF p, q
    <3>4. r = p \o q BY <2>5 DEF p, q
    <3>5. r \in Seq(X) /\ Len(r) = Len(s) - 1
      <4>1. p \o q \in Seq(X) /\ Len(p \o q) = Len(p) + Len(q) BY <3>2, <3>3
      <4>2. (k - 1) + (Len(s) - k) = Len(s) - 1 BY <3>1
      <4>3. QED BY <3>2, <3>3, <3>4, <4>1, <4>2
    <3>6. ASSUME NEW i \in 1..Len(r) PROVE r[i] = IF i < k THEN s[i] ELSE s[i + 1]
      <4>1. CASE i < k BY <3>1, <3>2, <3>3, <3>4, <3>5, <4>1
      <4>2. CASE ~(i < k)
        <5>1. i - (k - 1) \in 1..(Len(s) - k) /\ k + (i - (k - 1)) = i + 1
          BY <3>1, <3>5, <4>2
        <5>2. r[i] = q[i - (k - 1)] BY <3>1, <3>2, <3>3, <3>4, <3>5, <4>2
        <5>3. QED BY <3>3, <4>2, <5>1, <5>2
      <4>3. QED BY <4>1, <4>2
    <3>7. QED BY <3>5, <3>6
  <2>7. \A i \in DOMAIN r, j \in DOMAIN r : r[i] = r[j] => i = j
    <3> SUFFICES ASSUME NEW i \in 1..Len(r), NEW j \in 1..Len(r), r[i] = r[j] PROVE i = j
      BY <2>6
    <3>1. i \in 1..Len(s) /\ i + 1 \in 1..Len(s) /\ j \in 1..Len(s) /\ j + 1 \in 1..Len(s)
      BY <2>6
    <3>2. CASE i < k /\ j < k BY SMTT(30), <2>6, <3>1, <3>2
    <3>3. CASE i < k /\ ~(j < k)
      <4>1. s[i] = s[j + 1] BY <2>6, <3>3
      <4>2. i = j + 1 BY <3>1, <4>1
      <4>3. QED BY <2>4, <3>1, <3>3, <4>2
    <3>4. CASE ~(i < k) /\ j < k
      <4>1. s[i + 1] = s[j] BY <2>6, <3>4
      <4>2. i + 1 = j BY <3>1, <4>1
      <4>3. QED BY <2>4, <3>1, <3>4, <4>2
    <3>5. CASE ~(i < k) /\ ~(j < k)
      <4>1. s[i + 1] = s[j + 1] BY <2>6, <3>5
      <4>2. i + 1 = j + 1 BY <3>1, <4>1
      <4>3. QED BY <4>2
    <3>6. QED BY <3>2, <3>3, <3>4, <3>5
  <2>8. ASSUME NEW i \in DOMAIN r PROVE r[i] \in {s[n] : n \in DOMAIN s} /\ r[i] # e
    <3>1. i \in 1..Len(r) BY <2>6
    <3>2. i \in 1..Len(s) /\ i + 1 \in 1..Len(s) BY <2>6, <3>1
    <3>3. CASE i < k BY <2>4, <2>6, <3>1, <3>2, <3>3
    <3>4. CASE ~(i < k)
      <4>1. r[i] = s[i + 1] BY <2>6, <3>1, <3>4
      <4>2. i + 1 # k BY <2>4, <3>1, <3>4
      <4>3. s[i + 1] # s[k] BY <2>4, <3>2, <4>2
      <4>4. QED BY <2>4, <3>2, <4>1, <4>3
    <3>5. QED BY <3>3, <3>4
  <2>9. ASSUME NEW i \in DOMAIN s, s[i] # e PROVE \E n \in DOMAIN r : r[n] = s[i]
    <3>1. i \in 1..Len(s) /\ i # k BY <2>4, <2>9
    <3>2. CASE i < k
      <4>1. i \in 1..Len(r) BY <2>4, <2>6, <3>1, <3>2
      <4>2. r[i] = s[i] BY <2>6, <3>2, <4>1
      <4>3. QED BY <2>6, <4>1, <4>2
    <3>3. CASE ~(i < k)
      <4>1. i - 1 \in 1..Len(r) /\ ~(i - 1 < k) /\ i - 1 + 1 = i BY <2>4, <2>6, <3>1, <3>3
      <4>2. r[i - 1] = s[i] BY <2>6, <4>1
      <4>3. QED BY <2>6, <4>1, <4>2
    <3>4. QED BY <3>2, <3>3
  <2>10. Items(r) = Items(s) \ {e}
    <3>1. \A x : x \in Items(r) => x \in Items(s) /\ x # e BY <2>8 DEF Items
    <3>2. \A x : x \in Items(s) /\ x # e => x \in Items(r) BY <2>9 DEF Items
    <3>3. QED BY <3>1, <3>2
  <2>11. QED BY <2>6, <2>7, <2>10
<1>3. QED BY <1>1, <1>2

\* The rows without that of f, in their order.
LEMMA WithoutDoes ==
  ASSUME EntriesInv, NEW f
  PROVE  /\ D!Without(f) \in Seq(D!Fetches)
         /\ \A i \in DOMAIN D!Without(f), j \in DOMAIN D!Without(f) :
              D!Without(f)[i] = D!Without(f)[j] => i = j
         /\ Items(D!Without(f)) = D!Listed \ {f}
<1>1. /\ entries \in Seq(D!Fetches)
      /\ \A i \in DOMAIN entries, j \in DOMAIN entries : entries[i] = entries[j] => i = j
  BY DEF EntriesInv
<1>0. PICK r : r = Less(entries, f) OBVIOUS
<1>a. PICK s : s = entries OBVIOUS
<1>b. PICK X : X = D!Fetches OBVIOUS
<1>c. s \in Seq(X) BY <1>1, <1>a, <1>b
<1>d. \A i \in DOMAIN s, j \in DOMAIN s : s[i] = s[j] => i = j BY <1>1, <1>a
<1>e. r = Less(s, f) BY <1>0, <1>a
<1>f. /\ r \in Seq(X)
      /\ \A i \in DOMAIN r, j \in DOMAIN r : r[i] = r[j] => i = j
      /\ Items(r) = Items(s) \ {f}
  BY <1>c, <1>d, <1>e, LessDoes
<1>2. /\ r \in Seq(D!Fetches)
      /\ \A i \in DOMAIN r, j \in DOMAIN r : r[i] = r[j] => i = j
      /\ Items(r) = Items(entries) \ {f}
  BY <1>a, <1>b, <1>f
<1>3. Items(entries) = D!Listed BY DEF Items, D!Listed
<1>4. D!Without(f) = r BY <1>0, <1>3 DEF D!Without, Less
<1>5. QED BY <1>2, <1>3, <1>4

\* Dropping an entry: the row goes, and with it the file unless it is being served.
LEMMA DropDoes ==
  ASSUME MediaTypes, EntriesInv, NEW f \in D!Fetches, D!Drop(f)
  PROVE  /\ EntriesInv' /\ D!Listed' = D!Listed \ {f}
         /\ held' = [held EXCEPT ![f] = 0]
         /\ \/ where' = where /\ age' = age
            \/ /\ f \in D!Listed
               /\ where' = [where EXCEPT ![f] = "none"] /\ age' = [age EXCEPT ![f] = 0]
<1>1. entries' = D!Without(f) BY DEF D!Drop
<1>2. EntriesInv' BY <1>1, WithoutDoes DEF EntriesInv
<1>3. D!Listed' = Items(entries') BY DEF D!Listed, Items
<1>4. D!Listed' = D!Listed \ {f} BY <1>1, <1>3, WithoutDoes
<1>5. QED BY <1>2, <1>4 DEF D!Drop, D!Unlink, D!Placed

\* Dropping an entry keeps the types of what it changes.
LEMMA DropTypes ==
  ASSUME MediaTypes, NEW f \in D!Fetches, D!Drop(f)
  PROVE  /\ held' \in [D!Fetches -> Nat] /\ age' \in [D!Fetches -> Nat]
         /\ where' \in [D!Fetches -> {"none", "staging", "retained"}]
BY DEF MediaTypes, D!Drop, D!Unlink, D!Placed

\* What is listed was fetched.
LEMMA ListedFetches == ASSUME EntriesInv PROVE D!Listed \subseteq D!Fetches
<1>1. \A i \in DOMAIN entries : entries[i] \in D!Fetches BY DEF EntriesInv
<1>2. QED BY <1>1 DEF D!Listed

\* An evictor takes files of the rows it saw.
LEMMA OverCapListed ==
  ASSUME NEW X, NEW order \in Seq(X), NEW keep PROVE D!OverCap(order, keep) \subseteq X
<1>1. \A i \in DOMAIN order : order[i] \in X OBVIOUS
<1>2. \A g \in D!OverCap(order, keep) : \E i \in DOMAIN order : g = order[i] BY DEF D!OverCap
<1>3. QED BY <1>1, <1>2

\* A step that leaves the rows alone.
LEMMA SameRows ==
  ASSUME entries' = entries
  PROVE  D!Listed' = D!Listed /\ (EntriesInv => EntriesInv')
BY DEF D!Listed, EntriesInv

\* A row that was not there is put last.
LEMMA AppendRows ==
  ASSUME NEW s, s \in Seq(D!Fetches), NEW f \in D!Fetches, f \notin Items(s),
         \A i \in DOMAIN s, j \in DOMAIN s : s[i] = s[j] => i = j,
         entries' = Append(s, f)
  PROVE  EntriesInv' /\ D!Listed' = Items(s) \cup {f}
<1>1. /\ entries' \in Seq(D!Fetches) /\ Len(entries') = Len(s) + 1 /\ entries'[Len(s) + 1] = f
      /\ \A i \in 1..Len(s) : entries'[i] = s[i]
  OBVIOUS
<1>2. DOMAIN entries' = 1..(Len(s) + 1) /\ DOMAIN s = 1..Len(s) BY <1>1
<1>3. \A i \in DOMAIN entries' : i = Len(s) + 1 \/ i \in DOMAIN s BY <1>2
<1>4. \A i \in DOMAIN s : s[i] # f BY DEF Items
<1>5. \A i \in DOMAIN entries', j \in DOMAIN entries' : entries'[i] = entries'[j] => i = j
  BY <1>1, <1>2, <1>3, <1>4
<1>6. ASSUME NEW i \in DOMAIN entries' PROVE entries'[i] \in Items(s) \cup {f}
  BY <1>1, <1>2, <1>3 DEF Items
<1>7. ASSUME NEW i \in DOMAIN s PROVE \E n \in DOMAIN entries' : entries'[n] = s[i]
  BY <1>1, <1>2
<1>8. \E n \in DOMAIN entries' : entries'[n] = f BY <1>1, <1>2
<1>9. D!Listed' = Items(s) \cup {f}
  <2>1. \A x : x \in D!Listed' => x \in Items(s) \cup {f} BY <1>6 DEF D!Listed
  <2>2. \A x : x \in Items(s) \cup {f} => x \in D!Listed' BY <1>7, <1>8 DEF D!Listed, Items
  <2>3. QED BY <2>1, <2>2
<1>10. QED BY <1>1, <1>5, <1>9 DEF EntriesInv

\* A row is new to the store when its fetch inserts it.
LEMMA ListDoes ==
  ASSUME EntriesInv, FilePlaces, NEW f \in D!Fetches, D!Insert(f)
  PROVE  EntriesInv' /\ D!Listed' = D!Listed \cup {f}
<1>1. f \notin D!Listed BY DEF FilePlaces, FilePlace, D!Insert, D!Reg
<1>2. D!Listed = Items(entries) BY DEF D!Listed, Items
<1>3. entries' = Append(entries, f) BY DEF D!Insert
<1>4. QED BY <1>1, <1>2, <1>3, AppendRows DEF EntriesInv

\* A row whose file is missing goes when it is resolved.
LEMMA ResolveDoes ==
  ASSUME EntriesInv, NEW f \in D!Fetches, D!Resolve(f)
  PROVE  EntriesInv' /\ D!Listed' = D!Listed \ {f}
<1>1. entries' = D!Without(f) BY DEF D!Resolve
<1>2. D!Listed' = Items(entries') BY DEF D!Listed, Items
<1>3. QED BY <1>1, <1>2, WithoutDoes DEF EntriesInv

\* A row that is read goes last.
LEMMA TouchDoes ==
  ASSUME EntriesInv, NEW f \in D!Fetches, D!Touch(f)
  PROVE  EntriesInv' /\ D!Listed' = D!Listed
<1>1. entries' = Append(D!Without(f), f) /\ f \in D!Listed BY DEF D!Touch
<1>2. Items(D!Without(f)) = D!Listed \ {f} BY WithoutDoes
<1>3. EntriesInv' /\ D!Listed' = (D!Listed \ {f}) \cup {f}
  BY <1>1, <1>2, WithoutDoes, AppendRows
<1>4. QED BY <1>1, <1>3

\* Of a fetch's file that alone is over the cap the row goes, of any other none.
LEMMA EvictDoes ==
  ASSUME MediaTypes, EntriesInv, NEW f \in D!Fetches, D!Evict(f)
  PROVE  /\ EntriesInv' /\ reg[f] = "inserted" /\ reg' = [reg EXCEPT ![f] = "evicting"]
         /\ D!Listed' = D!Listed \ (IF Size[f] > Cap THEN {f} ELSE {})
         /\ doomed' = [doomed EXCEPT ![f] =
              D!OverCap(IF Size[f] > Cap THEN D!Without(f) ELSE entries, D!Keep(f))]
         /\ held' \in {held, [held EXCEPT ![f] = 0]}
         /\ \/ where' = where /\ age' = age
            \/ /\ f \in D!Listed /\ f \notin D!Listed'
               /\ where' = [where EXCEPT ![f] = "none"] /\ age' = [age EXCEPT ![f] = 0]
         /\ at' = at /\ UNCHANGED <<sweep, left, live, calm>>
<1>1. CASE Size[f] > Cap
  <2>1. D!Drop(f) /\ doomed' = [doomed EXCEPT ![f] = D!OverCap(D!Without(f), D!Keep(f))]
    BY <1>1 DEF D!Evict
  <2>2. QED BY <1>1, <2>1, DropDoes DEF D!Evict, D!Reg, D!janitorVars
<1>2. CASE ~(Size[f] > Cap)
  <2>1. UNCHANGED <<where, age, entries, held>>
        /\ doomed' = [doomed EXCEPT ![f] = D!OverCap(entries, D!Keep(f))]
    BY <1>2 DEF D!Evict
  <2>2. QED BY <1>2, <2>1, SameRows DEF D!Evict, D!Reg, D!janitorVars
<1>3. QED BY <1>1, <1>2

\* No fetch has two rows.
LEMMA EntriesKept ==
  ASSUME MediaTypes, EntriesInv, FilePlaces, [D!MediaNext]_mediaVars
  PROVE  EntriesInv'
<1>1. ASSUME NEW f \in D!Fetches, D!Insert(f) PROVE EntriesInv' BY <1>1, ListDoes
<1>2. ASSUME NEW f \in D!Fetches, D!Evict(f) PROVE EntriesInv' BY <1>2, EvictDoes
<1>3. ASSUME NEW f \in D!Fetches, D!EvictNext(f) PROVE EntriesInv'
  BY <1>3, DropDoes DEF D!EvictNext, MediaTypes
<1>4. ASSUME NEW f \in D!Fetches, D!Resolve(f) PROVE EntriesInv' BY <1>4, ResolveDoes
<1>5. ASSUME NEW f \in D!Fetches, D!Touch(f) PROVE EntriesInv' BY <1>5, TouchDoes
<1>6. CASE D!DropNext BY <1>6, DropDoes DEF D!DropNext, MediaTypes
<1>7. CASE entries' = entries BY <1>7, SameRows
<1>8. ASSUME NEW f \in D!Fetches,
             \/ D!Upload(f) \/ D!Chunk(f) \/ D!Refuse(f) \/ D!Named(f) \/ D!Ask(f)
             \/ D!GiveUp(f) \/ D!Start(f) \/ D!Landed(f) \/ D!Fail(f) \/ D!Leave(f)
             \/ D!Answer(f) \/ D!Cut(f) \/ D!Move(f) \/ D!Date(f) \/ D!CannotKeep(f)
             \/ D!Returned(f)
      PROVE  entries' = entries
  BY <1>8 DEF D!Upload, D!Chunk, D!Refuse, D!Named, D!Ask, D!GiveUp, D!Start, D!Landed,
              D!Fail, D!Leave, D!Answer, D!Cut, D!Move, D!Date, D!CannotKeep, D!Returned,
              D!storeVars, D!janitorVars
<1>9. CASE \/ D!Tick \/ D!ListExpired \/ D!SweepEvict \/ D!Snapshot \/ D!ListDir
           \/ D!ScanNext \/ D!ReapStaging \/ D!EndSweep
  <2>1. entries' = entries
    BY <1>9 DEF D!Tick, D!ListExpired, D!SweepEvict, D!Snapshot, D!ListDir, D!ScanNext,
                D!ReapStaging, D!EndSweep, D!storeVars
  <2>2. QED BY <1>7, <2>1
<1>10. CASE UNCHANGED mediaVars BY <1>7, <1>10 DEF mediaVars
<1>11. QED
  BY <1>1, <1>2, <1>3, <1>4, <1>5, <1>6, <1>7, <1>8, <1>9, <1>10
     DEF D!MediaNext, D!Register, D!Janitor

\* A fetch's wall is at most the longer one.
LEMMA Walls ==
  ASSUME StoresAssumption
  PROVE  /\ \A f \in D!Fetches : D!Wall(f) \in Nat /\ D!Wall(f) <= D!LongerWall
         /\ D!LongerWall \in Nat
BY DEF StoresAssumption, D!Wall, D!LongerWall

\* Every step keeps the types.
LEMMA MediaTypesKept ==
  ASSUME StoresAssumption, MediaTypes, EntriesInv, [D!MediaNext]_mediaVars
  PROVE MediaTypes'
<1> USE DEF MediaTypes, Handlers, Registers, Sweeps, D!handlerVars, D!storeVars, D!janitorVars
<1>1. ASSUME NEW f \in D!Fetches, D!Upload(f) PROVE MediaTypes'
  BY <1>1 DEF D!Upload, D!Goes, D!Placed
<1>2. ASSUME NEW f \in D!Fetches, D!Chunk(f) PROVE MediaTypes'
  BY <1>2 DEF D!Chunk
<1>3. ASSUME NEW f \in D!Fetches, D!Refuse(f) PROVE MediaTypes'
  BY <1>3 DEF D!Refuse, D!Goes, D!UnlinkStaged, D!Unlink, D!Placed
<1>4. ASSUME NEW f \in D!Fetches, D!Named(f) PROVE MediaTypes'
  BY <1>4 DEF D!Named, D!Goes
<1>5. ASSUME NEW f \in D!Fetches, D!Ask(f) PROVE MediaTypes'
  BY <1>5 DEF D!Ask, D!Goes
<1>6. ASSUME NEW f \in D!Fetches, D!GiveUp(f) PROVE MediaTypes'
  BY <1>6 DEF D!GiveUp, D!Goes
<1>7. ASSUME NEW f \in D!Fetches, D!Start(f) PROVE MediaTypes'
  BY <1>7 DEF D!Start, D!Goes, D!Placed, D!JobAges
<1>8. ASSUME NEW f \in D!Fetches, D!Landed(f) PROVE MediaTypes'
  BY <1>8 DEF D!Landed, D!Goes
<1>9. ASSUME NEW f \in D!Fetches, D!Fail(f) PROVE MediaTypes'
  BY <1>9 DEF D!Fail, D!Goes
<1>10. ASSUME NEW f \in D!Fetches, D!Leave(f) PROVE MediaTypes'
  BY <1>10 DEF D!Leave, D!Goes, D!UnlinkStaged, D!Unlink, D!Placed
<1>11. ASSUME NEW f \in D!Fetches, D!Answer(f) PROVE MediaTypes'
  BY <1>11 DEF D!Answer, D!Goes, D!UnlinkStaged, D!Unlink, D!Placed, D!After
<1>12. ASSUME NEW f \in D!Fetches, D!Cut(f) PROVE MediaTypes'
  BY <1>12 DEF D!Cut, D!Goes, D!After
<1>13. ASSUME NEW f \in D!Fetches, D!Move(f) PROVE MediaTypes'
  BY <1>13 DEF D!Move, D!Placed, D!Reg
<1>14. ASSUME NEW f \in D!Fetches, D!Date(f) PROVE MediaTypes'
  BY <1>14 DEF D!Date, D!Reg
<1>15. ASSUME NEW f \in D!Fetches, D!CannotKeep(f) PROVE MediaTypes'
  BY <1>15 DEF D!CannotKeep, D!Reg
<1>16. ASSUME NEW f \in D!Fetches, D!Insert(f) PROVE MediaTypes'
  BY <1>16 DEF D!Insert, D!Reg
<1>17. ASSUME NEW f \in D!Fetches, D!Evict(f) PROVE MediaTypes'
  <2>1. entries \in Seq(D!Fetches) /\ D!Without(f) \in Seq(D!Fetches) BY WithoutDoes DEF EntriesInv
  <2>2. /\ D!OverCap(entries, D!Keep(f)) \subseteq D!Fetches
        /\ D!OverCap(D!Without(f), D!Keep(f)) \subseteq D!Fetches
    BY <2>1, OverCapListed
  <2>3. doomed' \in [D!Fetches -> SUBSET D!Fetches] BY <1>17, <2>2 DEF D!Evict
  <2>4. /\ held' \in [D!Fetches -> Nat] /\ age' \in [D!Fetches -> Nat]
        /\ where' \in [D!Fetches -> {"none", "staging", "retained"}]
    BY <1>17, DropTypes DEF D!Evict
  <2>5. QED BY <1>17, <2>3, <2>4 DEF D!Evict, D!Reg
<1>18. ASSUME NEW f \in D!Fetches, D!EvictNext(f) PROVE MediaTypes'
  BY <1>18, DropTypes DEF D!EvictNext
<1>19. ASSUME NEW f \in D!Fetches, D!Returned(f) PROVE MediaTypes'
  BY <1>19 DEF D!Returned, D!Reg
<1>20. ASSUME NEW f \in D!Fetches, D!Resolve(f) PROVE MediaTypes'
  BY <1>20 DEF D!Resolve
<1>21. ASSUME NEW f \in D!Fetches, D!Touch(f) PROVE MediaTypes'
  BY <1>21 DEF D!Touch
<1>22. CASE D!Tick
  BY <1>22 DEF D!Tick
<1>23. CASE D!ListExpired
  BY <1>23, ListedFetches DEF D!ListExpired
<1>24. CASE D!DropNext
  BY <1>24, DropTypes DEF D!DropNext
<1>25. CASE D!SweepEvict
  <2>1. D!OverCap(entries, {}) \subseteq D!Fetches BY OverCapListed DEF EntriesInv
  <2>2. QED BY <1>25, <2>1 DEF D!SweepEvict
<1>26. CASE D!Snapshot
  BY <1>26, ListedFetches DEF D!Snapshot
<1>27. CASE D!ListDir
  BY <1>27 DEF D!ListDir
<1>28. CASE D!ScanNext
  BY <1>28 DEF D!ScanNext, D!Unlink, D!Placed
<1>29. CASE D!ReapStaging
  BY <1>29 DEF D!ReapStaging
<1>30. CASE D!EndSweep
  BY <1>30 DEF D!EndSweep
<1>31. CASE UNCHANGED mediaVars
  BY <1>31 DEF mediaVars
<1>32. QED
  BY <1>1, <1>2, <1>3, <1>4, <1>5, <1>6, <1>7, <1>8, <1>9, <1>10, <1>11, <1>12, <1>13,
     <1>14, <1>15, <1>16, <1>17, <1>18, <1>19, <1>20, <1>21, <1>22, <1>23, <1>24,
     <1>25, <1>26, <1>27, <1>28, <1>29, <1>30, <1>31
     DEF D!MediaNext, D!Register, D!Janitor

\* Every step keeps a row's file and a live download's.
LEMMA PlacesKept ==
  ASSUME StoresAssumption, MediaTypes, EntriesInv, FilePlaces, ScanInv, [D!MediaNext]_mediaVars
  PROVE FilePlaces'
<1> USE DEF MediaTypes, FilePlaces, FilePlace, LiveJob, D!Fetches, D!Links, D!handlerVars,
            D!storeVars,
           D!janitorVars
<1>1. ASSUME NEW f \in D!Fetches, D!Upload(f) PROVE FilePlaces'
  <2>1. D!Listed' = D!Listed BY <1>1, SameRows DEF D!Upload
  <2>2. QED BY <1>1, <2>1 DEF D!Upload, D!Goes, D!Placed
<1>2. ASSUME NEW f \in D!Fetches, D!Chunk(f) PROVE FilePlaces'
  <2>1. D!Listed' = D!Listed BY <1>2, SameRows DEF D!Chunk
  <2>2. QED BY <1>2, <2>1 DEF D!Chunk
<1>3. ASSUME NEW f \in D!Fetches, D!Refuse(f) PROVE FilePlaces'
  <2>1. D!Listed' = D!Listed BY <1>3, SameRows DEF D!Refuse
  <2>2. QED BY <1>3, <2>1 DEF D!Refuse, D!Goes, D!UnlinkStaged, D!Unlink, D!Placed
<1>4. ASSUME NEW f \in D!Fetches, D!Named(f) PROVE FilePlaces'
  <2>1. D!Listed' = D!Listed BY <1>4, SameRows DEF D!Named
  <2>2. QED BY <1>4, <2>1 DEF D!Named, D!Goes
<1>5. ASSUME NEW f \in D!Fetches, D!Ask(f) PROVE FilePlaces'
  <2>1. D!Listed' = D!Listed BY <1>5, SameRows DEF D!Ask
  <2>2. QED BY <1>5, <2>1 DEF D!Ask, D!Goes
<1>6. ASSUME NEW f \in D!Fetches, D!GiveUp(f) PROVE FilePlaces'
  <2>1. D!Listed' = D!Listed BY <1>6, SameRows DEF D!GiveUp
  <2>2. QED BY <1>6, <2>1 DEF D!GiveUp, D!Goes
<1>7. ASSUME NEW f \in D!Fetches, D!Start(f) PROVE FilePlaces'
  <2>1. D!Listed' = D!Listed BY <1>7, SameRows DEF D!Start
  <2>2. /\ at' = [at EXCEPT ![f] = "downloading"] /\ at[f] = "queued"
        /\ where' = [where EXCEPT ![f] = "staging"] /\ age' = [age EXCEPT ![f] = 0]
    BY <1>7 DEF D!Start, D!Goes, D!Placed, D!JobAges
  <2>3. QED BY <1>7, <2>1, <2>2, Walls DEF D!Start
<1>8. ASSUME NEW f \in D!Fetches, D!Landed(f) PROVE FilePlaces'
  <2>1. D!Listed' = D!Listed BY <1>8, SameRows DEF D!Landed
  <2>2. QED BY <1>8, <2>1 DEF D!Landed, D!Goes
<1>9. ASSUME NEW f \in D!Fetches, D!Fail(f) PROVE FilePlaces'
  <2>1. D!Listed' = D!Listed BY <1>9, SameRows DEF D!Fail
  <2>2. QED BY <1>9, <2>1 DEF D!Fail, D!Goes
<1>10. ASSUME NEW f \in D!Fetches, D!Leave(f) PROVE FilePlaces'
  <2>1. D!Listed' = D!Listed BY <1>10, SameRows DEF D!Leave
  <2>2. QED BY <1>10, <2>1 DEF D!Leave, D!Goes, D!UnlinkStaged, D!Unlink, D!Placed
<1>11. ASSUME NEW f \in D!Fetches, D!Answer(f) PROVE FilePlaces'
  <2>1. D!Listed' = D!Listed BY <1>11, SameRows DEF D!Answer
  <2>2. QED BY <1>11, <2>1 DEF D!Answer, D!Goes, D!UnlinkStaged, D!Unlink, D!Placed, D!After
<1>12. ASSUME NEW f \in D!Fetches, D!Cut(f) PROVE FilePlaces'
  <2>1. D!Listed' = D!Listed BY <1>12, SameRows DEF D!Cut
  <2>2. QED BY <1>12, <2>1 DEF D!Cut, D!Goes, D!After
<1>13. ASSUME NEW f \in D!Fetches, D!Move(f) PROVE FilePlaces'
  <2>1. D!Listed' = D!Listed BY <1>13, SameRows DEF D!Move
  <2>2. QED BY <1>13, <2>1 DEF D!Move, D!Placed, D!Reg
<1>14. ASSUME NEW f \in D!Fetches, D!Date(f) PROVE FilePlaces'
  <2>1. D!Listed' = D!Listed BY <1>14, SameRows DEF D!Date
  <2>2. QED BY <1>14, <2>1 DEF D!Date, D!Reg
<1>15. ASSUME NEW f \in D!Fetches, D!CannotKeep(f) PROVE FilePlaces'
  <2>1. D!Listed' = D!Listed BY <1>15, SameRows DEF D!CannotKeep
  <2>2. QED BY <1>15, <2>1 DEF D!CannotKeep, D!Reg
<1>16. ASSUME NEW f \in D!Fetches, D!Insert(f) PROVE FilePlaces'
  <2>1. D!Listed' = D!Listed \cup {f} BY <1>16, ListDoes
  <2>2. QED BY <1>16, <2>1 DEF D!Insert, D!Reg
<1>17. ASSUME NEW f \in D!Fetches, D!Evict(f) PROVE FilePlaces'
  BY <1>17, EvictDoes
<1>18. ASSUME NEW f \in D!Fetches, D!EvictNext(f) PROVE FilePlaces'
  <2>1. PICK g \in doomed[f] : D!Drop(g) /\ doomed' = [doomed EXCEPT ![f] = @ \ {g}]
    BY <1>18 DEF D!EvictNext
  <2>2. g \in D!Fetches OBVIOUS
  <2>3. QED BY <1>18, <2>1, <2>2, DropDoes DEF D!EvictNext
<1>19. ASSUME NEW f \in D!Fetches, D!Returned(f) PROVE FilePlaces'
  <2>1. D!Listed' = D!Listed BY <1>19, SameRows DEF D!Returned
  <2>2. QED BY <1>19, <2>1 DEF D!Returned, D!Reg
<1>20. ASSUME NEW f \in D!Fetches, D!Resolve(f) PROVE FilePlaces'
  BY ZenonT(60), <1>20, ResolveDoes DEF D!Resolve
<1>21. ASSUME NEW f \in D!Fetches, D!Touch(f) PROVE FilePlaces'
  BY <1>21, TouchDoes DEF D!Touch
<1>22. CASE D!Tick
  <2>1. D!Listed' = D!Listed BY <1>22, SameRows DEF D!Tick
  <2>2. QED BY <1>22, <2>1 DEF D!Tick, D!OldAge, D!Wall
<1>23. CASE D!ListExpired
  <2>1. D!Listed' = D!Listed BY <1>23, SameRows DEF D!ListExpired
  <2>2. QED BY <1>23, <2>1 DEF D!ListExpired
<1>24. CASE D!DropNext
  <2>1. PICK f \in left : D!Drop(f) /\ left' = left \ {f} BY <1>24 DEF D!DropNext
  <2>2. f \in D!Fetches OBVIOUS
  <2>3. QED BY <1>24, <2>1, <2>2, DropDoes DEF D!DropNext
<1>25. CASE D!SweepEvict
  <2>1. D!Listed' = D!Listed BY <1>25, SameRows DEF D!SweepEvict
  <2>2. QED BY <1>25, <2>1 DEF D!SweepEvict
<1>26. CASE D!Snapshot
  <2>1. D!Listed' = D!Listed BY <1>26, SameRows DEF D!Snapshot
  <2>2. QED BY <1>26, <2>1 DEF D!Snapshot
<1>27. CASE D!ListDir
  <2>1. D!Listed' = D!Listed BY <1>27, SameRows DEF D!ListDir
  <2>2. QED BY <1>27, <2>1 DEF D!ListDir
<1>28. CASE D!ScanNext
  <2>1. D!Listed' = D!Listed BY <1>28, SameRows DEF D!ScanNext
  <2>2. QED BY <1>28, <2>1 DEF D!ScanNext, D!Unlink, D!Placed, ScanInv
<1>29. CASE D!ReapStaging
  <2>1. D!Listed' = D!Listed BY <1>29, SameRows DEF D!ReapStaging
  <2>2. \A f \in D!Links : LiveJob(f) => ~D!Stale(f)
    BY Walls, StoresAssumption DEF StoresAssumption, D!Stale
  <2>3. QED BY <1>29, <2>1, <2>2 DEF D!ReapStaging
<1>30. CASE D!EndSweep
  <2>1. D!Listed' = D!Listed BY <1>30, SameRows DEF D!EndSweep
  <2>2. QED BY <1>30, <2>1 DEF D!EndSweep
<1>31. CASE UNCHANGED mediaVars
  <2>1. D!Listed' = D!Listed BY <1>31, SameRows DEF mediaVars
  <2>2. QED BY <1>31, <2>1 DEF mediaVars
<1>32. QED
  BY <1>1, <1>2, <1>3, <1>4, <1>5, <1>6, <1>7, <1>8, <1>9, <1>10, <1>11, <1>12, <1>13,
     <1>14, <1>15, <1>16, <1>17, <1>18, <1>19, <1>20, <1>21, <1>22, <1>23, <1>24,
     <1>25, <1>26, <1>27, <1>28, <1>29, <1>30, <1>31
     DEF D!MediaNext, D!Register, D!Janitor

\* A step that changes no row, date or step of the sweep.
LEMMA ScanFrame ==
  ASSUME MediaTypes, ScanInv, D!Listed' \subseteq D!Listed,
         NEW f \in D!Fetches, age' = age \/ age' = [age EXCEPT ![f] = 0],
         sweep' = sweep, live' = live, left' \subseteq left, D!Listed \subseteq D!Fetches
  PROVE  ScanInv'
<1>1. \A g \in D!Fetches : age[g] = 0 => age'[g] = 0 BY DEF MediaTypes
<1>2. QED BY <1>1 DEF ScanInv

\* Every step keeps what the janitor's snapshot missed freshly dated.
LEMMA ScanKept ==
  ASSUME StoresAssumption, MediaTypes, EntriesInv, FilePlaces, ScanInv, [D!MediaNext]_mediaVars
  PROVE ScanInv'
<1>0. D!Listed \subseteq D!Fetches BY ListedFetches
<1> USE DEF MediaTypes, FilePlaces, FilePlace, ScanInv, D!handlerVars, D!storeVars, D!janitorVars
<1>1. ASSUME NEW f \in D!Fetches, D!Upload(f) PROVE ScanInv'
  <2>1. D!Listed' = D!Listed BY <1>1, SameRows DEF D!Upload
  <2>2. QED BY <1>1, <2>1 DEF D!Upload, D!Goes, D!Placed
<1>2. ASSUME NEW f \in D!Fetches, D!Chunk(f) PROVE ScanInv'
  <2>1. D!Listed' = D!Listed BY <1>2, SameRows DEF D!Chunk
  <2>2. QED BY <1>2, <2>1 DEF D!Chunk
<1>3. ASSUME NEW f \in D!Fetches, D!Refuse(f) PROVE ScanInv'
  <2>1. D!Listed' = D!Listed BY <1>3, SameRows DEF D!Refuse
  <2>2. age' = age \/ age' = [age EXCEPT ![f] = 0]
    BY <1>3 DEF D!Refuse, D!UnlinkStaged, D!Unlink, D!Placed
  <2>3. UNCHANGED <<sweep, left, live>> BY <1>3 DEF D!Refuse
  <2>4. QED BY <1>0, <2>1, <2>2, <2>3, ScanFrame
<1>4. ASSUME NEW f \in D!Fetches, D!Named(f) PROVE ScanInv'
  <2>1. D!Listed' = D!Listed BY <1>4, SameRows DEF D!Named
  <2>2. QED BY <1>4, <2>1 DEF D!Named, D!Goes
<1>5. ASSUME NEW f \in D!Fetches, D!Ask(f) PROVE ScanInv'
  <2>1. D!Listed' = D!Listed BY <1>5, SameRows DEF D!Ask
  <2>2. QED BY <1>5, <2>1 DEF D!Ask, D!Goes
<1>6. ASSUME NEW f \in D!Fetches, D!GiveUp(f) PROVE ScanInv'
  <2>1. D!Listed' = D!Listed BY <1>6, SameRows DEF D!GiveUp
  <2>2. QED BY <1>6, <2>1 DEF D!GiveUp, D!Goes
<1>7. ASSUME NEW f \in D!Fetches, D!Start(f) PROVE ScanInv'
  <2>1. D!Listed' = D!Listed BY <1>7, SameRows DEF D!Start
  <2>2. QED BY <1>7, <2>1 DEF D!Start, D!Goes, D!Placed, D!JobAges
<1>8. ASSUME NEW f \in D!Fetches, D!Landed(f) PROVE ScanInv'
  <2>1. D!Listed' = D!Listed BY <1>8, SameRows DEF D!Landed
  <2>2. QED BY <1>8, <2>1 DEF D!Landed, D!Goes
<1>9. ASSUME NEW f \in D!Fetches, D!Fail(f) PROVE ScanInv'
  <2>1. D!Listed' = D!Listed BY <1>9, SameRows DEF D!Fail
  <2>2. QED BY <1>9, <2>1 DEF D!Fail, D!Goes
<1>10. ASSUME NEW f \in D!Fetches, D!Leave(f) PROVE ScanInv'
  <2>1. D!Listed' = D!Listed BY <1>10, SameRows DEF D!Leave
  <2>2. age' = age \/ age' = [age EXCEPT ![f] = 0]
    BY <1>10 DEF D!Leave, D!UnlinkStaged, D!Unlink, D!Placed
  <2>3. UNCHANGED <<sweep, left, live>> BY <1>10 DEF D!Leave
  <2>4. QED BY <1>0, <2>1, <2>2, <2>3, ScanFrame
<1>11. ASSUME NEW f \in D!Fetches, D!Answer(f) PROVE ScanInv'
  <2>1. D!Listed' = D!Listed BY <1>11, SameRows DEF D!Answer
  <2>2. age' = age \/ age' = [age EXCEPT ![f] = 0]
    BY <1>11 DEF D!Answer, D!UnlinkStaged, D!Unlink, D!Placed
  <2>3. UNCHANGED <<sweep, left, live>> BY <1>11 DEF D!Answer
  <2>4. QED BY <1>0, <2>1, <2>2, <2>3, ScanFrame
<1>12. ASSUME NEW f \in D!Fetches, D!Cut(f) PROVE ScanInv'
  <2>1. D!Listed' = D!Listed BY <1>12, SameRows DEF D!Cut
  <2>2. QED BY <1>12, <2>1 DEF D!Cut, D!Goes, D!After
<1>13. ASSUME NEW f \in D!Fetches, D!Move(f) PROVE ScanInv'
  <2>1. D!Listed' = D!Listed BY <1>13, SameRows DEF D!Move
  <2>2. QED BY <1>13, <2>1 DEF D!Move, D!Placed, D!Reg
<1>14. ASSUME NEW f \in D!Fetches, D!Date(f) PROVE ScanInv'
  <2>1. D!Listed' = D!Listed BY <1>14, SameRows DEF D!Date
  <2>2. QED BY <1>14, <2>1 DEF D!Date, D!Reg
<1>15. ASSUME NEW f \in D!Fetches, D!CannotKeep(f) PROVE ScanInv'
  <2>1. D!Listed' = D!Listed BY <1>15, SameRows DEF D!CannotKeep
  <2>2. QED BY <1>15, <2>1 DEF D!CannotKeep, D!Reg
<1>16. ASSUME NEW f \in D!Fetches, D!Insert(f) PROVE ScanInv'
  <2>1. D!Listed' = D!Listed \cup {f} BY <1>16, ListDoes
  <2>2. QED BY <1>16, <2>1 DEF D!Insert, D!Reg
<1>17. ASSUME NEW f \in D!Fetches, D!Evict(f) PROVE ScanInv'
  <2>1. D!Listed' \subseteq D!Listed /\ (age' = age \/ age' = [age EXCEPT ![f] = 0])
    BY <1>17, EvictDoes
  <2>2. UNCHANGED <<sweep, left, live>> BY <1>17, EvictDoes
  <2>3. QED BY <1>0, <2>1, <2>2, ScanFrame
<1>18. ASSUME NEW f \in D!Fetches, D!EvictNext(f) PROVE ScanInv'
  <2>1. PICK g \in doomed[f] : D!Drop(g) BY <1>18 DEF D!EvictNext
  <2>2. g \in D!Fetches OBVIOUS
  <2>3. D!Listed' \subseteq D!Listed /\ (age' = age \/ age' = [age EXCEPT ![g] = 0])
    BY <2>1, <2>2, DropDoes
  <2>4. UNCHANGED <<sweep, left, live>> BY <1>18 DEF D!EvictNext
  <2>5. QED BY <1>0, <2>2, <2>3, <2>4, ScanFrame
<1>19. ASSUME NEW f \in D!Fetches, D!Returned(f) PROVE ScanInv'
  <2>1. D!Listed' = D!Listed BY <1>19, SameRows DEF D!Returned
  <2>2. QED BY <1>19, <2>1 DEF D!Returned, D!Reg
<1>20. ASSUME NEW f \in D!Fetches, D!Resolve(f) PROVE ScanInv'
  BY <1>20, ResolveDoes DEF D!Resolve
<1>21. ASSUME NEW f \in D!Fetches, D!Touch(f) PROVE ScanInv'
  BY <1>21, TouchDoes DEF D!Touch
<1>22. CASE D!Tick
  <2>1. D!Listed' = D!Listed BY <1>22, SameRows DEF D!Tick
  <2>2. QED BY <1>22, <2>1 DEF D!Tick
<1>23. CASE D!ListExpired
  <2>1. D!Listed' = D!Listed BY <1>23, SameRows DEF D!ListExpired
  <2>2. QED BY <1>23, <2>1 DEF D!ListExpired
<1>24. CASE D!DropNext
  <2>1. PICK f \in left : D!Drop(f) /\ left' = left \ {f} BY <1>24 DEF D!DropNext
  <2>2. f \in D!Fetches OBVIOUS
  <2>3. QED BY <1>24, <2>1, <2>2, DropDoes DEF D!DropNext
<1>25. CASE D!SweepEvict
  <2>1. D!Listed' = D!Listed BY <1>25, SameRows DEF D!SweepEvict
  <2>2. QED BY <1>25, <2>1 DEF D!SweepEvict
<1>26. CASE D!Snapshot
  <2>1. D!Listed' = D!Listed BY <1>26, SameRows DEF D!Snapshot
  <2>2. QED BY <1>26, <2>1 DEF D!Snapshot
<1>27. CASE D!ListDir
  <2>1. D!Listed' = D!Listed BY <1>27, SameRows DEF D!ListDir
  <2>2. QED BY <1>27, <2>1 DEF D!ListDir
<1>28. CASE D!ScanNext
  <2>1. D!Listed' = D!Listed BY <1>28, SameRows DEF D!ScanNext
  <2>2. PICK f \in left : /\ age' = age \/ age' = [age EXCEPT ![f] = 0]
                          /\ left' = left \ {f}
    BY <1>28 DEF D!ScanNext, D!Unlink, D!Placed
  <2>3. UNCHANGED <<sweep, live>> BY <1>28 DEF D!ScanNext
  <2>4. QED BY <1>0, <2>1, <2>2, <2>3, ScanFrame
<1>29. CASE D!ReapStaging
  <2>1. D!Listed' = D!Listed BY <1>29, SameRows DEF D!ReapStaging
  <2>2. QED BY <1>29, <2>1 DEF D!ReapStaging
<1>30. CASE D!EndSweep
  <2>1. D!Listed' = D!Listed BY <1>30, SameRows DEF D!EndSweep
  <2>2. QED BY <1>30, <2>1 DEF D!EndSweep
<1>31. CASE UNCHANGED mediaVars
  <2>1. D!Listed' = D!Listed BY <1>31, SameRows DEF mediaVars
  <2>2. QED BY <1>31, <2>1 DEF mediaVars
<1>32. QED
  BY <1>1, <1>2, <1>3, <1>4, <1>5, <1>6, <1>7, <1>8, <1>9, <1>10, <1>11, <1>12, <1>13,
     <1>14, <1>15, <1>16, <1>17, <1>18, <1>19, <1>20, <1>21, <1>22, <1>23, <1>24,
     <1>25, <1>26, <1>27, <1>28, <1>29, <1>30, <1>31
     DEF D!MediaNext, D!Register, D!Janitor

\* Every step of a quiet store's sweep clears what it was to clear.
LEMMA CalmKept ==
  ASSUME StoresAssumption, MediaTypes, EntriesInv, FilePlaces, CalmInv, [D!MediaNext]_mediaVars
  PROVE CalmInv'
<1> USE DEF MediaTypes, CalmInv, Quiet, D!Old, D!handlerVars, D!storeVars, D!janitorVars
<1>1. ASSUME NEW f \in D!Fetches, D!Upload(f) PROVE CalmInv'
  <2>1. D!Listed' = D!Listed BY <1>1, SameRows DEF D!Upload
  <2>2. QED BY <1>1, <2>1 DEF D!Upload, D!Goes, D!Placed
<1>2. ASSUME NEW f \in D!Fetches, D!Chunk(f) PROVE CalmInv'
  <2>1. D!Listed' = D!Listed BY <1>2, SameRows DEF D!Chunk
  <2>2. QED BY <1>2, <2>1 DEF D!Chunk
<1>3. ASSUME NEW f \in D!Fetches, D!Refuse(f) PROVE CalmInv'
  <2>1. D!Listed' = D!Listed BY <1>3, SameRows DEF D!Refuse
  <2>2. QED BY <1>3, <2>1 DEF D!Refuse, D!Goes, D!UnlinkStaged, D!Unlink, D!Placed
<1>4. ASSUME NEW f \in D!Fetches, D!Named(f) PROVE CalmInv'
  <2>1. D!Listed' = D!Listed BY <1>4, SameRows DEF D!Named
  <2>2. QED BY <1>4, <2>1 DEF D!Named, D!Goes
<1>5. ASSUME NEW f \in D!Fetches, D!Ask(f) PROVE CalmInv'
  <2>1. D!Listed' = D!Listed BY <1>5, SameRows DEF D!Ask
  <2>2. QED BY <1>5, <2>1 DEF D!Ask, D!Goes
<1>6. ASSUME NEW f \in D!Fetches, D!GiveUp(f) PROVE CalmInv'
  <2>1. D!Listed' = D!Listed BY <1>6, SameRows DEF D!GiveUp
  <2>2. QED BY <1>6, <2>1 DEF D!GiveUp, D!Goes
<1>7. ASSUME NEW f \in D!Fetches, D!Start(f) PROVE CalmInv'
  <2>1. D!Listed' = D!Listed BY <1>7, SameRows DEF D!Start
  <2>2. QED BY <1>7, <2>1 DEF D!Start, D!Goes, D!Placed, D!JobAges
<1>8. ASSUME NEW f \in D!Fetches, D!Landed(f) PROVE CalmInv'
  <2>1. D!Listed' = D!Listed BY <1>8, SameRows DEF D!Landed
  <2>2. QED BY <1>8, <2>1 DEF D!Landed, D!Goes
<1>9. ASSUME NEW f \in D!Fetches, D!Fail(f) PROVE CalmInv'
  <2>1. D!Listed' = D!Listed BY <1>9, SameRows DEF D!Fail
  <2>2. QED BY <1>9, <2>1 DEF D!Fail, D!Goes
<1>10. ASSUME NEW f \in D!Fetches, D!Leave(f) PROVE CalmInv'
  <2>1. D!Listed' = D!Listed BY <1>10, SameRows DEF D!Leave
  <2>2. QED BY <1>10, <2>1 DEF D!Leave, D!Goes, D!UnlinkStaged, D!Unlink, D!Placed
<1>11. ASSUME NEW f \in D!Fetches, D!Answer(f) PROVE CalmInv'
  <2>1. D!Listed' = D!Listed BY <1>11, SameRows DEF D!Answer
  <2>2. QED BY <1>11, <2>1 DEF D!Answer, D!Goes, D!UnlinkStaged, D!Unlink, D!Placed, D!After
<1>12. ASSUME NEW f \in D!Fetches, D!Cut(f) PROVE CalmInv'
  <2>1. D!Listed' = D!Listed BY <1>12, SameRows DEF D!Cut
  <2>2. QED BY <1>12, <2>1 DEF D!Cut, D!Goes, D!After
<1>13. ASSUME NEW f \in D!Fetches, D!Move(f) PROVE CalmInv'
  <2>1. D!Listed' = D!Listed BY <1>13, SameRows DEF D!Move
  <2>2. QED BY <1>13, <2>1 DEF D!Move, D!Placed, D!Reg
<1>14. ASSUME NEW f \in D!Fetches, D!Date(f) PROVE CalmInv'
  <2>1. D!Listed' = D!Listed BY <1>14, SameRows DEF D!Date
  <2>2. QED BY <1>14, <2>1 DEF D!Date, D!Reg
<1>15. ASSUME NEW f \in D!Fetches, D!CannotKeep(f) PROVE CalmInv'
  <2>1. D!Listed' = D!Listed BY <1>15, SameRows DEF D!CannotKeep
  <2>2. QED BY <1>15, <2>1 DEF D!CannotKeep, D!Reg
<1>16. ASSUME NEW f \in D!Fetches, D!Insert(f) PROVE CalmInv'
  <2>1. D!Listed' = D!Listed \cup {f} BY <1>16, ListDoes
  <2>2. QED BY <1>16, <2>1 DEF D!Insert, D!Reg
<1>17. ASSUME NEW f \in D!Fetches, D!Evict(f) PROVE CalmInv'
  BY <1>17, EvictDoes
<1>18. ASSUME NEW f \in D!Fetches, D!EvictNext(f) PROVE CalmInv'
  <2>1. PICK g \in doomed[f] : D!Drop(g) /\ doomed' = [doomed EXCEPT ![f] = @ \ {g}]
    BY <1>18 DEF D!EvictNext
  <2>2. g \in D!Fetches OBVIOUS
  <2>3. QED BY <1>18, <2>1, <2>2, DropDoes DEF D!EvictNext
<1>19. ASSUME NEW f \in D!Fetches, D!Returned(f) PROVE CalmInv'
  <2>1. D!Listed' = D!Listed BY <1>19, SameRows DEF D!Returned
  <2>2. QED BY <1>19, <2>1 DEF D!Returned, D!Reg
<1>20. ASSUME NEW f \in D!Fetches, D!Resolve(f) PROVE CalmInv'
  BY <1>20, ResolveDoes DEF D!Resolve
<1>21. ASSUME NEW f \in D!Fetches, D!Touch(f) PROVE CalmInv'
  BY <1>21, TouchDoes DEF D!Touch
<1>22. CASE D!Tick
  <2>1. D!Listed' = D!Listed BY <1>22, SameRows DEF D!Tick
  <2>2. QED BY <1>22, <2>1 DEF D!Tick, D!OldAge
<1>23. CASE D!ListExpired
  <2>1. D!Listed' = D!Listed BY <1>23, SameRows DEF D!ListExpired
  <2>2. QED BY <1>23, <2>1 DEF D!ListExpired, D!Over
<1>24. CASE D!DropNext
  <2>1. PICK f \in left : D!Drop(f) /\ left' = left \ {f} BY <1>24 DEF D!DropNext
  <2>2. f \in D!Fetches OBVIOUS
  <2>3. sweep \in {"expiring", "evicting"} /\ UNCHANGED <<at, reg, sweep, live, calm>>
    BY <1>24 DEF D!DropNext
  <2>4. D!Listed' = D!Listed \ {f} /\ held' = [held EXCEPT ![f] = 0] BY <2>1, <2>2, DropDoes
  <2> SUFFICES ASSUME calm, NEW g \in D!Fetches PROVE Quiet(g)' BY <2>3
  <2>5. (where'[g] = where[g] /\ age'[g] = age[g]) \/ (where'[g] = "none" /\ age'[g] = 0)
    BY <2>1, <2>2, DropDoes
  <2>6. D!Old(g)' BY <2>2, <2>4, <2>5 DEF D!OldAge
  <2>7. QED BY <2>1, <2>2, <2>3, <2>4, <2>5, <2>6
<1>25. CASE D!SweepEvict
  <2>1. D!Listed' = D!Listed BY <1>25, SameRows DEF D!SweepEvict
  <2>2. QED BY <1>25, <2>1 DEF D!SweepEvict
<1>26. CASE D!Snapshot
  <2>1. D!Listed' = D!Listed BY <1>26, SameRows DEF D!Snapshot
  <2>2. QED BY <1>26, <2>1 DEF D!Snapshot
<1>27. CASE D!ListDir
  <2>1. D!Listed' = D!Listed BY <1>27, SameRows DEF D!ListDir
  <2>2. QED BY <1>27, <2>1 DEF D!ListDir
<1>28. CASE D!ScanNext
  <2>1. D!Listed' = D!Listed BY <1>28, SameRows DEF D!ScanNext
  <2>2. QED BY <1>28, <2>1 DEF D!ScanNext, D!Unlink, D!Placed, D!OldAge
<1>29. CASE D!ReapStaging
  <2>1. D!Listed' = D!Listed BY <1>29, SameRows DEF D!ReapStaging
  <2>2. QED BY <1>29, <2>1 DEF D!ReapStaging, D!Stale, D!OldAge
<1>30. CASE D!EndSweep
  <2>1. D!Listed' = D!Listed BY <1>30, SameRows DEF D!EndSweep
  <2>2. QED BY <1>30, <2>1 DEF D!EndSweep
<1>31. CASE UNCHANGED mediaVars
  <2>1. D!Listed' = D!Listed BY <1>31, SameRows DEF mediaVars
  <2>2. QED BY <1>31, <2>1 DEF mediaVars
<1>32. QED
  BY <1>1, <1>2, <1>3, <1>4, <1>5, <1>6, <1>7, <1>8, <1>9, <1>10, <1>11, <1>12, <1>13,
     <1>14, <1>15, <1>16, <1>17, <1>18, <1>19, <1>20, <1>21, <1>22, <1>23, <1>24,
     <1>25, <1>26, <1>27, <1>28, <1>29, <1>30, <1>31
     DEF D!MediaNext, D!Register, D!Janitor

(***************************************************************************)
(* The cap. An evictor takes the oldest files of those it saw until the     *)
(* rest fits or is what it spares; later steps only take away from the rest. *)
(***************************************************************************)

\* The store's size is a sum.
LEMMA TotalIsSum == \A S : D!Total(S) = SumOf(Size, S)
BY DEF D!Total, D!SumSet, D!MapThenFoldSet, SumOf, SumSet, MapThenFoldSet

\* There are finitely many fetches, of some size each.
LEMMA FetchesFinite ==
  ASSUME StoresAssumption
  PROVE  /\ \A S \in SUBSET D!Fetches : IsFiniteSet(S)
         /\ \A f \in D!Fetches : Size[f] \in Nat
<1>1. IsFiniteSet(Audios \cup Videos) BY FS_Union DEF StoresAssumption
<1>2. IsFiniteSet(D!Fetches) BY <1>1, FS_Union DEF StoresAssumption, D!Fetches, D!Links
<1>3. QED BY <1>2, FS_Subset DEF StoresAssumption, D!Fetches, D!Links

\* Fewer files are no bigger.
LEMMA TotalShrinks ==
  ASSUME StoresAssumption, NEW S \in SUBSET D!Fetches, NEW T \in SUBSET S
  PROVE  D!Total(T) \in Nat /\ D!Total(S) \in Nat /\ D!Total(T) <= D!Total(S)
<1>1. IsFiniteSet(S) /\ IsFiniteSet(T) BY FetchesFinite
<1>2. \A y \in S : Size[y] \in Nat BY FetchesFinite
<1>3. SumOf(Size, T) <= SumOf(Size, S) BY <1>1, <1>2, SumMonotone
<1>4. SumOf(Size, T) \in Nat /\ SumOf(Size, S) \in Nat BY <1>1, <1>2, SumNat
<1>5. QED BY <1>3, <1>4, TotalIsSum

\* The size of one file.
LEMMA TotalOfOne ==
  ASSUME StoresAssumption, NEW f \in D!Fetches PROVE D!Total({f}) = Size[f] /\ Size[f] \in Nat
<1>1. Size[f] \in Nat BY FetchesFinite
<1>2. SumOf(Size, {f}) = Size[f] BY <1>1, SumSingle
<1>3. QED BY <1>1, <1>2, TotalIsSum

\* What an evictor leaves of what it saw fits, or is spared by it.
LEMMA OverCapLeaves ==
  ASSUME StoresAssumption, NEW order \in Seq(D!Fetches), NEW keep,
         NEW rest, rest = Items(order) \ D!OverCap(order, keep)
  PROVE  rest \subseteq keep \/ D!Total(rest) <= Cap
<1> DEFINE before(i) == {order[j] : j \in 1..(i - 1)} \ keep
           stays == {i \in DOMAIN order : order[i] \in rest /\ order[i] \notin keep}
<1>1. SUFFICES ASSUME stays # {} PROVE D!Total(rest) <= Cap
  BY DEF Items
<1>2. DOMAIN order = 1..Len(order) OBVIOUS
<1>3. stays \subseteq Nat BY <1>2
<1>4. PICK i \in stays : \A j \in stays : i <= j BY <1>1, <1>3, LeastExists
<1>5. \A j \in DOMAIN order :
        order[j] \notin keep /\ D!Total(Items(order) \ before(j)) > Cap
          => order[j] \in D!OverCap(order, keep)
  BY DEF D!OverCap, Items
<1>6. i \in DOMAIN order /\ order[i] \notin keep /\ order[i] \in rest OBVIOUS
<1>7. Items(order) \subseteq D!Fetches BY DEF Items
<1> DEFINE some == Items(order) \ before(i)
<1>8. D!Total(some) \in Nat
  <2>1. some \in SUBSET D!Fetches BY <1>7
  <2>2. QED BY <2>1, TotalShrinks
<1>9. D!Total(some) <= Cap
  <2>1. ~(D!Total(some) > Cap) BY <1>5, <1>6
  <2>2. Cap \in Nat BY DEF StoresAssumption
  <2>3. QED BY <1>8, <2>1, <2>2
<1>10. rest \subseteq some
  <2> SUFFICES ASSUME NEW f \in rest, f \in before(i) PROVE FALSE OBVIOUS
  <2>1. PICK j \in 1..(i - 1) : order[j] = f /\ f \notin keep OBVIOUS
  <2>2. j \in DOMAIN order /\ j \in Nat /\ ~(i <= j) BY <1>2, <1>6, <2>1
  <2>3. j \in stays BY <2>1, <2>2
  <2>4. QED BY <1>4, <2>2, <2>3
<1>11. some \in SUBSET D!Fetches /\ rest \in SUBSET some BY <1>7, <1>10
<1> HIDE DEF some
<1>12. D!Total(rest) <= D!Total(some) /\ D!Total(rest) \in Nat BY <1>11, TotalShrinks
<1>13. QED BY <1>8, <1>9, <1>12 DEF StoresAssumption

\* With fewer rows that stay, and no new insert, the cap still holds.
LEMMA CapShrinks ==
  ASSUME StoresAssumption, EntriesInv, CapInv, Staying' \subseteq Staying,
         \A f \in D!Fetches : reg'[f] # "inserted" => reg[f] # "inserted"
  PROVE  CapInv'
<1>1. Staying \in SUBSET D!Fetches BY ListedFetches DEF Staying
<1>2. /\ Staying \cap Audios \in SUBSET D!Fetches
      /\ Staying' \cap Audios \in SUBSET (Staying \cap Audios)
  BY <1>1
<1>3. D!Total(Staying') <= D!Total(Staying) /\ D!Total(Staying) \in Nat /\ D!Total(Staying') \in Nat
  BY <1>1, TotalShrinks
<1>4. /\ D!Total(Staying' \cap Audios) <= D!Total(Staying \cap Audios)
      /\ D!Total(Staying' \cap Audios) \in Nat /\ D!Total(Staying \cap Audios) \in Nat
  BY <1>2, TotalShrinks
<1>5. Cap \in Nat BY DEF StoresAssumption
<1>6. Audios \subseteq D!Fetches BY DEF D!Fetches, D!Links
<1>8. QED BY <1>3, <1>4, <1>5, <1>6 DEF CapInv

\* What an evictor leaves is within the cap, whatever the others have doomed.
LEMMA EvictKeepsCap ==
  ASSUME StoresAssumption, MediaTypes, EntriesInv, FilePlaces, CapInv,
         NEW f \in D!Fetches, D!Evict(f)
  PROVE  CapInv'
<1> DEFINE order == IF Size[f] > Cap THEN D!Without(f) ELSE entries
           rest == Items(order) \ D!OverCap(order, D!Keep(f))
<1>1. order \in Seq(D!Fetches) BY WithoutDoes DEF EntriesInv
<1>2. Items(order) = D!Listed'
  <2>1. D!Listed = Items(entries) BY DEF D!Listed, Items
  <2>2. QED BY <2>1, EvictDoes, WithoutDoes
<1>3. rest \subseteq D!Keep(f) \/ D!Total(rest) <= Cap BY <1>1, OverCapLeaves
<1>4. doomed[f] = {} /\ reg[f] = "inserted" BY EvictDoes DEF FilePlaces, FilePlace
<1>5. /\ reg' = [reg EXCEPT ![f] = "evicting"]
      /\ doomed' = [doomed EXCEPT ![f] = D!OverCap(order, D!Keep(f))]
      /\ D!Listed' = D!Listed \ (IF Size[f] > Cap THEN {f} ELSE {})
  BY EvictDoes
<1> HIDE DEF order
<1>6. Staying' \subseteq Staying
  <2>1. \A g \in D!Fetches : doomed[g] \subseteq doomed'[g] BY <1>4, <1>5 DEF MediaTypes
  <2>2. QED BY <1>5, <2>1 DEF Staying
<1>7. Staying' \subseteq rest
  <2>1. doomed'[f] = D!OverCap(order, D!Keep(f)) BY <1>5 DEF MediaTypes
  <2>2. QED BY <1>2, <2>1 DEF Staying
<1>8. rest \in SUBSET D!Fetches BY <1>1 DEF Items
<1> HIDE DEF rest
<1>9. /\ D!Total(Staying') <= D!Total(rest) /\ D!Total(rest) \in Nat /\ D!Total(Staying') \in Nat
  BY <1>7, <1>8, TotalShrinks
<1>10. Cap \in Nat /\ Audios \subseteq D!Fetches /\ Videos \subseteq D!Fetches
  BY DEF StoresAssumption, D!Fetches, D!Links
<1>11. f \in Staying' => Size[f] <= Cap
  <2>1. Size[f] \in Nat BY FetchesFinite
  <2>2. f \in Staying' => ~(Size[f] > Cap) BY <1>5 DEF Staying
  <2>3. QED BY <1>10, <2>1, <2>2
<1>12. ASSUME Staying' \subseteq {f} PROVE D!Total(Staying') <= Cap
  <2>1. CASE f \in Staying'
    <3>1. Staying' = {f} BY <1>12, <2>1
    <3>2. QED BY <1>11, <2>1, <3>1, TotalOfOne
  <2>2. CASE f \notin Staying'
    <3>1. Staying' = {} BY <1>12, <2>2
    <3>2. D!Total({}) = 0 BY TotalIsSum, SumEmpty
    <3>3. QED BY <1>10, <3>1, <3>2
  <2>3. QED BY <2>1, <2>2
<1>13. D!Total(Staying') <= Cap \/ Staying' \subseteq D!Keep(f) BY <1>3, <1>7, <1>9, <1>10
<1>14. \/ D!Total(Staying') <= Cap
       \/ f \in Videos /\ Staying' \subseteq Audios \cup {f}
  BY <1>12, <1>13 DEF D!Keep
<1>15. \/ D!Total(Staying') <= Cap
       \/ \E v \in Videos : /\ Staying' \subseteq Audios \cup {v}
                            /\ v \in Staying' => Size[v] <= Cap
  BY <1>11, <1>14
<1>16. (\A g \in Audios : reg'[g] # "inserted") => D!Total(Staying' \cap Audios) <= Cap
  <2>1. Staying' \in SUBSET D!Fetches /\ Staying' \cap Audios \in SUBSET Staying' BY <1>7, <1>8
  <2>2. /\ D!Total(Staying' \cap Audios) <= D!Total(Staying')
        /\ D!Total(Staying' \cap Audios) \in Nat
    BY <2>1, TotalShrinks
  <2>3. CASE f \in Audios
    <3>1. f \notin Videos BY <2>3 DEF StoresAssumption
    <3>2. D!Total(Staying') <= Cap BY <1>14, <3>1
    <3>3. QED BY <1>9, <1>10, <2>2, <3>2
  <2>4. CASE f \notin Audios
    <3> SUFFICES ASSUME \A g \in Audios : reg'[g] # "inserted"
                 PROVE D!Total(Staying' \cap Audios) <= Cap
      OBVIOUS
    <3>1. \A g \in Audios : reg[g] # "inserted" BY <1>5, <1>10, <2>4 DEF MediaTypes
    <3>2. D!Total(Staying \cap Audios) <= Cap BY <3>1 DEF CapInv
    <3>3. /\ Staying \cap Audios \in SUBSET D!Fetches
          /\ Staying' \cap Audios \in SUBSET (Staying \cap Audios)
      BY <1>6, <1>10
    <3>4. /\ D!Total(Staying' \cap Audios) <= D!Total(Staying \cap Audios)
          /\ D!Total(Staying \cap Audios) \in Nat
      BY <3>3, TotalShrinks
    <3>5. QED BY <1>10, <2>2, <3>2, <3>4
  <2>5. QED BY <2>3, <2>4
<1>17. QED BY <1>15, <1>16 DEF CapInv

\* An insert that is not an audio's leaves the audios that stay as they were.
LEMMA InsertKeepsCap ==
  ASSUME StoresAssumption, MediaTypes, EntriesInv, FilePlaces, CapInv,
         NEW f \in D!Fetches, D!Insert(f)
  PROVE  CapInv'
<1>1. D!Listed' = D!Listed \cup {f} BY ListDoes
<1>2. doomed' = doomed /\ reg[f] = "dated" /\ reg' = [reg EXCEPT ![f] = "inserted"]
  BY DEF D!Insert, D!Reg
<1>3. reg'[f] = "inserted" BY <1>2 DEF MediaTypes
<1>4. Audios \subseteq D!Fetches BY DEF D!Fetches, D!Links
<1>5. CASE f \in Audios BY <1>3, <1>5 DEF CapInv
<1>6. CASE f \notin Audios
  <2>1. Staying' \cap Audios = Staying \cap Audios BY <1>1, <1>2, <1>6 DEF Staying
  <2>2. \A g \in Audios : reg'[g] = reg[g] BY <1>2, <1>4, <1>6 DEF MediaTypes
  <2>3. QED BY <1>3, <2>1, <2>2 DEF CapInv
<1>7. QED BY <1>5, <1>6

\* A step that dooms nothing and lists nothing.
LEMMA RowsStay ==
  ASSUME D!Listed' \subseteq D!Listed, doomed' = doomed PROVE Staying' \subseteq Staying
BY DEF Staying

\* Every step keeps the cap.
LEMMA CapKept ==
  ASSUME StoresAssumption, MediaTypes, EntriesInv, FilePlaces, CapInv, [D!MediaNext]_mediaVars
  PROVE CapInv'
<1>1. ASSUME NEW f \in D!Fetches, D!Upload(f) PROVE CapInv'
  <2>1. D!Listed' = D!Listed BY <1>1, SameRows DEF D!Upload, D!storeVars, D!janitorVars
  <2>2. doomed' = doomed BY <1>1 DEF D!Upload, D!storeVars
  <2>3. reg' = reg BY <1>1 DEF D!Upload, D!handlerVars
  <2>4. QED BY <2>1, <2>2, <2>3, RowsStay, CapShrinks
<1>2. ASSUME NEW f \in D!Fetches, D!Chunk(f) PROVE CapInv'
  <2>1. D!Listed' = D!Listed BY <1>2, SameRows DEF D!Chunk, D!storeVars, D!janitorVars
  <2>2. doomed' = doomed BY <1>2 DEF D!Chunk, D!storeVars
  <2>3. reg' = reg BY <1>2 DEF D!Chunk, D!handlerVars
  <2>4. QED BY <2>1, <2>2, <2>3, RowsStay, CapShrinks
<1>3. ASSUME NEW f \in D!Fetches, D!Refuse(f) PROVE CapInv'
  <2>1. D!Listed' = D!Listed BY <1>3, SameRows DEF D!Refuse, D!storeVars, D!janitorVars
  <2>2. doomed' = doomed BY <1>3 DEF D!Refuse, D!storeVars
  <2>3. reg' = reg BY <1>3 DEF D!Refuse, D!handlerVars
  <2>4. QED BY <2>1, <2>2, <2>3, RowsStay, CapShrinks
<1>4. ASSUME NEW f \in D!Fetches, D!Named(f) PROVE CapInv'
  <2>1. D!Listed' = D!Listed BY <1>4, SameRows DEF D!Named, D!storeVars, D!janitorVars
  <2>2. doomed' = doomed BY <1>4 DEF D!Named, D!storeVars
  <2>3. \A g \in D!Fetches : reg'[g] # "inserted" => reg[g] # "inserted"
    <3>1. reg[f] # "inserted" BY <1>4 DEF D!Named, D!Goes, FilePlaces, FilePlace
    <3>2. QED BY <1>4, <3>1 DEF D!Named, MediaTypes
  <2>4. QED BY <2>1, <2>2, <2>3, RowsStay, CapShrinks
<1>5. ASSUME NEW f \in D!Fetches, D!Ask(f) PROVE CapInv'
  <2>1. D!Listed' = D!Listed BY <1>5, SameRows DEF D!Ask, D!storeVars, D!janitorVars
  <2>2. doomed' = doomed BY <1>5 DEF D!Ask, D!storeVars
  <2>3. reg' = reg BY <1>5 DEF D!Ask, D!handlerVars
  <2>4. QED BY <2>1, <2>2, <2>3, RowsStay, CapShrinks
<1>6. ASSUME NEW f \in D!Fetches, D!GiveUp(f) PROVE CapInv'
  <2>1. D!Listed' = D!Listed BY <1>6, SameRows DEF D!GiveUp, D!storeVars, D!janitorVars
  <2>2. doomed' = doomed BY <1>6 DEF D!GiveUp, D!storeVars
  <2>3. reg' = reg BY <1>6 DEF D!GiveUp, D!handlerVars
  <2>4. QED BY <2>1, <2>2, <2>3, RowsStay, CapShrinks
<1>7. ASSUME NEW f \in D!Fetches, D!Start(f) PROVE CapInv'
  <2>1. D!Listed' = D!Listed BY <1>7, SameRows DEF D!Start, D!storeVars, D!janitorVars
  <2>2. doomed' = doomed BY <1>7 DEF D!Start, D!storeVars
  <2>3. reg' = reg BY <1>7 DEF D!Start, D!handlerVars
  <2>4. QED BY <2>1, <2>2, <2>3, RowsStay, CapShrinks
<1>8. ASSUME NEW f \in D!Fetches, D!Landed(f) PROVE CapInv'
  <2>1. D!Listed' = D!Listed BY <1>8, SameRows DEF D!Landed, D!storeVars, D!janitorVars
  <2>2. doomed' = doomed BY <1>8 DEF D!Landed, D!storeVars
  <2>3. \A g \in D!Fetches : reg'[g] # "inserted" => reg[g] # "inserted"
    <3>1. reg[f] # "inserted" BY <1>8 DEF D!Landed, D!Goes, FilePlaces, FilePlace
    <3>2. QED BY <1>8, <3>1 DEF D!Landed, MediaTypes
  <2>4. QED BY <2>1, <2>2, <2>3, RowsStay, CapShrinks
<1>9. ASSUME NEW f \in D!Fetches, D!Fail(f) PROVE CapInv'
  <2>1. D!Listed' = D!Listed BY <1>9, SameRows DEF D!Fail, D!storeVars, D!janitorVars
  <2>2. doomed' = doomed BY <1>9 DEF D!Fail, D!storeVars
  <2>3. reg' = reg BY <1>9 DEF D!Fail, D!handlerVars
  <2>4. QED BY <2>1, <2>2, <2>3, RowsStay, CapShrinks
<1>10. ASSUME NEW f \in D!Fetches, D!Leave(f) PROVE CapInv'
  <2>1. D!Listed' = D!Listed BY <1>10, SameRows DEF D!Leave, D!storeVars, D!janitorVars
  <2>2. doomed' = doomed BY <1>10 DEF D!Leave, D!storeVars
  <2>3. reg' = reg BY <1>10 DEF D!Leave, D!handlerVars
  <2>4. QED BY <2>1, <2>2, <2>3, RowsStay, CapShrinks
<1>11. ASSUME NEW f \in D!Fetches, D!Answer(f) PROVE CapInv'
  <2>1. D!Listed' = D!Listed BY <1>11, SameRows DEF D!Answer, D!storeVars, D!janitorVars
  <2>2. doomed' = doomed BY <1>11 DEF D!Answer, D!storeVars
  <2>3. reg' = reg BY <1>11 DEF D!Answer, D!handlerVars
  <2>4. QED BY <2>1, <2>2, <2>3, RowsStay, CapShrinks
<1>12. ASSUME NEW f \in D!Fetches, D!Cut(f) PROVE CapInv'
  <2>1. D!Listed' = D!Listed BY <1>12, SameRows DEF D!Cut, D!storeVars, D!janitorVars
  <2>2. doomed' = doomed BY <1>12 DEF D!Cut, D!storeVars
  <2>3. reg' = reg BY <1>12 DEF D!Cut, D!handlerVars
  <2>4. QED BY <2>1, <2>2, <2>3, RowsStay, CapShrinks
<1>13. ASSUME NEW f \in D!Fetches, D!Move(f) PROVE CapInv'
  <2>1. D!Listed' = D!Listed BY <1>13, SameRows DEF D!Move, D!storeVars, D!janitorVars
  <2>2. doomed' = doomed BY <1>13 DEF D!Move, D!storeVars
  <2>3. \A g \in D!Fetches : reg'[g] # "inserted" => reg[g] # "inserted"
    BY <1>13 DEF D!Move, D!Reg, MediaTypes
  <2>4. QED BY <2>1, <2>2, <2>3, RowsStay, CapShrinks
<1>14. ASSUME NEW f \in D!Fetches, D!Date(f) PROVE CapInv'
  <2>1. D!Listed' = D!Listed BY <1>14, SameRows DEF D!Date, D!storeVars, D!janitorVars
  <2>2. doomed' = doomed BY <1>14 DEF D!Date, D!storeVars
  <2>3. \A g \in D!Fetches : reg'[g] # "inserted" => reg[g] # "inserted"
    BY <1>14 DEF D!Date, D!Reg, MediaTypes
  <2>4. QED BY <2>1, <2>2, <2>3, RowsStay, CapShrinks
<1>15. ASSUME NEW f \in D!Fetches, D!CannotKeep(f) PROVE CapInv'
  <2>1. D!Listed' = D!Listed BY <1>15, SameRows DEF D!CannotKeep, D!storeVars, D!janitorVars
  <2>2. doomed' = doomed BY <1>15 DEF D!CannotKeep, D!storeVars
  <2>3. \A g \in D!Fetches : reg'[g] # "inserted" => reg[g] # "inserted"
    BY <1>15 DEF D!CannotKeep, D!Reg, MediaTypes
  <2>4. QED BY <2>1, <2>2, <2>3, RowsStay, CapShrinks
<1>16. ASSUME NEW f \in D!Fetches, D!Insert(f) PROVE CapInv'
  BY <1>16, InsertKeepsCap
<1>17. ASSUME NEW f \in D!Fetches, D!Evict(f) PROVE CapInv'
  BY <1>17, EvictKeepsCap
<1>18. ASSUME NEW f \in D!Fetches, D!EvictNext(f) PROVE CapInv'
  <2>1. PICK g \in doomed[f] : D!Drop(g) /\ doomed' = [doomed EXCEPT ![f] = @ \ {g}]
    BY <1>18 DEF D!EvictNext
  <2>2. D!Listed' = D!Listed \ {g} BY <2>1, DropDoes DEF MediaTypes
  <2>3. \A h \in D!Fetches : doomed[h] \ {g} \subseteq doomed'[h] BY <2>1 DEF MediaTypes
  <2>4. Staying' \subseteq Staying BY <2>2, <2>3 DEF Staying
  <2>5. reg' = reg BY <1>18 DEF D!EvictNext, D!handlerVars
  <2>6. QED BY <2>4, <2>5, CapShrinks
<1>19. ASSUME NEW f \in D!Fetches, D!Returned(f) PROVE CapInv'
  <2>1. D!Listed' = D!Listed BY <1>19, SameRows DEF D!Returned, D!storeVars, D!janitorVars
  <2>2. doomed' = doomed BY <1>19 DEF D!Returned, D!storeVars
  <2>3. \A g \in D!Fetches : reg'[g] # "inserted" => reg[g] # "inserted"
    BY <1>19 DEF D!Returned, D!Reg, MediaTypes
  <2>4. QED BY <2>1, <2>2, <2>3, RowsStay, CapShrinks
<1>20. ASSUME NEW f \in D!Fetches, D!Resolve(f) PROVE CapInv'
  <2>1. D!Listed' \subseteq D!Listed BY <1>20, ResolveDoes
  <2>2. UNCHANGED <<doomed, reg>> BY <1>20 DEF D!Resolve, D!handlerVars
  <2>3. QED BY <2>1, <2>2, RowsStay, CapShrinks
<1>21. ASSUME NEW f \in D!Fetches, D!Touch(f) PROVE CapInv'
  <2>1. D!Listed' \subseteq D!Listed BY <1>21, TouchDoes
  <2>2. UNCHANGED <<doomed, reg>> BY <1>21 DEF D!Touch, D!handlerVars
  <2>3. QED BY <2>1, <2>2, RowsStay, CapShrinks
<1>22. CASE D!Tick
  <2>1. D!Listed' = D!Listed BY <1>22, SameRows DEF D!Tick, D!storeVars, D!janitorVars
  <2>2. doomed' = doomed BY <1>22 DEF D!Tick, D!storeVars
  <2>3. reg' = reg BY <1>22 DEF D!Tick, D!handlerVars
  <2>4. QED BY <2>1, <2>2, <2>3, RowsStay, CapShrinks
<1>23. CASE D!ListExpired
  <2>1. D!Listed' = D!Listed BY <1>23, SameRows DEF D!ListExpired, D!storeVars, D!janitorVars
  <2>2. doomed' = doomed BY <1>23 DEF D!ListExpired, D!storeVars
  <2>3. reg' = reg BY <1>23 DEF D!ListExpired, D!handlerVars
  <2>4. QED BY <2>1, <2>2, <2>3, RowsStay, CapShrinks
<1>24. CASE D!DropNext
  <2>1. D!Listed' \subseteq D!Listed BY <1>24, DropDoes DEF D!DropNext, MediaTypes
  <2>2. UNCHANGED <<doomed, reg>> BY <1>24 DEF D!DropNext, D!handlerVars
  <2>3. QED BY <2>1, <2>2, RowsStay, CapShrinks
<1>25. CASE D!SweepEvict
  <2>1. D!Listed' = D!Listed BY <1>25, SameRows DEF D!SweepEvict, D!storeVars, D!janitorVars
  <2>2. doomed' = doomed BY <1>25 DEF D!SweepEvict, D!storeVars
  <2>3. reg' = reg BY <1>25 DEF D!SweepEvict, D!handlerVars
  <2>4. QED BY <2>1, <2>2, <2>3, RowsStay, CapShrinks
<1>26. CASE D!Snapshot
  <2>1. D!Listed' = D!Listed BY <1>26, SameRows DEF D!Snapshot, D!storeVars, D!janitorVars
  <2>2. doomed' = doomed BY <1>26 DEF D!Snapshot, D!storeVars
  <2>3. reg' = reg BY <1>26 DEF D!Snapshot, D!handlerVars
  <2>4. QED BY <2>1, <2>2, <2>3, RowsStay, CapShrinks
<1>27. CASE D!ListDir
  <2>1. D!Listed' = D!Listed BY <1>27, SameRows DEF D!ListDir, D!storeVars, D!janitorVars
  <2>2. doomed' = doomed BY <1>27 DEF D!ListDir, D!storeVars
  <2>3. reg' = reg BY <1>27 DEF D!ListDir, D!handlerVars
  <2>4. QED BY <2>1, <2>2, <2>3, RowsStay, CapShrinks
<1>28. CASE D!ScanNext
  <2>1. D!Listed' = D!Listed BY <1>28, SameRows DEF D!ScanNext, D!storeVars, D!janitorVars
  <2>2. doomed' = doomed BY <1>28 DEF D!ScanNext, D!storeVars
  <2>3. reg' = reg BY <1>28 DEF D!ScanNext, D!handlerVars
  <2>4. QED BY <2>1, <2>2, <2>3, RowsStay, CapShrinks
<1>29. CASE D!ReapStaging
  <2>1. D!Listed' = D!Listed BY <1>29, SameRows DEF D!ReapStaging, D!storeVars, D!janitorVars
  <2>2. doomed' = doomed BY <1>29 DEF D!ReapStaging, D!storeVars
  <2>3. reg' = reg BY <1>29 DEF D!ReapStaging, D!handlerVars
  <2>4. QED BY <2>1, <2>2, <2>3, RowsStay, CapShrinks
<1>30. CASE D!EndSweep
  <2>1. D!Listed' = D!Listed BY <1>30, SameRows DEF D!EndSweep, D!storeVars, D!janitorVars
  <2>2. doomed' = doomed BY <1>30 DEF D!EndSweep, D!storeVars
  <2>3. reg' = reg BY <1>30 DEF D!EndSweep, D!handlerVars
  <2>4. QED BY <2>1, <2>2, <2>3, RowsStay, CapShrinks
<1>31. CASE UNCHANGED mediaVars
  <2>1. D!Listed' = D!Listed /\ UNCHANGED <<doomed, reg>> BY <1>31, SameRows DEF mediaVars
  <2>2. QED BY <2>1, RowsStay, CapShrinks
<1>32. QED
  BY <1>1, <1>2, <1>3, <1>4, <1>5, <1>6, <1>7, <1>8, <1>9, <1>10, <1>11, <1>12, <1>13,
     <1>14, <1>15, <1>16, <1>17, <1>18, <1>19, <1>20, <1>21, <1>22, <1>23, <1>24,
     <1>25, <1>26, <1>27, <1>28, <1>29, <1>30, <1>31
     DEF D!MediaNext, D!Register, D!Janitor

\* Nothing is fetched, and nothing listed, to begin with.
LEMMA MediaInit ==
  ASSUME StoresAssumption, D!MediaInit PROVE MediaInv
<1>1. entries = <<>> /\ D!Listed = {} BY DEF D!MediaInit, D!Listed
<1>2. EntriesInv BY <1>1 DEF EntriesInv
<1>3. MediaTypes BY DEF D!MediaInit, MediaTypes, Handlers, Registers, Sweeps
<1>4. FilePlaces BY <1>1 DEF D!MediaInit, FilePlaces, FilePlace, LiveJob
<1>5. ScanInv /\ CalmInv BY <1>1 DEF D!MediaInit, ScanInv, CalmInv
<1>6. CapInv
  <2>1. Staying = {} /\ Staying \cap Audios = {} BY <1>1 DEF Staying
  <2>2. D!Total({}) = 0 BY TotalIsSum, SumEmpty
  <2>3. QED BY <2>1, <2>2 DEF CapInv, StoresAssumption
<1>7. QED BY <1>2, <1>3, <1>4, <1>5, <1>6 DEF MediaInv

\* Every step of the media store keeps the invariant.
LEMMA MediaInductive ==
  ASSUME StoresAssumption, MediaInv, [D!MediaNext]_mediaVars PROVE MediaInv'
BY EntriesKept, MediaTypesKept, PlacesKept, ScanKept, CalmKept, CapKept DEF MediaInv

\* A step of another store leaves the media alone.
LEMMA StepOfMedia ==
  ASSUME [SamplesStep \/ CapturesStep \/ UsageStep \/ MediaStep]_<<part, samplesVars, storeVars,
                                                                 usageVars, mediaVars>>
  PROVE [D!MediaNext]_mediaVars
BY DEF SamplesStep, CapturesStep, UsageStep, MediaStep, mediaVars

\* The media store's invariant holds in every state.
LEMMA MediaInvariance == StoresSpec => []MediaInv
<1>1. StoresInit => MediaInv BY MediaInit, StoresAssumption DEF StoresInit
<1>2. MediaInv /\ [SamplesStep \/ CapturesStep \/ UsageStep \/ MediaStep]_<<part, samplesVars,
                       storeVars, usageVars, mediaVars>> => MediaInv'
  BY MediaInductive, StepOfMedia, StoresAssumption
<1>3. QED BY <1>1, <1>2, PTL DEF StoresSpec

\* Once no register() is inserting or evicting, all that is listed stays.
LEMMA CapFollows == ASSUME StoresAssumption, MediaInv PROVE D!CapHolds
<1> SUFFICES ASSUME \A f \in D!Fetches : reg[f] \notin {"inserted", "evicting"}
             PROVE D!Total(D!Listed \ IF D!Listed \cap Videos # {} THEN Audios ELSE {}) <= Cap
  BY DEF D!CapHolds
<1>1. \A f \in D!Fetches : doomed[f] = {} BY DEF MediaInv, FilePlaces, FilePlace
<1>2. Staying = D!Listed BY <1>1 DEF Staying
<1>3. Staying \in SUBSET D!Fetches BY <1>2, ListedFetches DEF MediaInv
<1>4. Audios \subseteq D!Fetches /\ Videos \subseteq D!Fetches BY DEF D!Fetches, D!Links
<1> DEFINE inCap == Staying \ IF Staying \cap Videos # {} THEN Audios ELSE {}
<1>5. inCap \in SUBSET Staying OBVIOUS
<1>6. D!Total(inCap) \in Nat /\ D!Total(Staying) \in Nat /\ D!Total(inCap) <= D!Total(Staying)
  BY <1>3, <1>5, TotalShrinks
<1>7. Cap \in Nat BY DEF StoresAssumption
<1>8. CASE D!Total(Staying) <= Cap BY <1>2, <1>6, <1>7, <1>8
<1>9. ASSUME NEW v \in Videos, Staying \subseteq Audios \cup {v}, v \in Staying => Size[v] <= Cap
      PROVE D!Total(inCap) <= Cap
  <2>1. CASE Staying \cap Videos # {}
    <3>1. v \in Staying BY <1>9, <2>1 DEF StoresAssumption
    <3>2. inCap \in SUBSET {v} /\ {v} \in SUBSET D!Fetches BY <1>4, <1>9, <2>1
    <3>3. D!Total({v}) = Size[v] /\ Size[v] <= Cap BY <1>4, <1>9, <3>1, TotalOfOne
    <3>4. D!Total(inCap) <= D!Total({v}) /\ D!Total({v}) \in Nat BY <3>2, TotalShrinks
    <3>5. QED BY <1>6, <1>7, <3>3, <3>4
  <2>2. CASE Staying \cap Videos = {}
    <3>1. Staying \subseteq Audios BY <1>9, <2>2
    <3>2. inCap = Staying \cap Audios BY <2>2, <3>1
    <3>3. \A f \in Audios : reg[f] # "inserted" BY <1>4
    <3>4. QED BY <3>2, <3>3 DEF MediaInv, CapInv
  <2>3. QED BY <2>1, <2>2
<1>10. D!Total(inCap) <= Cap
  <2>1. \A f \in D!Fetches : reg[f] # "inserted" OBVIOUS
  <2>2. \/ D!Total(Staying) <= Cap
        \/ \E v \in Videos : Staying \subseteq Audios \cup {v} /\ (v \in Staying => Size[v] <= Cap)
    BY <2>1 DEF MediaInv, CapInv
  <2>3. QED BY <1>6, <1>7, <1>9, <2>2
<1>11. QED BY <1>2, <1>10

\* Whatever uploads, downloads, registrations, readers and sweeps overlap, an entry
\* has its file, a live download keeps its directory, the cap holds but for a
\* video's audios, and a sweep of a quiet store leaves nothing on disk; for any
\* fetches, sizes, cap, walls and slots.
THEOREM MediaIsAccounted == StoresSpec => []MediaAccounted
<1>1. MediaInv => MediaAccounted
  <2> SUFFICES ASSUME MediaInv PROVE MediaAccounted OBVIOUS
  <2>1. D!EntriesHaveFiles
    BY ListedFetches DEF MediaInv, FilePlaces, FilePlace, D!EntriesHaveFiles
  <2>2. D!LiveJobsKept
    BY DEF MediaInv, FilePlaces, FilePlace, LiveJob, D!LiveJobsKept, D!Fetches
  <2>3. D!CapHolds BY StoresAssumption, CapFollows
  <2>4. D!QuietSweepClears
    BY DEF MediaInv, MediaTypes, CalmInv, Quiet, D!QuietSweepClears
  <2>5. QED BY <2>1, <2>2, <2>3, <2>4 DEF MediaAccounted
<1>2. QED BY <1>1, MediaInvariance, PTL

(***************************************************************************)
(* The usage tables. What a job's row may hold; each job in the sessions     *)
(* that were counted, once; and the tables as sums, over all names, of what  *)
(* each job is to have put there.                                            *)
(***************************************************************************)

JobKinds == U!Known \cup {"unknown"}
Jobs == [user : Users, kind : JobKinds, hour : U!Hours, words : Int, utterances : Nat,
         reported : Deliveries \cup {U!Awaited, U!Unreported}, app : Apps \cup {U!NoApp},
         targets : SUBSET Langs]
Counts == [sessions : Int, words : Int]
DictatedKeys == U!Hours \X Users \X (Deliveries \cup {U!Unreported})
AppKeys == U!Hours \X Users \X Apps
Sessions == (Users \X Names) \cup ({"request"} \X Nat)

UsageTypes ==
  /\ hour \in U!Hours /\ swept \in Int /\ swept <= hour
  /\ jobs \in [Names -> Jobs \cup {U!NoJob}]
  /\ dictated \in [DictatedKeys -> Counts] /\ apps \in [AppKeys -> Counts]
  /\ targets \in [Langs -> Int] /\ sessions \in Int /\ posted \in Nat
  /\ pruned \in SUBSET (Names \X JobKinds)
  /\ counted \in SUBSET Sessions /\ IsFiniteSet(counted)
  /\ \A c \in counted : c[1] = "request" => c[2] < posted

\* A stub waits for its first utterance with its report; only a dictation is
\* reported, and with the report comes the app.
JobRules(r) ==
  /\ r.utterances = 0 => r.words = 0 /\ r.reported # U!Awaited
  /\ r.reported # U!Awaited => r.kind = "dictation"
  /\ r.app # U!NoApp => r.reported # U!Awaited
  /\ Cardinality(r.targets) <= TargetsMax

JobCounted(j) ==
  /\ U!HasJob(j) => JobRules(jobs[j]) /\ ~U!Dropped(j)
  /\ U!HasJob(j) /\ jobs[j].utterances # 0 => <<jobs[j].user, j>> \in counted
  /\ U!Fresh(j) /\ ~U!Dropped(j) => \A u \in Users : <<u, j>> \notin counted

\* What a job, r, adds to a bucket of the dictations, to one of the apps, to the
\* dictations that were rolled, and to a target.
InBucket(k, r) == r # U!NoJob /\ r.kind = "dictation" /\ r.reported # U!Awaited /\ U!Bucket(r) = k
InApp(k, r) == r # U!NoJob /\ <<r.hour, r.user, r.app>> = k
Rolled(r) == r # U!NoJob /\ r.kind = "dictation" /\ r.reported # U!Awaited
HasTarget(l, r) == r # U!NoJob /\ l \in r.targets
BucketOne(k, r) == IF InBucket(k, r) THEN 1 ELSE 0
BucketWords(k, r) == IF InBucket(k, r) THEN r.words ELSE 0
AppOne(k, r) == IF InApp(k, r) THEN 1 ELSE 0
AppWords(k, r) == IF InApp(k, r) THEN r.words ELSE 0
RolledOne(r) == IF Rolled(r) THEN 1 ELSE 0
TargetOne(l, r) == IF HasTarget(l, r) THEN 1 ELSE 0

BucketOnes(k, js) == [n \in Names |-> BucketOne(k, js[n])]
BucketSums(k, js) == [n \in Names |-> BucketWords(k, js[n])]
AppOnes(k, js) == [n \in Names |-> AppOne(k, js[n])]
AppSums(k, js) == [n \in Names |-> AppWords(k, js[n])]
TargetOnes(l, js) == [n \in Names |-> TargetOne(l, js[n])]
PrunedOne(n, pr) == IF <<n, "dictation">> \in pr THEN 1 ELSE 0
RolledOnes(js, pr) == [n \in Names |-> RolledOne(js[n]) + PrunedOne(n, pr)]
SessionsOf(table) == [k \in DictatedKeys |-> table[k].sessions]
Jobless(cs) == {c \in cs : c[1] = "request"}

DictatedSums ==
  \A k \in DictatedKeys : k[1] >= swept - JobHours =>
    /\ dictated[k].sessions = SumOf(BucketOnes(k, jobs), Names)
    /\ dictated[k].words = SumOf(BucketSums(k, jobs), Names)
AppsSums ==
  \A k \in AppKeys : k[1] >= swept - JobHours /\ k[1] >= swept - AppHours =>
    /\ apps[k].sessions = SumOf(AppOnes(k, jobs), Names)
    /\ apps[k].words = SumOf(AppSums(k, jobs), Names)
RolledSum == SumOf(SessionsOf(dictated), DictatedKeys) = SumOf(RolledOnes(jobs, pruned), Names)
TargetsSums ==
  \A l \in Langs :
    /\ SumOf(TargetOnes(l, jobs), Names) <= targets[l]
    /\ targets[l] <= SumOf(TargetOnes(l, jobs), Names) + Cardinality(pruned)
                       + Cardinality(Jobless(counted))

Tables == DictatedSums /\ AppsSums /\ RolledSum
UsageInv ==
  /\ UsageTypes /\ (\A j \in Names : JobCounted(j)) /\ sessions = Cardinality(counted)
  /\ Tables /\ TargetsSums

\* A job's row is not the absence of one.
LEMMA JobsAreJobs == \A r \in Jobs : r # U!NoJob
<1> SUFFICES ASSUME NEW r \in Jobs, r = U!NoJob PROVE FALSE OBVIOUS
<1>1. DOMAIN r = {"user", "kind", "hour", "words", "utterances", "reported", "app", "targets"}
  BY DEF Jobs
<1>2. DOMAIN U!NoJob = {"user"} BY DEF U!NoJob
<1>3. "kind" \in DOMAIN r BY <1>1
<1>4. "kind" \notin DOMAIN U!NoJob BY <1>2
<1>5. QED BY <1>3, <1>4

\* The size of a set is the one that UsageStore counts.
LEMMA UsageCardinality == \A S : U!Cardinality(S) = Cardinality(S)
BY DEF U!Cardinality, Cardinality

\* A row's job is one, and there is a row for every other.
LEMMA JobOf ==
  ASSUME UsageTypes, NEW n \in Names
  PROVE  /\ U!HasJob(n) => jobs[n] \in Jobs
         /\ ~U!HasJob(n) => jobs[n] = U!NoJob
BY DEF UsageTypes, U!HasJob

\* Adding to one bucket of a table.
LEMMA AddDoes ==
  ASSUME NEW K, NEW table \in [K -> Counts], NEW key \in K, NEW n \in Int, NEW w \in Int,
         NEW r, r = U!Add(table, key, n, w)
  PROVE  /\ r \in [K -> Counts]
         /\ \A k \in K : /\ r[k].sessions = table[k].sessions + (IF k = key THEN n ELSE 0)
                         /\ r[k].words = table[k].words + (IF k = key THEN w ELSE 0)
<1>1. table[key] \in Counts /\ table[key].sessions \in Int /\ table[key].words \in Int
  BY DEF Counts
<1> DEFINE more == [table EXCEPT ![key].sessions = @ + n]
<1>2. /\ more \in [K -> Counts]
      /\ more[key].sessions = table[key].sessions + n /\ more[key].words = table[key].words
      /\ \A k \in K \ {key} : more[k] = table[k]
  BY <1>1 DEF Counts
<1>3. r = [more EXCEPT ![key].words = @ + w] BY DEF U!Add
<1> HIDE DEF more
<1>4. more[key] \in Counts /\ more[key].words \in Int BY <1>2 DEF Counts
<1>5. /\ r \in [K -> Counts]
      /\ r[key].sessions = more[key].sessions /\ r[key].words = more[key].words + w
      /\ \A k \in K \ {key} : r[k] = more[k]
  BY <1>2, <1>3, <1>4 DEF Counts
<1>6. \A k \in K : table[k].sessions \in Int /\ table[k].words \in Int BY DEF Counts
<1>7. QED BY <1>2, <1>5, <1>6

\* A job's targets are as many as its row keeps.
LEMMA NewTargetsDoes ==
  ASSUME StoresAssumption, NEW r, r.targets \in SUBSET Langs,
         Cardinality(r.targets) <= TargetsMax, NEW ls \in SUBSET Langs,
         NEW more, more = U!NewTargets(r, ls)
  PROVE  /\ more \in SUBSET (ls \ r.targets)
         /\ Cardinality(r.targets \cup more) <= TargetsMax
<1>1. PICK had : had = r.targets OBVIOUS
<1>2. PICK fresh : fresh = ls \ had OBVIOUS
<1>3. IsFiniteSet(fresh) /\ IsFiniteSet(had) BY <1>1, <1>2, FS_Subset DEF StoresAssumption
<1>4. PICK n \in Nat : n = Cardinality(fresh) BY <1>3, FS_CardinalityType
<1>5. PICK h \in Nat : h = Cardinality(had) BY <1>3, FS_CardinalityType
<1>6. TargetsMax \in Nat /\ h <= TargetsMax BY <1>1, <1>5 DEF StoresAssumption
<1>7. PICK m \in Nat : m = TargetsMax - h BY <1>6
<1>10. PICK room : room = IF n < m THEN n ELSE m OBVIOUS
<1>11. room \in {n, m} /\ room <= n /\ room <= m BY <1>4, <1>7, <1>10
<1>12. room \in Nat BY <1>11
<1>13. more = CHOOSE T \in SUBSET fresh : U!Cardinality(T) = room
  <2>1. n = U!Cardinality(ls \ r.targets) /\ m = TargetsMax - U!Cardinality(r.targets)
    BY <1>1, <1>2, <1>4, <1>5, <1>7, UsageCardinality
  <2>2. QED BY <1>1, <1>2, <1>10, <2>1 DEF U!NewTargets
<1>14. \E T \in SUBSET fresh : U!Cardinality(T) = room
  BY <1>3, <1>4, <1>11, <1>12, SubsetOfSize, UsageCardinality
<1>15. more \in SUBSET fresh /\ Cardinality(more) = room BY <1>13, <1>14, UsageCardinality
<1>16. IsFiniteSet(more) /\ had \cap more = {} BY <1>2, <1>3, <1>15, FS_Subset
<1>17. Cardinality(had \cup more) = h + room
  <2>1. Cardinality(had \cap more) = 0 BY <1>16, FS_EmptySet
  <2>2. Cardinality(had \cup more) = Cardinality(had) + Cardinality(more) - Cardinality(had \cap more)
    BY <1>3, <1>16, FS_Union
  <2>3. Cardinality(had \cup more) = h + room - 0 BY <1>5, <1>15, <2>1, <2>2
  <2>4. QED BY <1>12, <2>3
<1>18. Cardinality(had \cup more) <= TargetsMax BY <1>6, <1>7, <1>11, <1>12, <1>17
<1>19. QED BY <1>1, <1>2, <1>15, <1>18

JobRows == Jobs \cup {U!NoJob}

\* There are finitely many jobs and buckets.
LEMMA UsageFinite ==
  ASSUME StoresAssumption
  PROVE  IsFiniteSet(Names) /\ IsFiniteSet(DictatedKeys) /\ IsFiniteSet(AppKeys)
<1>1. IsFiniteSet(U!Hours) BY FS_Interval DEF StoresAssumption, U!Hours
<1>2. IsFiniteSet(Deliveries \cup {U!Unreported})
  BY FS_AddElement DEF StoresAssumption
<1>3. IsFiniteSet(Users) /\ IsFiniteSet(Apps) /\ IsFiniteSet(Names) BY DEF StoresAssumption
<1>4. IsFiniteSet(U!Hours \X Users) BY <1>1, <1>3, FS_Product
<1>5. IsFiniteSet((U!Hours \X Users) \X Apps)
  BY <1>3, <1>4, FS_Product
<1>6. IsFiniteSet((U!Hours \X Users) \X (Deliveries \cup {U!Unreported}))
  BY <1>2, <1>4, FS_Product
<1>7. ASSUME NEW Z, IsFiniteSet((U!Hours \X Users) \X Z)
      PROVE  IsFiniteSet(U!Hours \X Users \X Z)
  <2> DEFINE f == [p \in (U!Hours \X Users) \X Z |-> <<p[1][1], p[1][2], p[2]>>]
  <2>1. f \in Surjection((U!Hours \X Users) \X Z, U!Hours \X Users \X Z)
    <3>1. f \in [(U!Hours \X Users) \X Z -> U!Hours \X Users \X Z] OBVIOUS
    <3>2. ASSUME NEW k \in U!Hours \X Users \X Z
          PROVE  \E p \in (U!Hours \X Users) \X Z : f[p] = k
      <4>1. <<<<k[1], k[2]>>, k[3]>> \in (U!Hours \X Users) \X Z OBVIOUS
      <4>2. f[<<<<k[1], k[2]>>, k[3]>>] = <<k[1], k[2], k[3]>> BY <4>1
      <4>3. QED BY <4>1, <4>2
    <3>3. QED BY <3>1, <3>2 DEF Surjection
  <2> HIDE DEF f
  <2>2. QED BY <1>7, <2>1, FS_Surjection
<1>8. QED BY <1>3, <1>5, <1>6, <1>7 DEF DictatedKeys, AppKeys

\* What a job counts are numbers.
LEMMA CountedInts ==
  ASSUME NEW r \in JobRows, NEW k
  PROVE  /\ BucketOne(k, r) \in {0, 1} /\ BucketWords(k, r) \in Int
         /\ AppOne(k, r) \in {0, 1} /\ AppWords(k, r) \in Int
         /\ TargetOne(k, r) \in {0, 1} /\ RolledOne(r) \in {0, 1}
<1>1. r # U!NoJob => r.words \in Int BY DEF JobRows, Jobs
<1>2. BucketWords(k, r) \in Int BY <1>1 DEF BucketWords, InBucket
<1>3. AppWords(k, r) \in Int BY <1>1 DEF AppWords, InApp
<1>4. BucketOne(k, r) \in {0, 1} /\ AppOne(k, r) \in {0, 1} BY DEF BucketOne, AppOne
<1>5. TargetOne(k, r) \in {0, 1} /\ RolledOne(r) \in {0, 1} BY DEF TargetOne, RolledOne
<1>6. QED BY <1>2, <1>3, <1>4, <1>5

\* A job's buckets are in the tables.
LEMMA BucketsThere ==
  ASSUME NEW r \in Jobs
  PROVE  /\ r.reported # U!Awaited => U!Bucket(r) \in DictatedKeys
         /\ r.app \in Apps => <<r.hour, r.user, r.app>> \in AppKeys
BY DEF Jobs, U!Bucket, DictatedKeys, AppKeys

\* A job that was rolled is in one bucket.
LEMMA OneBucket ==
  ASSUME StoresAssumption, NEW r \in JobRows,
         NEW G, G = [k \in DictatedKeys |-> BucketOne(k, r)]
  PROVE  SumOf(G, DictatedKeys) = RolledOne(r)
<1> DEFINE T == {k \in DictatedKeys : InBucket(k, r)}
<1>1. \A k \in DictatedKeys : G[k] = IF k \in T THEN 1 ELSE 0 BY DEF BucketOne
<1>2. SumOf(G, DictatedKeys) = Cardinality(T) BY <1>1, UsageFinite, SumOnes
<1>3. CASE Rolled(r)
  <2>1. r \in Jobs /\ r.reported # U!Awaited BY <1>3 DEF Rolled, JobRows
  <2>2. T = {U!Bucket(r)} BY <1>3, <2>1, BucketsThere DEF Rolled, InBucket
  <2>3. Cardinality(T) = 1 BY <2>2, FS_Singleton
  <2>4. QED BY <1>2, <1>3, <2>3 DEF RolledOne
<1>4. CASE ~Rolled(r)
  <2>1. T = {} BY <1>4 DEF Rolled, InBucket
  <2>2. Cardinality(T) = 0 BY <2>1, FS_EmptySet
  <2>3. QED BY <1>2, <1>4, <2>2 DEF RolledOne
<1>5. QED BY <1>3, <1>4

\* A function of the jobs changes its sum by what it changes for the one job that moves.
LEMMA SumMoves ==
  ASSUME StoresAssumption, NEW F, NEW G, NEW j \in Names,
         \A n \in Names : F[n] \in Int, \A n \in Names : G[n] \in Int,
         \A n \in Names \ {j} : G[n] = F[n]
  PROVE  SumOf(G, Names) = SumOf(F, Names) + (G[j] - F[j])
<1>1. IsFiniteSet(Names) BY DEF StoresAssumption
<1>2. QED BY <1>1, SumChange

\* A job's first row.
LEMMA NewJobDoes ==
  ASSUME UsageTypes, NEW u \in Users, NEW k, NEW w \in Int, NEW r, r = U!NewJob(u, k, w)
  PROVE  /\ r \in Jobs
         /\ r.user = u /\ r.hour = hour /\ r.words = w /\ r.utterances = 1
         /\ r.reported = U!Awaited /\ r.app = U!NoApp /\ r.targets = {}
         /\ r.kind = IF k \in U!Known THEN k ELSE "unknown"
<1>1. hour \in U!Hours BY DEF UsageTypes
<1>2. (IF k \in U!Known THEN k ELSE "unknown") \in JobKinds BY DEF JobKinds
<1>3. QED BY <1>1, <1>2 DEF U!NewJob, Jobs

\* The row an utterance is summed in, before its targets.
LEMMA SummedDoes ==
  ASSUME UsageTypes, NEW u \in Users, NEW j \in Names, NEW k, NEW w \in {0, 1},
         U!HasJob(j) => JobRules(jobs[j]), U!Mine(u, j),
         NEW s, s = U!Summed(u, j, k, w)
  PROVE  /\ s \in Jobs /\ s.user = u /\ s.utterances # 0
         /\ ~U!HasJob(j) => s.targets = {}
         /\ U!HasJob(j) => s.targets = jobs[j].targets
         /\ ~U!HasJob(j) \/ U!TakenOver(j, k) => s.reported = U!Awaited /\ s.app = U!NoApp
         /\ U!HasJob(j) /\ ~U!TakenOver(j, k) =>
              /\ s.kind = jobs[j].kind /\ s.hour = jobs[j].hour
              /\ s.reported = jobs[j].reported /\ s.app = jobs[j].app
              /\ s.words = jobs[j].words + w
<1>1. PICK n : n = U!NewJob(u, k, w) OBVIOUS
<1>2. /\ n \in Jobs /\ n.user = u /\ n.utterances = 1
      /\ n.reported = U!Awaited /\ n.app = U!NoApp /\ n.targets = {}
  BY <1>1, NewJobDoes
<1>3. CASE ~U!HasJob(j)
  <2>1. s = n BY <1>1, <1>3 DEF U!Summed
  <2>2. QED BY <1>2, <1>3, <2>1
<1>4. CASE U!TakenOver(j, k)
  <2>1. U!HasJob(j) /\ jobs[j] \in Jobs BY <1>4, JobOf DEF U!TakenOver
  <2>2. s = [n EXCEPT !.targets = jobs[j].targets] BY <1>1, <1>4, <2>1 DEF U!Summed
  <2>3. jobs[j].targets \in SUBSET Langs BY <2>1 DEF Jobs
  <2>4. /\ s \in Jobs /\ s.user = u /\ s.utterances = 1 /\ s.targets = jobs[j].targets
        /\ s.reported = U!Awaited /\ s.app = U!NoApp
    BY <1>2, <2>2, <2>3 DEF Jobs
  <2>5. QED BY <1>4, <2>1, <2>4
<1>5. CASE U!HasJob(j) /\ ~U!TakenOver(j, k)
  <2>1. jobs[j] \in Jobs /\ jobs[j].user = u BY <1>5, JobOf DEF U!Mine
  <2>2. s = [jobs[j] EXCEPT !.words = @ + w, !.utterances = @ + 1] BY <1>5 DEF U!Summed
  <2>3. jobs[j].words \in Int /\ jobs[j].utterances \in Nat BY <2>1 DEF Jobs
  <2>4. /\ s \in Jobs /\ s.user = u /\ s.utterances = jobs[j].utterances + 1
        /\ s.words = jobs[j].words + w /\ s.targets = jobs[j].targets
        /\ s.kind = jobs[j].kind /\ s.hour = jobs[j].hour
        /\ s.reported = jobs[j].reported /\ s.app = jobs[j].app
    <3>1. PICK t : t = [jobs[j] EXCEPT !.words = @ + w] OBVIOUS
    <3>2. /\ t \in Jobs /\ t.user = u /\ t.utterances = jobs[j].utterances
          /\ t.words = jobs[j].words + w /\ t.targets = jobs[j].targets
          /\ t.kind = jobs[j].kind /\ t.hour = jobs[j].hour
          /\ t.reported = jobs[j].reported /\ t.app = jobs[j].app
      BY <2>1, <2>3, <3>1 DEF Jobs
    <3>3. s = [t EXCEPT !.utterances = @ + 1] BY <2>2, <3>1
    <3>4. /\ s \in Jobs /\ s.user = t.user /\ s.utterances = t.utterances + 1
          /\ s.words = t.words /\ s.targets = t.targets /\ s.kind = t.kind /\ s.hour = t.hour
          /\ s.reported = t.reported /\ s.app = t.app
      BY <2>3, <3>2, <3>3 DEF Jobs
    <3>5. QED BY <3>2, <3>4
  <2>5. QED BY <1>5, <2>3, <2>4
<1>6. QED BY <1>3, <1>4, <1>5

\* The row it leaves, r, with the targets it keeps: those it had and more.
RowOf(u, j, k, w, had, more, r) ==
  /\ jobs' = [jobs EXCEPT ![j] = r] /\ r.user = u /\ r.utterances # 0
  /\ U!CountTargets(more)
  /\ r.targets = had \cup more /\ had \cap more = {} /\ Cardinality(r.targets) <= TargetsMax
  /\ ~U!HasJob(j) \/ U!TakenOver(j, k) => r.reported = U!Awaited /\ r.app = U!NoApp
  /\ U!HasJob(j) /\ ~U!TakenOver(j, k) =>
       /\ r.kind = jobs[j].kind /\ r.hour = jobs[j].hour
       /\ r.reported = jobs[j].reported /\ r.app = jobs[j].app
       /\ r.words = jobs[j].words + w

\* The row that a request leaves for its job.
LEMMA RecordJobRow ==
  ASSUME StoresAssumption, UsageTypes, NEW u \in Users, NEW j \in Names, NEW k, NEW w \in {0, 1},
         NEW ls \in SUBSET Langs, U!HasJob(j) => JobRules(jobs[j]), U!RecordJob(u, j, k, w, ls),
         NEW had, had = IF U!HasJob(j) THEN jobs[j].targets ELSE {}
  PROVE  \E r \in Jobs, more \in SUBSET Langs : RowOf(u, j, k, w, had, more, r)
<1>1. PICK s : s = U!Summed(u, j, k, w) OBVIOUS
<1>2. U!Mine(u, j) BY DEF U!RecordJob
<1>3. /\ s \in Jobs /\ s.user = u /\ s.utterances # 0
      /\ ~U!HasJob(j) => s.targets = {}
      /\ U!HasJob(j) => s.targets = jobs[j].targets
      /\ ~U!HasJob(j) \/ U!TakenOver(j, k) => s.reported = U!Awaited /\ s.app = U!NoApp
      /\ U!HasJob(j) /\ ~U!TakenOver(j, k) =>
           /\ s.kind = jobs[j].kind /\ s.hour = jobs[j].hour
           /\ s.reported = jobs[j].reported /\ s.app = jobs[j].app
           /\ s.words = jobs[j].words + w
  BY <1>1, <1>2, SummedDoes
<1>4. PICK more : more = U!NewTargets(s, ls) OBVIOUS
<1>5. s.targets = had BY <1>3
<1>6. s.targets \in SUBSET Langs BY <1>3 DEF Jobs
<1>7. Cardinality(s.targets) <= TargetsMax
  <2>1. CASE U!HasJob(j) BY <1>3, <2>1 DEF JobRules
  <2>2. CASE ~U!HasJob(j)
    <3>1. s.targets = {} BY <1>3, <2>2
    <3>2. Cardinality({}) = 0 BY FS_EmptySet
    <3>3. TargetsMax \in Nat BY DEF StoresAssumption
    <3>4. QED BY <3>1, <3>2, <3>3
  <2>3. QED BY <2>1, <2>2
<1>8. more \in SUBSET (ls \ s.targets) /\ Cardinality(s.targets \cup more) <= TargetsMax
  BY <1>4, <1>6, <1>7, NewTargetsDoes
<1>9. PICK r : r = [s EXCEPT !.targets = @ \cup more] OBVIOUS
<1>10. jobs' = [jobs EXCEPT ![j] = r] /\ U!CountTargets(more)
  BY <1>1, <1>4, <1>9 DEF U!RecordJob
<1>11. /\ r \in Jobs /\ r.targets = s.targets \cup more
       /\ r.user = s.user /\ r.utterances = s.utterances /\ r.reported = s.reported
       /\ r.app = s.app /\ r.kind = s.kind /\ r.hour = s.hour /\ r.words = s.words
  BY <1>3, <1>6, <1>8, <1>9 DEF Jobs
<1>12. more \in SUBSET Langs /\ had \cap more = {} BY <1>5, <1>8
<1>13. r.targets = had \cup more /\ Cardinality(r.targets) <= TargetsMax BY <1>5, <1>8, <1>11
<1>14. QED BY <1>3, <1>10, <1>11, <1>12, <1>13 DEF RowOf

\* A target a request is to count.
LEMMA CountTargetsDoes ==
  ASSUME UsageTypes, NEW T \in SUBSET Langs, U!CountTargets(T)
  PROVE  /\ targets' \in [Langs -> Int]
         /\ \A l \in Langs : targets'[l] = targets[l] + (IF l \in T THEN 1 ELSE 0)
BY DEF UsageTypes, U!CountTargets

\* A job's bucket of the dictations.
LEMMA AddDictatedDoes ==
  ASSUME UsageTypes, NEW r \in Jobs, r.reported # U!Awaited, NEW n \in Int, NEW w \in Int,
         U!AddDictated(r, n, w)
  PROVE  /\ dictated' \in [DictatedKeys -> Counts]
         /\ \A k \in DictatedKeys :
              /\ dictated'[k].sessions
                   = dictated[k].sessions + (IF k = U!Bucket(r) THEN n ELSE 0)
              /\ dictated'[k].words = dictated[k].words + (IF k = U!Bucket(r) THEN w ELSE 0)
<1>1. U!Bucket(r) \in DictatedKeys BY BucketsThere
<1>2. dictated \in [DictatedKeys -> Counts] BY DEF UsageTypes
<1>3. dictated' = U!Add(dictated, U!Bucket(r), n, w) BY DEF U!AddDictated
<1>4. PICK key \in DictatedKeys : key = U!Bucket(r) BY <1>1
<1>5. /\ dictated' \in [DictatedKeys -> Counts]
      /\ \A k \in DictatedKeys :
           /\ dictated'[k].sessions = dictated[k].sessions + (IF k = key THEN n ELSE 0)
           /\ dictated'[k].words = dictated[k].words + (IF k = key THEN w ELSE 0)
  BY <1>2, <1>3, <1>4, AddDoes
<1>6. QED BY <1>4, <1>5

\* A job's bucket of the apps, if it has one.
LEMMA AddAppDoes ==
  ASSUME UsageTypes, NEW r \in Jobs, NEW n \in Int, NEW w \in Int, U!AddApp(r, n, w)
  PROVE  /\ apps' \in [AppKeys -> Counts]
         /\ \A k \in AppKeys :
              /\ apps'[k].sessions
                   = apps[k].sessions + (IF <<r.hour, r.user, r.app>> = k THEN n ELSE 0)
              /\ apps'[k].words
                   = apps[k].words + (IF <<r.hour, r.user, r.app>> = k THEN w ELSE 0)
<1>1. PICK key : key = <<r.hour, r.user, r.app>> OBVIOUS
<1>2. apps \in [AppKeys -> Counts] BY DEF UsageTypes
<1>3. CASE r.app \in Apps
  <2>1. key \in AppKeys BY <1>1, <1>3, BucketsThere
  <2>2. apps' = U!Add(apps, key, n, w) BY <1>1, <1>3 DEF U!AddApp
  <2>3. /\ apps' \in [AppKeys -> Counts]
        /\ \A k \in AppKeys :
             /\ apps'[k].sessions = apps[k].sessions + (IF k = key THEN n ELSE 0)
             /\ apps'[k].words = apps[k].words + (IF k = key THEN w ELSE 0)
    BY <1>2, <2>1, <2>2, AddDoes
  <2>4. QED BY <1>1, <2>3
<1>4. CASE r.app \notin Apps
  <2>1. apps' = apps BY <1>4 DEF U!AddApp
  <2>2. \A k \in AppKeys : key # k BY <1>1, <1>4 DEF AppKeys
  <2>3. \A k \in AppKeys : apps[k].sessions \in Int /\ apps[k].words \in Int
    BY <1>2 DEF Counts
  <2>4. QED BY <1>1, <1>2, <2>1, <2>2, <2>3
<1>5. QED BY <1>3, <1>4

\* A session that is counted.
LEMMA CountDoes ==
  ASSUME UsageTypes, NEW c \in Sessions, U!Count(c), posted' \in Nat, posted <= posted',
         c[1] = "request" => c[2] < posted'
  PROVE  /\ counted' \in SUBSET Sessions /\ IsFiniteSet(counted')
         /\ \A d \in counted' : d[1] = "request" => d[2] < posted'
         /\ Cardinality(counted') = Cardinality(counted) + (IF c \in counted THEN 0 ELSE 1)
<1>1. counted' = counted \cup {c} BY DEF U!Count
<1>2. counted \in SUBSET Sessions /\ IsFiniteSet(counted) BY DEF UsageTypes
<1>3. \A d \in counted : d[1] = "request" => d[2] < posted BY DEF UsageTypes
<1>4. \A d \in Sessions : d[1] = "request" => d[2] \in Nat
  <2> SUFFICES ASSUME NEW d \in Sessions, d[1] = "request" PROVE d[2] \in Nat OBVIOUS
  <2>1. CASE d \in Users \X Names
    <3>1. d[1] \in Users BY <2>1
    <3>2. QED BY <3>1, StoresAssumption DEF StoresAssumption
  <2>2. CASE d \in {"request"} \X Nat BY <2>2
  <2>3. QED BY <2>1, <2>2 DEF Sessions
<1>5. posted \in Nat BY DEF UsageTypes
<1>6. \A d \in counted' : d[1] = "request" => d[2] < posted'
  BY <1>1, <1>2, <1>3, <1>4, <1>5
<1>7. /\ IsFiniteSet(counted \cup {c})
      /\ Cardinality(counted \cup {c})
           = IF c \in counted THEN Cardinality(counted) ELSE Cardinality(counted) + 1
  BY <1>2, FS_AddElement
<1>8. Cardinality(counted) \in Nat BY <1>2, FS_CardinalityType
<1>9. QED BY <1>1, <1>2, <1>6, <1>7, <1>8

\* A request that has no job of its own.
LEMMA CountRequest ==
  ASSUME UsageTypes, U!Count(<<"request", posted>>), posted' = posted + 1
  PROVE  /\ counted' \in SUBSET Sessions /\ IsFiniteSet(counted')
         /\ \A d \in counted' : d[1] = "request" => d[2] < posted'
         /\ Cardinality(counted') = Cardinality(counted) + 1
         /\ Cardinality(Jobless(counted')) = Cardinality(Jobless(counted)) + 1
         /\ \A u \in Users : \A n : <<u, n>> \in counted' <=> <<u, n>> \in counted
<1>1. PICK c : c = <<"request", posted>> OBVIOUS
<1>2. posted \in Nat BY DEF UsageTypes
<1>3. c \in Sessions /\ c[1] = "request" /\ c[2] = posted BY <1>1, <1>2 DEF Sessions
<1>4. counted' = counted \cup {c} BY <1>1 DEF U!Count
<1>5. c \notin counted
  <2>1. \A d \in counted : d[1] = "request" => d[2] < posted BY DEF UsageTypes
  <2>2. ~(posted < posted) BY <1>2
  <2>3. QED BY <1>3, <2>1, <2>2
<1>6. /\ counted' \in SUBSET Sessions /\ IsFiniteSet(counted')
      /\ \A d \in counted' : d[1] = "request" => d[2] < posted'
      /\ Cardinality(counted') = Cardinality(counted) + 1
  <2>1. U!Count(c) BY <1>1
  <2>2. posted' \in Nat /\ posted <= posted' /\ c[2] < posted' BY <1>2, <1>3
  <2>3. QED BY <1>3, <1>5, <2>1, <2>2, CountDoes
<1>7. Jobless(counted') = Jobless(counted) \cup {c} BY <1>3, <1>4 DEF Jobless
<1>8. IsFiniteSet(Jobless(counted)) BY FS_Subset DEF UsageTypes, Jobless
<1>9. c \notin Jobless(counted) BY <1>5 DEF Jobless
<1>10. Cardinality(Jobless(counted) \cup {c}) = Cardinality(Jobless(counted)) + 1
  BY <1>8, <1>9, FS_AddElement
<1>11. \A u \in Users : \A n : <<u, n>> # c
  <2>1. "request" \notin Users BY StoresAssumption DEF StoresAssumption
  <2>2. QED BY <1>3, <2>1
<1>12. \A u \in Users : \A n : <<u, n>> \in counted' <=> <<u, n>> \in counted BY <1>4, <1>11
<1>13. QED BY <1>6, <1>7, <1>10, <1>12

\* A user's job.
LEMMA CountJob ==
  ASSUME UsageTypes, NEW u \in Users, NEW j \in Names, U!Count(<<u, j>>), posted' = posted + 1
  PROVE  /\ counted' \in SUBSET Sessions /\ IsFiniteSet(counted')
         /\ \A d \in counted' : d[1] = "request" => d[2] < posted'
         /\ Cardinality(counted')
              = Cardinality(counted) + (IF <<u, j>> \in counted THEN 0 ELSE 1)
         /\ Jobless(counted') = Jobless(counted)
<1>1. PICK c : c = <<u, j>> OBVIOUS
<1>2. c[1] = u /\ c \in Sessions BY <1>1 DEF Sessions
<1>3. "request" \notin Users BY StoresAssumption DEF StoresAssumption
<1>4. posted' \in Nat /\ posted <= posted' BY DEF UsageTypes
<1>5. U!Count(c) /\ counted' = counted \cup {c} BY <1>1 DEF U!Count
<1>6. /\ counted' \in SUBSET Sessions /\ IsFiniteSet(counted')
      /\ \A d \in counted' : d[1] = "request" => d[2] < posted'
      /\ Cardinality(counted') = Cardinality(counted) + (IF c \in counted THEN 0 ELSE 1)
  BY <1>2, <1>3, <1>4, <1>5, CountDoes
<1>7. Jobless(counted') = Jobless(counted) BY <1>2, <1>3, <1>5 DEF Jobless
<1>8. QED BY <1>1, <1>6, <1>7

\* What a job counts, in terms of its row.
LEMMA RowValues ==
  ASSUME NEW r \in Jobs
  PROVE  /\ r.kind = "dictation" /\ r.reported # U!Awaited =>
              \A k : /\ BucketOne(k, r) = IF k = U!Bucket(r) THEN 1 ELSE 0
                     /\ BucketWords(k, r) = IF k = U!Bucket(r) THEN r.words ELSE 0
         /\ r.reported = U!Awaited => \A k : BucketOne(k, r) = 0 /\ BucketWords(k, r) = 0
         /\ \A k : /\ AppOne(k, r) = IF <<r.hour, r.user, r.app>> = k THEN 1 ELSE 0
                   /\ AppWords(k, r) = IF <<r.hour, r.user, r.app>> = k THEN r.words ELSE 0
         /\ r.app = U!NoApp => \A k \in AppKeys : AppOne(k, r) = 0 /\ AppWords(k, r) = 0
         /\ \A l : TargetOne(l, r) = IF l \in r.targets THEN 1 ELSE 0
<1>1. r # U!NoJob BY JobsAreJobs
<1>2. r.app = U!NoApp => \A k \in AppKeys : <<r.hour, r.user, r.app>> # k
  <2>1. U!NoApp \notin Apps BY StoresAssumption DEF StoresAssumption, U!NoApp
  <2>2. QED BY <2>1 DEF AppKeys
<1>3. r.app = U!NoApp => \A k \in AppKeys : AppOne(k, r) = 0 /\ AppWords(k, r) = 0
  BY <1>2 DEF AppOne, AppWords, InApp
<1>4. \A k : /\ AppOne(k, r) = IF <<r.hour, r.user, r.app>> = k THEN 1 ELSE 0
             /\ AppWords(k, r) = IF <<r.hour, r.user, r.app>> = k THEN r.words ELSE 0
  BY <1>1 DEF AppOne, AppWords, InApp
<1>5. \A l : TargetOne(l, r) = IF l \in r.targets THEN 1 ELSE 0
  BY <1>1 DEF TargetOne, HasTarget
<1>6. r.reported = U!Awaited => \A k : BucketOne(k, r) = 0 /\ BucketWords(k, r) = 0
  BY DEF BucketOne, BucketWords, InBucket
<1>7. r.kind = "dictation" /\ r.reported # U!Awaited =>
        \A k : /\ BucketOne(k, r) = IF k = U!Bucket(r) THEN 1 ELSE 0
               /\ BucketWords(k, r) = IF k = U!Bucket(r) THEN r.words ELSE 0
  BY <1>1 DEF BucketOne, BucketWords, InBucket
<1>8. QED BY <1>3, <1>4, <1>5, <1>6, <1>7

\* A job that is not there adds nothing.
LEMMA NoValues ==
  \A k : /\ BucketOne(k, U!NoJob) = 0 /\ BucketWords(k, U!NoJob) = 0
         /\ AppOne(k, U!NoJob) = 0 /\ AppWords(k, U!NoJob) = 0
         /\ TargetOne(k, U!NoJob) = 0
BY DEF BucketOne, BucketWords, InBucket, AppOne, AppWords, InApp, TargetOne, HasTarget

\* What was pruned and the requests without a job are finitely many.
LEMMA LimitsFinite ==
  ASSUME StoresAssumption, UsageTypes
  PROVE  /\ IsFiniteSet(pruned) /\ IsFiniteSet(Jobless(counted))
         /\ Cardinality(pruned) \in Nat /\ Cardinality(Jobless(counted)) \in Nat
<1>1. IsFiniteSet(Jobless(counted)) BY FS_Subset DEF UsageTypes, Jobless
<1>2. JobKinds = {"dictation"} \cup {"file"} \cup {"unknown"} BY DEF JobKinds, U!Known
<1>3. IsFiniteSet(JobKinds) BY <1>2, FS_Singleton, FS_Union
<1>4. IsFiniteSet(Names \X JobKinds) BY <1>3, FS_Product DEF StoresAssumption
<1>5. IsFiniteSet(pruned) BY <1>4, FS_Subset DEF UsageTypes
<1>6. QED BY <1>1, <1>5, FS_CardinalityType

\* A step that moves the targets of one job.
LEMMA TargetsMove ==
  ASSUME StoresAssumption, UsageTypes, UsageTypes', TargetsSums, NEW j \in Names,
         pruned' = pruned, \A n \in Names \ {j} : jobs'[n] = jobs[n],
         Jobless(counted') = Jobless(counted), NEW p, p = jobs[j], NEW q, q = jobs'[j],
         \A l \in Langs : targets'[l] = targets[l] + (TargetOne(l, q) - TargetOne(l, p))
  PROVE  TargetsSums'
<1>1. \A n \in Names : jobs[n] \in JobRows /\ jobs'[n] \in JobRows BY DEF UsageTypes, JobRows
<1>3. Cardinality(pruned) \in Nat /\ Cardinality(Jobless(counted)) \in Nat BY LimitsFinite
<1>4. ASSUME NEW l \in Langs
      PROVE  /\ SumOf(TargetOnes(l, jobs'), Names) <= targets'[l]
             /\ targets'[l] <= SumOf(TargetOnes(l, jobs'), Names) + Cardinality(pruned)
                                 + Cardinality(Jobless(counted))
  <2>1. PICK F, G : F = TargetOnes(l, jobs) /\ G = TargetOnes(l, jobs') OBVIOUS
  <2>2. \A n \in Names : F[n] \in Int BY <1>1, <2>1, CountedInts DEF TargetOnes
  <2>3. \A n \in Names : G[n] \in Int BY <1>1, <2>1, CountedInts DEF TargetOnes
  <2>4. /\ \A n \in Names \ {j} : G[n] = F[n]
        /\ F[j] = TargetOne(l, p) /\ G[j] = TargetOne(l, q)
    BY <2>1 DEF TargetOnes
  <2>5. SumOf(G, Names) = SumOf(F, Names) + (G[j] - F[j]) BY <2>2, <2>3, <2>4, SumMoves
  <2>6. /\ SumOf(F, Names) <= targets[l]
        /\ targets[l] <= SumOf(F, Names) + Cardinality(pruned) + Cardinality(Jobless(counted))
    BY <2>1 DEF TargetsSums
  <2>7. targets'[l] = targets[l] + (G[j] - F[j]) BY <2>4
  <2>8. SumOf(F, Names) \in Int BY <2>2, UsageFinite, SumAdds
  <2>9. F[j] \in Int /\ G[j] \in Int /\ targets[l] \in Int BY <2>2, <2>3 DEF UsageTypes
  <2>10. /\ SumOf(G, Names) <= targets'[l]
         /\ targets'[l] <= SumOf(G, Names) + Cardinality(pruned) + Cardinality(Jobless(counted))
    BY <1>3, <2>5, <2>6, <2>7, <2>8, <2>9
  <2>11. QED BY <2>1, <2>10
<1>5. QED BY <1>4 DEF TargetsSums

\* A job the step leaves alone.
LEMMA OthersCounted ==
  ASSUME UsageTypes, NEW n \in Names, JobCounted(n), jobs'[n] = jobs[n], pruned' = pruned,
         \A u \in Users : <<u, n>> \in counted' <=> <<u, n>> \in counted
  PROVE  JobCounted(n)'
<1>1. U!HasJob(n) => jobs[n].user \in Users BY JobOf DEF Jobs
<1>2. (U!HasJob(n)' <=> U!HasJob(n)) /\ (U!Dropped(n)' <=> U!Dropped(n))
  BY DEF U!HasJob, U!Dropped
<1>3. U!Fresh(n)' <=> U!Fresh(n) BY <1>2 DEF U!Fresh
<1>4. U!HasJob(n) => JobRules(jobs'[n]) BY DEF JobCounted
<1>5. QED BY <1>1, <1>2, <1>3, <1>4 DEF JobCounted

\* What the tables are to change by when a job's row goes from p to q.
TablesFollow(p, q) ==
  /\ dictated' \in [DictatedKeys -> Counts] /\ apps' \in [AppKeys -> Counts]
  /\ \A k \in DictatedKeys :
       /\ dictated'[k].sessions = dictated[k].sessions + (BucketOne(k, q) - BucketOne(k, p))
       /\ dictated'[k].words = dictated[k].words + (BucketWords(k, q) - BucketWords(k, p))
  /\ \A k \in AppKeys :
       /\ apps'[k].sessions = apps[k].sessions + (AppOne(k, q) - AppOne(k, p))
       /\ apps'[k].words = apps[k].words + (AppWords(k, q) - AppWords(k, p))

\* A stub taken over by a run leaves the tables.
LEMMA UnrollMoves ==
  ASSUME UsageTypes, NEW p \in Jobs, NEW q \in Jobs,
         p.kind = "dictation", p.reported # U!Awaited, p.words = 0,
         q.reported = U!Awaited, q.app = U!NoApp, U!AddDictated(p, -1, 0), U!AddApp(p, -1, 0)
  PROVE  TablesFollow(p, q)
<1>1. /\ dictated' \in [DictatedKeys -> Counts]
      /\ \A k \in DictatedKeys :
           /\ dictated'[k].sessions
                = dictated[k].sessions + (IF k = U!Bucket(p) THEN -1 ELSE 0)
           /\ dictated'[k].words = dictated[k].words + (IF k = U!Bucket(p) THEN 0 ELSE 0)
  BY AddDictatedDoes
<1>2. /\ apps' \in [AppKeys -> Counts]
      /\ \A k \in AppKeys :
           /\ apps'[k].sessions
                = apps[k].sessions + (IF <<p.hour, p.user, p.app>> = k THEN -1 ELSE 0)
           /\ apps'[k].words
                = apps[k].words + (IF <<p.hour, p.user, p.app>> = k THEN 0 ELSE 0)
  BY AddAppDoes
<1>3. \A k : /\ BucketOne(k, p) = IF k = U!Bucket(p) THEN 1 ELSE 0
             /\ BucketWords(k, p) = IF k = U!Bucket(p) THEN p.words ELSE 0
             /\ BucketOne(k, q) = 0 /\ BucketWords(k, q) = 0
  BY RowValues
<1>4. \A k : /\ AppOne(k, p) = IF <<p.hour, p.user, p.app>> = k THEN 1 ELSE 0
             /\ AppWords(k, p) = IF <<p.hour, p.user, p.app>> = k THEN p.words ELSE 0
  BY RowValues
<1>5. \A k \in AppKeys : AppOne(k, q) = 0 /\ AppWords(k, q) = 0 BY RowValues
<1>6. \A k \in DictatedKeys :
        /\ dictated'[k].sessions = dictated[k].sessions + (BucketOne(k, q) - BucketOne(k, p))
        /\ dictated'[k].words = dictated[k].words + (BucketWords(k, q) - BucketWords(k, p))
  BY <1>1, <1>3
<1>7. \A k \in AppKeys :
        /\ apps'[k].sessions = apps[k].sessions + (AppOne(k, q) - AppOne(k, p))
        /\ apps'[k].words = apps[k].words + (AppWords(k, q) - AppWords(k, p))
  BY <1>2, <1>4, <1>5
<1>8. QED BY <1>1, <1>2, <1>6, <1>7 DEF TablesFollow

\* The words of a late utterance go where its job's were put.
LEMMA LateMoves ==
  ASSUME UsageTypes, NEW p \in Jobs, NEW q \in Jobs, NEW w \in Int,
         p.kind = "dictation", p.reported # U!Awaited, q.kind = p.kind,
         q.reported = p.reported, q.hour = p.hour, q.user = p.user, q.app = p.app,
         q.words = p.words + w, U!AddDictated(p, 0, w), U!AddApp(p, 0, w)
  PROVE  TablesFollow(p, q)
<1>1. /\ dictated' \in [DictatedKeys -> Counts]
      /\ \A k \in DictatedKeys :
           /\ dictated'[k].sessions
                = dictated[k].sessions + (IF k = U!Bucket(p) THEN 0 ELSE 0)
           /\ dictated'[k].words = dictated[k].words + (IF k = U!Bucket(p) THEN w ELSE 0)
  BY AddDictatedDoes
<1>2. /\ apps' \in [AppKeys -> Counts]
      /\ \A k \in AppKeys :
           /\ apps'[k].sessions
                = apps[k].sessions + (IF <<p.hour, p.user, p.app>> = k THEN 0 ELSE 0)
           /\ apps'[k].words
                = apps[k].words + (IF <<p.hour, p.user, p.app>> = k THEN w ELSE 0)
  BY AddAppDoes
<1>3. U!Bucket(q) = U!Bucket(p) BY DEF U!Bucket
<1>4. p.words \in Int BY DEF Jobs
<1>5. \A k : /\ BucketOne(k, p) = IF k = U!Bucket(p) THEN 1 ELSE 0
             /\ BucketWords(k, p) = IF k = U!Bucket(p) THEN p.words ELSE 0
  BY RowValues
<1>6. \A k : /\ BucketOne(k, q) = IF k = U!Bucket(p) THEN 1 ELSE 0
             /\ BucketWords(k, q) = IF k = U!Bucket(p) THEN q.words ELSE 0
  BY <1>3, RowValues
<1>7. \A k : /\ AppOne(k, p) = IF <<p.hour, p.user, p.app>> = k THEN 1 ELSE 0
             /\ AppWords(k, p) = IF <<p.hour, p.user, p.app>> = k THEN p.words ELSE 0
  BY RowValues
<1>8. \A k : /\ AppOne(k, q) = IF <<p.hour, p.user, p.app>> = k THEN 1 ELSE 0
             /\ AppWords(k, q) = IF <<p.hour, p.user, p.app>> = k THEN q.words ELSE 0
  BY RowValues
<1>9. \A k \in DictatedKeys :
        /\ dictated'[k].sessions = dictated[k].sessions + (BucketOne(k, q) - BucketOne(k, p))
        /\ dictated'[k].words = dictated[k].words + (BucketWords(k, q) - BucketWords(k, p))
  BY <1>1, <1>4, <1>5, <1>6
<1>10. \A k \in AppKeys :
        /\ apps'[k].sessions = apps[k].sessions + (AppOne(k, q) - AppOne(k, p))
        /\ apps'[k].words = apps[k].words + (AppWords(k, q) - AppWords(k, p))
  BY <1>2, <1>4, <1>7, <1>8
<1>11. QED BY <1>1, <1>2, <1>9, <1>10 DEF TablesFollow

\* A report puts its job in the tables.
LEMMA RollMoves ==
  ASSUME UsageTypes, NEW p \in JobRows, NEW q \in Jobs,
         p # U!NoJob => p.reported = U!Awaited /\ p.app = U!NoApp,
         q.kind = "dictation", q.reported # U!Awaited,
         U!AddDictated(q, 1, q.words), U!AddApp(q, 1, q.words)
  PROVE  TablesFollow(p, q)
<1>1. q.words \in Int BY DEF Jobs
<1>2. /\ dictated' \in [DictatedKeys -> Counts]
      /\ \A k \in DictatedKeys :
           /\ dictated'[k].sessions
                = dictated[k].sessions + (IF k = U!Bucket(q) THEN 1 ELSE 0)
           /\ dictated'[k].words
                = dictated[k].words + (IF k = U!Bucket(q) THEN q.words ELSE 0)
  BY <1>1, AddDictatedDoes
<1>3. /\ apps' \in [AppKeys -> Counts]
      /\ \A k \in AppKeys :
           /\ apps'[k].sessions
                = apps[k].sessions + (IF <<q.hour, q.user, q.app>> = k THEN 1 ELSE 0)
           /\ apps'[k].words
                = apps[k].words + (IF <<q.hour, q.user, q.app>> = k THEN q.words ELSE 0)
  BY <1>1, AddAppDoes
<1>4. p = U!NoJob \/ (p \in Jobs /\ p.reported = U!Awaited /\ p.app = U!NoApp) BY DEF JobRows
<1>5. \A k : BucketOne(k, p) = 0 /\ BucketWords(k, p) = 0 BY <1>4, NoValues, RowValues
<1>6. \A k \in AppKeys : AppOne(k, p) = 0 /\ AppWords(k, p) = 0
  BY <1>4, NoValues, RowValues
<1>7. \A k : /\ BucketOne(k, q) = IF k = U!Bucket(q) THEN 1 ELSE 0
             /\ BucketWords(k, q) = IF k = U!Bucket(q) THEN q.words ELSE 0
  BY RowValues
<1>8. \A k : /\ AppOne(k, q) = IF <<q.hour, q.user, q.app>> = k THEN 1 ELSE 0
             /\ AppWords(k, q) = IF <<q.hour, q.user, q.app>> = k THEN q.words ELSE 0
  BY RowValues
<1>9. \A k \in DictatedKeys :
        /\ dictated'[k].sessions = dictated[k].sessions + (BucketOne(k, q) - BucketOne(k, p))
        /\ dictated'[k].words = dictated[k].words + (BucketWords(k, q) - BucketWords(k, p))
  BY <1>1, <1>2, <1>5, <1>7
<1>10. \A k \in AppKeys :
        /\ apps'[k].sessions = apps[k].sessions + (AppOne(k, q) - AppOne(k, p))
        /\ apps'[k].words = apps[k].words + (AppWords(k, q) - AppWords(k, p))
  BY <1>1, <1>3, <1>6, <1>8
<1>11. QED BY <1>2, <1>3, <1>9, <1>10 DEF TablesFollow

\* Whatever changes of a job that is in no table leaves the tables alone.
LEMMA IdleMoves ==
  ASSUME UsageTypes, NEW p \in JobRows, NEW q \in JobRows,
         \A k : BucketOne(k, q) = BucketOne(k, p) /\ BucketWords(k, q) = BucketWords(k, p),
         \A k \in AppKeys : AppOne(k, q) = AppOne(k, p) /\ AppWords(k, q) = AppWords(k, p),
         dictated' = dictated, apps' = apps
  PROVE  TablesFollow(p, q)
<1>1. \A k \in DictatedKeys : dictated[k].sessions \in Int /\ dictated[k].words \in Int
  BY DEF UsageTypes, Counts
<1>2. \A k \in AppKeys : apps[k].sessions \in Int /\ apps[k].words \in Int
  BY DEF UsageTypes, Counts
<1>3. \A k : /\ BucketOne(k, p) \in Int /\ BucketWords(k, p) \in Int
             /\ AppOne(k, p) \in Int /\ AppWords(k, p) \in Int
  BY CountedInts
<1>4. dictated' \in [DictatedKeys -> Counts] /\ apps' \in [AppKeys -> Counts] BY DEF UsageTypes
<1>5. \A k \in DictatedKeys :
        /\ dictated'[k].sessions = dictated[k].sessions + (BucketOne(k, q) - BucketOne(k, p))
        /\ dictated'[k].words = dictated[k].words + (BucketWords(k, q) - BucketWords(k, p))
  BY <1>1, <1>3
<1>6. \A k \in AppKeys :
        /\ apps'[k].sessions = apps[k].sessions + (AppOne(k, q) - AppOne(k, p))
        /\ apps'[k].words = apps[k].words + (AppWords(k, q) - AppWords(k, p))
  BY <1>2, <1>3
<1>7. QED BY <1>4, <1>5, <1>6 DEF TablesFollow

\* When one job moves and the tables follow it, they still add up.
LEMMA TablesMove ==
  ASSUME StoresAssumption, UsageTypes, UsageTypes', Tables, NEW j \in Names,
         swept' = swept, pruned' = pruned, \A n \in Names \ {j} : jobs'[n] = jobs[n],
         NEW p, p = jobs[j], NEW q, q = jobs'[j],
         TablesFollow(p, q)
  PROVE  Tables'
<1>0. /\ \A k \in DictatedKeys :
           /\ dictated'[k].sessions = dictated[k].sessions + (BucketOne(k, q) - BucketOne(k, p))
           /\ dictated'[k].words = dictated[k].words + (BucketWords(k, q) - BucketWords(k, p))
      /\ \A k \in AppKeys :
           /\ apps'[k].sessions = apps[k].sessions + (AppOne(k, q) - AppOne(k, p))
           /\ apps'[k].words = apps[k].words + (AppWords(k, q) - AppWords(k, p))
  BY DEF TablesFollow
<1>1. \A n \in Names : jobs[n] \in JobRows /\ jobs'[n] \in JobRows BY DEF UsageTypes, JobRows
<1>2. p \in JobRows /\ q \in JobRows BY <1>1
<1>3. DictatedSums'
  <2> SUFFICES ASSUME NEW k \in DictatedKeys, k[1] >= swept' - JobHours
               PROVE  /\ dictated'[k].sessions = SumOf(BucketOnes(k, jobs'), Names)
                      /\ dictated'[k].words = SumOf(BucketSums(k, jobs'), Names)
    BY DEF DictatedSums
  <2>1. /\ dictated[k].sessions = SumOf(BucketOnes(k, jobs), Names)
        /\ dictated[k].words = SumOf(BucketSums(k, jobs), Names)
    BY DEF Tables, DictatedSums
  <2>2. PICK F, G : F = BucketOnes(k, jobs) /\ G = BucketOnes(k, jobs') OBVIOUS
  <2>3. \A n \in Names : F[n] \in Int BY <1>1, <2>2, CountedInts DEF BucketOnes
  <2>4. \A n \in Names : G[n] \in Int BY <1>1, <2>2, CountedInts DEF BucketOnes
  <2>5. /\ \A n \in Names \ {j} : G[n] = F[n]
        /\ F[j] = BucketOne(k, p) /\ G[j] = BucketOne(k, q)
    BY <2>2 DEF BucketOnes
  <2>6. SumOf(G, Names) = SumOf(F, Names) + (G[j] - F[j]) BY <2>3, <2>4, <2>5, SumMoves
  <2>7. PICK f, g : f = BucketSums(k, jobs) /\ g = BucketSums(k, jobs') OBVIOUS
  <2>8. \A n \in Names : f[n] \in Int BY <1>1, <2>7, CountedInts DEF BucketSums
  <2>9. \A n \in Names : g[n] \in Int BY <1>1, <2>7, CountedInts DEF BucketSums
  <2>10. /\ \A n \in Names \ {j} : g[n] = f[n]
         /\ f[j] = BucketWords(k, p) /\ g[j] = BucketWords(k, q)
    BY <2>7 DEF BucketSums
  <2>11. SumOf(g, Names) = SumOf(f, Names) + (g[j] - f[j]) BY <2>8, <2>9, <2>10, SumMoves
  <2>12. dictated'[k].sessions = SumOf(G, Names) BY <1>0, <2>1, <2>2, <2>5, <2>6
  <2>13. dictated'[k].words = SumOf(g, Names) BY <1>0, <2>1, <2>7, <2>10, <2>11
  <2>14. QED BY <2>2, <2>7, <2>12, <2>13
<1>4. AppsSums'
  <2> SUFFICES ASSUME NEW k \in AppKeys, k[1] >= swept' - JobHours, k[1] >= swept' - AppHours
               PROVE  /\ apps'[k].sessions = SumOf(AppOnes(k, jobs'), Names)
                      /\ apps'[k].words = SumOf(AppSums(k, jobs'), Names)
    BY DEF AppsSums
  <2>1. /\ apps[k].sessions = SumOf(AppOnes(k, jobs), Names)
        /\ apps[k].words = SumOf(AppSums(k, jobs), Names)
    BY DEF Tables, AppsSums
  <2>2. PICK F, G : F = AppOnes(k, jobs) /\ G = AppOnes(k, jobs') OBVIOUS
  <2>3. \A n \in Names : F[n] \in Int BY <1>1, <2>2, CountedInts DEF AppOnes
  <2>4. \A n \in Names : G[n] \in Int BY <1>1, <2>2, CountedInts DEF AppOnes
  <2>5. /\ \A n \in Names \ {j} : G[n] = F[n]
        /\ F[j] = AppOne(k, p) /\ G[j] = AppOne(k, q)
    BY <2>2 DEF AppOnes
  <2>6. SumOf(G, Names) = SumOf(F, Names) + (G[j] - F[j]) BY <2>3, <2>4, <2>5, SumMoves
  <2>7. PICK f, g : f = AppSums(k, jobs) /\ g = AppSums(k, jobs') OBVIOUS
  <2>8. \A n \in Names : f[n] \in Int BY <1>1, <2>7, CountedInts DEF AppSums
  <2>9. \A n \in Names : g[n] \in Int BY <1>1, <2>7, CountedInts DEF AppSums
  <2>10. /\ \A n \in Names \ {j} : g[n] = f[n]
         /\ f[j] = AppWords(k, p) /\ g[j] = AppWords(k, q)
    BY <2>7 DEF AppSums
  <2>11. SumOf(g, Names) = SumOf(f, Names) + (g[j] - f[j]) BY <2>8, <2>9, <2>10, SumMoves
  <2>12. apps'[k].sessions = SumOf(G, Names) BY <1>0, <2>1, <2>2, <2>5, <2>6
  <2>13. apps'[k].words = SumOf(g, Names) BY <1>0, <2>1, <2>7, <2>10, <2>11
  <2>14. QED BY <2>2, <2>7, <2>12, <2>13
<1>5. RolledSum'
  <2>1. PICK F, G : F = SessionsOf(dictated) /\ G = SessionsOf(dictated') OBVIOUS
  <2>2. PICK P : P = [k \in DictatedKeys |-> BucketOne(k, p)] OBVIOUS
  <2>3. PICK Q : Q = [k \in DictatedKeys |-> BucketOne(k, q)] OBVIOUS
  <2>4. PICK Z : Z = [k \in DictatedKeys |-> G[k] + P[k]] OBVIOUS
  <2>5. \A k \in DictatedKeys : /\ P[k] \in Int /\ Q[k] \in Int /\ P[k] = BucketOne(k, p)
                                /\ Q[k] = BucketOne(k, q)
    BY <1>2, <2>2, <2>3, CountedInts
  <2>6. \A k \in DictatedKeys : F[k] = dictated[k].sessions /\ G[k] = dictated'[k].sessions
    BY <2>1 DEF SessionsOf
  <2>7. \A k \in DictatedKeys : F[k] \in Int BY <2>6 DEF UsageTypes, Counts
  <2>8. \A k \in DictatedKeys : G[k] \in Int BY <2>6 DEF UsageTypes, Counts
  <2>9. \A k \in DictatedKeys : Z[k] = G[k] + P[k] BY <2>4
  <2>10. \A k \in DictatedKeys : Z[k] = F[k] + Q[k]
    BY <1>0, <2>5, <2>6, <2>7, <2>8, <2>9
  <2>11. SumOf(Z, DictatedKeys) = SumOf(G, DictatedKeys) + SumOf(P, DictatedKeys)
    BY <2>5, <2>8, <2>9, UsageFinite, SumPlus
  <2>12. SumOf(Z, DictatedKeys) = SumOf(F, DictatedKeys) + SumOf(Q, DictatedKeys)
    BY <2>5, <2>7, <2>10, UsageFinite, SumPlus
  <2>13. SumOf(P, DictatedKeys) = RolledOne(p) BY <1>2, <2>2, OneBucket
  <2>14. SumOf(Q, DictatedKeys) = RolledOne(q) BY <1>2, <2>3, OneBucket
  <2>15. PICK f, g : f = RolledOnes(jobs, pruned) /\ g = RolledOnes(jobs', pruned) OBVIOUS
  <2>16. \A n \in Names : PrunedOne(n, pruned) \in {0, 1} BY DEF PrunedOne
  <2>17. \A n \in Names : f[n] \in Int BY <1>1, <2>15, <2>16, CountedInts DEF RolledOnes
  <2>18. \A n \in Names : g[n] \in Int BY <1>1, <2>15, <2>16, CountedInts DEF RolledOnes
  <2>19. /\ \A n \in Names \ {j} : g[n] = f[n]
         /\ f[j] = RolledOne(p) + PrunedOne(j, pruned)
         /\ g[j] = RolledOne(q) + PrunedOne(j, pruned)
    BY <2>15 DEF RolledOnes
  <2>20. SumOf(g, Names) = SumOf(f, Names) + (g[j] - f[j]) BY <2>17, <2>18, <2>19, SumMoves
  <2>21. SumOf(F, DictatedKeys) = SumOf(f, Names) BY <2>1, <2>15 DEF Tables, RolledSum
  <2>22. RolledOne(p) \in Int /\ RolledOne(q) \in Int /\ PrunedOne(j, pruned) \in Int
    <3>1. RolledOne(p) \in {0, 1} /\ RolledOne(q) \in {0, 1} BY DEF RolledOne
    <3>2. PrunedOne(j, pruned) \in {0, 1} BY <2>16
    <3>3. QED BY <3>1, <3>2
  <2>23. /\ SumOf(f, Names) \in Int /\ SumOf(G, DictatedKeys) \in Int
    BY <2>8, <2>17, UsageFinite, SumAdds
  <2>24. SumOf(G, DictatedKeys) = SumOf(f, Names) + (RolledOne(q) - RolledOne(p))
    BY <2>11, <2>12, <2>13, <2>14, <2>21, <2>22, <2>23
  <2>25. SumOf(g, Names) = SumOf(f, Names) + (RolledOne(q) - RolledOne(p))
    BY <2>19, <2>20, <2>22, <2>23
  <2>26. QED BY <2>1, <2>15, <2>24, <2>25 DEF RolledSum
<1>6. QED BY <1>3, <1>4, <1>5 DEF Tables

\* An utterance, or another request, of a job.
LEMMA RecordJobKeeps ==
  ASSUME StoresAssumption, UsageInv, NEW u \in Users, NEW j \in Names, NEW k, NEW w \in {0, 1},
         NEW ls \in SUBSET Langs, U!RecordJob(u, j, k, w, ls),
         posted' = posted + 1, hour' = hour, swept' = swept, pruned' = pruned
  PROVE  UsageInv'
<1>1. /\ UsageTypes /\ Tables /\ TargetsSums /\ sessions = Cardinality(counted)
      /\ \A n \in Names : JobCounted(n)
  BY DEF UsageInv
<1>2. /\ U!HasJob(j) => JobRules(jobs[j])
      /\ U!HasJob(j) /\ jobs[j].utterances # 0 => <<jobs[j].user, j>> \in counted
      /\ U!Fresh(j) /\ ~U!Dropped(j) => <<u, j>> \notin counted
  BY <1>1 DEF JobCounted
<1>3. U!Mine(u, j) /\ ~U!Dropped(j) /\ U!Count(<<u, j>>) BY DEF U!RecordJob
<1>4. PICK had : had = IF U!HasJob(j) THEN jobs[j].targets ELSE {} OBVIOUS
<1>0. PICK r \in Jobs, more \in SUBSET Langs : RowOf(u, j, k, w, had, more, r)
  BY ZenonT(60), <1>1, <1>2, <1>4, RecordJobRow
<1>5. /\ jobs' = [jobs EXCEPT ![j] = r] /\ r.user = u /\ r.utterances # 0
      /\ U!CountTargets(more)
      /\ r.targets = had \cup more /\ had \cap more = {} /\ Cardinality(r.targets) <= TargetsMax
      /\ ~U!HasJob(j) \/ U!TakenOver(j, k) => r.reported = U!Awaited /\ r.app = U!NoApp
      /\ U!HasJob(j) /\ ~U!TakenOver(j, k) =>
           /\ r.kind = jobs[j].kind /\ r.hour = jobs[j].hour
           /\ r.reported = jobs[j].reported /\ r.app = jobs[j].app
           /\ r.words = jobs[j].words + w
  BY <1>0 DEF RowOf
<1>6. /\ jobs' \in [Names -> Jobs \cup {U!NoJob}] /\ jobs'[j] = r
      /\ \A n \in Names \ {j} : jobs'[n] = jobs[n]
  BY <1>1, <1>5 DEF UsageTypes
<1>7. U!HasJob(j) => jobs[j] \in Jobs /\ jobs[j].user = u
  BY <1>1, <1>3, JobOf DEF U!Mine
<1>8. ~U!HasJob(j) => jobs[j] = U!NoJob /\ ~U!TakenOver(j, k) /\ ~U!Late(j, k)
  BY DEF U!HasJob, U!TakenOver, U!Late
<1>9. U!TakenOver(j, k) =>
        /\ U!HasJob(j) /\ jobs[j].words = 0 /\ jobs[j].kind = "dictation"
        /\ jobs[j].reported # U!Awaited
        /\ U!AddDictated(jobs[j], -1, 0) /\ U!AddApp(jobs[j], -1, 0)
  BY <1>2 DEF U!TakenOver, JobRules, U!RecordJob
<1>10. U!Late(j, k) =>
         /\ U!HasJob(j) /\ ~U!TakenOver(j, k) /\ jobs[j].reported # U!Awaited
         /\ jobs[j].kind = "dictation"
         /\ U!AddDictated(jobs[j], 0, w) /\ U!AddApp(jobs[j], 0, w)
  BY <1>2 DEF U!Late, U!Reported, JobRules, U!RecordJob
<1>11. ~U!TakenOver(j, k) /\ ~U!Late(j, k) => dictated' = dictated /\ apps' = apps
  BY DEF U!RecordJob
<1>12. U!HasJob(j) /\ ~U!TakenOver(j, k) /\ ~U!Late(j, k) =>
         jobs[j].reported = U!Awaited /\ jobs[j].app = U!NoApp
  BY <1>2 DEF U!Late, U!Reported, JobRules
<1>13. /\ targets' \in [Langs -> Int]
       /\ \A l \in Langs : targets'[l] = targets[l] + (IF l \in more THEN 1 ELSE 0)
  BY <1>1, <1>5, CountTargetsDoes
<1>14. /\ counted' \in SUBSET Sessions /\ IsFiniteSet(counted')
       /\ \A d \in counted' : d[1] = "request" => d[2] < posted'
       /\ Cardinality(counted')
            = Cardinality(counted) + (IF <<u, j>> \in counted THEN 0 ELSE 1)
       /\ Jobless(counted') = Jobless(counted)
  BY <1>1, <1>3, CountJob
<1>15. jobs[j] \in JobRows /\ (U!HasJob(j) => jobs[j].words \in Int)
  BY <1>7, <1>8 DEF JobRows, Jobs
<1>16. TablesFollow(jobs[j], r)
  <2>1. CASE U!TakenOver(j, k)
    <3>1. jobs[j] \in Jobs BY <1>7, <1>9, <2>1
    <3>2. r.reported = U!Awaited /\ r.app = U!NoApp BY <1>5, <2>1
    <3>3. QED BY <1>1, <1>9, <2>1, <3>1, <3>2, UnrollMoves
  <2>2. CASE U!Late(j, k)
    <3>1. jobs[j] \in Jobs /\ jobs[j].user = u BY <1>7, <1>10, <2>2
    <3>2. /\ r.kind = jobs[j].kind /\ r.hour = jobs[j].hour /\ r.user = jobs[j].user
          /\ r.reported = jobs[j].reported /\ r.app = jobs[j].app
          /\ r.words = jobs[j].words + w
      BY <1>5, <1>10, <2>2, <3>1
    <3>3. w \in Int OBVIOUS
    <3>4. QED BY <1>1, <1>10, <2>2, <3>1, <3>2, <3>3, LateMoves
  <2>3. CASE ~U!TakenOver(j, k) /\ ~U!Late(j, k)
    <3>1. dictated' = dictated /\ apps' = apps BY <1>11, <2>3
    <3>2. r.reported = U!Awaited /\ r.app = U!NoApp BY <1>5, <1>12, <2>3
    <3>3. /\ \A b : BucketOne(b, r) = 0 /\ BucketWords(b, r) = 0
          /\ \A b \in AppKeys : AppOne(b, r) = 0 /\ AppWords(b, r) = 0
      BY <3>2, RowValues
    <3>4. /\ \A b : BucketOne(b, jobs[j]) = 0 /\ BucketWords(b, jobs[j]) = 0
          /\ \A b \in AppKeys : AppOne(b, jobs[j]) = 0 /\ AppWords(b, jobs[j]) = 0
      <4>1. CASE U!HasJob(j) BY <1>7, <1>12, <2>3, <4>1, RowValues
      <4>2. CASE ~U!HasJob(j) BY <1>8, <4>2, NoValues
      <4>3. QED BY <4>1, <4>2
    <3>5. r \in JobRows BY DEF JobRows
    <3>6. QED BY <1>1, <1>15, <3>1, <3>3, <3>4, <3>5, IdleMoves
  <2>4. QED BY <2>1, <2>2, <2>3
<1>17. \A l \in Langs :
         targets'[l] = targets[l] + (TargetOne(l, r) - TargetOne(l, jobs[j]))
  <2> SUFFICES ASSUME NEW l \in Langs
               PROVE targets'[l] = targets[l] + (TargetOne(l, r) - TargetOne(l, jobs[j]))
    OBVIOUS
  <2>1. TargetOne(l, jobs[j]) = IF l \in had THEN 1 ELSE 0
    <3>1. CASE U!HasJob(j) BY <1>4, <1>7, <3>1, RowValues
    <3>2. CASE ~U!HasJob(j) BY <1>4, <1>8, <3>2, NoValues
    <3>3. QED BY <3>1, <3>2
  <2>2. TargetOne(l, r) = IF l \in had \cup more THEN 1 ELSE 0 BY <1>5, RowValues
  <2>3. targets[l] \in Int BY <1>1 DEF UsageTypes
  <2>4. l \in more => l \notin had BY <1>5
  <2>5. QED BY <1>13, <2>1, <2>2, <2>3, <2>4
<1>18. sessions' = sessions + (IF U!Fresh(j) THEN 1 ELSE 0) BY DEF U!RecordJob
<1>19. UsageTypes'
  <2>1. sessions' \in Int /\ posted' \in Nat BY <1>1, <1>18 DEF UsageTypes
  <2>2. dictated' \in [DictatedKeys -> Counts] /\ apps' \in [AppKeys -> Counts]
    BY <1>16 DEF TablesFollow
  <2>3. QED BY <1>1, <1>6, <1>13, <1>14, <2>1, <2>2 DEF UsageTypes
<1>20. sessions' = Cardinality(counted')
  <2>1. CASE U!Fresh(j)
    <3>1. <<u, j>> \notin counted BY <1>2, <1>3, <2>1
    <3>2. QED BY <1>1, <1>14, <1>18, <2>1, <3>1
  <2>2. CASE ~U!Fresh(j)
    <3>1. U!HasJob(j) /\ jobs[j].utterances # 0 BY <2>2 DEF U!Fresh
    <3>2. <<u, j>> \in counted BY <1>2, <1>7, <3>1
    <3>3. QED BY <1>1, <1>14, <1>18, <2>2, <3>2
  <2>3. QED BY <2>1, <2>2
<1>21. \A n \in Names : JobCounted(n)'
  <2>1. ASSUME NEW n \in Names, n # j PROVE JobCounted(n)'
    <3>1. \A v \in Users : <<v, n>> \in counted' <=> <<v, n>> \in counted
      BY <1>3, <2>1 DEF U!Count
    <3>2. JobCounted(n) /\ jobs'[n] = jobs[n] BY <1>1, <1>6, <2>1
    <3>3. QED BY <1>1, <3>1, <3>2, OthersCounted
  <2>2. JobCounted(j)'
    <3>1. U!HasJob(j)' BY <1>6, JobsAreJobs DEF U!HasJob
    <3>2. ~U!Dropped(j)' BY <1>3 DEF U!Dropped
    <3>3. ~U!Fresh(j)' BY <1>5, <1>6, <3>1 DEF U!Fresh
    <3>4. <<r.user, j>> \in counted' BY <1>3, <1>5 DEF U!Count
    <3>5. JobRules(r)
      <4>1. U!HasJob(j) /\ ~U!TakenOver(j, k) => JobRules(jobs[j]) BY <1>2
      <4>2. r.reported # U!Awaited => r.kind = "dictation" BY <1>5, <4>1 DEF JobRules
      <4>3. r.app # U!NoApp => r.reported # U!Awaited BY <1>5, <4>1 DEF JobRules
      <4>4. QED BY <1>5, <4>2, <4>3 DEF JobRules
    <3>6. QED BY <1>6, <3>1, <3>2, <3>3, <3>4, <3>5 DEF JobCounted
  <2>3. QED BY <2>1, <2>2
<1>22. Tables' BY <1>1, <1>6, <1>16, <1>19, TablesMove
<1>23. TargetsSums' BY <1>1, <1>6, <1>14, <1>17, <1>19, TargetsMove
<1>24. QED BY <1>19, <1>20, <1>21, <1>22, <1>23 DEF UsageInv

\* A request that has no job of its own is a session, and its targets are its own.
LEMMA JoblessKeeps ==
  ASSUME StoresAssumption, UsageInv, NEW T \in SUBSET Langs, U!CountTargets(T),
         U!Count(<<"request", posted>>), posted' = posted + 1, sessions' = sessions + 1,
         jobs' = jobs, dictated' = dictated, apps' = apps, hour' = hour, swept' = swept,
         pruned' = pruned
  PROVE  UsageInv'
<1>1. /\ UsageTypes /\ Tables /\ TargetsSums /\ sessions = Cardinality(counted)
      /\ \A n \in Names : JobCounted(n)
  BY DEF UsageInv
<1>2. /\ targets' \in [Langs -> Int]
      /\ \A l \in Langs : targets'[l] = targets[l] + (IF l \in T THEN 1 ELSE 0)
  BY <1>1, CountTargetsDoes
<1>3. /\ counted' \in SUBSET Sessions /\ IsFiniteSet(counted')
      /\ \A d \in counted' : d[1] = "request" => d[2] < posted'
      /\ Cardinality(counted') = Cardinality(counted) + 1
      /\ Cardinality(Jobless(counted')) = Cardinality(Jobless(counted)) + 1
      /\ \A u \in Users : \A n : <<u, n>> \in counted' <=> <<u, n>> \in counted
  BY <1>1, CountRequest
<1>4. UsageTypes'
  <2>1. sessions' \in Int /\ posted' \in Nat BY <1>1 DEF UsageTypes
  <2>2. QED BY <1>1, <1>2, <1>3, <2>1 DEF UsageTypes
<1>5. \A n \in Names : JobCounted(n)' BY <1>1, <1>3, OthersCounted
<1>6. Tables' BY <1>1 DEF Tables, DictatedSums, AppsSums, RolledSum
<1>7. TargetsSums'
  <2> SUFFICES ASSUME NEW l \in Langs
               PROVE  /\ SumOf(TargetOnes(l, jobs), Names) <= targets'[l]
                      /\ targets'[l] <= SumOf(TargetOnes(l, jobs), Names) + Cardinality(pruned)
                                          + Cardinality(Jobless(counted'))
    BY DEF TargetsSums
  <2>1. /\ SumOf(TargetOnes(l, jobs), Names) <= targets[l]
        /\ targets[l] <= SumOf(TargetOnes(l, jobs), Names) + Cardinality(pruned)
                           + Cardinality(Jobless(counted))
    BY <1>1 DEF TargetsSums
  <2>2. targets[l] \in Int BY <1>1 DEF UsageTypes
  <2>3. Cardinality(pruned) \in Nat /\ Cardinality(Jobless(counted)) \in Nat
    BY <1>1, LimitsFinite
  <2>4. SumOf(TargetOnes(l, jobs), Names) \in Int
    <3>1. PICK F : F = TargetOnes(l, jobs) OBVIOUS
    <3>2. \A n \in Names : jobs[n] \in JobRows BY <1>1 DEF UsageTypes, JobRows
    <3>3. \A n \in Names : F[n] \in Int BY <3>1, <3>2, CountedInts DEF TargetOnes
    <3>4. QED BY <3>1, <3>3, UsageFinite, SumAdds
  <2>5. PICK s \in Int : s = SumOf(TargetOnes(l, jobs), Names) BY <2>4
  <2>6. targets'[l] \in {targets[l], targets[l] + 1} BY <1>2, <2>2
  <2>7. s <= targets'[l] BY <2>1, <2>2, <2>5, <2>6
  <2>8. targets'[l] <= s + Cardinality(pruned) + Cardinality(Jobless(counted'))
    BY <1>3, <2>1, <2>2, <2>3, <2>5, <2>6
  <2>9. QED BY <2>5, <2>7, <2>8
<1>8. sessions' = Cardinality(counted') BY <1>1, <1>3
<1>9. QED BY <1>4, <1>5, <1>6, <1>7, <1>8 DEF UsageInv

\* A translation of a dictation adds its targets to that job.
LEMMA FollowUpKeeps ==
  ASSUME StoresAssumption, UsageInv, NEW u \in Users, NEW j \in Names, NEW ls \in SUBSET Langs,
         U!HasJob(j), NEW more, more = U!NewTargets(jobs[j], ls), U!CountTargets(more),
         jobs' = [jobs EXCEPT ![j].targets = @ \cup more], posted' = posted + 1,
         sessions' = sessions, counted' = counted, dictated' = dictated, apps' = apps,
         hour' = hour, swept' = swept, pruned' = pruned
  PROVE  UsageInv'
<1>1. /\ UsageTypes /\ Tables /\ TargetsSums /\ sessions = Cardinality(counted)
      /\ \A n \in Names : JobCounted(n)
  BY DEF UsageInv
<1>2. PICK p : p = jobs[j] OBVIOUS
<1>3. p \in Jobs /\ JobRules(p) BY <1>1, <1>2, JobOf DEF JobCounted
<1>4. p.targets \in SUBSET Langs BY <1>3 DEF Jobs
<1>5. more \in SUBSET (ls \ p.targets) /\ Cardinality(p.targets \cup more) <= TargetsMax
  BY <1>2, <1>3, <1>4, NewTargetsDoes DEF JobRules
<1>6. PICK r : r = [p EXCEPT !.targets = @ \cup more] OBVIOUS
<1>7. /\ r \in Jobs /\ r.targets = p.targets \cup more
      /\ r.user = p.user /\ r.utterances = p.utterances /\ r.reported = p.reported
      /\ r.app = p.app /\ r.kind = p.kind /\ r.hour = p.hour /\ r.words = p.words
  BY <1>3, <1>4, <1>5, <1>6 DEF Jobs
<1>8. jobs' = [jobs EXCEPT ![j] = r] BY <1>2, <1>6
<1>9. /\ jobs' \in [Names -> Jobs \cup {U!NoJob}] /\ jobs'[j] = r
      /\ \A n \in Names \ {j} : jobs'[n] = jobs[n]
  BY ZenonT(60), <1>1, <1>7, <1>8 DEF UsageTypes
<1>10. /\ targets' \in [Langs -> Int]
       /\ \A l \in Langs : targets'[l] = targets[l] + (IF l \in more THEN 1 ELSE 0)
  BY <1>1, <1>4, <1>5, CountTargetsDoes
<1>11. UsageTypes'
  <2>1. posted' \in Nat BY <1>1 DEF UsageTypes
  <2>2. \A d \in counted' : d[1] = "request" => d[2] < posted'
    <3> SUFFICES ASSUME NEW d \in counted, d[1] = "request" PROVE d[2] < posted + 1 OBVIOUS
    <3>1. d \in Sessions /\ d[2] < posted /\ posted \in Nat BY <1>1 DEF UsageTypes
    <3>2. d[2] \in Nat
      <4>1. CASE d \in Users \X Names
        <5>1. d[1] \in Users BY <4>1
        <5>2. QED BY <5>1 DEF StoresAssumption
      <4>2. CASE d \in {"request"} \X Nat BY <4>2
      <4>3. QED BY <3>1, <4>1, <4>2 DEF Sessions
    <3>3. QED BY <3>1, <3>2
  <2>3. QED BY <1>1, <1>9, <1>10, <2>1, <2>2 DEF UsageTypes
<1>12. \A n \in Names : JobCounted(n)'
  <2>1. ASSUME NEW n \in Names, n # j PROVE JobCounted(n)'
    BY <1>1, <1>9, <2>1, OthersCounted
  <2>2. JobCounted(j)'
    <3>1. U!HasJob(j)' BY <1>7, <1>9, JobsAreJobs DEF U!HasJob
    <3>2. ~U!Dropped(j)' BY <1>1 DEF U!Dropped, JobCounted
    <3>3. U!Fresh(j)' <=> U!Fresh(j) BY <1>2, <1>7, <1>9, <3>1 DEF U!Fresh
    <3>4. JobRules(r) BY <1>3, <1>5, <1>7 DEF JobRules
    <3>5. U!Dropped(j)' <=> U!Dropped(j) BY DEF U!Dropped
    <3>6. r.utterances # 0 => <<r.user, j>> \in counted'
      BY <1>1, <1>2, <1>7 DEF JobCounted
    <3>7. U!Fresh(j)' => \A v \in Users : <<v, j>> \notin counted'
      BY <1>1, <3>2, <3>3, <3>5 DEF JobCounted
    <3>8. QED BY <1>9, <3>1, <3>2, <3>4, <3>6, <3>7 DEF JobCounted
  <2>3. QED BY <2>1, <2>2
<1>13. TablesFollow(p, r)
  <2>1. U!Bucket(r) = U!Bucket(p) BY <1>7 DEF U!Bucket
  <2>2. p # U!NoJob /\ r # U!NoJob BY <1>3, <1>7, JobsAreJobs
  <2>3. \A k : BucketOne(k, r) = BucketOne(k, p) /\ BucketWords(k, r) = BucketWords(k, p)
    BY <1>7, <2>1, <2>2 DEF BucketOne, BucketWords, InBucket
  <2>4. \A k : AppOne(k, r) = AppOne(k, p) /\ AppWords(k, r) = AppWords(k, p)
    BY <1>7, <2>2 DEF AppOne, AppWords, InApp
  <2>5. p \in JobRows /\ r \in JobRows BY <1>3, <1>7 DEF JobRows
  <2>6. QED BY <1>1, <2>3, <2>4, <2>5, IdleMoves
<1>14. \A l \in Langs : targets'[l] = targets[l] + (TargetOne(l, r) - TargetOne(l, p))
  <2> SUFFICES ASSUME NEW l \in Langs
               PROVE targets'[l] = targets[l] + (TargetOne(l, r) - TargetOne(l, p))
    OBVIOUS
  <2>1. TargetOne(l, p) = IF l \in p.targets THEN 1 ELSE 0 BY <1>3, RowValues
  <2>2. TargetOne(l, r) = IF l \in p.targets \cup more THEN 1 ELSE 0 BY <1>7, RowValues
  <2>3. targets[l] \in Int BY <1>1 DEF UsageTypes
  <2>4. l \in more => l \notin p.targets BY <1>5
  <2>5. QED BY <1>10, <2>1, <2>2, <2>3, <2>4
<1>15. Tables' BY <1>1, <1>2, <1>9, <1>11, <1>13, TablesMove
<1>16. TargetsSums' BY <1>1, <1>2, <1>9, <1>11, <1>14, TargetsMove
<1>17. QED BY <1>1, <1>11, <1>12, <1>15, <1>16 DEF UsageInv

\* A report that is rolled: r is its job, which was not reported before.
LEMMA RolledKeeps ==
  ASSUME StoresAssumption, UsageInv, NEW j \in Names, NEW r \in Jobs, ~U!Dropped(j),
         r.kind = "dictation", r.reported # U!Awaited, Cardinality(r.targets) <= TargetsMax,
         U!HasJob(j) =>
           /\ jobs[j].reported = U!Awaited /\ r.user = jobs[j].user
           /\ r.utterances = jobs[j].utterances /\ r.targets = jobs[j].targets,
         ~U!HasJob(j) => r.utterances = 0 /\ r.words = 0 /\ r.targets = {},
         U!Rolled(j, r),
         hour' = hour, sessions' = sessions, targets' = targets, swept' = swept,
         pruned' = pruned, counted' = counted, posted' = posted
  PROVE  UsageInv'
<1>1. /\ UsageTypes /\ Tables /\ TargetsSums /\ sessions = Cardinality(counted)
      /\ \A n \in Names : JobCounted(n)
  BY DEF UsageInv
<1>2. jobs' = [jobs EXCEPT ![j] = r] /\ U!AddDictated(r, 1, r.words) /\ U!AddApp(r, 1, r.words)
  BY DEF U!Rolled
<1>3. /\ jobs' \in [Names -> Jobs \cup {U!NoJob}] /\ jobs'[j] = r
      /\ \A n \in Names \ {j} : jobs'[n] = jobs[n]
  BY <1>1, <1>2 DEF UsageTypes
<1>4. PICK p \in JobRows : p = jobs[j] BY <1>1 DEF UsageTypes, JobRows
<1>5. /\ U!HasJob(j) => p \in Jobs /\ JobRules(p)
      /\ ~U!HasJob(j) => p = U!NoJob
  BY <1>1, <1>4, JobOf DEF JobCounted
<1>6. p # U!NoJob => p.reported = U!Awaited /\ p.app = U!NoApp
  BY <1>4, <1>5 DEF JobRules, U!HasJob
<1>7. TablesFollow(p, r) BY <1>1, <1>2, <1>6, RollMoves
<1>8. UsageTypes' BY <1>1, <1>3, <1>7 DEF UsageTypes, TablesFollow
<1>9. \A l \in Langs : targets'[l] = targets[l] + (TargetOne(l, r) - TargetOne(l, p))
  <2> SUFFICES ASSUME NEW l \in Langs
               PROVE targets'[l] = targets[l] + (TargetOne(l, r) - TargetOne(l, p))
    OBVIOUS
  <2>1. TargetOne(l, r) = IF l \in r.targets THEN 1 ELSE 0 BY RowValues
  <2>2. TargetOne(l, p) = IF l \in r.targets THEN 1 ELSE 0
    <3>1. CASE U!HasJob(j) BY <1>4, <1>5, <3>1, RowValues
    <3>2. CASE ~U!HasJob(j) BY <1>5, <3>2, NoValues
    <3>3. QED BY <3>1, <3>2
  <2>3. targets[l] \in Int BY <1>1 DEF UsageTypes
  <2>4. QED BY <2>1, <2>2, <2>3
<1>10. \A n \in Names : JobCounted(n)'
  <2>1. ASSUME NEW n \in Names, n # j PROVE JobCounted(n)'
    BY <1>1, <1>3, <2>1, OthersCounted
  <2>2. JobCounted(j)'
    <3>1. U!HasJob(j)' BY <1>3, JobsAreJobs DEF U!HasJob
    <3>2. ~U!Dropped(j)' BY DEF U!Dropped
    <3>3. JobRules(r)
      <4>1. U!HasJob(j) => r.utterances # 0 BY <1>4, <1>5 DEF JobRules
      <4>2. QED BY <4>1 DEF JobRules
    <3>4. r.utterances # 0 => <<r.user, j>> \in counted'
      BY <1>1 DEF JobCounted
    <3>5. U!Fresh(j)' => r.utterances = 0 BY <1>3, <3>1 DEF U!Fresh
    <3>6. r.utterances = 0 => U!Fresh(j) BY DEF U!Fresh
    <3>7. U!Fresh(j)' => \A v \in Users : <<v, j>> \notin counted'
      BY <1>1, <3>5, <3>6 DEF JobCounted
    <3>8. QED BY <1>3, <3>1, <3>2, <3>3, <3>4, <3>7 DEF JobCounted
  <2>3. QED BY <2>1, <2>2
<1>11. Tables' BY <1>1, <1>3, <1>4, <1>7, <1>8, TablesMove
<1>12. TargetsSums' BY <1>1, <1>3, <1>4, <1>8, <1>9, TargetsMove
<1>13. QED BY <1>1, <1>8, <1>10, <1>11, <1>12 DEF UsageInv

\* A report, of a job seen or not.
LEMMA OutcomeKeeps ==
  ASSUME StoresAssumption, UsageInv, NEW u \in Users, NEW j \in Names, NEW d \in Deliveries,
         NEW a \in Apps \cup {U!NoApp}, U!RecordOutcome(u, j, d, a)
  PROVE  UsageInv'
<1>1. UsageTypes /\ JobCounted(j) BY DEF UsageInv
<1>2. d # U!Awaited BY DEF StoresAssumption, U!Awaited
<1>3. /\ hour' = hour /\ sessions' = sessions /\ targets' = targets /\ swept' = swept
      /\ pruned' = pruned /\ counted' = counted /\ posted' = posted /\ ~U!Dropped(j)
  BY DEF U!RecordOutcome
<1>4. CASE U!HasJob(j)
  <2>1. PICK r : r = [jobs[j] EXCEPT !.reported = d, !.app = a] OBVIOUS
  <2>2. /\ jobs[j].kind = "dictation" /\ jobs[j].reported = U!Awaited /\ U!Rolled(j, r)
    BY <1>4, <2>1 DEF U!RecordOutcome, U!Reported
  <2>3. jobs[j] \in Jobs /\ JobRules(jobs[j]) BY <1>1, <1>4, JobOf DEF JobCounted
  <2>4. /\ r \in Jobs /\ r.reported = d /\ r.kind = jobs[j].kind /\ r.user = jobs[j].user
        /\ r.utterances = jobs[j].utterances /\ r.targets = jobs[j].targets
    <3>1. PICK t : t = [jobs[j] EXCEPT !.reported = d] OBVIOUS
    <3>2. /\ t \in Jobs /\ t.reported = d /\ t.kind = jobs[j].kind /\ t.user = jobs[j].user
          /\ t.utterances = jobs[j].utterances /\ t.targets = jobs[j].targets
      BY <2>3, <3>1 DEF Jobs
    <3>3. r = [t EXCEPT !.app = a] BY <2>1, <2>3, <3>1
    <3>4. /\ r \in Jobs /\ r.reported = t.reported /\ r.kind = t.kind /\ r.user = t.user
          /\ r.utterances = t.utterances /\ r.targets = t.targets
      BY <3>2, <3>3 DEF Jobs
    <3>5. QED BY <3>2, <3>4
  <2>5. r.reported # U!Awaited /\ r.kind = "dictation" /\ Cardinality(r.targets) <= TargetsMax
    BY <1>2, <2>2, <2>3, <2>4 DEF JobRules
  <2>6. QED BY <1>3, <1>4, <2>2, <2>4, <2>5, RolledKeeps
<1>5. CASE ~U!HasJob(j)
  <2>1. PICK n : n = U!NewJob(u, "dictation", 0) OBVIOUS
  <2>2. PICK r : r = [n EXCEPT !.utterances = 0, !.reported = d, !.app = a] OBVIOUS
  <2>3. U!Rolled(j, r) BY <1>5, <2>1, <2>2 DEF U!RecordOutcome
  <2>4. n \in Jobs /\ n.words = 0 /\ n.targets = {} /\ n.kind = "dictation"
    <3>1. "dictation" \in U!Known BY DEF U!Known
    <3>2. 0 \in Int OBVIOUS
    <3>3. QED BY <1>1, <2>1, <3>1, <3>2, NewJobDoes
  <2>5. /\ r \in Jobs /\ r.reported = d /\ r.kind = "dictation" /\ r.utterances = 0
        /\ r.words = 0 /\ r.targets = {}
    <3>1. PICK t : t = [n EXCEPT !.utterances = 0] OBVIOUS
    <3>2. /\ t \in Jobs /\ t.utterances = 0 /\ t.words = 0 /\ t.targets = {}
          /\ t.kind = "dictation"
      BY <2>4, <3>1 DEF Jobs
    <3>3. PICK s : s = [t EXCEPT !.reported = d] OBVIOUS
    <3>4. /\ s \in Jobs /\ s.utterances = 0 /\ s.words = 0 /\ s.targets = {}
          /\ s.kind = "dictation" /\ s.reported = d
      BY <3>2, <3>3 DEF Jobs
    <3>5. r = [s EXCEPT !.app = a] BY <2>2, <2>4, <3>1, <3>3
    <3>6. /\ r \in Jobs /\ r.utterances = 0 /\ r.words = 0 /\ r.targets = {}
          /\ r.kind = "dictation" /\ r.reported = d
      BY <3>4, <3>5 DEF Jobs
    <3>7. QED BY <3>6
  <2>6. r.reported # U!Awaited BY <1>2, <2>5
  <2>7. Cardinality(r.targets) <= TargetsMax
    <3>1. Cardinality({}) = 0 BY FS_EmptySet
    <3>2. TargetsMax \in Nat BY DEF StoresAssumption
    <3>3. QED BY <2>5, <3>1, <3>2
  <2>8. QED BY <1>3, <1>5, <2>3, <2>5, <2>6, <2>7, RolledKeeps
<1>6. QED BY <1>4, <1>5

\* A request, with a job of its own or not.
LEMMA RequestKeeps ==
  ASSUME StoresAssumption, UsageInv, NEW u \in Users, NEW j \in Names, NEW ls \in SUBSET Langs,
         U!Request(u, j, ls)
  PROVE  UsageInv'
<1>1. posted' = posted + 1 /\ hour' = hour /\ swept' = swept /\ pruned' = pruned
  BY DEF U!Request
<1>2. ASSUME NEW k \in Kinds, NEW w \in {0, 1}, U!RecordJob(u, j, k, w, ls) PROVE UsageInv'
  BY <1>1, <1>2, RecordJobKeeps
<1>3. ASSUME U!RecordForeign(u, j, ls) PROVE UsageInv'
  BY <1>1, <1>3, JoblessKeeps DEF U!RecordForeign
<1>4. ASSUME U!RecordFollowUp(u, j, ls) PROVE UsageInv'
  <2>1. CASE U!HasJob(j) /\ jobs[j].user = u /\ jobs[j].kind = "dictation"
    <3>1. PICK more : more = U!NewTargets(jobs[j], ls) OBVIOUS
    <3>2. /\ U!CountTargets(more) /\ jobs' = [jobs EXCEPT ![j].targets = @ \cup more]
          /\ sessions' = sessions /\ counted' = counted
          /\ dictated' = dictated /\ apps' = apps
      BY <1>4, <2>1, <3>1 DEF U!RecordFollowUp
    <3>3. QED BY <1>1, <2>1, <3>1, <3>2, FollowUpKeeps
  <2>2. CASE ~(U!HasJob(j) /\ jobs[j].user = u /\ jobs[j].kind = "dictation")
    <3>1. /\ sessions' = sessions + 1 /\ U!CountTargets(ls) /\ U!Count(<<"request", posted>>)
          /\ jobs' = jobs /\ dictated' = dictated /\ apps' = apps
      BY <1>4, <2>2 DEF U!RecordFollowUp
    <3>2. QED BY <1>1, <3>1, JoblessKeeps
  <2>3. QED BY <2>1, <2>2
<1>5. QED BY <1>2, <1>3, <1>4 DEF U!Request

\* The clock.
LEMMA TickKeeps ==
  ASSUME StoresAssumption, UsageInv, U!Tick PROVE UsageInv'
<1>1. /\ hour < MaxHour /\ hour' = hour + 1
      /\ jobs' = jobs /\ sessions' = sessions /\ dictated' = dictated /\ apps' = apps
      /\ targets' = targets /\ swept' = swept /\ pruned' = pruned /\ counted' = counted
      /\ posted' = posted
  BY DEF U!Tick
<1>2. hour' \in U!Hours /\ swept <= hour' BY <1>1 DEF UsageInv, UsageTypes, U!Hours, StoresAssumption
<1>3. UsageTypes' BY <1>1, <1>2 DEF UsageInv, UsageTypes
<1>4. \A n \in Names : JobCounted(n)' BY <1>1, OthersCounted DEF UsageInv
<1>5. Tables' BY <1>1 DEF UsageInv, Tables, DictatedSums, AppsSums, RolledSum
<1>6. TargetsSums' BY <1>1 DEF UsageInv, TargetsSums
<1>7. QED BY <1>1, <1>3, <1>4, <1>5, <1>6 DEF UsageInv

(***************************************************************************)
(* The sweep: what it closes goes to the tables, what it prunes leaves them  *)
(* only for hours no longer kept.                                            *)
(***************************************************************************)

Gone == U!Pruned(U!Closing)
WordsOf(js) == [n \in Names |-> js[n].words]
ClosedIn(k) == {n \in U!Closing : <<jobs[n].hour, jobs[n].user, U!Unreported>> = k}

\* The words of some jobs, as the model adds them up.
LEMMA WordsSum ==
  ASSUME StoresAssumption, NEW S \in SUBSET Names
  PROVE  U!SumSet(LAMBDA n : jobs[n].words, S) = SumOf(WordsOf(jobs), S)
<1> DEFINE F == WordsOf(jobs)
           IsWords(g) == g = [s \in SUBSET S |->
                               IF s = {} THEN 0 ELSE jobs[First(s)].words + g[s \ {First(s)}]]
           h == CHOOSE g : IsWords(g)
<1>1. IsFiniteSet(S) BY FS_Subset DEF StoresAssumption
<1>2. U!SumSet(LAMBDA n : jobs[n].words, S) = h[S]
  BY DEF U!SumSet, U!MapThenFoldSet, First
<1>3. \A s \in SUBSET S : s # {} => F[First(s)] = jobs[First(s)].words BY DEF First, WordsOf
<1>4. ASSUME NEW g PROVE IsWords(g) <=> IsFold(F, S, g)
  <2>1. PICK a : a = [s \in SUBSET S |->
                       IF s = {} THEN 0 ELSE jobs[First(s)].words + g[s \ {First(s)}]]
    OBVIOUS
  <2>2. PICK b : b = [s \in SUBSET S |->
                       IF s = {} THEN 0 ELSE F[First(s)] + g[s \ {First(s)}]]
    OBVIOUS
  <2> HIDE DEF F
  <2>3. a = b BY <1>3, <2>1, <2>2
  <2>4. QED BY <2>1, <2>2, <2>3 DEF IsFold
<1> HIDE DEF F
<1>5. PICK g : IsFold(F, S, g) BY <1>1, FoldExists
<1>6. IsWords(g) BY <1>4, <1>5
<1> HIDE DEF IsWords
<1>7. IsWords(h) BY <1>6
<1> HIDE DEF h
<1>8. IsFold(F, S, h) BY <1>4, <1>7
<1>9. SumOf(F, S) = h[S] BY <1>1, <1>8, SumIsFold
<1>10. QED BY <1>2, <1>9 DEF F

\* Which jobs the sweep closes and which it prunes.
LEMMA SweptSets ==
  ASSUME UsageTypes
  PROVE  /\ U!Closing \in SUBSET Names /\ Gone \in SUBSET Names
         /\ \A n \in Names : n \in U!Closing <=>
              /\ U!HasJob(n) /\ jobs[n].kind = "dictation" /\ jobs[n].reported = U!Awaited
              /\ jobs[n].hour < hour - Grace
         /\ \A n \in Names : n \in Gone <=>
              /\ U!HasJob(n) /\ jobs[n].hour < hour - JobHours
              /\ jobs[n].kind = "dictation" /\ jobs[n].reported = U!Awaited => n \in U!Closing
BY DEF U!Closing, Gone, U!Pruned, U!Reported

\* What the sweep leaves of a job's row.
LEMMA SweptRow ==
  ASSUME UsageTypes, U!Sweep, NEW n \in Names, NEW p, p = jobs[n], NEW q, q = jobs'[n]
  PROVE  /\ ~U!HasJob(n) => p = U!NoJob /\ q = U!NoJob
         /\ n \in Gone => p \in Jobs /\ q = U!NoJob
         /\ U!HasJob(n) /\ n \notin Gone =>
              /\ p \in Jobs /\ q \in Jobs
              /\ q.user = p.user /\ q.kind = p.kind /\ q.hour = p.hour /\ q.words = p.words
              /\ q.utterances = p.utterances /\ q.targets = p.targets
              /\ q.reported = IF n \in U!Closing THEN U!Unreported ELSE p.reported
              /\ q.app = IF p.hour < hour - AppHours THEN U!NoApp ELSE p.app
<1>1. q = IF ~U!HasJob(n) \/ n \in Gone THEN U!NoJob
          ELSE [p EXCEPT !.reported = IF n \in U!Closing THEN U!Unreported ELSE @,
                         !.app = IF p.hour < hour - AppHours THEN U!NoApp ELSE @]
  BY DEF U!Sweep, Gone
<1>2. n \in Gone => U!HasJob(n) BY SweptSets
<1>3. U!HasJob(n) => p \in Jobs BY JobOf
<1>4. ~U!HasJob(n) => p = U!NoJob BY JobOf
<1>5. ASSUME U!HasJob(n), n \notin Gone
      PROVE  /\ p \in Jobs /\ q \in Jobs
             /\ q.user = p.user /\ q.kind = p.kind /\ q.hour = p.hour /\ q.words = p.words
             /\ q.utterances = p.utterances /\ q.targets = p.targets
             /\ q.reported = IF n \in U!Closing THEN U!Unreported ELSE p.reported
             /\ q.app = IF p.hour < hour - AppHours THEN U!NoApp ELSE p.app
  <2>1. p \in Jobs BY <1>3, <1>5
  <2>2. PICK t : t = [p EXCEPT !.reported = IF n \in U!Closing THEN U!Unreported ELSE @] OBVIOUS
  <2>3. /\ t \in Jobs /\ t.user = p.user /\ t.kind = p.kind /\ t.hour = p.hour
        /\ t.words = p.words /\ t.utterances = p.utterances /\ t.targets = p.targets
        /\ t.reported = (IF n \in U!Closing THEN U!Unreported ELSE p.reported)
        /\ t.app = p.app
    BY <2>1, <2>2 DEF Jobs
  <2>4. q = [t EXCEPT !.app = IF p.hour < hour - AppHours THEN U!NoApp ELSE @]
    BY <1>1, <1>5, <2>1, <2>2
  <2>5. /\ q \in Jobs /\ q.user = t.user /\ q.kind = t.kind /\ q.hour = t.hour
        /\ q.words = t.words /\ q.utterances = t.utterances /\ q.targets = t.targets
        /\ q.reported = t.reported
        /\ q.app = (IF p.hour < hour - AppHours THEN U!NoApp ELSE t.app)
    BY <2>3, <2>4 DEF Jobs
  <2>6. QED BY <2>1, <2>3, <2>5
<1>6. QED BY <1>1, <1>2, <1>3, <1>4, <1>5

\* What the sweep adds to a bucket of an hour that is kept.
LEMMA SweptBucket ==
  ASSUME StoresAssumption, UsageTypes, U!Sweep, NEW n \in Names, NEW p, p = jobs[n],
         NEW q, q = jobs'[n], NEW k \in DictatedKeys, k[1] >= hour - JobHours
  PROVE  /\ BucketOne(k, q) = BucketOne(k, p) + (IF n \in ClosedIn(k) THEN 1 ELSE 0)
         /\ BucketWords(k, q) = BucketWords(k, p) + (IF n \in ClosedIn(k) THEN p.words ELSE 0)
<1>1. k[1] \in Int /\ hour \in Int /\ JobHours \in Int
  BY DEF UsageTypes, U!Hours, DictatedKeys, StoresAssumption
<1>2. CASE ~U!HasJob(n)
  <2>1. p = U!NoJob /\ q = U!NoJob BY <1>2, SweptRow
  <2>2. n \notin ClosedIn(k) BY <1>2, SweptSets DEF ClosedIn
  <2>3. QED BY <2>1, <2>2, NoValues
<1>3. CASE n \in Gone
  <2>1. p \in Jobs /\ q = U!NoJob BY <1>3, SweptRow
  <2>2. p.hour < hour - JobHours BY <1>3, SweptSets
  <2>3. p.hour # k[1]
    <3>1. p.hour \in Int BY <2>1 DEF Jobs, U!Hours
    <3>2. QED BY <1>1, <2>2, <3>1
  <2>4. n \notin ClosedIn(k) BY <2>3 DEF ClosedIn
  <2>5. U!Bucket(p) # k BY <2>3 DEF U!Bucket
  <2>6. BucketOne(k, p) = 0 /\ BucketWords(k, p) = 0
    BY <2>5 DEF BucketOne, BucketWords, InBucket
  <2>7. QED BY <2>1, <2>4, <2>6, NoValues
<1>4. CASE U!HasJob(n) /\ n \notin Gone
  <2>1. /\ p \in Jobs /\ q \in Jobs
        /\ q.user = p.user /\ q.kind = p.kind /\ q.hour = p.hour /\ q.words = p.words
        /\ q.reported = IF n \in U!Closing THEN U!Unreported ELSE p.reported
    BY <1>4, SweptRow
  <2>2. p.words \in Int BY <2>1 DEF Jobs
  <2>3. CASE n \in U!Closing
    <3>1. p.kind = "dictation" /\ p.reported = U!Awaited BY <2>3, SweptSets
    <3>2. q.kind = "dictation" /\ q.reported # U!Awaited
      BY <2>1, <2>3, <3>1 DEF U!Unreported, U!Awaited
    <3>3. U!Bucket(q) = <<p.hour, p.user, U!Unreported>> BY <2>1, <2>3 DEF U!Bucket
    <3>4. n \in ClosedIn(k) <=> U!Bucket(q) = k BY <2>3, <3>3 DEF ClosedIn
    <3>5. /\ BucketOne(k, q) = IF k = U!Bucket(q) THEN 1 ELSE 0
          /\ BucketWords(k, q) = IF k = U!Bucket(q) THEN q.words ELSE 0
      BY <2>1, <3>2, RowValues
    <3>6. BucketOne(k, p) = 0 /\ BucketWords(k, p) = 0 BY <2>1, <3>1, RowValues
    <3>7. QED BY <2>1, <2>2, <3>4, <3>5, <3>6
  <2>4. CASE n \notin U!Closing
    <3>1. n \notin ClosedIn(k) BY <2>4 DEF ClosedIn
    <3>2. q.reported = p.reported /\ U!Bucket(q) = U!Bucket(p) BY <2>1, <2>4 DEF U!Bucket
    <3>3. p # U!NoJob /\ q # U!NoJob BY <2>1, JobsAreJobs
    <3>4. BucketOne(k, q) = BucketOne(k, p) /\ BucketWords(k, q) = BucketWords(k, p)
      BY <2>1, <3>2, <3>3 DEF BucketOne, BucketWords, InBucket
    <3>5. BucketOne(k, p) \in {0, 1} /\ BucketWords(k, p) \in Int
      BY <2>1, CountedInts DEF JobRows
    <3>6. QED BY <3>1, <3>4, <3>5
  <2>5. QED BY <2>3, <2>4
<1>5. QED BY <1>2, <1>3, <1>4

\* No job leaves a bucket of the apps of an hour that is kept.
LEMMA SweptApp ==
  ASSUME StoresAssumption, UsageTypes, U!Sweep, NEW n \in Names, NEW p, p = jobs[n],
         NEW q, q = jobs'[n], NEW k \in AppKeys,
         k[1] >= hour - JobHours, k[1] >= hour - AppHours
  PROVE  AppOne(k, q) = AppOne(k, p) /\ AppWords(k, q) = AppWords(k, p)
<1>1. k[1] \in Int /\ hour \in Int /\ JobHours \in Int /\ AppHours \in Int
  BY DEF UsageTypes, U!Hours, AppKeys, StoresAssumption
<1>2. CASE ~U!HasJob(n)
  <2>1. p = U!NoJob /\ q = U!NoJob BY <1>2, SweptRow
  <2>2. QED BY <2>1
<1>3. CASE n \in Gone
  <2>1. p \in Jobs /\ q = U!NoJob BY <1>3, SweptRow
  <2>2. p.hour < hour - JobHours BY <1>3, SweptSets
  <2>3. p.hour # k[1]
    <3>1. p.hour \in Int BY <2>1 DEF Jobs, U!Hours
    <3>2. QED BY <1>1, <2>2, <3>1
  <2>4. <<p.hour, p.user, p.app>> # k BY <2>3
  <2>5. AppOne(k, p) = 0 /\ AppWords(k, p) = 0 BY <2>4 DEF AppOne, AppWords, InApp
  <2>6. QED BY <2>1, <2>5, NoValues
<1>4. CASE U!HasJob(n) /\ n \notin Gone
  <2>1. /\ p \in Jobs /\ q \in Jobs
        /\ q.user = p.user /\ q.hour = p.hour /\ q.words = p.words
        /\ q.app = IF p.hour < hour - AppHours THEN U!NoApp ELSE p.app
    BY <1>4, SweptRow
  <2>2. p # U!NoJob /\ q # U!NoJob BY <2>1, JobsAreJobs
  <2>3. CASE p.hour < hour - AppHours
    <3>1. p.hour \in Int BY <2>1 DEF Jobs, U!Hours
    <3>2. p.hour # k[1] BY <1>1, <2>3, <3>1
    <3>3. <<p.hour, p.user, p.app>> # k /\ <<q.hour, q.user, q.app>> # k BY <2>1, <3>2
    <3>4. QED BY <3>3 DEF AppOne, AppWords, InApp
  <2>4. CASE ~(p.hour < hour - AppHours)
    <3>1. q.app = p.app BY <2>1, <2>4
    <3>2. QED BY <2>1, <2>2, <3>1 DEF AppOne, AppWords, InApp
  <2>5. QED BY <2>3, <2>4
<1>5. QED BY <1>2, <1>3, <1>4

\* A dictation the sweep closes is rolled, and one it prunes stays counted.
LEMMA SweptRolled ==
  ASSUME StoresAssumption, UsageTypes, U!Sweep, NEW n \in Names, JobCounted(n)
  PROVE  RolledOne(jobs'[n]) + PrunedOne(n, pruned')
           = RolledOne(jobs[n]) + PrunedOne(n, pruned) + (IF n \in U!Closing THEN 1 ELSE 0)
<1>1. PICK p : p = jobs[n] OBVIOUS
<1>2. PICK q : q = jobs'[n] OBVIOUS
<1>3. pruned' = pruned \cup {<<m, jobs[m].kind>> : m \in Gone} BY DEF U!Sweep, Gone
<1>4. n \notin Gone => PrunedOne(n, pruned') = PrunedOne(n, pruned) BY <1>3 DEF PrunedOne
<1>5. PrunedOne(n, pruned) \in {0, 1} BY DEF PrunedOne
<1>6. CASE ~U!HasJob(n)
  <2>1. p = U!NoJob /\ q = U!NoJob BY <1>1, <1>2, <1>6, SweptRow
  <2>2. n \notin Gone /\ n \notin U!Closing BY <1>6, SweptSets
  <2>3. RolledOne(p) = 0 /\ RolledOne(q) = 0 BY <2>1 DEF RolledOne, Rolled
  <2>4. QED BY <1>1, <1>2, <1>4, <1>5, <2>2, <2>3
<1>7. CASE n \in Gone
  <2>1. p \in Jobs /\ q = U!NoJob BY <1>1, <1>2, <1>7, SweptRow
  <2>2. U!HasJob(n) /\ p # U!NoJob BY <1>7, <2>1, SweptSets, JobsAreJobs
  <2>3. ~U!Dropped(n) BY <2>2 DEF JobCounted
  <2>4. PrunedOne(n, pruned) = 0 BY <2>3 DEF PrunedOne, U!Dropped, U!Known
  <2>5. RolledOne(q) = 0 BY <2>1 DEF RolledOne, Rolled
  <2>6. CASE p.kind = "dictation"
    <3>1. <<n, "dictation">> \in pruned' BY <1>1, <1>3, <1>7, <2>6
    <3>2. PrunedOne(n, pruned') = 1 BY <3>1 DEF PrunedOne
    <3>3. p.reported = U!Awaited <=> n \in U!Closing BY <1>1, <1>7, <2>6, SweptSets
    <3>4. RolledOne(p) = IF n \in U!Closing THEN 0 ELSE 1
      BY <2>2, <2>6, <3>3 DEF RolledOne, Rolled
    <3>5. QED BY <1>1, <1>2, <2>4, <2>5, <3>2, <3>4
  <2>7. CASE p.kind # "dictation"
    <3>1. <<n, "dictation">> \notin pruned
      BY <2>3 DEF U!Dropped, U!Known
    <3>2. <<n, "dictation">> \notin pruned' BY <1>1, <1>3, <2>7, <3>1
    <3>3. PrunedOne(n, pruned') = 0 BY <3>2 DEF PrunedOne
    <3>4. RolledOne(p) = 0 BY <2>7 DEF RolledOne, Rolled
    <3>5. n \notin U!Closing BY <1>1, <2>7, SweptSets
    <3>6. QED BY <1>1, <1>2, <2>4, <2>5, <3>3, <3>4, <3>5
  <2>8. QED BY <2>6, <2>7
<1>8. CASE U!HasJob(n) /\ n \notin Gone
  <2>1. /\ p \in Jobs /\ q \in Jobs /\ q.kind = p.kind
        /\ q.reported = IF n \in U!Closing THEN U!Unreported ELSE p.reported
    BY <1>1, <1>2, <1>8, SweptRow
  <2>2. p # U!NoJob /\ q # U!NoJob BY <2>1, JobsAreJobs
  <2>3. RolledOne(q) = RolledOne(p) + (IF n \in U!Closing THEN 1 ELSE 0)
    <3>1. CASE n \in U!Closing
      <4>1. p.kind = "dictation" /\ p.reported = U!Awaited BY <1>1, <3>1, SweptSets
      <4>2. q.reported # U!Awaited BY <2>1, <3>1 DEF U!Unreported, U!Awaited
      <4>3. RolledOne(p) = 0 BY <4>1 DEF RolledOne, Rolled
      <4>4. RolledOne(q) = 1 BY <2>1, <2>2, <4>1, <4>2 DEF RolledOne, Rolled
      <4>5. QED BY <3>1, <4>3, <4>4
    <3>2. CASE n \notin U!Closing
      <4>1. RolledOne(q) = RolledOne(p) BY <2>1, <2>2, <3>2 DEF RolledOne, Rolled
      <4>2. RolledOne(p) \in {0, 1} BY DEF RolledOne
      <4>3. QED BY <3>2, <4>1, <4>2
    <3>3. QED BY <3>1, <3>2
  <2>4. RolledOne(p) \in {0, 1} BY DEF RolledOne
  <2>5. QED BY <1>1, <1>2, <1>4, <1>5, <1>8, <2>3, <2>4
<1>9. QED BY <1>6, <1>7, <1>8

\* Only a job that goes takes its targets with it.
LEMMA SweptTarget ==
  ASSUME UsageTypes, U!Sweep, NEW n \in Names, NEW l
  PROVE  TargetOne(l, jobs'[n]) = IF n \in Gone THEN 0 ELSE TargetOne(l, jobs[n])
<1>1. PICK p : p = jobs[n] OBVIOUS
<1>2. PICK q : q = jobs'[n] OBVIOUS
<1>3. CASE ~U!HasJob(n)
  <2>1. p = q /\ n \notin Gone BY <1>1, <1>2, <1>3, SweptRow, SweptSets
  <2>2. QED BY <1>1, <1>2, <2>1
<1>4. CASE n \in Gone
  <2>1. q = U!NoJob BY <1>2, <1>4, SweptRow
  <2>2. QED BY <1>2, <1>4, <2>1, NoValues
<1>5. CASE U!HasJob(n) /\ n \notin Gone
  <2>1. p \in Jobs /\ q \in Jobs /\ q.targets = p.targets BY <1>1, <1>2, <1>5, SweptRow
  <2>2. p # U!NoJob /\ q # U!NoJob BY <2>1, JobsAreJobs
  <2>3. TargetOne(l, q) = TargetOne(l, p) BY <2>1, <2>2 DEF TargetOne, HasTarget
  <2>4. QED BY <1>1, <1>2, <1>5, <2>3
<1>6. QED BY <1>3, <1>4, <1>5

\* What is pruned is new, and as many as the jobs that go.
LEMMA SweptPruned ==
  ASSUME StoresAssumption, UsageTypes, U!Sweep, \A n \in Names : JobCounted(n)
  PROVE  /\ pruned' \in SUBSET (Names \X JobKinds) /\ IsFiniteSet(Gone)
         /\ Cardinality(Gone) \in Nat
         /\ Cardinality(pruned') \in Nat
         /\ Cardinality(pruned') >= Cardinality(pruned) + Cardinality(Gone)
         /\ \A n \in Names : U!Dropped(n)' <=> U!Dropped(n) \/ n \in Gone
<1>1. PICK more : more = {<<m, jobs[m].kind>> : m \in Gone} OBVIOUS
<1>2. pruned' = pruned \cup more BY <1>1 DEF U!Sweep, Gone
<1>3. Gone \in SUBSET Names /\ \A m \in Gone : U!HasJob(m) /\ jobs[m] \in Jobs
  BY SweptSets, JobOf
<1>4. \A m \in Gone : jobs[m].kind \in JobKinds BY <1>3 DEF Jobs
<1>5. more \in SUBSET (Names \X JobKinds) BY <1>1, <1>3, <1>4
<1>6. pruned' \in SUBSET (Names \X JobKinds) BY <1>2, <1>5 DEF UsageTypes
<1>7. IsFiniteSet(Gone) BY <1>3, FS_Subset DEF StoresAssumption
<1>8. JobKinds = U!Known \cup {"unknown"} BY DEF JobKinds
<1>9. ASSUME NEW m \in Gone, NEW b \in JobKinds PROVE <<m, b>> \notin pruned
  <2>1. ~U!Dropped(m) BY <1>3 DEF JobCounted
  <2>2. QED BY <1>8, <2>1 DEF U!Dropped
<1>10. pruned \cap more = {} BY <1>1, <1>4, <1>9
<1>11. IsFiniteSet(more) /\ Cardinality(Gone) <= Cardinality(more)
  <2> DEFINE f == [m \in Gone |-> <<m, jobs[m].kind>>]
  <2>1. f \in [Gone -> more] BY <1>1
  <2>2. \A x \in more : \E m \in Gone : f[m] = x BY <1>1
  <2>3. \A x \in Gone, y \in Gone : f[x] = f[y] => x = y OBVIOUS
  <2> HIDE DEF f
  <2>4. f \in Surjection(Gone, more) BY <2>1, <2>2 DEF Surjection
  <2>5. f \in Injection(Gone, more) BY <2>1, <2>3 DEF Injection, IsInjective
  <2>6. IsFiniteSet(more) BY <1>7, <2>4, FS_Surjection
  <2>7. QED BY <2>5, <2>6, FS_Injection
<1>12. IsFiniteSet(pruned) /\ Cardinality(pruned) \in Nat BY LimitsFinite
<1>13. Cardinality(Gone) \in Nat /\ Cardinality(more) \in Nat BY <1>7, <1>11, FS_CardinalityType
<1>14. Cardinality(pruned') = Cardinality(pruned) + Cardinality(more)
  <2>1. Cardinality(pruned \cup more)
          = Cardinality(pruned) + Cardinality(more) - Cardinality(pruned \cap more)
    BY <1>11, <1>12, FS_Union
  <2>2. Cardinality(pruned \cap more) = 0 BY <1>10, FS_EmptySet
  <2>3. QED BY <1>2, <1>12, <1>13, <2>1, <2>2
<1>15. \A n \in Names : U!Dropped(n)' <=> U!Dropped(n) \/ n \in Gone
  <2> SUFFICES ASSUME NEW n \in Names PROVE U!Dropped(n)' <=> U!Dropped(n) \/ n \in Gone
    OBVIOUS
  <2>1. U!Dropped(n)' <=> \E b \in JobKinds : <<n, b>> \in pruned' BY <1>8 DEF U!Dropped
  <2>2. U!Dropped(n) <=> \E b \in JobKinds : <<n, b>> \in pruned BY <1>8 DEF U!Dropped
  <2>3. (\E b \in JobKinds : <<n, b>> \in more) <=> n \in Gone BY <1>1, <1>4
  <2>4. QED BY <1>2, <2>1, <2>2, <2>3
<1>16. QED BY <1>6, <1>7, <1>11, <1>12, <1>13, <1>14, <1>15

\* What the sweep adds to the table of the dictations.
LEMMA SweptTable ==
  ASSUME StoresAssumption, UsageTypes, U!Sweep
  PROVE  /\ dictated' \in [DictatedKeys -> Counts]
         /\ \A k \in DictatedKeys :
              /\ ClosedIn(k) \in SUBSET Names
              /\ dictated'[k].sessions = dictated[k].sessions + Cardinality(ClosedIn(k))
              /\ dictated'[k].words = dictated[k].words + SumOf(WordsOf(jobs), ClosedIn(k))
              /\ SumOf(WordsOf(jobs), ClosedIn(k)) \in Int /\ Cardinality(ClosedIn(k)) \in Nat
<1>1. PICK W : W = WordsOf(jobs) OBVIOUS
<1>2. \A n \in U!Closing : n \in Names /\ W[n] \in Int
  <2> SUFFICES ASSUME NEW n \in U!Closing PROVE n \in Names /\ W[n] \in Int OBVIOUS
  <2>1. n \in Names /\ U!HasJob(n) BY SweptSets
  <2>2. jobs[n] \in Jobs BY <2>1, JobOf
  <2>3. QED BY <1>1, <2>1, <2>2 DEF Jobs, WordsOf
<1>3. ASSUME NEW k \in DictatedKeys
      PROVE  /\ ClosedIn(k) \in SUBSET Names
             /\ SumOf(W, ClosedIn(k)) \in Int /\ Cardinality(ClosedIn(k)) \in Nat
  <2>1. \A n \in ClosedIn(k) : n \in U!Closing BY DEF ClosedIn
  <2>2. ClosedIn(k) \in SUBSET Names BY <1>2, <2>1
  <2>3. IsFiniteSet(ClosedIn(k)) BY <2>2, FS_Subset DEF StoresAssumption
  <2>4. \A n \in ClosedIn(k) : W[n] \in Int BY <1>2, <2>1
  <2>5. QED BY <2>2, <2>3, <2>4, SumAdds, FS_CardinalityType
<1>4. DOMAIN dictated = DictatedKeys BY DEF UsageTypes
<1>5. ASSUME NEW k \in DictatedKeys
      PROVE  dictated'[k] = [sessions |-> dictated[k].sessions + Cardinality(ClosedIn(k)),
                             words |-> dictated[k].words + SumOf(W, ClosedIn(k))]
  <2>1. dictated'[k] =
          [sessions |-> dictated[k].sessions + U!Cardinality(ClosedIn(k)),
           words |-> dictated[k].words + U!SumSet(LAMBDA n : jobs[n].words, ClosedIn(k))]
    BY <1>4 DEF U!Sweep, ClosedIn
  <2>2. ClosedIn(k) \in SUBSET Names BY <1>3
  <2>3. U!SumSet(LAMBDA n : jobs[n].words, ClosedIn(k)) = SumOf(W, ClosedIn(k))
    BY <1>1, <2>2, WordsSum
  <2>4. QED BY <2>1, <2>3, UsageCardinality
<1>6. \A k \in DictatedKeys : dictated[k].sessions \in Int /\ dictated[k].words \in Int
  BY DEF UsageTypes, Counts
<1>7. ASSUME NEW k \in DictatedKeys
      PROVE  /\ dictated'[k] \in Counts
             /\ dictated'[k].sessions = dictated[k].sessions + Cardinality(ClosedIn(k))
             /\ dictated'[k].words = dictated[k].words + SumOf(W, ClosedIn(k))
  <2>1. PICK m \in Int : m = dictated[k].sessions + Cardinality(ClosedIn(k)) BY <1>3, <1>6
  <2>2. PICK w \in Int : w = dictated[k].words + SumOf(W, ClosedIn(k)) BY <1>3, <1>6
  <2>3. dictated'[k] = [sessions |-> m, words |-> w] BY <1>5, <2>1, <2>2
  <2>4. dictated'[k] \in Counts /\ dictated'[k].sessions = m /\ dictated'[k].words = w
    BY <2>3 DEF Counts
  <2>5. QED BY <2>1, <2>2, <2>4
<1>8. dictated' \in [DictatedKeys -> Counts]
  <2>1. \E f : dictated' = [k \in DictatedKeys |-> f[k]]
    <3>1. dictated' = [k \in DictatedKeys |-> dictated'[k]] BY <1>4 DEF U!Sweep
    <3>2. QED BY <3>1
  <2>2. QED BY <1>7, <2>1
<1>9. QED BY <1>1, <1>3, <1>7, <1>8

\* The buckets of the hours that are kept still are the sums over the jobs.
LEMMA SweepDictated ==
  ASSUME StoresAssumption, UsageTypes, UsageTypes', DictatedSums, U!Sweep PROVE DictatedSums'
<1>1. swept' = hour /\ swept <= hour /\ swept \in Int /\ hour \in Int /\ JobHours \in Int
  <2>1. swept' = hour BY DEF U!Sweep
  <2>2. QED BY <2>1 DEF UsageTypes, U!Hours, StoresAssumption
<1> SUFFICES ASSUME NEW k \in DictatedKeys, k[1] >= hour - JobHours
             PROVE  /\ dictated'[k].sessions = SumOf(BucketOnes(k, jobs'), Names)
                    /\ dictated'[k].words = SumOf(BucketSums(k, jobs'), Names)
  BY <1>1 DEF DictatedSums
<1>2. k[1] >= swept - JobHours
  <2>1. k[1] \in Int BY DEF DictatedKeys, U!Hours
  <2>2. QED BY <1>1, <2>1
<1>3. /\ dictated[k].sessions = SumOf(BucketOnes(k, jobs), Names)
      /\ dictated[k].words = SumOf(BucketSums(k, jobs), Names)
  BY <1>2 DEF DictatedSums
<1>4. PICK T : T = ClosedIn(k) OBVIOUS
<1>5. PICK W : W = WordsOf(jobs) OBVIOUS
<1>6. /\ T \in SUBSET Names
      /\ dictated'[k].sessions = dictated[k].sessions + Cardinality(T)
      /\ dictated'[k].words = dictated[k].words + SumOf(W, T)
  BY <1>4, <1>5, SweptTable
<1>7. \A n \in Names : jobs[n] \in JobRows /\ jobs'[n] \in JobRows BY DEF UsageTypes, JobRows
<1>8. \A n \in T : W[n] \in Int /\ W[n] = jobs[n].words
  <2> SUFFICES ASSUME NEW n \in T PROVE W[n] \in Int /\ W[n] = jobs[n].words OBVIOUS
  <2>1. n \in Names /\ n \in U!Closing BY <1>4, <1>6 DEF ClosedIn
  <2>2. jobs[n] \in Jobs BY <2>1, SweptSets, JobOf
  <2>3. QED BY <1>5, <2>1, <2>2 DEF Jobs, WordsOf
<1>9. dictated'[k].sessions = SumOf(BucketOnes(k, jobs'), Names)
  <2>1. PICK F, G : F = BucketOnes(k, jobs) /\ G = BucketOnes(k, jobs') OBVIOUS
  <2>2. PICK E : E = [n \in Names |-> IF n \in T THEN 1 ELSE 0] OBVIOUS
  <2>3. \A n \in Names : F[n] = BucketOne(k, jobs[n]) /\ G[n] = BucketOne(k, jobs'[n])
    BY <2>1 DEF BucketOnes
  <2>4. \A n \in Names : G[n] = F[n] + E[n] BY <1>4, <2>2, <2>3, SweptBucket
  <2>5. \A n \in Names : F[n] \in Int BY <1>7, <2>3, CountedInts
  <2>6. \A n \in Names : E[n] \in Int BY <2>2
  <2>7. SumOf(G, Names) = SumOf(F, Names) + SumOf(E, Names)
    BY <2>4, <2>5, <2>6, UsageFinite, SumPlus
  <2>8. \A n \in Names : E[n] = IF n \in T THEN 1 ELSE 0 BY <2>2
  <2>9. SumOf(E, Names) = Cardinality(T) BY <1>6, <2>8, UsageFinite, SumOnes
  <2>10. QED BY <1>3, <1>6, <2>1, <2>7, <2>9
<1>10. dictated'[k].words = SumOf(BucketSums(k, jobs'), Names)
  <2>1. PICK F, G : F = BucketSums(k, jobs) /\ G = BucketSums(k, jobs') OBVIOUS
  <2>2. PICK E : E = [n \in Names |-> IF n \in T THEN W[n] ELSE 0] OBVIOUS
  <2>3. \A n \in Names : F[n] = BucketWords(k, jobs[n]) /\ G[n] = BucketWords(k, jobs'[n])
    BY <2>1 DEF BucketSums
  <2>4. \A n \in Names : E[n] = IF n \in T THEN W[n] ELSE 0 BY <2>2
  <2>5. \A n \in Names : G[n] = F[n] + E[n]
    <3> SUFFICES ASSUME NEW n \in Names PROVE G[n] = F[n] + E[n] OBVIOUS
    <3>1. BucketWords(k, jobs'[n])
            = BucketWords(k, jobs[n]) + (IF n \in T THEN jobs[n].words ELSE 0)
      BY <1>4, SweptBucket
    <3>2. E[n] = IF n \in T THEN jobs[n].words ELSE 0 BY <1>8, <2>4
    <3>3. QED BY <2>3, <3>1, <3>2
  <2>6. \A n \in Names : F[n] \in Int BY <1>7, <2>3, CountedInts
  <2>7. \A n \in Names : E[n] \in Int BY <1>8, <2>4
  <2>8. SumOf(G, Names) = SumOf(F, Names) + SumOf(E, Names)
    BY <2>5, <2>6, <2>7, UsageFinite, SumPlus
  <2>9. \A n \in T : W[n] \in Int BY <1>8
  <2>10. SumOf(E, Names) = SumOf(W, T) BY <1>6, <2>4, <2>9, UsageFinite, SumMasked
  <2>11. QED BY <1>3, <1>6, <2>1, <2>8, <2>10
<1>11. QED BY <1>9, <1>10

\* The sweep leaves the app buckets it does not drop to their jobs.
LEMMA SweepApps ==
  ASSUME StoresAssumption, UsageTypes, UsageTypes', AppsSums, U!Sweep PROVE AppsSums'
<1>1. /\ swept' = hour /\ swept <= hour /\ swept \in Int /\ hour \in Int
      /\ JobHours \in Int /\ AppHours \in Int
  <2>1. swept' = hour BY DEF U!Sweep
  <2>2. QED BY <2>1 DEF UsageTypes, U!Hours, StoresAssumption
<1> SUFFICES ASSUME NEW k \in AppKeys, k[1] >= hour - JobHours, k[1] >= hour - AppHours
             PROVE  /\ apps'[k].sessions = SumOf(AppOnes(k, jobs'), Names)
                    /\ apps'[k].words = SumOf(AppSums(k, jobs'), Names)
  BY <1>1 DEF AppsSums
<1>2. k[1] \in Int BY DEF AppKeys, U!Hours
<1>3. k[1] >= swept - JobHours /\ k[1] >= swept - AppHours BY <1>1, <1>2
<1>4. /\ apps[k].sessions = SumOf(AppOnes(k, jobs), Names)
      /\ apps[k].words = SumOf(AppSums(k, jobs), Names)
  BY <1>3 DEF AppsSums
<1>5. apps'[k] = apps[k]
  <2>1. ~(k[1] < hour - AppHours) BY <1>1, <1>2
  <2>2. DOMAIN apps = AppKeys BY DEF UsageTypes
  <2>3. QED BY <2>1, <2>2 DEF U!Sweep
<1>6. \A n \in Names : /\ AppOne(k, jobs'[n]) = AppOne(k, jobs[n])
                       /\ AppWords(k, jobs'[n]) = AppWords(k, jobs[n])
  BY SweptApp
<1>7. AppOnes(k, jobs') = AppOnes(k, jobs) BY <1>6 DEF AppOnes
<1>8. AppSums(k, jobs') = AppSums(k, jobs) BY <1>6 DEF AppSums
<1>9. QED BY <1>4, <1>5, <1>7, <1>8

\* What the sweep closes it rolls once.
LEMMA SweepRolled ==
  ASSUME StoresAssumption, UsageTypes, UsageTypes', RolledSum, U!Sweep,
         \A n \in Names : JobCounted(n)
  PROVE  RolledSum'
<1>1. PICK F, G : F = SessionsOf(dictated) /\ G = SessionsOf(dictated') OBVIOUS
<1>2. PICK E : E = [k \in DictatedKeys |-> Cardinality(ClosedIn(k))] OBVIOUS
<1>3. \A k \in DictatedKeys : F[k] = dictated[k].sessions /\ G[k] = dictated'[k].sessions
  BY <1>1 DEF SessionsOf
<1>4. \A k \in DictatedKeys : F[k] \in Int BY <1>3 DEF UsageTypes, Counts
<1>5. \A k \in DictatedKeys : E[k] = Cardinality(ClosedIn(k)) /\ E[k] \in Int
  BY <1>2, SweptTable
<1>6. \A k \in DictatedKeys : G[k] = F[k] + E[k] BY <1>3, <1>5, SweptTable
<1>7. SumOf(G, DictatedKeys) = SumOf(F, DictatedKeys) + SumOf(E, DictatedKeys)
  BY <1>4, <1>5, <1>6, UsageFinite, SumPlus
<1>8. PICK J : J = U!Closing OBVIOUS
<1>9. J \in SUBSET Names /\ IsFiniteSet(J) BY <1>8, SweptSets, FS_Subset DEF StoresAssumption
<1>10. SumOf(E, DictatedKeys) = Cardinality(J)
  <2>1. PICK class : class = [n \in J |-> <<jobs[n].hour, jobs[n].user, U!Unreported>>] OBVIOUS
  <2>2. \A n \in J : class[n] \in DictatedKeys
    <3> SUFFICES ASSUME NEW n \in J PROVE class[n] \in DictatedKeys OBVIOUS
    <3>1. n \in Names /\ U!HasJob(n) BY <1>8, SweptSets
    <3>2. jobs[n] \in Jobs BY <3>1, JobOf
    <3>3. QED BY <2>1, <3>2 DEF Jobs, DictatedKeys
  <2>3. \A k \in DictatedKeys : E[k] = Cardinality(InClass(J, class, k))
    <3> SUFFICES ASSUME NEW k \in DictatedKeys
                 PROVE E[k] = Cardinality(InClass(J, class, k))
      OBVIOUS
    <3>1. InClass(J, class, k) = ClosedIn(k) BY <1>8, <2>1 DEF ClosedIn, InClass
    <3>2. QED BY <1>5, <3>1
  <2>4. QED BY <1>9, <2>2, <2>3, UsageFinite, SumOfClasses
<1>11. PICK f, g : f = RolledOnes(jobs, pruned) /\ g = RolledOnes(jobs', pruned') OBVIOUS
<1>12. PICK e : e = [n \in Names |-> IF n \in J THEN 1 ELSE 0] OBVIOUS
<1>13. \A n \in Names : /\ f[n] = RolledOne(jobs[n]) + PrunedOne(n, pruned)
                        /\ g[n] = RolledOne(jobs'[n]) + PrunedOne(n, pruned')
  BY <1>11 DEF RolledOnes
<1>14. \A n \in Names : f[n] \in Int
  <2>1. \A n \in Names : RolledOne(jobs[n]) \in {0, 1} /\ PrunedOne(n, pruned) \in {0, 1}
    BY DEF RolledOne, PrunedOne
  <2>2. QED BY <1>13, <2>1
<1>15. \A n \in Names : e[n] \in Int /\ e[n] = IF n \in J THEN 1 ELSE 0 BY <1>12
<1>16. \A n \in Names : g[n] = f[n] + e[n] BY <1>8, <1>13, <1>15, SweptRolled
<1>17. SumOf(g, Names) = SumOf(f, Names) + SumOf(e, Names)
  BY <1>14, <1>15, <1>16, UsageFinite, SumPlus
<1>18. SumOf(e, Names) = Cardinality(J) BY <1>9, <1>15, UsageFinite, SumOnes
<1>19. SumOf(F, DictatedKeys) = SumOf(f, Names) BY <1>1, <1>11 DEF RolledSum
<1>20. SumOf(G, DictatedKeys) = SumOf(g, Names) BY <1>7, <1>10, <1>17, <1>18, <1>19
<1>21. QED BY <1>1, <1>11, <1>20 DEF RolledSum

\* What the targets lose with a job that goes, the pruned make up for.
LEMMA SweepTargets ==
  ASSUME StoresAssumption, UsageTypes, UsageTypes', TargetsSums, U!Sweep,
         \A n \in Names : JobCounted(n)
  PROVE  TargetsSums'
<1>1. targets' = targets /\ counted' = counted BY DEF U!Sweep
<1>2. /\ Gone \in SUBSET Names /\ IsFiniteSet(Gone) /\ Cardinality(Gone) \in Nat
      /\ Cardinality(pruned') \in Nat
      /\ Cardinality(pruned') >= Cardinality(pruned) + Cardinality(Gone)
  BY SweptSets, SweptPruned
<1>3. Cardinality(pruned) \in Nat /\ Cardinality(Jobless(counted)) \in Nat BY LimitsFinite
<1>4. \A n \in Names : jobs[n] \in JobRows /\ jobs'[n] \in JobRows BY DEF UsageTypes, JobRows
<1>5. PICK J : J = Gone OBVIOUS
<1>6. ASSUME NEW l \in Langs
      PROVE  /\ SumOf(TargetOnes(l, jobs'), Names) <= targets[l]
             /\ targets[l] <= SumOf(TargetOnes(l, jobs'), Names) + Cardinality(pruned')
                                + Cardinality(Jobless(counted))
  <2>1. PICK F, G : F = TargetOnes(l, jobs) /\ G = TargetOnes(l, jobs') OBVIOUS
  <2>2. PICK E : E = [n \in Names |-> IF n \in J THEN 1 ELSE 0] OBVIOUS
  <2>3. PICK H : H = [n \in Names |-> G[n] + E[n]] OBVIOUS
  <2>4. \A n \in Names : F[n] = TargetOne(l, jobs[n]) /\ G[n] = TargetOne(l, jobs'[n])
    BY <2>1 DEF TargetOnes
  <2>5. \A n \in Names : F[n] \in {0, 1} /\ G[n] \in {0, 1} BY <2>4 DEF TargetOne
  <2>6. \A n \in Names : G[n] = IF n \in J THEN 0 ELSE F[n] BY <1>5, <2>4, SweptTarget
  <2>7. \A n \in Names : E[n] = IF n \in J THEN 1 ELSE 0 BY <2>2
  <2>8. \A n \in Names : H[n] = G[n] + E[n] BY <2>3
  <2>9. \A n \in Names : F[n] \in Int BY <2>5
  <2>10. \A n \in Names : G[n] \in Int BY <2>5
  <2>11. \A n \in Names : E[n] \in Int BY <2>7
  <2>12. \A n \in Names : H[n] \in Int BY <2>8, <2>10, <2>11
  <2>13. \A n \in Names : G[n] <= F[n] BY <2>5, <2>6
  <2>14. \A n \in Names : F[n] <= H[n] BY <2>5, <2>6, <2>7, <2>8
  <2>15. SumOf(G, Names) <= SumOf(F, Names) BY <2>9, <2>10, <2>13, UsageFinite, SumAtMost
  <2>16. SumOf(F, Names) <= SumOf(H, Names) BY <2>9, <2>12, <2>14, UsageFinite, SumAtMost
  <2>17. SumOf(H, Names) = SumOf(G, Names) + SumOf(E, Names)
    BY <2>8, <2>10, <2>11, UsageFinite, SumPlus
  <2>18. SumOf(E, Names) = Cardinality(Gone) BY <1>2, <1>5, <2>7, UsageFinite, SumOnes
  <2>19. /\ SumOf(F, Names) \in Int /\ SumOf(G, Names) \in Int /\ SumOf(H, Names) \in Int
    BY <2>9, <2>10, <2>12, UsageFinite, SumAdds
  <2>20. /\ SumOf(F, Names) <= targets[l]
         /\ targets[l] <= SumOf(F, Names) + Cardinality(pruned) + Cardinality(Jobless(counted))
    BY <2>1 DEF TargetsSums
  <2>21. targets[l] \in Int BY DEF UsageTypes
  <2>22. SumOf(G, Names) <= targets[l] BY <2>15, <2>19, <2>20, <2>21
  <2>23. SumOf(F, Names) <= SumOf(G, Names) + Cardinality(Gone)
    BY <1>2, <2>16, <2>17, <2>18, <2>19
  <2>24. targets[l] <= SumOf(G, Names) + Cardinality(pruned') + Cardinality(Jobless(counted))
    BY <1>2, <1>3, <2>19, <2>20, <2>21, <2>23
  <2>25. QED BY <2>1, <2>22, <2>24
<1>7. QED BY <1>1, <1>6 DEF TargetsSums

\* What is left of a job is counted as it was, and what goes is dropped.
LEMMA SweepCounted ==
  ASSUME StoresAssumption, UsageTypes, U!Sweep, \A m \in Names : JobCounted(m), NEW n \in Names
  PROVE  JobCounted(n)'
<1>1. PICK p : p = jobs[n] OBVIOUS
<1>2. PICK q : q = jobs'[n] OBVIOUS
<1>3. counted' = counted BY DEF U!Sweep
<1>4. U!Dropped(n)' <=> U!Dropped(n) \/ n \in Gone BY SweptPruned
<1>5. JobCounted(n) OBVIOUS
<1>6. CASE ~U!HasJob(n)
  <2>1. p = q BY <1>1, <1>2, <1>6, SweptRow
  <2>2. ~U!HasJob(n)' BY <1>1, <1>2, <1>6, <2>1 DEF U!HasJob
  <2>3. n \notin Gone BY <1>6, SweptSets
  <2>4. U!Fresh(n) BY <1>6 DEF U!Fresh
  <2>5. QED BY <1>3, <1>4, <1>5, <2>2, <2>3, <2>4 DEF JobCounted
<1>7. CASE n \in Gone
  <2>1. q = U!NoJob BY <1>2, <1>7, SweptRow
  <2>2. ~U!HasJob(n)' BY <1>2, <2>1 DEF U!HasJob
  <2>3. U!Dropped(n)' BY <1>4, <1>7
  <2>4. QED BY <2>2, <2>3 DEF JobCounted
<1>8. CASE U!HasJob(n) /\ n \notin Gone
  <2>1. /\ p \in Jobs /\ q \in Jobs
        /\ q.user = p.user /\ q.kind = p.kind /\ q.words = p.words
        /\ q.utterances = p.utterances /\ q.targets = p.targets
        /\ q.reported = IF n \in U!Closing THEN U!Unreported ELSE p.reported
        /\ q.app = IF p.hour < hour - AppHours THEN U!NoApp ELSE p.app
    BY <1>1, <1>2, <1>8, SweptRow
  <2>2. U!HasJob(n)' BY <1>2, <2>1, JobsAreJobs DEF U!HasJob
  <2>3. ~U!Dropped(n)' BY <1>4, <1>5, <1>8 DEF JobCounted
  <2>4. JobRules(p) BY <1>1, <1>5, <1>8 DEF JobCounted
  <2>5. n \in U!Closing => p.kind = "dictation" BY <1>1, SweptSets
  <2>6. JobRules(q)
    <3>1. q.utterances = 0 => q.words = 0 /\ q.reported # U!Awaited
      BY <2>1, <2>4 DEF JobRules, U!Unreported, U!Awaited
    <3>2. q.reported # U!Awaited => q.kind = "dictation" BY <2>1, <2>4, <2>5 DEF JobRules
    <3>3. q.app # U!NoApp => q.reported # U!Awaited
      BY <2>1, <2>4 DEF JobRules, U!Unreported, U!Awaited
    <3>4. Cardinality(q.targets) <= TargetsMax BY <2>1, <2>4 DEF JobRules
    <3>5. QED BY <3>1, <3>2, <3>3, <3>4 DEF JobRules
  <2>7. U!Fresh(n)' <=> U!Fresh(n) BY <1>1, <1>2, <1>8, <2>1, <2>2 DEF U!Fresh
  <2>8. q.utterances # 0 => <<q.user, n>> \in counted' BY <1>1, <1>3, <1>5, <1>8, <2>1 DEF JobCounted
  <2>9. U!Fresh(n)' => \A v \in Users : <<v, n>> \notin counted'
    BY <1>3, <1>4, <1>5, <2>3, <2>7 DEF JobCounted
  <2>10. QED BY <1>2, <2>2, <2>3, <2>6, <2>8, <2>9 DEF JobCounted
<1>9. QED BY <1>6, <1>7, <1>8

\* The sweep.
LEMMA SweepKeeps ==
  ASSUME StoresAssumption, UsageInv, U!Sweep PROVE UsageInv'
<1>1. /\ UsageTypes /\ Tables /\ TargetsSums /\ sessions = Cardinality(counted)
      /\ \A n \in Names : JobCounted(n)
  BY DEF UsageInv
<1>2. /\ swept' = hour /\ hour' = hour /\ sessions' = sessions /\ targets' = targets
      /\ counted' = counted /\ posted' = posted
  BY DEF U!Sweep
<1>3. jobs' \in [Names -> Jobs \cup {U!NoJob}]
  <2>1. \A n \in Names : jobs'[n] \in Jobs \cup {U!NoJob}
    <3> SUFFICES ASSUME NEW n \in Names PROVE jobs'[n] \in Jobs \cup {U!NoJob} OBVIOUS
    <3>1. CASE ~U!HasJob(n) BY <1>1, <3>1, SweptRow
    <3>2. CASE n \in Gone BY <1>1, <3>2, SweptRow
    <3>3. CASE U!HasJob(n) /\ n \notin Gone BY <1>1, <3>3, SweptRow
    <3>4. QED BY <3>1, <3>2, <3>3
  <2>2. jobs' = [n \in Names |-> jobs'[n]] BY DEF U!Sweep
  <2>3. QED BY <2>1, <2>2
<1>4. apps' \in [AppKeys -> Counts]
  <2>1. U!NoCount \in Counts BY DEF U!NoCount, Counts
  <2>2. apps \in [AppKeys -> Counts] BY <1>1 DEF UsageTypes
  <2>3. apps' = [k \in AppKeys |-> IF k[1] < hour - AppHours THEN U!NoCount ELSE apps[k]]
    BY <2>2 DEF U!Sweep
  <2>4. QED BY <2>1, <2>2, <2>3
<1>5. UsageTypes'
  <2>1. pruned' \in SUBSET (Names \X JobKinds) BY <1>1, SweptPruned
  <2>2. dictated' \in [DictatedKeys -> Counts] BY <1>1, SweptTable
  <2>3. hour \in Int BY <1>1 DEF UsageTypes, U!Hours
  <2>4. QED BY <1>1, <1>2, <1>3, <1>4, <2>1, <2>2, <2>3 DEF UsageTypes
<1>6. \A n \in Names : JobCounted(n)' BY <1>1, SweepCounted
<1>7. Tables' BY <1>1, <1>5, SweepDictated, SweepApps, SweepRolled DEF Tables
<1>8. TargetsSums' BY <1>1, <1>5, SweepTargets
<1>9. QED BY <1>1, <1>2, <1>5, <1>6, <1>7, <1>8 DEF UsageInv

\* A sum of nothing but zeros.
LEMMA SumOfZeros ==
  ASSUME NEW G, NEW S, IsFiniteSet(S), \A y \in S : G[y] = 0 PROVE SumOf(G, S) = 0
<1>1. {} \in SUBSET S OBVIOUS
<1>2. \A y \in S : G[y] = IF y \in {} THEN 1 ELSE 0 OBVIOUS
<1>3. SumOf(G, S) = Cardinality({}) BY <1>1, <1>2, SumOnes
<1>4. QED BY <1>3, FS_EmptySet

\* There is no job, and nothing is counted, to begin with.
LEMMA UsageStarts == ASSUME StoresAssumption, U!UsageInit PROVE UsageInv
<1>1. /\ hour = 0 /\ swept = -1 /\ sessions = 0 /\ posted = 0
      /\ jobs = [n \in Names |-> U!NoJob]
      /\ targets = [l \in Langs |-> 0] /\ pruned = {} /\ counted = {}
  BY DEF U!UsageInit
<1>2. /\ dictated = [k \in DictatedKeys |-> U!NoCount] /\ apps = [k \in AppKeys |-> U!NoCount]
  BY DEF U!UsageInit, DictatedKeys, AppKeys
<1>3. U!NoCount \in Counts /\ U!NoCount.sessions = 0 /\ U!NoCount.words = 0
  BY DEF U!NoCount, Counts
<1>4. IsFiniteSet(Names) /\ IsFiniteSet(DictatedKeys) BY UsageFinite
<1>5. UsageTypes
  <2>1. hour \in U!Hours BY <1>1 DEF U!Hours, StoresAssumption
  <2>2. IsFiniteSet(counted) BY <1>1, FS_EmptySet
  <2>3. /\ swept \in Int /\ swept <= hour /\ sessions \in Int /\ posted \in Nat
        /\ targets \in [Langs -> Int]
    BY <1>1
  <2>4. /\ jobs \in [Names -> Jobs \cup {U!NoJob}] /\ dictated \in [DictatedKeys -> Counts]
        /\ apps \in [AppKeys -> Counts]
    BY <1>1, <1>2, <1>3
  <2>5. QED BY <1>1, <2>1, <2>2, <2>3, <2>4 DEF UsageTypes
<1>6. \A n \in Names : jobs[n] = U!NoJob BY <1>1
<1>7. \A n \in Names : JobCounted(n) BY <1>1, <1>6 DEF JobCounted, U!HasJob, U!Dropped
<1>8. sessions = Cardinality(counted) BY <1>1, FS_EmptySet
<1>9. DictatedSums
  <2> SUFFICES ASSUME NEW k \in DictatedKeys
               PROVE  /\ dictated[k].sessions = SumOf(BucketOnes(k, jobs), Names)
                      /\ dictated[k].words = SumOf(BucketSums(k, jobs), Names)
    BY DEF DictatedSums
  <2>1. \A n \in Names : BucketOnes(k, jobs)[n] = 0 /\ BucketSums(k, jobs)[n] = 0
    BY <1>6, NoValues DEF BucketOnes, BucketSums
  <2>2. SumOf(BucketOnes(k, jobs), Names) = 0 BY <1>4, <2>1, SumOfZeros
  <2>3. SumOf(BucketSums(k, jobs), Names) = 0 BY <1>4, <2>1, SumOfZeros
  <2>4. dictated[k] = U!NoCount BY <1>2
  <2>5. QED BY <1>3, <2>2, <2>3, <2>4
<1>10. AppsSums
  <2> SUFFICES ASSUME NEW k \in AppKeys
               PROVE  /\ apps[k].sessions = SumOf(AppOnes(k, jobs), Names)
                      /\ apps[k].words = SumOf(AppSums(k, jobs), Names)
    BY DEF AppsSums
  <2>1. \A n \in Names : AppOnes(k, jobs)[n] = 0 /\ AppSums(k, jobs)[n] = 0
    BY <1>6, NoValues DEF AppOnes, AppSums
  <2>2. SumOf(AppOnes(k, jobs), Names) = 0 BY <1>4, <2>1, SumOfZeros
  <2>3. SumOf(AppSums(k, jobs), Names) = 0 BY <1>4, <2>1, SumOfZeros
  <2>4. apps[k] = U!NoCount BY <1>2
  <2>5. QED BY <1>3, <2>2, <2>3, <2>4
<1>11. RolledSum
  <2>1. \A k \in DictatedKeys : SessionsOf(dictated)[k] = 0 BY <1>2, <1>3 DEF SessionsOf
  <2>2. SumOf(SessionsOf(dictated), DictatedKeys) = 0 BY <1>4, <2>1, SumOfZeros
  <2>3. \A n \in Names : RolledOnes(jobs, pruned)[n] = 0
    BY <1>1, <1>6 DEF RolledOnes, RolledOne, Rolled, PrunedOne
  <2>4. SumOf(RolledOnes(jobs, pruned), Names) = 0 BY <1>4, <2>3, SumOfZeros
  <2>5. QED BY <2>2, <2>4 DEF RolledSum
<1>12. TargetsSums
  <2>1. Jobless(counted) = {} BY <1>1 DEF Jobless
  <2>2. Cardinality(pruned) = 0 /\ Cardinality(Jobless(counted)) = 0 BY <1>1, <2>1, FS_EmptySet
  <2> SUFFICES ASSUME NEW l \in Langs
               PROVE  /\ SumOf(TargetOnes(l, jobs), Names) <= targets[l]
                      /\ targets[l] <= SumOf(TargetOnes(l, jobs), Names) + Cardinality(pruned)
                                         + Cardinality(Jobless(counted))
    BY DEF TargetsSums
  <2>3. \A n \in Names : TargetOnes(l, jobs)[n] = 0 BY <1>6, NoValues DEF TargetOnes
  <2>4. SumOf(TargetOnes(l, jobs), Names) = 0 BY <1>4, <2>3, SumOfZeros
  <2>5. targets[l] = 0 BY <1>1
  <2>6. QED BY <2>2, <2>4, <2>5
<1>13. QED BY <1>5, <1>7, <1>8, <1>9, <1>10, <1>11, <1>12 DEF UsageInv, Tables

\* Every step of the usage tables keeps the invariant.
LEMMA UsageInductive ==
  ASSUME StoresAssumption, UsageInv, [U!UsageNext]_usageVars PROVE UsageInv'
<1>1. ASSUME NEW u \in Users, NEW j \in Names, NEW ls \in SUBSET Langs, U!Request(u, j, ls)
      PROVE  UsageInv'
  BY <1>1, RequestKeeps
<1>2. ASSUME NEW u \in Users, NEW j \in Names, NEW d \in Deliveries, NEW a \in Apps \cup {U!NoApp},
             U!RecordOutcome(u, j, d, a)
      PROVE  UsageInv'
  BY <1>2, OutcomeKeeps
<1>3. ASSUME U!Sweep PROVE UsageInv' BY <1>3, SweepKeeps
<1>4. ASSUME U!Tick PROVE UsageInv' BY <1>4, TickKeeps
<1>5. ASSUME UNCHANGED usageVars PROVE UsageInv'
  <2>1. /\ hour' = hour /\ swept' = swept /\ sessions' = sessions /\ posted' = posted
        /\ jobs' = jobs /\ dictated' = dictated /\ apps' = apps /\ targets' = targets
        /\ pruned' = pruned /\ counted' = counted
    BY <1>5 DEF usageVars
  <2>2. UsageTypes' BY <2>1 DEF UsageInv, UsageTypes
  <2>3. \A n \in Names : JobCounted(n)' BY <2>1, OthersCounted DEF UsageInv
  <2>4. Tables' BY <2>1 DEF UsageInv, Tables, DictatedSums, AppsSums, RolledSum
  <2>5. TargetsSums' BY <2>1 DEF UsageInv, TargetsSums
  <2>6. QED BY <2>1, <2>2, <2>3, <2>4, <2>5 DEF UsageInv
<1>6. U!UsageNext => UsageInv' BY <1>1, <1>2, <1>3, <1>4 DEF U!UsageNext
<1>7. QED BY <1>5, <1>6

\* Whatever step the stores take, the usage tables take one of theirs or none.
LEMMA StepOfUsage ==
  ASSUME [SamplesStep \/ CapturesStep \/ UsageStep \/ MediaStep]_<<part, samplesVars, storeVars,
                                                                 usageVars, mediaVars>>
  PROVE [U!UsageNext]_usageVars
BY DEF SamplesStep, CapturesStep, UsageStep, MediaStep, usageVars

\* The usage tables' invariant holds in every state.
LEMMA UsageInvariance == StoresSpec => []UsageInv
<1>1. StoresInit => UsageInv BY UsageStarts, StoresAssumption DEF StoresInit
<1>2. UsageInv /\ [SamplesStep \/ CapturesStep \/ UsageStep \/ MediaStep]_<<part, samplesVars,
                       storeVars, usageVars, mediaVars>> => UsageInv'
  BY UsageInductive, StepOfUsage, StoresAssumption
<1>3. QED BY <1>1, <1>2, PTL DEF StoresSpec

\* The jobs that are in a bucket, in an app's, rolled, and that have a target.
InBuckets(k) == {n \in Names : InBucket(k, jobs[n])}
InApps(k) == {n \in Names : InApp(k, jobs[n])}
AllRolled == {n \in Names : Rolled(jobs[n])}
AllTargets(l) == {n \in Names : HasTarget(l, jobs[n])}
PrunedDictations == {n \in Names : <<n, "dictation">> \in pruned}

\* The sum of a record's two fields, over some jobs.
LEMMA SumsDo ==
  ASSUME StoresAssumption, NEW S \in SUBSET Names
  PROVE  U!Sums(S) = [sessions |-> Cardinality(S), words |-> SumOf(WordsOf(jobs), S)]
<1>1. U!SumSet(LAMBDA n : jobs[n].words, S) = SumOf(WordsOf(jobs), S) BY WordsSum
<1>2. U!Cardinality(S) = Cardinality(S) BY UsageCardinality
<1>3. QED BY <1>1, <1>2 DEF U!Sums

\* The sessions of the dictations' buckets.
LEMMA SessionsSum ==
  ASSUME StoresAssumption, UsageTypes
  PROVE  U!SumSet(LAMBDA k : dictated[k].sessions, DOMAIN dictated)
           = SumOf(SessionsOf(dictated), DictatedKeys)
<1> DEFINE F == SessionsOf(dictated)
           IsSessions(g) == g = [s \in SUBSET DictatedKeys |->
                               IF s = {} THEN 0 ELSE dictated[First(s)].sessions + g[s \ {First(s)}]]
           h == CHOOSE g : IsSessions(g)
<1>1. IsFiniteSet(DictatedKeys) BY UsageFinite
<1>2. U!SumSet(LAMBDA k : dictated[k].sessions, DOMAIN dictated) = h[DictatedKeys]
  <2>1. DOMAIN dictated = DictatedKeys BY DEF UsageTypes
  <2>2. U!SumSet(LAMBDA k : dictated[k].sessions, DictatedKeys) = h[DictatedKeys]
    BY DEF U!SumSet, U!MapThenFoldSet, First
  <2>3. QED BY <2>1, <2>2
<1>3. \A s \in SUBSET DictatedKeys : s # {} => F[First(s)] = dictated[First(s)].sessions
  BY DEF First, SessionsOf
<1>4. ASSUME NEW g PROVE IsSessions(g) <=> IsFold(F, DictatedKeys, g)
  <2>1. PICK a : a = [s \in SUBSET DictatedKeys |->
                       IF s = {} THEN 0 ELSE dictated[First(s)].sessions + g[s \ {First(s)}]]
    OBVIOUS
  <2>2. PICK b : b = [s \in SUBSET DictatedKeys |->
                       IF s = {} THEN 0 ELSE F[First(s)] + g[s \ {First(s)}]]
    OBVIOUS
  <2> HIDE DEF F
  <2>3. a = b BY <1>3, <2>1, <2>2
  <2>4. QED BY <2>1, <2>2, <2>3 DEF IsFold
<1> HIDE DEF F
<1>5. PICK g : IsFold(F, DictatedKeys, g) BY <1>1, FoldExists
<1>6. IsSessions(g) BY <1>4, <1>5
<1> HIDE DEF IsSessions
<1>7. IsSessions(h) BY <1>6
<1> HIDE DEF h
<1>8. IsFold(F, DictatedKeys, h) BY <1>4, <1>7
<1>9. SumOf(F, DictatedKeys) = h[DictatedKeys] BY <1>1, <1>8, SumIsFold
<1>10. QED BY <1>2, <1>9 DEF F

\* Every bucket that still has its jobs is their sum.
LEMMA TablesFollowed == ASSUME StoresAssumption, UsageInv PROVE U!TablesAddUp
<1>1. UsageTypes /\ DictatedSums /\ AppsSums BY DEF UsageInv, Tables
<1>2. IsFiniteSet(Names) BY UsageFinite
<1>3. \A n \in Names : n \in DOMAIN WordsOf(jobs) /\ WordsOf(jobs)[n] = jobs[n].words
  BY DEF WordsOf
<1>4. \A n \in Names : jobs[n] # U!NoJob => jobs[n].words \in Int BY <1>1 DEF UsageTypes, Jobs
<1>5. ASSUME NEW k \in DictatedKeys, k[1] >= swept - JobHours
      PROVE  dictated[k] = U!Sums(InBuckets(k))
  <2>1. PICK S \in SUBSET Names : S = InBuckets(k) BY DEF InBuckets
  <2>2. PICK F, G : F = BucketOnes(k, jobs) /\ G = BucketSums(k, jobs) OBVIOUS
  <2>3. \A n \in Names : /\ F[n] = IF n \in S THEN 1 ELSE 0
                         /\ G[n] = IF n \in S THEN WordsOf(jobs)[n] ELSE 0
    BY <1>3, <2>1, <2>2 DEF InBuckets, BucketOnes, BucketSums, BucketOne, BucketWords
  <2>4. \A n \in S : WordsOf(jobs)[n] \in Int BY <1>3, <1>4, <2>1 DEF InBuckets, InBucket
  <2>5. SumOf(F, Names) = Cardinality(S) BY <1>2, <2>3, SumOnes
  <2>6. SumOf(G, Names) = SumOf(WordsOf(jobs), S) BY <1>2, <2>3, <2>4, SumMasked
  <2>7. /\ dictated[k].sessions = Cardinality(S)
        /\ dictated[k].words = SumOf(WordsOf(jobs), S)
    BY <1>1, <1>5, <2>2, <2>5, <2>6 DEF DictatedSums
  <2>8. dictated[k] = [sessions |-> dictated[k].sessions, words |-> dictated[k].words]
    BY <1>1 DEF UsageTypes, Counts
  <2>9. QED BY <2>1, <2>7, <2>8, SumsDo
<1>6. ASSUME NEW k \in AppKeys, k[1] >= swept - JobHours, k[1] >= swept - AppHours
      PROVE  apps[k] = U!Sums(InApps(k))
  <2>1. PICK S \in SUBSET Names : S = InApps(k) BY DEF InApps
  <2>2. PICK F, G : F = AppOnes(k, jobs) /\ G = AppSums(k, jobs) OBVIOUS
  <2>3. \A n \in Names : /\ F[n] = IF n \in S THEN 1 ELSE 0
                         /\ G[n] = IF n \in S THEN WordsOf(jobs)[n] ELSE 0
    BY <1>3, <2>1, <2>2 DEF InApps, AppOnes, AppSums, AppOne, AppWords
  <2>4. \A n \in S : WordsOf(jobs)[n] \in Int BY <1>3, <1>4, <2>1 DEF InApps, InApp
  <2>5. SumOf(F, Names) = Cardinality(S) BY <1>2, <2>3, SumOnes
  <2>6. SumOf(G, Names) = SumOf(WordsOf(jobs), S) BY <1>2, <2>3, <2>4, SumMasked
  <2>7. /\ apps[k].sessions = Cardinality(S)
        /\ apps[k].words = SumOf(WordsOf(jobs), S)
    BY <1>1, <1>6, <2>2, <2>5, <2>6 DEF AppsSums
  <2>8. apps[k] = [sessions |-> apps[k].sessions, words |-> apps[k].words]
    BY <1>1 DEF UsageTypes, Counts
  <2>9. QED BY <2>1, <2>7, <2>8, SumsDo
<1>7. DOMAIN dictated = DictatedKeys /\ DOMAIN apps = AppKeys BY <1>1 DEF UsageTypes
<1>8. ASSUME NEW k
      PROVE  /\ InBuckets(k) = U!Of(LAMBDA r : r.kind = "dictation" /\ U!Reported(r)
                                                 /\ U!Bucket(r) = k)
             /\ InApps(k) = U!Of(LAMBDA r : <<r.hour, r.user, r.app>> = k)
  BY DEF InBuckets, InBucket, InApps, InApp, U!Of, U!HasJob, U!Reported
<1>9. ASSUME NEW k \in DOMAIN dictated, k[1] >= swept - JobHours
      PROVE  dictated[k] = U!Sums(U!Of(LAMBDA r : r.kind = "dictation" /\ U!Reported(r)
                                                   /\ U!Bucket(r) = k))
  BY <1>5, <1>7, <1>8, <1>9
<1>10. ASSUME NEW k \in DOMAIN apps, k[1] >= swept - JobHours, k[1] >= swept - AppHours
       PROVE  apps[k] = U!Sums(U!Of(LAMBDA r : <<r.hour, r.user, r.app>> = k))
  BY <1>6, <1>7, <1>8, <1>10
<1>11. QED BY <1>9, <1>10 DEF U!TablesAddUp

\* The buckets' sessions are the dictations rolled, those there are and those pruned.
LEMMA RolledFollows == ASSUME StoresAssumption, UsageInv PROVE U!RolledOnce
<1>1. UsageTypes /\ RolledSum BY DEF UsageInv, Tables
<1>2. IsFiniteSet(Names) BY UsageFinite
<1>3. PICK F : F = [n \in Names |-> RolledOne(jobs[n])] OBVIOUS
<1>4. PICK G : G = [n \in Names |-> PrunedOne(n, pruned)] OBVIOUS
<1>5. PICK H : H = RolledOnes(jobs, pruned) OBVIOUS
<1>6. \A n \in Names : F[n] = IF n \in AllRolled THEN 1 ELSE 0
  BY <1>3 DEF AllRolled, RolledOne
<1>7. \A n \in Names : G[n] = IF n \in PrunedDictations THEN 1 ELSE 0
  BY <1>4 DEF PrunedDictations, PrunedOne
<1>8. AllRolled \in SUBSET Names /\ PrunedDictations \in SUBSET Names
  BY DEF AllRolled, PrunedDictations
<1>9. SumOf(F, Names) = Cardinality(AllRolled) BY <1>2, <1>6, <1>8, SumOnes
<1>10. SumOf(G, Names) = Cardinality(PrunedDictations) BY <1>2, <1>7, <1>8, SumOnes
<1>11. \A n \in Names : F[n] \in Int /\ G[n] \in Int /\ H[n] = F[n] + G[n]
  BY <1>3, <1>4, <1>5, <1>6, <1>7 DEF RolledOnes
<1>12. SumOf(H, Names) = SumOf(F, Names) + SumOf(G, Names) BY <1>2, <1>11, SumPlus
<1>13. AllRolled = U!Of(LAMBDA r : r.kind = "dictation" /\ U!Reported(r))
  BY DEF AllRolled, Rolled, U!Of, U!HasJob, U!Reported
<1>14. U!SumSet(LAMBDA k : dictated[k].sessions, DOMAIN dictated)
         = Cardinality(AllRolled) + Cardinality(PrunedDictations)
  BY <1>1, <1>5, <1>9, <1>10, <1>12, SessionsSum DEF RolledSum
<1>15. /\ U!Cardinality(AllRolled) = Cardinality(AllRolled)
       /\ U!Cardinality(PrunedDictations) = Cardinality(PrunedDictations)
  BY UsageCardinality
<1>16. QED BY <1>13, <1>14, <1>15 DEF U!RolledOnce, PrunedDictations

\* A target runs for every job that has it, and beyond that for jobs that are
\* pruned and for requests that have no job.
LEMMA TargetsFollow == ASSUME StoresAssumption, UsageInv PROVE U!TargetsOncePerJob
<1>1. UsageTypes /\ TargetsSums BY DEF UsageInv
<1>2. IsFiniteSet(Names) BY UsageFinite
<1>3. PICK p \in Nat : p = Cardinality(pruned) BY <1>1, LimitsFinite
<1>4. PICK c \in Nat : c = Cardinality(Jobless(counted)) BY <1>1, LimitsFinite
<1>5. U!Cardinality({s \in counted : s[1] = "request"}) = c
  BY <1>4, UsageCardinality DEF Jobless
<1>6. U!Cardinality(pruned) = p BY <1>3, UsageCardinality
<1>7. ASSUME NEW l \in Langs
      PROVE  targets[l] - U!Cardinality(U!Of(LAMBDA r : l \in r.targets)) \in 0..(c + p)
  <2>1. PICK S \in SUBSET Names : S = AllTargets(l) BY DEF AllTargets
  <2>2. PICK F : F = TargetOnes(l, jobs) OBVIOUS
  <2>3. \A n \in Names : F[n] = IF n \in S THEN 1 ELSE 0
    BY <2>1, <2>2 DEF AllTargets, TargetOnes, TargetOne
  <2>4. SumOf(F, Names) = Cardinality(S) BY <1>2, <2>3, SumOnes
  <2>5. IsFiniteSet(S) BY <1>2, FS_Subset
  <2>6. PICK n \in Nat : n = Cardinality(S) BY <2>5, FS_CardinalityType
  <2>7. n <= targets[l] /\ targets[l] <= n + p + c
    BY <1>1, <1>3, <1>4, <2>2, <2>4, <2>6 DEF TargetsSums
  <2>8. targets[l] \in Int BY <1>1 DEF UsageTypes
  <2>9. targets[l] - n \in 0..(c + p) BY <2>7, <2>8
  <2>10. S = U!Of(LAMBDA r : l \in r.targets) BY <2>1 DEF AllTargets, HasTarget, U!Of, U!HasJob
  <2>11. U!Cardinality(S) = n BY <2>6, UsageCardinality
  <2>12. QED BY <2>9, <2>10, <2>11
<1>8. QED BY <1>5, <1>6, <1>7 DEF U!TargetsOncePerJob

\* Whatever order requests, reports and sweeps come in, and whatever is late or
\* replayed, the usage tables are the sums over their jobs, each session is counted
\* once, each dictation rolled once, and each target once per job that has it; for
\* any users, jobs, kinds, apps, targets, graces and retentions.
THEOREM UsageIsAddedUp == StoresSpec => []UsageAddsUp
<1>1. UsageInv => UsageAddsUp
  <2> SUFFICES ASSUME UsageInv PROVE UsageAddsUp OBVIOUS
  <2>1. U!SessionsCountedOnce BY UsageCardinality DEF UsageInv, U!SessionsCountedOnce
  <2>2. U!TablesAddUp /\ U!RolledOnce /\ U!TargetsOncePerJob
    BY StoresAssumption, TablesFollowed, RolledFollows, TargetsFollow
  <2>3. QED BY <2>1, <2>2 DEF UsageAddsUp
<1>2. QED BY <1>1, UsageInvariance, PTL

(***************************************************************************)
(* The samples. A rebuild lock is held by who is in its block, what was      *)
(* found under it holds until it is given back, and whatever is on disk or   *)
(* bound to a sample is explained by its row or by somebody's unfinished     *)
(* work.                                                                     *)
(***************************************************************************)

Ops == {"none", "create", "regenerate", "heal", "reprocess", "dissolve", "delete", "clear"}
Places == {"idle", "start", "insert", "unmerge", "read", "write", "patch", "unlink", "wav",
           "wipe", "list", "pass"}
Doers == [op : Ops, pc : Places, s : Sids \cup {"none"}, cs : SUBSET (Captures \cup Sids),
          gap : Nat]
Builds == [of : SUBSET (Captures \cup Sids), gap : Int]
SampleRows == [phase : {"unused", "reserved", "live", "gone"}, locked : BOOLEAN,
               stale : BOOLEAN, built : Builds, silence : Nat]
CaptureRows == [row : BOOLEAN, audio : BOOLEAN, sample : Sids \cup {"none"}]
Reprocesses == [status : {"idle", "running", "done"}, rerun : BOOLEAN, todo : SUBSET Sids,
                began : Nat, asked : Nat]

SampleTypes ==
  /\ gap \in Nat
  /\ capture \in [Captures -> CaptureRows]
  /\ row \in [Sids -> SampleRows]
  /\ wav \in [Sids -> Builds]
  /\ rebuild \in [Sids -> M!Threads \cup {"free"}]
  /\ thread \in [M!Threads -> Doers]
  /\ job \in Reprocesses

\* Where a thread holds its sample's rebuild lock.
Rebuilds(t) == thread[t].op \in M!Rebuilding /\ thread[t].pc \in {"read", "write", "patch"}
Unlinks(t) == thread[t].op \in {"dissolve", "delete"} /\ thread[t].pc = "wav"
Wiping == \E t \in Callers : thread[t].op = "clear" /\ thread[t].pc = "wipe"

\* What a thread is doing, by where it is.
Placed(t) ==
  LET q == thread[t] IN
  /\ q.op = "none" => q.s = "none"
  /\ q.op = "create" => /\ q.pc \in {"start", "insert", "unmerge"}
                        /\ q.s \in Sids /\ q.cs \subseteq Captures
                        /\ row[q.s].phase = "reserved"
  /\ q.op \in M!Rebuilding =>
       \/ t = Vad /\ q.pc \in {"list", "pass"} /\ q.s = "none"
       \/ /\ q.s \in Sids /\ q.pc \in {"start", "read", "write", "patch"}
          /\ q.cs \subseteq Captures
          /\ row[q.s].phase \in {"live", "gone"}
  /\ q.op \in {"dissolve", "delete"} =>
       /\ q.pc \in {"unlink", "start", "wav"}
       /\ q.s = "none" => q.pc = "unlink"
  /\ q.op = "clear" => q.pc \in {"start", "wipe"} /\ q.s = "none"
  /\ t = Vad <=> q.op = "reprocess" \/ (t = Vad /\ q.op = "none")

SamplePlaces == \A t \in M!Threads : Placed(t)

SampleLocks ==
  \A s \in Sids, t \in M!Threads :
    rebuild[s] = t <=> thread[t].s = s /\ (Rebuilds(t) \/ Unlinks(t))

\* Nobody else merges into a fresh id.
SampleFresh ==
  \A t, u \in M!Threads : t # u /\ thread[t].op = "create" /\ thread[u].op = "create" =>
    thread[t].s # thread[u].s

Merging(t, s) ==
  thread[t].s = s /\ wav[s] = M!Built(thread[t].cs, thread[t].gap)

WavExplained(s) ==
  wav[s] # M!NoBuild =>
    \/ /\ row[s].phase = "live"
       /\ \/ wav[s] = row[s].built
          \/ \E t \in M!Threads : Rebuilds(t) /\ thread[t].pc = "patch" /\ Merging(t, s)
    \/ /\ row[s].phase = "reserved"
       /\ \E t \in M!Threads : /\ thread[t].op = "create"
                               /\ thread[t].pc \in {"insert", "unmerge"} /\ Merging(t, s)
    \/ /\ row[s].phase = "gone"
       /\ \/ s \in unguarded \/ Wiping
          \/ \E t \in M!Threads : thread[t].s = s /\ Unlinks(t)

SampleWavs == \A s \in Sids : WavExplained(s)

\* A rebuild's sample is not taken from it but by a clear.
Holder(t) ==
  /\ Rebuilds(t) => row[thread[t].s].phase = "live" \/ thread[t].s \in unguarded
  /\ Unlinks(t) => row[thread[t].s].phase = "gone"

SampleHolders == \A t \in M!Threads : Holder(t)

MemberBound(c) ==
  capture[c].row /\ capture[c].sample # "none" =>
    \/ row[capture[c].sample].phase = "live"
    \/ row[capture[c].sample].phase = "gone" /\ Wiping

SampleMembers == \A c \in Captures : MemberBound(c)

\* A delete of a member has yet to dissolve the sample, or could not.
Excused(s) ==
  s \in broken \/ \E t \in Callers : thread[t].op = "delete" /\ thread[t].s = s

BuiltOfMembers(s) ==
  row[s].phase = "live" => row[s].built.of = M!Members(s) \/ Excused(s)

\* What a rebuild is about to merge.
AimsAtMembers(t) ==
  /\ thread[t].op \in {"heal", "reprocess"} \/ Rebuilds(t)
  /\ thread[t].s \in Sids /\ row[thread[t].s].phase = "live"
  => thread[t].cs = M!Members(thread[t].s) \/ Excused(thread[t].s)

SampleBuilds ==
  (\A s \in Sids : BuiltOfMembers(s)) /\ \A t \in M!Threads : AimsAtMembers(t)

LockedIsLive(s) == row[s].locked => row[s].phase = "live"

\* What a rebuild found under the lock stays so while it holds it.
Guarded(t) ==
  Rebuilds(t) =>
    /\ thread[t].op # "heal" => ~row[thread[t].s].locked
    /\ thread[t].op = "heal" /\ thread[t].pc # "patch" => wav[thread[t].s] = M!NoBuild
    /\ thread[t].pc = "patch" =>
         wav[thread[t].s] \in {M!NoBuild, M!Built(thread[t].cs, thread[t].gap)}

SampleGuards == (\A s \in Sids : LockedIsLive(s)) /\ \A t \in M!Threads : Guarded(t)

SampleJob ==
  /\ job.asked <= gap
  /\ job.asked > job.began =>
       /\ job.status = "running"
       /\ job.rerun \/ (thread[Vad].op = "reprocess" /\ thread[Vad].pc = "list")
  /\ job.status # "running" => thread[Vad].op = "none"

SampleInv ==
  /\ SampleTypes /\ SamplePlaces /\ SampleLocks /\ SampleFresh /\ SampleWavs
  /\ SampleHolders /\ SampleMembers /\ SampleBuilds /\ SampleGuards /\ SampleJob
  /\ M!ExportMatches
-----------------------------------------------------------------------------
(* What changes, one thread, row, WAV or lock at a time.                        *)

ThreadsBut(t) ==
  thread' \in [M!Threads -> Doers] /\ \A u \in M!Threads \ {t} : thread'[u] = thread[u]
RowsBut(s) == row' \in [Sids -> SampleRows] /\ \A x \in Sids \ {s} : row'[x] = row[x]
WavsBut(s) == wav' \in [Sids -> Builds] /\ \A x \in Sids \ {s} : wav'[x] = wav[x]
LocksBut(s) ==
  rebuild' \in [Sids -> M!Threads \cup {"free"}] /\ \A x \in Sids \ {s} : rebuild'[x] = rebuild[x]

LEMMA ThreadBecomes ==
  ASSUME SampleTypes, NEW t \in M!Threads, NEW q \in Doers, thread' = [thread EXCEPT ![t] = q]
  PROVE ThreadsBut(t) /\ thread'[t] = q
BY DEF SampleTypes, ThreadsBut

LEMMA ThreadMoves ==
  ASSUME SampleTypes, NEW t \in M!Threads, NEW p \in Places, M!Move(t, p)
  PROVE /\ ThreadsBut(t)
        /\ thread'[t].op = thread[t].op /\ thread'[t].pc = p /\ thread'[t].s = thread[t].s
        /\ thread'[t].cs = thread[t].cs /\ thread'[t].gap = thread[t].gap
<1> DEFINE q == [thread[t] EXCEPT !.pc = p]
<1>1. thread[t] \in Doers BY DEF SampleTypes
<1>2. /\ q \in Doers
      /\ q.op = thread[t].op /\ q.pc = p /\ q.s = thread[t].s
      /\ q.cs = thread[t].cs /\ q.gap = thread[t].gap
  BY <1>1 DEF Doers
<1>3. thread' = [thread EXCEPT ![t] = q] BY DEF M!Move
<1> HIDE DEF q
<1>4. QED BY <1>2, <1>3, ThreadBecomes

LEMMA IdleDoer == M!Idle \in Doers /\ M!Idle.op = "none" /\ M!Idle.s = "none" /\ M!Idle.pc = "idle"
BY DEF M!Idle, Doers, Ops, Places, M!NoSample

LEMMA ThreadFinishes ==
  ASSUME SampleTypes, NEW t \in M!Threads, M!Finish(t)
  PROVE /\ ThreadsBut(t)
        /\ thread'[t].op = "none" /\ thread'[t].s = "none" /\ thread'[t].pc = "idle"
BY IdleDoer, ThreadBecomes DEF M!Finish

\* The worker goes back to its pass.
LEMMA ThreadDone ==
  ASSUME SampleTypes, NEW t \in M!Threads, M!Done(t)
  PROVE /\ ThreadsBut(t) /\ thread'[t].s = "none"
        /\ thread'[t].op = IF t = Vad THEN "reprocess" ELSE "none"
        /\ thread'[t].pc = IF t = Vad THEN "pass" ELSE "idle"
<1>1. CASE t # Vad BY <1>1, ThreadFinishes DEF M!Done
<1>2. CASE t = Vad
  <2> DEFINE q == [M!Idle EXCEPT !.op = "reprocess", !.pc = "pass"]
  <2>1. q \in Doers /\ q.op = "reprocess" /\ q.pc = "pass" /\ q.s = "none"
    BY DEF M!Idle, Doers, Ops, Places, M!NoSample
  <2>2. thread' = [thread EXCEPT ![t] = q] BY <1>2 DEF M!Done
  <2> HIDE DEF q
  <2>3. QED BY <1>2, <2>1, <2>2, ThreadBecomes
<1>3. QED BY <1>1, <1>2

LEMMA ThreadStarts ==
  ASSUME SampleTypes, NEW t \in M!Threads, NEW op \in Ops, NEW s \in Sids \cup {"none"},
         NEW cs \in SUBSET (Captures \cup Sids), NEW g \in Nat, M!Start(t, op, s, cs, g)
  PROVE /\ ThreadsBut(t) /\ thread[t].op = "none"
        /\ thread'[t].op = op /\ thread'[t].pc = "start" /\ thread'[t].s = s
        /\ thread'[t].cs = cs /\ thread'[t].gap = g
        /\ UNCHANGED <<gap, capture, rebuild, packed, unguarded, broken, job>>
<1> DEFINE q == [op |-> op, pc |-> "start", s |-> s, cs |-> cs, gap |-> g]
<1>1. q \in Doers BY DEF Doers, Places
<1>2. thread' = [thread EXCEPT ![t] = q] /\ thread[t] = M!Idle BY DEF M!Start
<1>3. ThreadsBut(t) /\ thread'[t] = q BY <1>1, <1>2, ThreadBecomes
<1>4. QED BY <1>2, <1>3, IdleDoer DEF M!Start

LEMMA RowBecomes ==
  ASSUME SampleTypes, NEW s \in Sids, NEW r \in SampleRows, row' = [row EXCEPT ![s] = r]
  PROVE RowsBut(s) /\ row'[s] = r
BY DEF SampleTypes, RowsBut

LEMMA WavBecomes ==
  ASSUME SampleTypes, NEW s \in Sids, NEW b \in Builds, wav' = [wav EXCEPT ![s] = b]
  PROVE WavsBut(s) /\ wav'[s] = b
BY DEF SampleTypes, WavsBut

LEMMA BuildsBuilt ==
  /\ \A cs \in SUBSET (Captures \cup Sids), g \in Nat :
       /\ M!Built(cs, g) \in Builds /\ M!Built(cs, g).of = cs
       /\ M!Built(cs, g) # M!NoBuild
  /\ M!NoBuild \in Builds
BY DEF M!Built, M!NoBuild, Builds

LEMMA LockTaken ==
  ASSUME SampleTypes, NEW t \in M!Threads, NEW s \in Sids, M!Hold(t, s)
  PROVE LocksBut(s) /\ rebuild'[s] = t
BY DEF SampleTypes, LocksBut, M!Hold

LEMMA LockReleased ==
  ASSUME SampleTypes, NEW s \in Sids, M!Release(s)
  PROVE LocksBut(s) /\ rebuild'[s] = "free"
BY DEF SampleTypes, LocksBut, M!Release, M!Free

LEMMA NoRowTypes ==
  ASSUME NEW p \in {"unused", "reserved", "live", "gone"}
  PROVE M!NoRow(p) \in SampleRows /\ M!NoRow(p).phase = p /\ ~M!NoRow(p).locked
BY BuildsBuilt DEF M!NoRow, SampleRows

\* The row an insert writes.
Inserted(cs, g, h) == [M!NewRow(cs, g) EXCEPT !.silence = h]

LEMMA NewRowTypes ==
  ASSUME NEW cs \in SUBSET (Captures \cup Sids), NEW g \in Nat, NEW h \in Nat
  PROVE LET r == Inserted(cs, g, h) IN
        /\ r \in SampleRows /\ r.phase = "live" /\ ~r.locked
        /\ r.built = M!Built(cs, g)
<1> DEFINE b == M!Built(cs, g)
           r == Inserted(cs, g, h)
           q == M!NoRow("live")
<1>1. b \in Builds /\ b = M!Built(cs, g) BY BuildsBuilt
<1>2. q \in SampleRows /\ q.phase = "live" /\ ~q.locked BY NoRowTypes
<1>3. r = [[q EXCEPT !.built = b, !.silence = g] EXCEPT !.silence = h] BY DEF M!NewRow, Inserted
<1> HIDE DEF b, q
<1>4. ASSUME NEW x, x = [q EXCEPT !.built = b, !.silence = g]
      PROVE x \in SampleRows /\ x.phase = "live" /\ ~x.locked /\ x.built = b
  BY <1>1, <1>2, <1>4 DEF SampleRows
<1>5. ASSUME NEW x \in SampleRows, NEW y, y = [x EXCEPT !.silence = h]
      PROVE y \in SampleRows /\ y.phase = x.phase /\ y.locked = x.locked /\ y.built = x.built
  BY <1>5 DEF SampleRows
<1> DEFINE x == [q EXCEPT !.built = b, !.silence = g]
<1>6. x \in SampleRows /\ x.phase = "live" /\ ~x.locked /\ x.built = b BY <1>4
<1>7. r = [x EXCEPT !.silence = h] BY <1>3
<1> HIDE DEF x
<1> HIDE DEF r
<1>8. r \in SampleRows /\ r.phase = "live" /\ ~r.locked /\ r.built = b
  BY <1>5, <1>6, <1>7
<1>9. QED BY <1>1, <1>8 DEF r

LEMMA PatchedTypes ==
  ASSUME SampleTypes, NEW t \in M!Threads, NEW r \in SampleRows
  PROVE /\ M!Patched(t, r) \in SampleRows
        /\ M!Patched(t, r).phase = r.phase /\ M!Patched(t, r).locked = r.locked
        /\ M!Patched(t, r).built = M!Built(thread[t].cs, thread[t].gap)
<1> DEFINE b == M!Built(thread[t].cs, thread[t].gap)
<1>1. thread[t].cs \in SUBSET (Captures \cup Sids) /\ thread[t].gap \in Nat
  BY DEF SampleTypes, Doers
<1>2. b \in Builds /\ b = M!Built(thread[t].cs, thread[t].gap) BY <1>1, BuildsBuilt
<1> HIDE DEF b
<1>3. ASSUME NEW q, q = [r EXCEPT !.built = b]
      PROVE q \in SampleRows /\ q.phase = r.phase /\ q.locked = r.locked /\ q.built = b
  BY <1>2, <1>3 DEF SampleRows
<1>4. ASSUME NEW q, q = [r EXCEPT !.built = b, !.silence = thread[t].gap, !.stale = FALSE]
      PROVE q \in SampleRows /\ q.phase = r.phase /\ q.locked = r.locked /\ q.built = b
  BY <1>1, <1>2, <1>4 DEF SampleRows
<1>5. M!Patched(t, r) \in {[r EXCEPT !.built = b],
                           [r EXCEPT !.built = b, !.silence = thread[t].gap, !.stale = FALSE]}
  BY DEF M!Patched, b
<1>6. QED BY <1>2, <1>3, <1>4, <1>5

-----------------------------------------------------------------------------
(* What each step does.                                                        *)

Rest == <<gap, packed, unguarded, broken, job>>

LEMMA ValidateMergeDoes ==
  ASSUME SampleTypes, NEW t \in Callers, NEW s \in Sids, NEW cs \in SUBSET Captures,
         M!ValidateMerge(t, s, cs)
  PROVE /\ ThreadsBut(t) /\ thread[t].op = "none"
        /\ thread'[t].op = "create" /\ thread'[t].pc = "start"
        /\ thread'[t].s = s /\ thread'[t].cs = cs
        /\ RowsBut(s) /\ row[s].phase = "unused"
        /\ row'[s].phase = "reserved" /\ ~row'[s].locked
        /\ UNCHANGED <<capture, wav, rebuild, Rest>>
<1>1. gap \in Nat /\ t \in M!Threads BY DEF SampleTypes, M!Threads
<1>2. /\ row[s].phase = "unused" /\ row' = [row EXCEPT ![s] = M!NoRow("reserved")]
      /\ M!Start(t, "create", s, cs, gap) /\ wav' = wav
  BY DEF M!ValidateMerge
<1>3. "create" \in Ops /\ s \in Sids \cup {"none"} /\ cs \in SUBSET (Captures \cup Sids)
  BY DEF Ops
<1>4. /\ ThreadsBut(t) /\ thread[t].op = "none"
      /\ thread'[t].op = "create" /\ thread'[t].pc = "start"
      /\ thread'[t].s = s /\ thread'[t].cs = cs
      /\ UNCHANGED <<gap, capture, rebuild, packed, unguarded, broken, job>>
  BY <1>1, <1>2, <1>3, ThreadStarts
<1>5. RowsBut(s) /\ row'[s].phase = "reserved" /\ ~row'[s].locked
  BY <1>2, RowBecomes, NoRowTypes
<1>6. QED BY <1>2, <1>4, <1>5 DEF Rest

LEMMA AdmitDoes ==
  ASSUME SampleTypes, NEW t \in Callers, NEW s \in Sids,
         M!AdmitRegenerate(t, s) \/ M!AdmitHeal(t, s) \/ M!AdmitDissolve(t, s)
  PROVE /\ ThreadsBut(t) /\ thread[t].op = "none"
        /\ thread'[t].op \in {"regenerate", "heal", "dissolve"} /\ thread'[t].pc = "start"
        /\ thread'[t].s = s /\ thread'[t].cs \in SUBSET Captures
        /\ thread'[t].op = "heal" => thread'[t].cs = M!Members(s)
        /\ row[s].phase = "live"
        /\ UNCHANGED <<capture, row, wav, rebuild, Rest>>
<1>1. gap \in Nat /\ t \in M!Threads /\ row[s].silence \in Nat
  BY DEF SampleTypes, SampleRows, M!Threads
<1>2. /\ \/ M!Start(t, "regenerate", s, {}, gap)
         \/ M!Start(t, "heal", s, M!Members(s), row[s].silence)
         \/ M!Start(t, "dissolve", s, {}, 0)
      /\ row[s].phase = "live" /\ row' = row /\ wav' = wav
  BY DEF M!AdmitRegenerate, M!AdmitHeal, M!AdmitDissolve, M!Live
<1>3. {"regenerate", "heal", "dissolve"} \subseteq Ops BY DEF Ops
<1>4. M!Members(s) \in SUBSET Captures BY DEF M!Members
<1>5. CASE M!Start(t, "regenerate", s, {}, gap)
  BY <1>1, <1>2, <1>3, <1>5, ThreadStarts DEF Rest
<1>6. CASE M!Start(t, "heal", s, M!Members(s), row[s].silence)
  BY <1>1, <1>2, <1>3, <1>4, <1>6, ThreadStarts DEF Rest
<1>7. CASE M!Start(t, "dissolve", s, {}, 0)
  BY <1>1, <1>2, <1>3, <1>7, ThreadStarts DEF Rest
<1>8. QED BY <1>2, <1>5, <1>6, <1>7

\* Captures change their audio only, or also their row, or their sample.
SameCaptures ==
  /\ capture' \in [Captures -> CaptureRows]
  /\ \A c \in Captures : capture'[c].row = capture[c].row /\ capture'[c].sample = capture[c].sample

LEMMA DeleteMemberDoes ==
  ASSUME SampleTypes, NEW t \in Callers, NEW c \in Captures, M!DeleteMember(t, c)
  PROVE /\ ThreadsBut(t) /\ thread[t].op = "none"
        /\ thread'[t].op = "delete" /\ thread'[t].pc = "unlink"
        /\ thread'[t].s = capture[c].sample /\ thread'[t].s \in Sids \cup {"none"}
        /\ capture[c].sample # "none" => ~row[capture[c].sample].locked
        /\ capture' \in [Captures -> CaptureRows] /\ ~capture'[c].row
        /\ \A d \in Captures : /\ capture'[d].sample = capture[d].sample
                               /\ d # c => capture'[d].row = capture[d].row
        /\ UNCHANGED <<row, wav, rebuild, Rest>>
<1> DEFINE q == [op |-> "delete", pc |-> "unlink", s |-> capture[c].sample, cs |-> {c}, gap |-> 0]
<1>1. t \in M!Threads /\ capture[c].sample \in Sids \cup {"none"}
  BY DEF SampleTypes, CaptureRows, M!Threads
<1>2. q \in Doers BY <1>1 DEF Doers, Ops, Places
<1>3. thread' = [thread EXCEPT ![t] = q] /\ thread[t] = M!Idle BY DEF M!DeleteMember
<1>4. ThreadsBut(t) /\ thread'[t] = q BY <1>1, <1>2, <1>3, ThreadBecomes
<1>5. capture' = [capture EXCEPT ![c].row = FALSE] BY DEF M!DeleteMember
<1>6. /\ capture' \in [Captures -> CaptureRows] /\ ~capture'[c].row
      /\ \A d \in Captures : /\ capture'[d].sample = capture[d].sample
                             /\ d # c => capture'[d].row = capture[d].row
  BY <1>5 DEF SampleTypes, CaptureRows
<1>7. /\ capture[c].sample # "none" => ~row[capture[c].sample].locked
      /\ UNCHANGED <<row, wav, rebuild, Rest>>
  BY DEF M!DeleteMember, M!NoSample, Rest
<1>8. QED BY <1>1, <1>3, <1>4, <1>6, <1>7, IdleDoer

LEMMA BuildNewDoes ==
  ASSUME SampleTypes, SamplePlaces, NEW t \in Callers, M!BuildNew(t)
  PROVE /\ thread[t].op = "create" /\ thread[t].pc = "start" /\ thread[t].s \in Sids
        /\ ThreadsBut(t)
        /\ \/ /\ WavsBut(thread[t].s)
              /\ wav'[thread[t].s] = M!Built(thread[t].cs, thread[t].gap)
              /\ thread'[t].op = "create" /\ thread'[t].pc = "insert"
              /\ thread'[t].s = thread[t].s /\ thread'[t].cs = thread[t].cs
              /\ thread'[t].gap = thread[t].gap
           \/ /\ wav' = wav
              /\ thread'[t].op = "none" /\ thread'[t].s = "none" /\ thread'[t].pc = "idle"
        /\ UNCHANGED <<capture, row, rebuild, Rest>>
<1>1. t \in M!Threads BY DEF M!Threads
<1>2. thread[t].op = "create" /\ thread[t].pc = "start" /\ thread[t].s \in Sids
  BY <1>1 DEF M!BuildNew, M!At, SamplePlaces, Placed
<1>3. thread[t].cs \in SUBSET (Captures \cup Sids) /\ thread[t].gap \in Nat /\ "insert" \in Places
  BY <1>1 DEF SampleTypes, Doers, Places
<1> DEFINE b == M!Built(thread[t].cs, thread[t].gap)
<1>4. b \in Builds /\ b = M!Built(thread[t].cs, thread[t].gap) BY <1>3, BuildsBuilt
<1>5. /\ \/ wav' = [wav EXCEPT ![thread[t].s] = b] /\ M!Move(t, "insert")
         \/ wav' = wav /\ M!Finish(t)
      /\ UNCHANGED <<capture, row, rebuild, Rest>>
  BY DEF M!BuildNew, Rest
<1> HIDE DEF b
<1>6. CASE wav' = [wav EXCEPT ![thread[t].s] = b] /\ M!Move(t, "insert")
  <2>1. WavsBut(thread[t].s) /\ wav'[thread[t].s] = b
    <3>1. wav' = [wav EXCEPT ![thread[t].s] = b] BY <1>6
    <3>2. thread[t].s \in Sids BY <1>2
    <3>3. b \in Builds BY <1>4
    <3>4. QED BY <3>1, <3>2, <3>3, WavBecomes
  <2>2. /\ ThreadsBut(t) /\ thread'[t].op = "create" /\ thread'[t].pc = "insert"
        /\ thread'[t].s = thread[t].s /\ thread'[t].cs = thread[t].cs
        /\ thread'[t].gap = thread[t].gap
    BY <1>1, <1>2, <1>3, <1>6, ThreadMoves
  <2>3. QED BY <1>2, <1>4, <1>5, <2>1, <2>2
<1>7. CASE wav' = wav /\ M!Finish(t)
  BY <1>1, <1>2, <1>5, <1>7, ThreadFinishes
<1>8. QED BY <1>5, <1>6, <1>7

LEMMA InsertDoes ==
  ASSUME SampleTypes, SamplePlaces, NEW t \in Callers, M!Insert(t)
  PROVE /\ thread[t].op = "create" /\ thread[t].pc = "insert"
        /\ thread[t].s \in Sids /\ thread[t].cs \in SUBSET Captures
        /\ ThreadsBut(t)
        /\ \/ /\ RowsBut(thread[t].s)
              /\ row'[thread[t].s].phase = "live" /\ ~row'[thread[t].s].locked
              /\ row'[thread[t].s].built = M!Built(thread[t].cs, thread[t].gap)
              /\ capture' \in [Captures -> CaptureRows]
              /\ \A c \in thread[t].cs : /\ capture[c].row /\ capture[c].sample = "none"
                                         /\ capture'[c].row /\ capture'[c].sample = thread[t].s
              /\ \A c \in Captures \ thread[t].cs : capture'[c] = capture[c]
              /\ thread'[t].op = "none" /\ thread'[t].s = "none" /\ thread'[t].pc = "idle"
           \/ /\ UNCHANGED <<row, capture>>
              /\ thread'[t].op = "create" /\ thread'[t].pc = "unmerge"
              /\ thread'[t].s = thread[t].s /\ thread'[t].cs = thread[t].cs
              /\ thread'[t].gap = thread[t].gap
        /\ UNCHANGED <<wav, rebuild, Rest>>
<1> DEFINE s == thread[t].s
           cs == thread[t].cs
           r == Inserted(cs, thread[t].gap, gap)
<1>1. t \in M!Threads BY DEF M!Threads
<1>2. thread[t].op = "create" /\ thread[t].pc = "insert" /\ s \in Sids /\ cs \in SUBSET Captures
  BY <1>1 DEF M!Insert, M!At, SamplePlaces, Placed
<1>3. thread[t].gap \in Nat /\ gap \in Nat /\ "unmerge" \in Places
  BY <1>1 DEF SampleTypes, Doers, Places
<1>4. UNCHANGED <<wav, rebuild, Rest>> BY DEF M!Insert, Rest
<1>5. CASE M!Claimable(cs)
  <2>1. /\ row' = [row EXCEPT ![s] = r]
        /\ capture' = [c \in Captures |-> IF c \in cs /\ capture[c].row
                         THEN [capture[c] EXCEPT !.sample = s] ELSE capture[c]]
        /\ M!Finish(t)
    BY <1>5 DEF M!Insert, Inserted
  <2>2. \A c \in cs : capture[c].row /\ capture[c].sample = "none"
    BY <1>5 DEF M!Claimable, M!NoSample
  <2>3. r \in SampleRows /\ r.phase = "live" /\ ~r.locked /\ r.built = M!Built(cs, thread[t].gap)
    <3>1. cs \in SUBSET (Captures \cup Sids) BY <1>2
    <3> HIDE DEF cs
    <3>2. QED BY <1>3, <3>1, NewRowTypes
  <2>4. \A c \in Captures : [capture[c] EXCEPT !.sample = s] \in CaptureRows /\
          [capture[c] EXCEPT !.sample = s].sample = s /\
          [capture[c] EXCEPT !.sample = s].row = capture[c].row
    BY <1>2 DEF SampleTypes, CaptureRows
  <2>5. /\ capture' \in [Captures -> CaptureRows]
        /\ \A c \in cs : capture'[c].row /\ capture'[c].sample = s
        /\ \A c \in Captures \ cs : capture'[c] = capture[c]
    BY <1>2, <2>1, <2>2, <2>4 DEF SampleTypes
  <2> HIDE DEF r
  <2>6. RowsBut(s) /\ row'[s] = r BY <1>2, <2>1, <2>3, RowBecomes
  <2>7. QED BY <1>1, <1>2, <1>4, <2>1, <2>2, <2>3, <2>5, <2>6, ThreadFinishes
<1>6. CASE ~M!Claimable(cs)
  <2>1. M!Move(t, "unmerge") /\ UNCHANGED <<row, capture>> BY <1>6 DEF M!Insert
  <2>2. QED BY <1>1, <1>2, <1>3, <1>4, <2>1, ThreadMoves
<1>7. QED BY <1>5, <1>6

LEMMA UnmergeDoes ==
  ASSUME SampleTypes, SamplePlaces, NEW t \in Callers, M!Unmerge(t)
  PROVE /\ thread[t].op = "create" /\ thread[t].pc = "unmerge" /\ thread[t].s \in Sids
        /\ ThreadsBut(t)
        /\ WavsBut(thread[t].s) /\ wav'[thread[t].s] = M!NoBuild
        /\ thread'[t].op = "none" /\ thread'[t].s = "none" /\ thread'[t].pc = "idle"
        /\ UNCHANGED <<capture, row, rebuild, Rest>>
<1>1. t \in M!Threads BY DEF M!Threads
<1>2. thread[t].op = "create" /\ thread[t].pc = "unmerge" /\ thread[t].s \in Sids
  BY <1>1 DEF M!Unmerge, M!At, SamplePlaces, Placed
<1>3. /\ wav' = [wav EXCEPT ![thread[t].s] = M!NoBuild] /\ M!Finish(t)
      /\ UNCHANGED <<capture, row, rebuild, Rest>>
  BY DEF M!Unmerge, Rest
<1>4. QED BY <1>1, <1>2, <1>3, ThreadFinishes, WavBecomes, BuildsBuilt

LEMMA UnlinkAudioDoes ==
  ASSUME SampleTypes, SamplePlaces, NEW t \in Callers, M!UnlinkAudio(t)
  PROVE /\ thread[t].op = "delete" /\ thread[t].pc = "unlink"
        /\ ThreadsBut(t) /\ SameCaptures
        /\ \/ /\ thread[t].s = "none"
              /\ thread'[t].op = "none" /\ thread'[t].s = "none" /\ thread'[t].pc = "idle"
           \/ /\ thread[t].s # "none"
              /\ thread'[t].op = "delete" /\ thread'[t].pc = "start"
              /\ thread'[t].s = thread[t].s
        /\ UNCHANGED <<row, wav, rebuild, Rest>>
<1>1. t \in M!Threads /\ "start" \in Places BY DEF M!Threads, Places
<1>2. thread[t].op = "delete" /\ thread[t].pc = "unlink" BY DEF M!UnlinkAudio, M!At
<1>3. capture' = [c \in Captures |-> IF c \in thread[t].cs
                    THEN [capture[c] EXCEPT !.audio = FALSE] ELSE capture[c]]
  BY DEF M!UnlinkAudio
<1>4. SameCaptures BY <1>3 DEF SameCaptures, SampleTypes, CaptureRows
<1>5. /\ IF thread[t].s = "none" THEN M!Finish(t) ELSE M!Move(t, "start")
      /\ UNCHANGED <<row, wav, rebuild, Rest>>
  BY DEF M!UnlinkAudio, M!NoSample, Rest
<1>6. CASE thread[t].s = "none" BY <1>1, <1>2, <1>4, <1>5, <1>6, ThreadFinishes
<1>7. CASE thread[t].s # "none" BY <1>1, <1>2, <1>4, <1>5, <1>7, ThreadMoves
<1>8. QED BY <1>6, <1>7


LEMMA DissolveDoes ==
  ASSUME SampleTypes, SamplePlaces, NEW t \in Callers, M!Dissolve(t)
  PROVE /\ thread[t].op \in {"dissolve", "delete"} /\ thread[t].pc = "start"
        /\ thread[t].s \in Sids /\ rebuild[thread[t].s] = "free"
        /\ ThreadsBut(t)
        /\ \/ /\ row[thread[t].s].phase = "live"
              /\ RowsBut(thread[t].s) /\ row'[thread[t].s].phase = "gone"
              /\ ~row'[thread[t].s].locked
              /\ capture' \in [Captures -> CaptureRows]
              /\ \A c \in Captures :
                   /\ capture'[c].row = capture[c].row
                   /\ capture[c].sample = thread[t].s => capture'[c].sample = "none"
                   /\ capture[c].sample # thread[t].s => capture'[c] = capture[c]
              /\ LocksBut(thread[t].s) /\ rebuild'[thread[t].s] = t
              /\ thread'[t].op = thread[t].op /\ thread'[t].pc = "wav"
              /\ thread'[t].s = thread[t].s
           \/ /\ ~(row[thread[t].s].phase = "live" /\ thread[t].op = "delete")
              /\ UNCHANGED <<row, capture, rebuild>>
              /\ thread'[t].op = "none" /\ thread'[t].s = "none" /\ thread'[t].pc = "idle"
        /\ UNCHANGED <<wav, Rest>>
<1> DEFINE s == thread[t].s
<1>1. t \in M!Threads /\ "wav" \in Places BY DEF M!Threads, Places
<1>2. thread[t].op \in {"dissolve", "delete"} /\ thread[t].pc = "start" /\ rebuild[s] = "free"
  BY DEF M!Dissolve, M!Dissolving, M!Free
<1>3. s \in Sids BY <1>1, <1>2 DEF SamplePlaces, Placed, SampleTypes, Doers
<1>4. UNCHANGED <<wav, Rest>> BY DEF M!Dissolve, Rest
<1>5. CASE M!Live(s) /\ ~(thread[t].op = "dissolve" /\ row[s].locked)
  <2>1. /\ row' = [row EXCEPT ![s] = M!NoRow("gone")]
        /\ capture' = [c \in Captures |-> IF capture[c].sample = s
                         THEN [capture[c] EXCEPT !.sample = "none"] ELSE capture[c]]
        /\ M!Hold(t, s) /\ M!Move(t, "wav")
    BY <1>5 DEF M!Dissolve, M!NoSample
  <2>2. RowsBut(s) /\ row'[s].phase = "gone" /\ ~row'[s].locked
    BY <1>3, <2>1, RowBecomes, NoRowTypes
  <2>3. \A c \in Captures : [capture[c] EXCEPT !.sample = "none"] \in CaptureRows /\
          [capture[c] EXCEPT !.sample = "none"].sample = "none" /\
          [capture[c] EXCEPT !.sample = "none"].row = capture[c].row
    BY DEF SampleTypes, CaptureRows
  <2>4. /\ capture' \in [Captures -> CaptureRows]
        /\ \A c \in Captures :
             /\ capture'[c].row = capture[c].row
             /\ capture[c].sample = s => capture'[c].sample = "none"
             /\ capture[c].sample # s => capture'[c] = capture[c]
    BY <2>1, <2>3 DEF SampleTypes
  <2>5. LocksBut(s) /\ rebuild'[s] = t BY <1>1, <1>3, <2>1, LockTaken
  <2>6. ThreadsBut(t) /\ thread'[t].op = thread[t].op /\ thread'[t].pc = "wav" /\ thread'[t].s = s
    BY <1>1, <2>1, ThreadMoves
  <2>7. row[s].phase = "live" BY <1>5 DEF M!Live
  <2>8. QED BY <1>2, <1>3, <1>4, <2>2, <2>4, <2>5, <2>6, <2>7
<1>6. CASE ~(M!Live(s) /\ ~(thread[t].op = "dissolve" /\ row[s].locked))
  <2>1. M!Finish(t) /\ UNCHANGED <<row, capture, rebuild>> BY <1>6 DEF M!Dissolve
  <2>2. ~(row[s].phase = "live" /\ thread[t].op = "delete") BY <1>6 DEF M!Live
  <2>3. QED BY <1>1, <1>2, <1>3, <1>4, <2>1, <2>2, ThreadFinishes
<1>7. QED BY <1>5, <1>6

LEMMA UnlinkWavDoes ==
  ASSUME SampleTypes, SamplePlaces, NEW t \in Callers, M!UnlinkWav(t)
  PROVE /\ thread[t].op \in {"dissolve", "delete"} /\ thread[t].pc = "wav"
        /\ thread[t].s \in Sids
        /\ ThreadsBut(t) /\ thread'[t].op = "none" /\ thread'[t].s = "none"
        /\ thread'[t].pc = "idle"
        /\ WavsBut(thread[t].s) /\ wav'[thread[t].s] = M!NoBuild
        /\ LocksBut(thread[t].s) /\ rebuild'[thread[t].s] = "free"
        /\ UNCHANGED <<capture, row, Rest>>
<1>1. t \in M!Threads BY DEF M!Threads
<1>2. thread[t].op \in {"dissolve", "delete"} /\ thread[t].pc = "wav" BY DEF M!UnlinkWav
<1>3. thread[t].s \in Sids BY <1>1, <1>2 DEF SamplePlaces, Placed, SampleTypes, Doers
<1>4. /\ wav' = [wav EXCEPT ![thread[t].s] = M!NoBuild]
      /\ M!Release(thread[t].s) /\ M!Finish(t) /\ UNCHANGED <<capture, row, Rest>>
  BY DEF M!UnlinkWav, Rest
<1>5. WavsBut(thread[t].s) /\ wav'[thread[t].s] = M!NoBuild
  BY <1>3, <1>4, WavBecomes, BuildsBuilt
<1>6. LocksBut(thread[t].s) /\ rebuild'[thread[t].s] = "free" BY <1>3, <1>4, LockReleased
<1>7. QED BY <1>1, <1>2, <1>3, <1>4, <1>5, <1>6, ThreadFinishes

LEMMA DissolveFailsDoes ==
  ASSUME SampleTypes, SamplePlaces, NEW t \in Callers, M!DissolveFails(t)
  PROVE /\ thread[t].op \in {"dissolve", "delete"} /\ thread[t].pc = "start"
        /\ ThreadsBut(t) /\ thread'[t].op = "none" /\ thread'[t].s = "none"
        /\ thread'[t].pc = "idle"
        /\ broken' = broken \cup {thread[t].s}
        /\ UNCHANGED <<capture, row, wav, rebuild, gap, packed, unguarded, job>>
BY ThreadFinishes DEF M!DissolveFails, M!Dissolving, M!Threads

LEMMA BeginClearDoes ==
  ASSUME SampleTypes, NEW t \in Callers, M!BeginClear(t)
  PROVE /\ ThreadsBut(t) /\ thread[t].op = "none"
        /\ thread'[t].op = "clear" /\ thread'[t].pc = "start" /\ thread'[t].s = "none"
        /\ UNCHANGED <<capture, row, wav, rebuild, Rest>>
<1>1. /\ M!Start(t, "clear", "none", {s \in Sids : M!Live(s)}, 0)
      /\ row' = row /\ wav' = wav
  BY DEF M!BeginClear, M!NoSample
<1>2. t \in M!Threads /\ "clear" \in Ops BY DEF M!Threads, Ops
<1> DEFINE cs == {s \in Sids : M!Live(s)}
<1>3. cs \in SUBSET (Captures \cup Sids) OBVIOUS
<1> HIDE DEF cs
<1>4. M!Start(t, "clear", "none", cs, 0) BY <1>1 DEF cs
<1>5. QED BY <1>1, <1>2, <1>3, <1>4, ThreadStarts DEF Rest

\* A clear takes every row there is; whoever holds such a sample's lock goes on.
Clears ==
  /\ row' \in [Sids -> SampleRows]
  /\ \A s \in Sids :
       /\ row[s].phase = "live" => row'[s].phase = "gone" /\ ~row'[s].locked
       /\ row[s].phase # "live" => row'[s] = row[s]
  /\ unguarded \subseteq unguarded'
  /\ \A s \in Sids : row[s].phase = "live" /\ rebuild[s] # "free" => s \in unguarded'

LEMMA WipedClears ==
  ASSUME SampleTypes, row' = M!Wiped, unguarded' = M!Orphaned
  PROVE Clears
<1>1. M!NoRow("gone") \in SampleRows /\ M!NoRow("gone").phase = "gone" /\ ~M!NoRow("gone").locked
  BY NoRowTypes
<1>2. \A s \in Sids : row'[s] = IF row[s].phase = "live" THEN M!NoRow("gone") ELSE row[s]
  BY DEF M!Wiped, M!Live
<1>3. row' \in [Sids -> SampleRows] BY <1>1 DEF M!Wiped, SampleTypes
<1>4. QED BY <1>1, <1>2, <1>3 DEF Clears, M!Orphaned, M!Held, M!Live, M!Free

LEMMA ClearSamplesDoes ==
  ASSUME SampleTypes, NEW t \in Callers, M!ClearSamples(t)
  PROVE /\ thread[t].op = "clear" /\ thread[t].pc = "start"
        /\ ThreadsBut(t) /\ Clears
        /\ thread'[t].op = "clear" /\ thread'[t].pc = "wipe" /\ thread'[t].s = thread[t].s
        /\ UNCHANGED <<capture, wav, rebuild, gap, packed, broken, job>>
<1>1. t \in M!Threads /\ "wipe" \in Places BY DEF M!Threads, Places
<1>2. /\ thread[t].op = "clear" /\ thread[t].pc = "start" /\ M!Move(t, "wipe")
      /\ row' = M!Wiped /\ unguarded' = M!Orphaned
      /\ UNCHANGED <<capture, wav, rebuild, gap, packed, broken, job>>
  BY DEF M!ClearSamples, M!At
<1>3. QED BY <1>1, <1>2, ThreadMoves, WipedClears

LEMMA WipeAllDoes ==
  ASSUME SampleTypes, NEW t \in Callers, M!WipeAll(t)
  PROVE /\ thread[t].op = "clear" /\ thread[t].pc = "wipe"
        /\ ThreadsBut(t) /\ Clears
        /\ thread'[t].op = "none" /\ thread'[t].s = "none" /\ thread'[t].pc = "idle"
        /\ capture' \in [Captures -> CaptureRows] /\ \A c \in Captures : ~capture'[c].row
        /\ wav' \in [Sids -> Builds] /\ \A s \in Sids : wav'[s] = M!NoBuild
        /\ UNCHANGED <<rebuild, gap, packed, broken, job>>
<1>1. t \in M!Threads BY DEF M!Threads
<1>2. /\ thread[t].op = "clear" /\ thread[t].pc = "wipe" /\ M!Finish(t)
      /\ row' = M!Wiped /\ unguarded' = M!Orphaned
      /\ capture' = [c \in Captures |-> [row |-> FALSE, audio |-> FALSE, sample |-> "none"]]
      /\ wav' = [s \in Sids |-> M!NoBuild]
      /\ UNCHANGED <<rebuild, gap, packed, broken, job>>
  BY DEF M!WipeAll, M!At, M!NoSample
<1>3. capture' \in [Captures -> CaptureRows] /\ \A c \in Captures : ~capture'[c].row
  BY <1>2 DEF CaptureRows
<1>4. wav' \in [Sids -> Builds] /\ \A s \in Sids : wav'[s] = M!NoBuild
  BY <1>2, BuildsBuilt
<1>5. QED BY <1>1, <1>2, <1>3, <1>4, ThreadFinishes, WipedClears

\* Who rebuilds a sample, waits for its lock or holds it.
LEMMA RebuildingPlaces ==
  ASSUME SamplePlaces, NEW t \in M!Threads, thread[t].op \in M!Rebuilding,
         thread[t].pc \in {"start", "read", "write", "patch"}
  PROVE /\ thread[t].s \in Sids /\ thread[t].cs \in SUBSET Captures
        /\ row[thread[t].s].phase \in {"live", "gone"}
BY DEF SamplePlaces, Placed

LEMMA EnterDoes ==
  ASSUME SampleTypes, SamplePlaces, NEW t \in M!Threads, M!Enter(t)
  PROVE /\ thread[t].op \in M!Rebuilding /\ thread[t].pc = "start"
        /\ thread[t].s \in Sids /\ rebuild[thread[t].s] = "free"
        /\ ThreadsBut(t)
        /\ \/ /\ row[thread[t].s].phase = "live"
              /\ thread[t].op # "heal" => ~row[thread[t].s].locked
              /\ thread[t].op = "heal" => wav[thread[t].s] = M!NoBuild
              /\ LocksBut(thread[t].s) /\ rebuild'[thread[t].s] = t
              /\ thread'[t].op = thread[t].op /\ thread'[t].pc = "read"
              /\ thread'[t].s = thread[t].s /\ thread'[t].cs \in SUBSET Captures
              /\ thread'[t].cs = IF thread[t].op = "regenerate" THEN M!Members(thread[t].s)
                                 ELSE thread[t].cs
           \/ /\ rebuild' = rebuild /\ thread'[t].s = "none"
              /\ thread'[t].op = IF t = Vad THEN "reprocess" ELSE "none"
              /\ thread'[t].pc = IF t = Vad THEN "pass" ELSE "idle"
        /\ UNCHANGED <<capture, row, wav, Rest>>
<1> DEFINE s == thread[t].s
<1>1. thread[t].op \in M!Rebuilding /\ thread[t].pc = "start" /\ rebuild[s] = "free"
      /\ UNCHANGED <<capture, row, wav, Rest>>
  BY DEF M!Enter, M!Free, Rest
<1>2. s \in Sids /\ thread[t].cs \in SUBSET Captures BY <1>1, RebuildingPlaces
<1>3. CASE M!GoesOn(t, s)
  <2> DEFINE cs == IF thread[t].op = "regenerate" THEN M!Members(s) ELSE thread[t].cs
             q == [thread[t] EXCEPT !.pc = "read", !.cs = cs]
  <2>1. cs \in SUBSET Captures BY <1>2 DEF M!Members
  <2>2. M!Hold(t, s) /\ thread' = [thread EXCEPT ![t] = q] BY <1>3 DEF M!Enter
  <2> HIDE DEF cs
  <2>3. /\ q \in Doers /\ q.op = thread[t].op /\ q.pc = "read" /\ q.s = s /\ q.cs = cs
    BY <2>1 DEF SampleTypes, Doers, Places
  <2> HIDE DEF q
  <2>4. ThreadsBut(t) /\ thread'[t] = q BY <2>2, <2>3, ThreadBecomes
  <2>5. LocksBut(s) /\ rebuild'[s] = t BY <1>2, <2>2, LockTaken
  <2>6. /\ row[s].phase = "live"
        /\ thread[t].op # "heal" => ~row[s].locked
        /\ thread[t].op = "heal" => wav[s] = M!NoBuild
    BY <1>1, <1>3 DEF M!GoesOn, M!Live, M!Rebuilding
  <2>7. QED BY <1>1, <1>2, <2>1, <2>3, <2>4, <2>5, <2>6 DEF cs
<1>4. CASE ~M!GoesOn(t, s)
  <2>1. M!Done(t) /\ rebuild' = rebuild BY <1>4 DEF M!Enter
  <2>2. QED BY <1>1, <1>2, <2>1, ThreadDone
<1>5. QED BY <1>3, <1>4

LEMMA ReadMembersDoes ==
  ASSUME SampleTypes, SamplePlaces, NEW t \in M!Threads, M!ReadMembers(t)
  PROVE /\ thread[t].op \in M!Rebuilding /\ thread[t].pc = "read" /\ thread[t].s \in Sids
        /\ ThreadsBut(t)
        /\ thread'[t].op = thread[t].op /\ thread'[t].pc = "write"
        /\ thread'[t].s = thread[t].s /\ thread'[t].cs = thread[t].cs
        /\ thread'[t].gap = thread[t].gap
        /\ UNCHANGED <<capture, row, wav, rebuild, Rest>>
<1>1. /\ thread[t].op \in M!Rebuilding /\ thread[t].pc = "read" /\ M!Move(t, "write")
      /\ UNCHANGED <<capture, row, wav, rebuild, Rest>>
  BY DEF M!ReadMembers, Rest
<1>2. "write" \in Places BY DEF Places
<1>3. QED BY <1>1, <1>2, RebuildingPlaces, ThreadMoves

LEMMA FailRebuildDoes ==
  ASSUME SampleTypes, SamplePlaces, NEW t \in M!Threads, M!FailRebuild(t)
  PROVE /\ thread[t].op \in M!Rebuilding /\ thread[t].pc \in {"read", "write"}
        /\ thread[t].s \in Sids
        /\ ThreadsBut(t) /\ thread'[t].s = "none"
        /\ thread'[t].op = IF t = Vad THEN "reprocess" ELSE "none"
        /\ thread'[t].pc = IF t = Vad THEN "pass" ELSE "idle"
        /\ row' \in [Sids -> SampleRows]
        /\ \A s \in Sids : /\ row'[s].phase = row[s].phase /\ row'[s].locked = row[s].locked
                           /\ row'[s].built = row[s].built
        /\ LocksBut(thread[t].s) /\ rebuild'[thread[t].s] = "free"
        /\ UNCHANGED <<capture, wav, Rest>>
<1> DEFINE s == thread[t].s
           b == row[s].stale \/ (thread[t].op = "reprocess" /\ M!Live(s))
           r == [row[s] EXCEPT !.stale = b]
<1>1. /\ thread[t].op \in M!Rebuilding /\ thread[t].pc \in {"read", "write"}
      /\ row' = [row EXCEPT ![s] = r] /\ M!Release(s) /\ M!Done(t)
      /\ UNCHANGED <<capture, wav, Rest>>
  BY DEF M!FailRebuild, Rest
<1>2. s \in Sids BY <1>1, RebuildingPlaces
<1>3. row[s] \in SampleRows /\ b \in BOOLEAN BY <1>2 DEF SampleTypes
<1> HIDE DEF b
<1>4. /\ r \in SampleRows /\ r.phase = row[s].phase /\ r.locked = row[s].locked
      /\ r.built = row[s].built
  BY <1>3 DEF SampleRows
<1> HIDE DEF r
<1>5. RowsBut(s) /\ row'[s] = r BY <1>1, <1>2, <1>4, RowBecomes
<1>6. LocksBut(s) /\ rebuild'[s] = "free" BY <1>1, <1>2, LockReleased
<1>7. QED BY <1>1, <1>2, <1>4, <1>5, <1>6, ThreadDone DEF RowsBut

LEMMA ReplaceWavDoes ==
  ASSUME SampleTypes, SamplePlaces, NEW t \in M!Threads, M!ReplaceWav(t)
  PROVE /\ thread[t].op \in M!Rebuilding /\ thread[t].pc = "write" /\ thread[t].s \in Sids
        /\ ThreadsBut(t)
        /\ thread'[t].op = thread[t].op /\ thread'[t].pc = "patch"
        /\ thread'[t].s = thread[t].s /\ thread'[t].cs = thread[t].cs
        /\ thread'[t].gap = thread[t].gap
        /\ WavsBut(thread[t].s)
        /\ wav'[thread[t].s] = M!Built(thread[t].cs, thread[t].gap)
        /\ UNCHANGED <<capture, row, rebuild, Rest>>
<1> DEFINE b == M!Built(thread[t].cs, thread[t].gap)
<1>1. /\ thread[t].op \in M!Rebuilding /\ thread[t].pc = "write" /\ M!Move(t, "patch")
      /\ wav' = [wav EXCEPT ![thread[t].s] = b] /\ UNCHANGED <<capture, row, rebuild, Rest>>
  BY DEF M!ReplaceWav, Rest
<1>2. thread[t].s \in Sids BY <1>1, RebuildingPlaces
<1>3. thread[t].cs \in SUBSET (Captures \cup Sids) /\ thread[t].gap \in Nat
  BY DEF SampleTypes, Doers
<1>4. b \in Builds /\ b = M!Built(thread[t].cs, thread[t].gap) BY <1>3, BuildsBuilt
<1>5. "patch" \in Places BY DEF Places
<1>6. WavsBut(thread[t].s) /\ wav'[thread[t].s] = b
  <2>1. wav' = [wav EXCEPT ![thread[t].s] = b] BY <1>1
  <2> HIDE DEF b
  <2>2. QED BY <1>2, <1>4, <2>1, WavBecomes
<1> HIDE DEF b
<1>7. /\ ThreadsBut(t)
      /\ thread'[t].op = thread[t].op /\ thread'[t].pc = "patch"
      /\ thread'[t].s = thread[t].s /\ thread'[t].cs = thread[t].cs
      /\ thread'[t].gap = thread[t].gap
  BY <1>1, <1>5, ThreadMoves
<1>8. QED BY <1>1, <1>2, <1>4, <1>6, <1>7

LEMMA PatchRowDoes ==
  ASSUME SampleTypes, SamplePlaces, NEW t \in M!Threads, M!PatchRow(t)
  PROVE /\ thread[t].op \in M!Rebuilding /\ thread[t].pc = "patch" /\ thread[t].s \in Sids
        /\ ThreadsBut(t) /\ thread'[t].s = "none"
        /\ thread'[t].op = IF t = Vad THEN "reprocess" ELSE "none"
        /\ thread'[t].pc = IF t = Vad THEN "pass" ELSE "idle"
        /\ RowsBut(thread[t].s)
        /\ row'[thread[t].s].phase = row[thread[t].s].phase
        /\ row'[thread[t].s].locked = row[thread[t].s].locked
        /\ row[thread[t].s].phase = "live" =>
             row'[thread[t].s].built = M!Built(thread[t].cs, thread[t].gap)
        /\ LocksBut(thread[t].s) /\ rebuild'[thread[t].s] = "free"
        /\ UNCHANGED <<capture, wav, Rest>>
<1> DEFINE s == thread[t].s
           r == IF M!Live(s) THEN M!Patched(t, row[s]) ELSE row[s]
<1>1. /\ thread[t].op \in M!Rebuilding /\ thread[t].pc = "patch"
      /\ row' = [row EXCEPT ![s] = r] /\ M!Release(s) /\ M!Done(t)
      /\ UNCHANGED <<capture, wav, Rest>>
  BY DEF M!PatchRow, Rest
<1>2. s \in Sids BY <1>1, RebuildingPlaces
<1>3. row[s] \in SampleRows BY <1>2 DEF SampleTypes
<1>4. /\ r \in SampleRows /\ r.phase = row[s].phase /\ r.locked = row[s].locked
      /\ row[s].phase = "live" => r.built = M!Built(thread[t].cs, thread[t].gap)
  BY <1>3, PatchedTypes DEF M!Live
<1> HIDE DEF r
<1>5. RowsBut(s) /\ row'[s] = r BY <1>1, <1>2, <1>4, RowBecomes
<1>6. LocksBut(s) /\ rebuild'[s] = "free" BY <1>1, <1>2, LockReleased
<1>7. QED BY <1>1, <1>2, <1>4, <1>5, <1>6, ThreadDone

LEMMA ToggleLockDoes ==
  ASSUME SampleTypes, NEW s \in Sids, M!ToggleLock(s)
  PROVE /\ row[s].phase = "live" /\ rebuild[s] = "free"
        /\ RowsBut(s) /\ row'[s].phase = "live" /\ row'[s].built = row[s].built
        /\ UNCHANGED <<capture, wav, rebuild, thread, Rest>>
<1> DEFINE r == [row[s] EXCEPT !.locked = ~row[s].locked]
<1>1. /\ row[s].phase = "live" /\ rebuild[s] = "free"
      /\ row' = [row EXCEPT ![s] = r]
      /\ UNCHANGED <<capture, wav, rebuild, thread, Rest>>
  BY DEF M!ToggleLock, M!Live, M!Free, Rest
<1>2. r \in SampleRows /\ r.phase = row[s].phase /\ r.built = row[s].built
  BY DEF SampleTypes, SampleRows
<1> HIDE DEF r
<1>3. QED BY <1>1, <1>2, RowBecomes

LEMMA TakeNextDoes ==
  ASSUME SampleTypes, NEW s \in Sids, M!TakeNext(s)
  PROVE /\ thread[Vad].op = "reprocess" /\ thread[Vad].pc = "pass"
        /\ \/ thread' = thread
           \/ /\ ThreadsBut(Vad) /\ row[s].phase = "live"
              /\ thread'[Vad].op = "reprocess" /\ thread'[Vad].pc = "start"
              /\ thread'[Vad].s = s /\ thread'[Vad].cs = M!Members(s)
              /\ thread'[Vad].cs \in SUBSET Captures
        /\ job' \in Reprocesses /\ job'.status = job.status /\ job'.rerun = job.rerun
        /\ job'.began = job.began /\ job'.asked = job.asked
        /\ UNCHANGED <<capture, row, wav, rebuild, gap, packed, unguarded, broken>>
<1> DEFINE q == [op |-> "reprocess", pc |-> "start", s |-> s, cs |-> M!Members(s), gap |-> gap]
<1>1. /\ thread[Vad].op = "reprocess" /\ thread[Vad].pc = "pass"
      /\ thread' = thread \/ (row[s].phase = "live" /\ thread' = [thread EXCEPT ![Vad] = q])
      /\ UNCHANGED <<capture, row, wav, rebuild, gap, packed, unguarded, broken>>
  BY DEF M!TakeNext, M!At, M!Live
<1>2. job' = [job EXCEPT !.todo = @ \ {s}] BY DEF M!TakeNext
<1>3. /\ job' \in Reprocesses /\ job'.status = job.status /\ job'.rerun = job.rerun
      /\ job'.began = job.began /\ job'.asked = job.asked
  BY <1>2 DEF SampleTypes, Reprocesses
<1>4. q \in Doers /\ M!Members(s) \in SUBSET Captures
  BY DEF SampleTypes, Doers, Ops, Places, M!Members
<1>5. Vad \in M!Threads BY DEF M!Threads
<1>6. thread' = [thread EXCEPT ![Vad] = q] => ThreadsBut(Vad) /\ thread'[Vad] = q
  BY <1>4, <1>5, ThreadBecomes
<1>7. QED BY <1>1, <1>3, <1>4, <1>6

LEMMA SaveDoes ==
  ASSUME SampleTypes, SampleJob, M!SaveAndReprocess
  PROVE /\ gap' = gap + 1 /\ job' \in Reprocesses
        /\ job'.status = "running" /\ job'.asked = gap + 1
        /\ \/ job'.rerun /\ thread' = thread
           \/ /\ thread[Vad].op = "none" /\ ThreadsBut(Vad)
              /\ thread'[Vad].op = "reprocess" /\ thread'[Vad].pc = "list"
              /\ thread'[Vad].s = "none"
        /\ UNCHANGED <<capture, row, wav, rebuild, packed, unguarded, broken>>
<1>1. Vad \in M!Threads BY DEF M!Threads
<1>2. gap' = gap + 1 /\ gap + 1 \in Nat
      /\ UNCHANGED <<capture, row, wav, rebuild, packed, unguarded, broken>>
  BY DEF M!SaveAndReprocess, SampleTypes
<1>3. CASE job.status = "running"
  <2>1. job' = [job EXCEPT !.rerun = TRUE, !.asked = gap + 1] /\ thread' = thread
    BY <1>3 DEF M!SaveAndReprocess, M!Rerun
  <2>2. QED BY <1>2, <1>3, <2>1 DEF SampleTypes, Reprocesses
<1>4. CASE job.status # "running"
  <2> DEFINE q == [M!Idle EXCEPT !.op = "reprocess", !.pc = "list"]
  <2>1. /\ job' = [job EXCEPT !.status = "running", !.rerun = FALSE, !.asked = gap + 1]
        /\ thread' = [thread EXCEPT ![Vad] = q]
    BY <1>4 DEF M!SaveAndReprocess
  <2>2. q \in Doers /\ q.op = "reprocess" /\ q.pc = "list" /\ q.s = "none"
    BY DEF M!Idle, Doers, Ops, Places, M!NoSample
  <2> HIDE DEF q
  <2>3. ThreadsBut(Vad) /\ thread'[Vad] = q BY <1>1, <2>1, <2>2, ThreadBecomes
  <2>4. job' \in Reprocesses /\ job'.status = "running" /\ job'.asked = gap + 1
    BY <1>2, <2>1 DEF SampleTypes, Reprocesses
  <2>5. QED BY <1>2, <1>4, <2>2, <2>3, <2>4 DEF SampleJob
<1>5. QED BY <1>3, <1>4

LEMMA PassDoes ==
  ASSUME SampleTypes, SampleJob, M!ListPass \/ M!EndPass
  PROVE /\ thread[Vad].op = "reprocess" /\ thread[Vad].pc \in {"list", "pass"}
        /\ ThreadsBut(Vad)
        /\ \/ /\ thread'[Vad].op = "reprocess" /\ thread'[Vad].pc \in {"list", "pass"}
              /\ thread'[Vad].s = thread[Vad].s
           \/ thread'[Vad].op = "none" /\ thread'[Vad].s = "none"
        /\ job' \in Reprocesses
        /\ UNCHANGED <<capture, row, wav, rebuild, gap, packed, unguarded, broken>>
        /\ SampleJob'
<1>1. Vad \in M!Threads /\ {"list", "pass"} \subseteq Places BY DEF M!Threads, Places
<1>2. UNCHANGED <<capture, row, wav, rebuild, gap, packed, unguarded, broken>>
  BY DEF M!ListPass, M!EndPass
<1>3. CASE M!ListPass
  <2> DEFINE todo == {s \in Sids : M!Live(s) /\ ~row[s].locked}
  <2>1. /\ thread[Vad].op = "reprocess" /\ thread[Vad].pc = "list"
        /\ job' = [job EXCEPT !.todo = todo, !.began = gap] /\ M!Move(Vad, "pass")
    BY <1>3 DEF M!ListPass, M!At
  <2>2. todo \subseteq Sids OBVIOUS
  <2> HIDE DEF todo
  <2>3. job' \in Reprocesses /\ job'.began = gap /\ job'.asked = job.asked /\ job'.status = job.status
    BY <2>1, <2>2 DEF SampleTypes, Reprocesses
  <2>4. /\ ThreadsBut(Vad) /\ thread'[Vad].op = "reprocess" /\ thread'[Vad].pc = "pass"
        /\ thread'[Vad].s = thread[Vad].s
    BY <1>1, <2>1, ThreadMoves
  <2>5. SampleJob'
    BY <1>2, <2>1, <2>3 DEF SampleJob, SampleTypes, Reprocesses
  <2>6. QED BY <1>2, <2>1, <2>3, <2>4, <2>5
<1>4. CASE M!EndPass
  <2>1. thread[Vad].op = "reprocess" /\ thread[Vad].pc = "pass" BY <1>4 DEF M!EndPass, M!At
  <2>2. job.asked > job.began => job.rerun BY <2>1 DEF SampleJob
  <2>3. CASE job.rerun
    <3>1. job' = [job EXCEPT !.rerun = FALSE] /\ M!Move(Vad, "list")
      BY <1>4, <2>3 DEF M!EndPass
    <3>2. /\ job' \in Reprocesses /\ job'.began = job.began /\ job'.asked = job.asked
          /\ job'.status = job.status
      BY <3>1 DEF SampleTypes, Reprocesses
    <3>3. /\ ThreadsBut(Vad) /\ thread'[Vad].op = "reprocess" /\ thread'[Vad].pc = "list"
          /\ thread'[Vad].s = thread[Vad].s
      BY <1>1, <2>1, <3>1, ThreadMoves
    <3>4. SampleJob' BY <1>2, <2>1, <3>2, <3>3 DEF SampleJob
    <3>5. QED BY <1>2, <2>1, <3>2, <3>3, <3>4
  <2>4. CASE ~job.rerun
    <3>1. job' = [job EXCEPT !.status = "done"] /\ M!Finish(Vad)
      BY <1>4, <2>4 DEF M!EndPass
    <3>2. job' \in Reprocesses /\ job'.began = job.began /\ job'.asked = job.asked
      BY <3>1 DEF SampleTypes, Reprocesses
    <3>3. ThreadsBut(Vad) /\ thread'[Vad].op = "none" /\ thread'[Vad].s = "none"
      BY <1>1, <3>1, ThreadFinishes
    <3>4. SampleJob' BY <1>2, <2>2, <2>4, <3>2, <3>3 DEF SampleJob
    <3>5. QED BY <1>2, <2>1, <3>2, <3>3, <3>4
  <2>5. QED BY <2>3, <2>4
<1>5. QED BY <1>3, <1>4

-----------------------------------------------------------------------------
(* Where a thread is, what it is about, and what it holds.                      *)

LEMMA ThreadFacts ==
  ASSUME StoresAssumption, SampleTypes, SamplePlaces, SampleLocks, NEW t \in M!Threads
  PROVE /\ Rebuilds(t) => /\ thread[t].s \in Sids /\ rebuild[thread[t].s] = t
                          /\ row[thread[t].s].phase \in {"live", "gone"}
        /\ Unlinks(t) => thread[t].s \in Sids /\ rebuild[thread[t].s] = t
        /\ thread[t].op = "create" => /\ thread[t].s \in Sids
                                      /\ row[thread[t].s].phase = "reserved"
        /\ t # "free"
<1>1. Rebuilds(t) => /\ thread[t].s \in Sids /\ row[thread[t].s].phase \in {"live", "gone"}
  BY RebuildingPlaces DEF Rebuilds
<1>2. Unlinks(t) => thread[t].s \in Sids
  BY DEF Unlinks, SamplePlaces, Placed, SampleTypes, Doers
<1>3. thread[t].op = "create" => thread[t].s \in Sids /\ row[thread[t].s].phase = "reserved"
  BY DEF SamplePlaces, Placed
<1>4. QED BY <1>1, <1>2, <1>3, StoresAssumption DEF SampleLocks, M!Threads

LEMMA CaptureFacts ==
  ASSUME SampleTypes, NEW c \in Captures
  PROVE capture[c].sample \in Sids \cup {"none"}
BY DEF SampleTypes, CaptureRows

-----------------------------------------------------------------------------
(* Each part of the invariant, action by action.                               *)

\* A step keeps the types.
LEMMA SampleTypesKept ==
  ASSUME StoresAssumption, SampleTypes, SamplePlaces, SampleJob,
         [M!SamplesNext]_samplesVars
  PROVE SampleTypes'
<1> USE DEF SampleTypes, ThreadsBut, RowsBut, WavsBut, LocksBut, SameCaptures, Clears,
            Rest, M!Threads
<1>1. ASSUME NEW t \in Callers, NEW s \in Sids, NEW cs \in SUBSET Captures \ {{}}, M!ValidateMerge(t, s, cs)
      PROVE SampleTypes'
  BY <1>1, StoresAssumption, ValidateMergeDoes
<1>2. ASSUME NEW t \in Callers, NEW s \in Sids,
            M!AdmitRegenerate(t, s) \/ M!AdmitHeal(t, s) \/ M!AdmitDissolve(t, s) PROVE SampleTypes'
  BY <1>2, StoresAssumption, AdmitDoes
<1>3. ASSUME NEW t \in Callers, NEW c \in Captures, M!DeleteMember(t, c) PROVE SampleTypes'
  BY <1>3, StoresAssumption, DeleteMemberDoes
<1>4. ASSUME NEW t \in Callers, M!BuildNew(t) PROVE SampleTypes'
  BY <1>4, StoresAssumption, BuildNewDoes
<1>5. ASSUME NEW t \in Callers, M!Insert(t) PROVE SampleTypes'
  BY <1>5, StoresAssumption, InsertDoes
<1>6. ASSUME NEW t \in Callers, M!Unmerge(t) PROVE SampleTypes'
  BY <1>6, StoresAssumption, UnmergeDoes
<1>7. ASSUME NEW t \in Callers, M!UnlinkAudio(t) PROVE SampleTypes'
  BY <1>7, StoresAssumption, UnlinkAudioDoes
<1>8. ASSUME NEW t \in Callers, M!Dissolve(t) PROVE SampleTypes'
  BY <1>8, StoresAssumption, DissolveDoes
<1>9. ASSUME NEW t \in Callers, M!UnlinkWav(t) PROVE SampleTypes'
  BY <1>9, StoresAssumption, UnlinkWavDoes
<1>10. ASSUME NEW t \in Callers, M!DissolveFails(t) PROVE SampleTypes'
  BY <1>10, StoresAssumption, DissolveFailsDoes
<1>11. ASSUME NEW t \in Callers, M!BeginClear(t) PROVE SampleTypes'
  BY <1>11, StoresAssumption, BeginClearDoes
<1>12. ASSUME NEW t \in Callers, M!ClearSamples(t) PROVE SampleTypes'
  BY <1>12, StoresAssumption, ClearSamplesDoes
<1>13. ASSUME NEW t \in Callers, M!WipeAll(t) PROVE SampleTypes'
  BY <1>13, StoresAssumption, WipeAllDoes
<1>14. ASSUME NEW t \in M!Threads, M!Enter(t) PROVE SampleTypes'
  BY <1>14, StoresAssumption, EnterDoes
<1>15. ASSUME NEW t \in M!Threads, M!ReadMembers(t) PROVE SampleTypes'
  BY <1>15, StoresAssumption, ReadMembersDoes
<1>16. ASSUME NEW t \in M!Threads, M!FailRebuild(t) PROVE SampleTypes'
  BY <1>16, StoresAssumption, FailRebuildDoes
<1>17. ASSUME NEW t \in M!Threads, M!ReplaceWav(t) PROVE SampleTypes'
  BY <1>17, StoresAssumption, ReplaceWavDoes
<1>18. ASSUME NEW t \in M!Threads, M!PatchRow(t) PROVE SampleTypes'
  BY <1>18, StoresAssumption, PatchRowDoes
<1>19. ASSUME NEW s \in Sids, M!ToggleLock(s) PROVE SampleTypes'
  BY <1>19, StoresAssumption, ToggleLockDoes
<1>20. ASSUME NEW s \in Sids, M!TakeNext(s) PROVE SampleTypes'
  BY <1>20, StoresAssumption, TakeNextDoes
<1>21. ASSUME NEW s \in Sids, M!Export(s) PROVE SampleTypes'
  BY <1>21, StoresAssumption DEF M!Export
<1>22. ASSUME M!SaveAndReprocess PROVE SampleTypes'
  BY <1>22, StoresAssumption, SaveDoes
<1>23. ASSUME M!ListPass \/ M!EndPass PROVE SampleTypes'
  BY <1>23, StoresAssumption, PassDoes
<1>24. CASE UNCHANGED samplesVars BY SMTT(30), <1>24 DEF samplesVars
<1>25. QED
  BY <1>1, <1>2, <1>3, <1>4, <1>5, <1>6, <1>7, <1>8, <1>9, <1>10, <1>11, <1>12, <1>13,
     <1>14, <1>15, <1>16, <1>17, <1>18, <1>19, <1>20, <1>21, <1>22, <1>23, <1>24
     DEF M!SamplesNext, M!CallerStep

\* A thread is where its operation can be, about a sample of the right phase.
LEMMA SamplePlacesKept ==
  ASSUME StoresAssumption, SampleTypes, SampleFresh, SampleJob, SamplePlaces,
         [M!SamplesNext]_samplesVars
  PROVE SamplePlaces'
<1> USE DEF SamplePlaces, SampleFresh, Placed, ThreadsBut, RowsBut, Clears, M!Threads, M!Rebuilding
<1>1. ASSUME NEW t \in Callers, NEW s \in Sids, NEW cs \in SUBSET Captures \ {{}}, M!ValidateMerge(t, s, cs)
      PROVE SamplePlaces'
  BY <1>1, StoresAssumption, ValidateMergeDoes
<1>2. ASSUME NEW t \in Callers, NEW s \in Sids,
            M!AdmitRegenerate(t, s) \/ M!AdmitHeal(t, s) \/ M!AdmitDissolve(t, s) PROVE SamplePlaces'
  BY <1>2, StoresAssumption, AdmitDoes
<1>3. ASSUME NEW t \in Callers, NEW c \in Captures, M!DeleteMember(t, c) PROVE SamplePlaces'
  BY <1>3, StoresAssumption, DeleteMemberDoes
<1>4. ASSUME NEW t \in Callers, M!BuildNew(t) PROVE SamplePlaces'
  BY <1>4, StoresAssumption, BuildNewDoes
<1>5. ASSUME NEW t \in Callers, M!Insert(t) PROVE SamplePlaces'
  BY <1>5, StoresAssumption, InsertDoes
<1>6. ASSUME NEW t \in Callers, M!Unmerge(t) PROVE SamplePlaces'
  BY <1>6, StoresAssumption, UnmergeDoes
<1>7. ASSUME NEW t \in Callers, M!UnlinkAudio(t) PROVE SamplePlaces'
  BY <1>7, StoresAssumption, UnlinkAudioDoes
<1>8. ASSUME NEW t \in Callers, M!Dissolve(t) PROVE SamplePlaces'
  BY <1>8, StoresAssumption, DissolveDoes
<1>9. ASSUME NEW t \in Callers, M!UnlinkWav(t) PROVE SamplePlaces'
  BY <1>9, StoresAssumption, UnlinkWavDoes
<1>10. ASSUME NEW t \in Callers, M!DissolveFails(t) PROVE SamplePlaces'
  BY <1>10, StoresAssumption, DissolveFailsDoes
<1>11. ASSUME NEW t \in Callers, M!BeginClear(t) PROVE SamplePlaces'
  BY <1>11, StoresAssumption, BeginClearDoes
<1>12. ASSUME NEW t \in Callers, M!ClearSamples(t) PROVE SamplePlaces'
  BY <1>12, StoresAssumption, ClearSamplesDoes
<1>13. ASSUME NEW t \in Callers, M!WipeAll(t) PROVE SamplePlaces'
  BY <1>13, StoresAssumption, WipeAllDoes
<1>14. ASSUME NEW t \in M!Threads, M!Enter(t) PROVE SamplePlaces'
  BY <1>14, StoresAssumption, EnterDoes
<1>15. ASSUME NEW t \in M!Threads, M!ReadMembers(t) PROVE SamplePlaces'
  BY <1>15, StoresAssumption, ReadMembersDoes
<1>16. ASSUME NEW t \in M!Threads, M!FailRebuild(t) PROVE SamplePlaces'
  BY <1>16, StoresAssumption, FailRebuildDoes
<1>17. ASSUME NEW t \in M!Threads, M!ReplaceWav(t) PROVE SamplePlaces'
  BY <1>17, StoresAssumption, ReplaceWavDoes
<1>18. ASSUME NEW t \in M!Threads, M!PatchRow(t) PROVE SamplePlaces'
  BY <1>18, StoresAssumption, PatchRowDoes
<1>19. ASSUME NEW s \in Sids, M!ToggleLock(s) PROVE SamplePlaces'
  BY <1>19, StoresAssumption, ToggleLockDoes
<1>20. ASSUME NEW s \in Sids, M!TakeNext(s) PROVE SamplePlaces'
  BY <1>20, StoresAssumption, TakeNextDoes
<1>21. ASSUME NEW s \in Sids, M!Export(s) PROVE SamplePlaces'
  BY <1>21, StoresAssumption DEF M!Export
<1>22. ASSUME M!SaveAndReprocess PROVE SamplePlaces'
  BY <1>22, StoresAssumption, SaveDoes
<1>23. ASSUME M!ListPass \/ M!EndPass PROVE SamplePlaces'
  BY <1>23, StoresAssumption, PassDoes
<1>24. CASE UNCHANGED samplesVars BY <1>24 DEF samplesVars
<1>25. QED
  BY <1>1, <1>2, <1>3, <1>4, <1>5, <1>6, <1>7, <1>8, <1>9, <1>10, <1>11, <1>12, <1>13,
     <1>14, <1>15, <1>16, <1>17, <1>18, <1>19, <1>20, <1>21, <1>22, <1>23, <1>24
     DEF M!SamplesNext, M!CallerStep

\* A lock is taken and given back with the place in the block it guards.
LEMMA SampleLocksKept ==
  ASSUME StoresAssumption, SampleTypes, SamplePlaces, SampleJob, SampleLocks,
         [M!SamplesNext]_samplesVars
  PROVE SampleLocks'
<1> USE DEF SampleLocks, Rebuilds, Unlinks, ThreadsBut, LocksBut, M!Threads, M!Rebuilding
<1>1. ASSUME NEW t \in Callers, NEW s \in Sids, NEW cs \in SUBSET Captures \ {{}}, M!ValidateMerge(t, s, cs)
      PROVE SampleLocks'
  BY <1>1, StoresAssumption, ValidateMergeDoes
<1>2. ASSUME NEW t \in Callers, NEW s \in Sids,
            M!AdmitRegenerate(t, s) \/ M!AdmitHeal(t, s) \/ M!AdmitDissolve(t, s) PROVE SampleLocks'
  BY <1>2, StoresAssumption, AdmitDoes
<1>3. ASSUME NEW t \in Callers, NEW c \in Captures, M!DeleteMember(t, c) PROVE SampleLocks'
  BY <1>3, StoresAssumption, DeleteMemberDoes
<1>4. ASSUME NEW t \in Callers, M!BuildNew(t) PROVE SampleLocks'
  BY <1>4, StoresAssumption, BuildNewDoes
<1>5. ASSUME NEW t \in Callers, M!Insert(t) PROVE SampleLocks'
  BY <1>5, StoresAssumption, InsertDoes
<1>6. ASSUME NEW t \in Callers, M!Unmerge(t) PROVE SampleLocks'
  BY <1>6, StoresAssumption, UnmergeDoes
<1>7. ASSUME NEW t \in Callers, M!UnlinkAudio(t) PROVE SampleLocks'
  BY <1>7, StoresAssumption, UnlinkAudioDoes
<1>8. ASSUME NEW t \in Callers, M!Dissolve(t) PROVE SampleLocks'
  BY <1>8, StoresAssumption, DissolveDoes
<1>9. ASSUME NEW t \in Callers, M!UnlinkWav(t) PROVE SampleLocks'
  BY <1>9, StoresAssumption, UnlinkWavDoes
<1>10. ASSUME NEW t \in Callers, M!DissolveFails(t) PROVE SampleLocks'
  BY <1>10, StoresAssumption, DissolveFailsDoes
<1>11. ASSUME NEW t \in Callers, M!BeginClear(t) PROVE SampleLocks'
  BY <1>11, StoresAssumption, BeginClearDoes
<1>12. ASSUME NEW t \in Callers, M!ClearSamples(t) PROVE SampleLocks'
  BY <1>12, StoresAssumption, ClearSamplesDoes
<1>13. ASSUME NEW t \in Callers, M!WipeAll(t) PROVE SampleLocks'
  BY <1>13, StoresAssumption, WipeAllDoes
<1>14. ASSUME NEW t \in M!Threads, M!Enter(t) PROVE SampleLocks'
  BY <1>14, StoresAssumption, EnterDoes
<1>15. ASSUME NEW t \in M!Threads, M!ReadMembers(t) PROVE SampleLocks'
  BY <1>15, StoresAssumption, ReadMembersDoes
<1>16. ASSUME NEW t \in M!Threads, M!FailRebuild(t) PROVE SampleLocks'
  BY <1>16, StoresAssumption, FailRebuildDoes
<1>17. ASSUME NEW t \in M!Threads, M!ReplaceWav(t) PROVE SampleLocks'
  BY <1>17, StoresAssumption, ReplaceWavDoes
<1>18. ASSUME NEW t \in M!Threads, M!PatchRow(t) PROVE SampleLocks'
  BY <1>18, StoresAssumption, PatchRowDoes
<1>19. ASSUME NEW s \in Sids, M!ToggleLock(s) PROVE SampleLocks'
  BY <1>19, StoresAssumption, ToggleLockDoes
<1>20. ASSUME NEW s \in Sids, M!TakeNext(s) PROVE SampleLocks'
  BY <1>20, StoresAssumption, TakeNextDoes
<1>21. ASSUME NEW s \in Sids, M!Export(s) PROVE SampleLocks'
  BY <1>21, StoresAssumption DEF M!Export
<1>22. ASSUME M!SaveAndReprocess PROVE SampleLocks'
  BY <1>22, StoresAssumption, SaveDoes
<1>23. ASSUME M!ListPass \/ M!EndPass PROVE SampleLocks'
  BY <1>23, StoresAssumption, PassDoes
<1>24. CASE UNCHANGED samplesVars BY <1>24 DEF samplesVars
<1>25. QED
  BY <1>1, <1>2, <1>3, <1>4, <1>5, <1>6, <1>7, <1>8, <1>9, <1>10, <1>11, <1>12, <1>13,
     <1>14, <1>15, <1>16, <1>17, <1>18, <1>19, <1>20, <1>21, <1>22, <1>23, <1>24
     DEF M!SamplesNext, M!CallerStep

\* A fresh id is reserved by the request that took it.
LEMMA SampleFreshKept ==
  ASSUME StoresAssumption, SampleTypes, SamplePlaces, SampleJob, SampleFresh,
         [M!SamplesNext]_samplesVars
  PROVE SampleFresh'
<1> USE DEF SampleFresh, ThreadsBut, M!Threads, SamplePlaces, Placed, M!Rebuilding
<1>1. ASSUME NEW t \in Callers, NEW s \in Sids, NEW cs \in SUBSET Captures \ {{}}, M!ValidateMerge(t, s, cs)
      PROVE SampleFresh'
  BY <1>1, StoresAssumption, ValidateMergeDoes
<1>2. ASSUME NEW t \in Callers, NEW s \in Sids,
            M!AdmitRegenerate(t, s) \/ M!AdmitHeal(t, s) \/ M!AdmitDissolve(t, s) PROVE SampleFresh'
  BY <1>2, StoresAssumption, AdmitDoes
<1>3. ASSUME NEW t \in Callers, NEW c \in Captures, M!DeleteMember(t, c) PROVE SampleFresh'
  BY <1>3, StoresAssumption, DeleteMemberDoes
<1>4. ASSUME NEW t \in Callers, M!BuildNew(t) PROVE SampleFresh'
  BY <1>4, StoresAssumption, BuildNewDoes
<1>5. ASSUME NEW t \in Callers, M!Insert(t) PROVE SampleFresh'
  BY <1>5, StoresAssumption, InsertDoes
<1>6. ASSUME NEW t \in Callers, M!Unmerge(t) PROVE SampleFresh'
  BY <1>6, StoresAssumption, UnmergeDoes
<1>7. ASSUME NEW t \in Callers, M!UnlinkAudio(t) PROVE SampleFresh'
  BY <1>7, StoresAssumption, UnlinkAudioDoes
<1>8. ASSUME NEW t \in Callers, M!Dissolve(t) PROVE SampleFresh'
  BY <1>8, StoresAssumption, DissolveDoes
<1>9. ASSUME NEW t \in Callers, M!UnlinkWav(t) PROVE SampleFresh'
  BY <1>9, StoresAssumption, UnlinkWavDoes
<1>10. ASSUME NEW t \in Callers, M!DissolveFails(t) PROVE SampleFresh'
  BY <1>10, StoresAssumption, DissolveFailsDoes
<1>11. ASSUME NEW t \in Callers, M!BeginClear(t) PROVE SampleFresh'
  BY <1>11, StoresAssumption, BeginClearDoes
<1>12. ASSUME NEW t \in Callers, M!ClearSamples(t) PROVE SampleFresh'
  BY <1>12, StoresAssumption, ClearSamplesDoes
<1>13. ASSUME NEW t \in Callers, M!WipeAll(t) PROVE SampleFresh'
  BY <1>13, StoresAssumption, WipeAllDoes
<1>14. ASSUME NEW t \in M!Threads, M!Enter(t) PROVE SampleFresh'
  BY <1>14, StoresAssumption, EnterDoes
<1>15. ASSUME NEW t \in M!Threads, M!ReadMembers(t) PROVE SampleFresh'
  BY <1>15, StoresAssumption, ReadMembersDoes
<1>16. ASSUME NEW t \in M!Threads, M!FailRebuild(t) PROVE SampleFresh'
  BY <1>16, StoresAssumption, FailRebuildDoes
<1>17. ASSUME NEW t \in M!Threads, M!ReplaceWav(t) PROVE SampleFresh'
  BY <1>17, StoresAssumption, ReplaceWavDoes
<1>18. ASSUME NEW t \in M!Threads, M!PatchRow(t) PROVE SampleFresh'
  BY <1>18, StoresAssumption, PatchRowDoes
<1>19. ASSUME NEW s \in Sids, M!ToggleLock(s) PROVE SampleFresh'
  BY <1>19, StoresAssumption, ToggleLockDoes
<1>20. ASSUME NEW s \in Sids, M!TakeNext(s) PROVE SampleFresh'
  BY <1>20, StoresAssumption, TakeNextDoes
<1>21. ASSUME NEW s \in Sids, M!Export(s) PROVE SampleFresh'
  BY <1>21, StoresAssumption DEF M!Export
<1>22. ASSUME M!SaveAndReprocess PROVE SampleFresh'
  BY <1>22, StoresAssumption, SaveDoes
<1>23. ASSUME M!ListPass \/ M!EndPass PROVE SampleFresh'
  BY <1>23, StoresAssumption, PassDoes
<1>24. CASE UNCHANGED samplesVars BY <1>24 DEF samplesVars
<1>25. QED
  BY <1>1, <1>2, <1>3, <1>4, <1>5, <1>6, <1>7, <1>8, <1>9, <1>10, <1>11, <1>12, <1>13,
     <1>14, <1>15, <1>16, <1>17, <1>18, <1>19, <1>20, <1>21, <1>22, <1>23, <1>24
     DEF M!SamplesNext, M!CallerStep

\* Nobody but a clear takes the sample from under a rebuild.
LEMMA HolderKept ==
  ASSUME StoresAssumption, SampleTypes, SamplePlaces, SampleJob, SampleLocks, SampleHolders,
         [M!SamplesNext]_samplesVars,
         NEW u \in M!Threads
  PROVE Holder(u)'
<1> USE DEF Rebuilds, Unlinks, ThreadsBut, RowsBut, Clears, Rest, M!Threads, M!Rebuilding, Holder
<1>0. Holder(u) BY DEF SampleHolders
<1>1. ASSUME NEW t \in Callers, NEW s \in Sids, NEW cs \in SUBSET Captures \ {{}}, M!ValidateMerge(t, s, cs)
      PROVE Holder(u)'
  BY <1>0, <1>1, StoresAssumption, ValidateMergeDoes, ThreadFacts
<1>2. ASSUME NEW t \in Callers, NEW s \in Sids,
            M!AdmitRegenerate(t, s) \/ M!AdmitHeal(t, s) \/ M!AdmitDissolve(t, s) PROVE Holder(u)'
  BY <1>0, <1>2, StoresAssumption, AdmitDoes, ThreadFacts
<1>3. ASSUME NEW t \in Callers, NEW c \in Captures, M!DeleteMember(t, c) PROVE Holder(u)'
  BY <1>0, <1>3, StoresAssumption, DeleteMemberDoes, ThreadFacts
<1>4. ASSUME NEW t \in Callers, M!BuildNew(t) PROVE Holder(u)'
  BY <1>0, <1>4, StoresAssumption, BuildNewDoes, ThreadFacts
<1>5. ASSUME NEW t \in Callers, M!Insert(t) PROVE Holder(u)'
  BY <1>0, <1>5, StoresAssumption, InsertDoes, ThreadFacts
<1>6. ASSUME NEW t \in Callers, M!Unmerge(t) PROVE Holder(u)'
  BY <1>0, <1>6, StoresAssumption, UnmergeDoes, ThreadFacts
<1>7. ASSUME NEW t \in Callers, M!UnlinkAudio(t) PROVE Holder(u)'
  BY <1>0, <1>7, StoresAssumption, UnlinkAudioDoes, ThreadFacts
<1>8. ASSUME NEW t \in Callers, M!Dissolve(t) PROVE Holder(u)'
  BY <1>0, <1>8, StoresAssumption, DissolveDoes, ThreadFacts
<1>9. ASSUME NEW t \in Callers, M!UnlinkWav(t) PROVE Holder(u)'
  BY <1>0, <1>9, StoresAssumption, UnlinkWavDoes, ThreadFacts
<1>10. ASSUME NEW t \in Callers, M!DissolveFails(t) PROVE Holder(u)'
  BY <1>0, <1>10, StoresAssumption, DissolveFailsDoes, ThreadFacts
<1>11. ASSUME NEW t \in Callers, M!BeginClear(t) PROVE Holder(u)'
  BY <1>0, <1>11, StoresAssumption, BeginClearDoes, ThreadFacts
<1>12. ASSUME NEW t \in Callers, M!ClearSamples(t) PROVE Holder(u)'
  BY <1>0, <1>12, StoresAssumption, ClearSamplesDoes, ThreadFacts
<1>13. ASSUME NEW t \in Callers, M!WipeAll(t) PROVE Holder(u)'
  BY <1>0, <1>13, StoresAssumption, WipeAllDoes, ThreadFacts
<1>14. ASSUME NEW t \in M!Threads, M!Enter(t) PROVE Holder(u)'
  BY <1>0, <1>14, StoresAssumption, EnterDoes, ThreadFacts
<1>15. ASSUME NEW t \in M!Threads, M!ReadMembers(t) PROVE Holder(u)'
  BY <1>0, <1>15, StoresAssumption, ReadMembersDoes, ThreadFacts
<1>16. ASSUME NEW t \in M!Threads, M!FailRebuild(t) PROVE Holder(u)'
  BY <1>0, <1>16, StoresAssumption, FailRebuildDoes, ThreadFacts
<1>17. ASSUME NEW t \in M!Threads, M!ReplaceWav(t) PROVE Holder(u)'
  BY <1>0, <1>17, StoresAssumption, ReplaceWavDoes, ThreadFacts
<1>18. ASSUME NEW t \in M!Threads, M!PatchRow(t) PROVE Holder(u)'
  BY <1>0, <1>18, StoresAssumption, PatchRowDoes, ThreadFacts
<1>19. ASSUME NEW s \in Sids, M!ToggleLock(s) PROVE Holder(u)'
  BY <1>0, <1>19, StoresAssumption, ToggleLockDoes, ThreadFacts
<1>20. ASSUME NEW s \in Sids, M!TakeNext(s) PROVE Holder(u)'
  BY <1>0, <1>20, StoresAssumption, TakeNextDoes, ThreadFacts
<1>21. ASSUME NEW s \in Sids, M!Export(s) PROVE Holder(u)'
  BY <1>0, <1>21, StoresAssumption, ThreadFacts DEF M!Export
<1>22. ASSUME M!SaveAndReprocess PROVE Holder(u)'
  BY <1>0, <1>22, StoresAssumption, SaveDoes, ThreadFacts
<1>23. ASSUME M!ListPass \/ M!EndPass PROVE Holder(u)'
  BY <1>0, <1>23, StoresAssumption, PassDoes, ThreadFacts
<1>24. CASE UNCHANGED samplesVars BY <1>0, <1>24 DEF samplesVars
<1>25. QED
  BY <1>1, <1>2, <1>3, <1>4, <1>5, <1>6, <1>7, <1>8, <1>9, <1>10, <1>11, <1>12, <1>13,
     <1>14, <1>15, <1>16, <1>17, <1>18, <1>19, <1>20, <1>21, <1>22, <1>23, <1>24
     DEF M!SamplesNext, M!CallerStep

LEMMA SampleHoldersKept ==
  ASSUME StoresAssumption, SampleTypes, SamplePlaces, SampleJob, SampleLocks, SampleHolders,
         [M!SamplesNext]_samplesVars
  PROVE SampleHolders'
BY HolderKept DEF SampleHolders

\* The row's lock and the missing WAV are looked at under the rebuild lock.
LEMMA LockedIsLiveKept ==
  ASSUME StoresAssumption, SampleTypes, SamplePlaces, SampleJob, SampleLocks, SampleGuards,
         [M!SamplesNext]_samplesVars,
         NEW x \in Sids
  PROVE LockedIsLive(x)'
<1> USE DEF Rebuilds, ThreadsBut, RowsBut, WavsBut, Clears, M!Threads, M!Rebuilding,
            LockedIsLive, Guarded
<1>0. LockedIsLive(x) BY DEF SampleGuards
<1>1. ASSUME NEW t \in Callers, NEW s \in Sids, NEW cs \in SUBSET Captures \ {{}}, M!ValidateMerge(t, s, cs)
      PROVE LockedIsLive(x)'
  BY <1>0, <1>1, StoresAssumption, ValidateMergeDoes, ThreadFacts
<1>2. ASSUME NEW t \in Callers, NEW s \in Sids,
            M!AdmitRegenerate(t, s) \/ M!AdmitHeal(t, s) \/ M!AdmitDissolve(t, s) PROVE LockedIsLive(x)'
  BY <1>0, <1>2, StoresAssumption, AdmitDoes, ThreadFacts
<1>3. ASSUME NEW t \in Callers, NEW c \in Captures, M!DeleteMember(t, c) PROVE LockedIsLive(x)'
  BY <1>0, <1>3, StoresAssumption, DeleteMemberDoes, ThreadFacts
<1>4. ASSUME NEW t \in Callers, M!BuildNew(t) PROVE LockedIsLive(x)'
  BY <1>0, <1>4, StoresAssumption, BuildNewDoes, ThreadFacts
<1>5. ASSUME NEW t \in Callers, M!Insert(t) PROVE LockedIsLive(x)'
  BY <1>0, <1>5, StoresAssumption, InsertDoes, ThreadFacts
<1>6. ASSUME NEW t \in Callers, M!Unmerge(t) PROVE LockedIsLive(x)'
  BY <1>0, <1>6, StoresAssumption, UnmergeDoes, ThreadFacts
<1>7. ASSUME NEW t \in Callers, M!UnlinkAudio(t) PROVE LockedIsLive(x)'
  BY <1>0, <1>7, StoresAssumption, UnlinkAudioDoes, ThreadFacts
<1>8. ASSUME NEW t \in Callers, M!Dissolve(t) PROVE LockedIsLive(x)'
  BY <1>0, <1>8, StoresAssumption, DissolveDoes, ThreadFacts
<1>9. ASSUME NEW t \in Callers, M!UnlinkWav(t) PROVE LockedIsLive(x)'
  BY <1>0, <1>9, StoresAssumption, UnlinkWavDoes, ThreadFacts
<1>10. ASSUME NEW t \in Callers, M!DissolveFails(t) PROVE LockedIsLive(x)'
  BY <1>0, <1>10, StoresAssumption, DissolveFailsDoes, ThreadFacts
<1>11. ASSUME NEW t \in Callers, M!BeginClear(t) PROVE LockedIsLive(x)'
  BY <1>0, <1>11, StoresAssumption, BeginClearDoes, ThreadFacts
<1>12. ASSUME NEW t \in Callers, M!ClearSamples(t) PROVE LockedIsLive(x)'
  BY <1>0, <1>12, StoresAssumption, ClearSamplesDoes, ThreadFacts
<1>13. ASSUME NEW t \in Callers, M!WipeAll(t) PROVE LockedIsLive(x)'
  BY <1>0, <1>13, StoresAssumption, WipeAllDoes, ThreadFacts
<1>14. ASSUME NEW t \in M!Threads, M!Enter(t) PROVE LockedIsLive(x)'
  BY <1>0, <1>14, StoresAssumption, EnterDoes, ThreadFacts
<1>15. ASSUME NEW t \in M!Threads, M!ReadMembers(t) PROVE LockedIsLive(x)'
  BY <1>0, <1>15, StoresAssumption, ReadMembersDoes, ThreadFacts
<1>16. ASSUME NEW t \in M!Threads, M!FailRebuild(t) PROVE LockedIsLive(x)'
  BY <1>0, <1>16, StoresAssumption, FailRebuildDoes, ThreadFacts
<1>17. ASSUME NEW t \in M!Threads, M!ReplaceWav(t) PROVE LockedIsLive(x)'
  BY <1>0, <1>17, StoresAssumption, ReplaceWavDoes, ThreadFacts
<1>18. ASSUME NEW t \in M!Threads, M!PatchRow(t) PROVE LockedIsLive(x)'
  BY <1>0, <1>18, StoresAssumption, PatchRowDoes, ThreadFacts
<1>19. ASSUME NEW s \in Sids, M!ToggleLock(s) PROVE LockedIsLive(x)'
  BY <1>0, <1>19, StoresAssumption, ToggleLockDoes, ThreadFacts
<1>20. ASSUME NEW s \in Sids, M!TakeNext(s) PROVE LockedIsLive(x)'
  BY <1>0, <1>20, StoresAssumption, TakeNextDoes, ThreadFacts
<1>21. ASSUME NEW s \in Sids, M!Export(s) PROVE LockedIsLive(x)'
  BY <1>0, <1>21, StoresAssumption, ThreadFacts DEF M!Export
<1>22. ASSUME M!SaveAndReprocess PROVE LockedIsLive(x)'
  BY <1>0, <1>22, StoresAssumption, SaveDoes, ThreadFacts
<1>23. ASSUME M!ListPass \/ M!EndPass PROVE LockedIsLive(x)'
  BY <1>0, <1>23, StoresAssumption, PassDoes, ThreadFacts
<1>24. CASE UNCHANGED samplesVars BY SMTT(30), <1>0, <1>24 DEF samplesVars
<1>25. QED
  BY <1>1, <1>2, <1>3, <1>4, <1>5, <1>6, <1>7, <1>8, <1>9, <1>10, <1>11, <1>12, <1>13,
     <1>14, <1>15, <1>16, <1>17, <1>18, <1>19, <1>20, <1>21, <1>22, <1>23, <1>24
     DEF M!SamplesNext, M!CallerStep

LEMMA GuardedKept ==
  ASSUME StoresAssumption, SampleTypes, SamplePlaces, SampleJob, SampleLocks, SampleGuards,
         [M!SamplesNext]_samplesVars,
         NEW u \in M!Threads
  PROVE Guarded(u)'
<1> USE DEF Rebuilds, ThreadsBut, RowsBut, WavsBut, Clears, M!Threads, M!Rebuilding,
            LockedIsLive, Guarded
<1>0. Guarded(u) BY DEF SampleGuards
<1>1. ASSUME NEW t \in Callers, NEW s \in Sids, NEW cs \in SUBSET Captures \ {{}}, M!ValidateMerge(t, s, cs)
      PROVE Guarded(u)'
  BY <1>0, <1>1, StoresAssumption, ValidateMergeDoes, ThreadFacts
<1>2. ASSUME NEW t \in Callers, NEW s \in Sids,
            M!AdmitRegenerate(t, s) \/ M!AdmitHeal(t, s) \/ M!AdmitDissolve(t, s) PROVE Guarded(u)'
  BY <1>0, <1>2, StoresAssumption, AdmitDoes, ThreadFacts
<1>3. ASSUME NEW t \in Callers, NEW c \in Captures, M!DeleteMember(t, c) PROVE Guarded(u)'
  BY <1>0, <1>3, StoresAssumption, DeleteMemberDoes, ThreadFacts
<1>4. ASSUME NEW t \in Callers, M!BuildNew(t) PROVE Guarded(u)'
  BY <1>0, <1>4, StoresAssumption, BuildNewDoes, ThreadFacts
<1>5. ASSUME NEW t \in Callers, M!Insert(t) PROVE Guarded(u)'
  BY <1>0, <1>5, StoresAssumption, InsertDoes, ThreadFacts
<1>6. ASSUME NEW t \in Callers, M!Unmerge(t) PROVE Guarded(u)'
  BY <1>0, <1>6, StoresAssumption, UnmergeDoes, ThreadFacts
<1>7. ASSUME NEW t \in Callers, M!UnlinkAudio(t) PROVE Guarded(u)'
  BY <1>0, <1>7, StoresAssumption, UnlinkAudioDoes, ThreadFacts
<1>8. ASSUME NEW t \in Callers, M!Dissolve(t) PROVE Guarded(u)'
  BY <1>0, <1>8, StoresAssumption, DissolveDoes, ThreadFacts
<1>9. ASSUME NEW t \in Callers, M!UnlinkWav(t) PROVE Guarded(u)'
  BY <1>0, <1>9, StoresAssumption, UnlinkWavDoes, ThreadFacts
<1>10. ASSUME NEW t \in Callers, M!DissolveFails(t) PROVE Guarded(u)'
  BY <1>0, <1>10, StoresAssumption, DissolveFailsDoes, ThreadFacts
<1>11. ASSUME NEW t \in Callers, M!BeginClear(t) PROVE Guarded(u)'
  BY <1>0, <1>11, StoresAssumption, BeginClearDoes, ThreadFacts
<1>12. ASSUME NEW t \in Callers, M!ClearSamples(t) PROVE Guarded(u)'
  BY <1>0, <1>12, StoresAssumption, ClearSamplesDoes, ThreadFacts
<1>13. ASSUME NEW t \in Callers, M!WipeAll(t) PROVE Guarded(u)'
  BY <1>0, <1>13, StoresAssumption, WipeAllDoes, ThreadFacts
<1>14. ASSUME NEW t \in M!Threads, M!Enter(t) PROVE Guarded(u)'
  BY <1>0, <1>14, StoresAssumption, EnterDoes, ThreadFacts
<1>15. ASSUME NEW t \in M!Threads, M!ReadMembers(t) PROVE Guarded(u)'
  BY <1>0, <1>15, StoresAssumption, ReadMembersDoes, ThreadFacts
<1>16. ASSUME NEW t \in M!Threads, M!FailRebuild(t) PROVE Guarded(u)'
  BY <1>0, <1>16, StoresAssumption, FailRebuildDoes, ThreadFacts
<1>17. ASSUME NEW t \in M!Threads, M!ReplaceWav(t) PROVE Guarded(u)'
  BY <1>0, <1>17, StoresAssumption, ReplaceWavDoes, ThreadFacts
<1>18. ASSUME NEW t \in M!Threads, M!PatchRow(t) PROVE Guarded(u)'
  BY <1>0, <1>18, StoresAssumption, PatchRowDoes, ThreadFacts
<1>19. ASSUME NEW s \in Sids, M!ToggleLock(s) PROVE Guarded(u)'
  BY <1>0, <1>19, StoresAssumption, ToggleLockDoes, ThreadFacts
<1>20. ASSUME NEW s \in Sids, M!TakeNext(s) PROVE Guarded(u)'
  BY <1>0, <1>20, StoresAssumption, TakeNextDoes, ThreadFacts
<1>21. ASSUME NEW s \in Sids, M!Export(s) PROVE Guarded(u)'
  BY <1>0, <1>21, StoresAssumption, ThreadFacts DEF M!Export
<1>22. ASSUME M!SaveAndReprocess PROVE Guarded(u)'
  BY <1>0, <1>22, StoresAssumption, SaveDoes, ThreadFacts
<1>23. ASSUME M!ListPass \/ M!EndPass PROVE Guarded(u)'
  BY <1>0, <1>23, StoresAssumption, PassDoes, ThreadFacts
<1>24. CASE UNCHANGED samplesVars BY <1>0, <1>24 DEF samplesVars
<1>25. QED
  BY <1>1, <1>2, <1>3, <1>4, <1>5, <1>6, <1>7, <1>8, <1>9, <1>10, <1>11, <1>12, <1>13,
     <1>14, <1>15, <1>16, <1>17, <1>18, <1>19, <1>20, <1>21, <1>22, <1>23, <1>24
     DEF M!SamplesNext, M!CallerStep

LEMMA SampleGuardsKept ==
  ASSUME StoresAssumption, SampleTypes, SamplePlaces, SampleJob, SampleLocks, SampleGuards,
         [M!SamplesNext]_samplesVars
  PROVE SampleGuards'
BY SMTT(30), LockedIsLiveKept, GuardedKept DEF SampleGuards

\* Every WAV stays explained.
LEMMA WavExplainedKept ==
  ASSUME StoresAssumption, SampleTypes, SamplePlaces, SampleJob, SampleLocks, SampleFresh,
         SampleHolders, SampleGuards, SampleWavs,
         [M!SamplesNext]_samplesVars,
         NEW x \in Sids
  PROVE WavExplained(x)'
<1> USE DEF Merging, Rebuilds, Unlinks, Wiping, ThreadsBut, RowsBut, WavsBut, Clears, Rest,
            M!Threads, M!Rebuilding, WavExplained
<1>0. WavExplained(x) BY DEF SampleWavs
<1>1. ASSUME NEW t \in Callers, NEW s \in Sids, NEW cs \in SUBSET Captures \ {{}}, M!ValidateMerge(t, s, cs)
      PROVE WavExplained(x)'
  BY <1>0, <1>1, StoresAssumption, ValidateMergeDoes, ThreadFacts
<1>2. ASSUME NEW t \in Callers, NEW s \in Sids,
            M!AdmitRegenerate(t, s) \/ M!AdmitHeal(t, s) \/ M!AdmitDissolve(t, s) PROVE WavExplained(x)'
  BY <1>0, <1>2, StoresAssumption, AdmitDoes, ThreadFacts
<1>3. ASSUME NEW t \in Callers, NEW c \in Captures, M!DeleteMember(t, c) PROVE WavExplained(x)'
  BY <1>0, <1>3, StoresAssumption, DeleteMemberDoes, ThreadFacts
<1>4. ASSUME NEW t \in Callers, M!BuildNew(t) PROVE WavExplained(x)'
  BY <1>0, <1>4, StoresAssumption, BuildNewDoes, ThreadFacts
<1>5. ASSUME NEW t \in Callers, M!Insert(t) PROVE WavExplained(x)'
  <2> DEFINE s == thread[t].s
  <2>1. /\ thread[t].op = "create" /\ thread[t].pc = "insert" /\ s \in Sids /\ t \in M!Threads
        /\ ThreadsBut(t) /\ row[s].phase = "reserved"
        /\ UNCHANGED <<wav, rebuild, unguarded>>
    BY <1>5, StoresAssumption, InsertDoes, ThreadFacts
  <2>2. CASE row' = row /\ thread'[t].op = "create" /\ thread'[t].pc = "unmerge"
             /\ thread'[t].s = s /\ thread'[t].cs = thread[t].cs
             /\ thread'[t].gap = thread[t].gap
    BY <1>0, <2>1, <2>2
  <2>3. CASE /\ RowsBut(s) /\ row'[s].phase = "live"
             /\ row'[s].built = M!Built(thread[t].cs, thread[t].gap)
    <3>1. CASE x = s
      <4>1. ASSUME NEW u \in M!Threads, thread[u].op = "create", Merging(u, s)
            PROVE wav[s] = M!Built(thread[t].cs, thread[t].gap)
        BY <2>1, <4>1 DEF SampleFresh
      <4>2. wav[s] # M!NoBuild => wav[s] = M!Built(thread[t].cs, thread[t].gap)
        BY <1>0, <2>1, <3>1, <4>1
      <4>3. QED BY <2>1, <2>3, <3>1, <4>2
    <3>2. CASE x # s BY <1>0, <2>1, <2>3, <3>2
    <3>3. QED BY <3>1, <3>2
  <2>4. QED BY <1>5, <2>2, <2>3, InsertDoes
<1>6. ASSUME NEW t \in Callers, M!Unmerge(t) PROVE WavExplained(x)'
  BY <1>0, <1>6, StoresAssumption, UnmergeDoes, ThreadFacts
<1>7. ASSUME NEW t \in Callers, M!UnlinkAudio(t) PROVE WavExplained(x)'
  BY <1>0, <1>7, StoresAssumption, UnlinkAudioDoes, ThreadFacts
<1>8. ASSUME NEW t \in Callers, M!Dissolve(t) PROVE WavExplained(x)'
  BY <1>0, <1>8, StoresAssumption, DissolveDoes, ThreadFacts
<1>9. ASSUME NEW t \in Callers, M!UnlinkWav(t) PROVE WavExplained(x)'
  BY <1>0, <1>9, StoresAssumption, UnlinkWavDoes, ThreadFacts
<1>10. ASSUME NEW t \in Callers, M!DissolveFails(t) PROVE WavExplained(x)'
  BY <1>0, <1>10, StoresAssumption, DissolveFailsDoes, ThreadFacts
<1>11. ASSUME NEW t \in Callers, M!BeginClear(t) PROVE WavExplained(x)'
  BY <1>0, <1>11, StoresAssumption, BeginClearDoes, ThreadFacts
<1>12. ASSUME NEW t \in Callers, M!ClearSamples(t) PROVE WavExplained(x)'
  BY <1>0, <1>12, StoresAssumption, ClearSamplesDoes, ThreadFacts
<1>13. ASSUME NEW t \in Callers, M!WipeAll(t) PROVE WavExplained(x)'
  BY <1>0, <1>13, StoresAssumption, WipeAllDoes, ThreadFacts
<1>14. ASSUME NEW t \in M!Threads, M!Enter(t) PROVE WavExplained(x)'
  BY <1>0, <1>14, StoresAssumption, EnterDoes, ThreadFacts
<1>15. ASSUME NEW t \in M!Threads, M!ReadMembers(t) PROVE WavExplained(x)'
  BY <1>0, <1>15, StoresAssumption, ReadMembersDoes, ThreadFacts
<1>16. ASSUME NEW t \in M!Threads, M!FailRebuild(t) PROVE WavExplained(x)'
  BY <1>0, <1>16, StoresAssumption, FailRebuildDoes, ThreadFacts
<1>17. ASSUME NEW t \in M!Threads, M!ReplaceWav(t) PROVE WavExplained(x)'
  <2> DEFINE s == thread[t].s
  <2>1. /\ Rebuilds(t) /\ thread[t].pc = "write" /\ s \in Sids /\ thread[t].op # "create"
        /\ ThreadsBut(t) /\ Rebuilds(t)' /\ thread'[t].pc = "patch" /\ thread'[t].s = s
        /\ WavsBut(s) /\ wav'[s] = M!Built(thread'[t].cs, thread'[t].gap)
        /\ UNCHANGED <<row, rebuild, unguarded>>
    BY <1>17, ReplaceWavDoes
  <2>2. CASE x = s
    <3>1. row[s].phase = "live" \/ (row[s].phase = "gone" /\ s \in unguarded)
      BY <2>1, StoresAssumption, ThreadFacts DEF SampleHolders, Holder
    <3>2. Merging(t, s)' BY <2>1
    <3>3. QED BY <2>1, <2>2, <3>1, <3>2
  <2>3. CASE x # s BY <1>0, <2>1, <2>3
  <2>4. QED BY <2>2, <2>3
<1>18. ASSUME NEW t \in M!Threads, M!PatchRow(t) PROVE WavExplained(x)'
  <2> DEFINE s == thread[t].s
             b == M!Built(thread[t].cs, thread[t].gap)
  <2>1. /\ Rebuilds(t) /\ thread[t].pc = "patch" /\ s \in Sids /\ thread[t].op # "create"
        /\ ThreadsBut(t) /\ RowsBut(s) /\ row'[s].phase = row[s].phase
        /\ row[s].phase = "live" => row'[s].built = b
        /\ UNCHANGED <<wav, unguarded>>
    BY <1>18, PatchRowDoes
  <2>2. wav[s] \in {M!NoBuild, b} BY <2>1 DEF SampleGuards, Guarded
  <2>3. row[s].phase \in {"live", "gone"} /\ ~Unlinks(t) BY <2>1, StoresAssumption, ThreadFacts
  <2> HIDE DEF b
  <2>4. CASE x = s BY <1>0, <2>1, <2>2, <2>3, <2>4
  <2>5. CASE x # s BY <1>0, <2>1, <2>3, <2>5
  <2>6. QED BY <2>4, <2>5
<1>19. ASSUME NEW s \in Sids, M!ToggleLock(s) PROVE WavExplained(x)'
  BY <1>0, <1>19, StoresAssumption, ToggleLockDoes, ThreadFacts
<1>20. ASSUME NEW s \in Sids, M!TakeNext(s) PROVE WavExplained(x)'
  BY <1>0, <1>20, StoresAssumption, TakeNextDoes, ThreadFacts
<1>21. ASSUME NEW s \in Sids, M!Export(s) PROVE WavExplained(x)'
  BY <1>0, <1>21, StoresAssumption, ThreadFacts DEF M!Export
<1>22. ASSUME M!SaveAndReprocess PROVE WavExplained(x)'
  BY <1>0, <1>22, StoresAssumption, SaveDoes, ThreadFacts
<1>23. ASSUME M!ListPass \/ M!EndPass PROVE WavExplained(x)'
  BY <1>0, <1>23, StoresAssumption, PassDoes, ThreadFacts
<1>24. CASE UNCHANGED samplesVars BY <1>0, <1>24 DEF samplesVars
<1>25. QED
  BY <1>1, <1>2, <1>3, <1>4, <1>5, <1>6, <1>7, <1>8, <1>9, <1>10, <1>11, <1>12, <1>13,
     <1>14, <1>15, <1>16, <1>17, <1>18, <1>19, <1>20, <1>21, <1>22, <1>23, <1>24
     DEF M!SamplesNext, M!CallerStep

LEMMA SampleWavsKept ==
  ASSUME StoresAssumption, SampleTypes, SamplePlaces, SampleJob, SampleLocks, SampleFresh,
         SampleHolders, SampleGuards, SampleWavs,
         [M!SamplesNext]_samplesVars
  PROVE SampleWavs'
BY SMTT(30), WavExplainedKept DEF SampleWavs

\* A member is bound to a live sample.
LEMMA MemberBoundKept ==
  ASSUME StoresAssumption, SampleTypes, SamplePlaces, SampleJob, SampleMembers,
         [M!SamplesNext]_samplesVars,
         NEW d \in Captures
  PROVE MemberBound(d)'
<1> USE DEF Wiping, ThreadsBut, RowsBut, SameCaptures, Clears, M!Threads, MemberBound
<1>0. MemberBound(d) BY DEF SampleMembers
<1>1. ASSUME NEW t \in Callers, NEW s \in Sids, NEW cs \in SUBSET Captures \ {{}}, M!ValidateMerge(t, s, cs)
      PROVE MemberBound(d)'
  BY <1>0, <1>1, StoresAssumption, ValidateMergeDoes, CaptureFacts
<1>2. ASSUME NEW t \in Callers, NEW s \in Sids,
            M!AdmitRegenerate(t, s) \/ M!AdmitHeal(t, s) \/ M!AdmitDissolve(t, s) PROVE MemberBound(d)'
  BY <1>0, <1>2, StoresAssumption, AdmitDoes, CaptureFacts
<1>3. ASSUME NEW t \in Callers, NEW c \in Captures, M!DeleteMember(t, c) PROVE MemberBound(d)'
  BY <1>0, <1>3, StoresAssumption, DeleteMemberDoes, CaptureFacts
<1>4. ASSUME NEW t \in Callers, M!BuildNew(t) PROVE MemberBound(d)'
  BY <1>0, <1>4, StoresAssumption, BuildNewDoes, CaptureFacts
<1>5. ASSUME NEW t \in Callers, M!Insert(t) PROVE MemberBound(d)'
  BY <1>0, <1>5, StoresAssumption, InsertDoes, CaptureFacts
<1>6. ASSUME NEW t \in Callers, M!Unmerge(t) PROVE MemberBound(d)'
  BY <1>0, <1>6, StoresAssumption, UnmergeDoes, CaptureFacts
<1>7. ASSUME NEW t \in Callers, M!UnlinkAudio(t) PROVE MemberBound(d)'
  BY <1>0, <1>7, StoresAssumption, UnlinkAudioDoes, CaptureFacts
<1>8. ASSUME NEW t \in Callers, M!Dissolve(t) PROVE MemberBound(d)'
  BY <1>0, <1>8, StoresAssumption, DissolveDoes, CaptureFacts
<1>9. ASSUME NEW t \in Callers, M!UnlinkWav(t) PROVE MemberBound(d)'
  BY <1>0, <1>9, StoresAssumption, UnlinkWavDoes, CaptureFacts
<1>10. ASSUME NEW t \in Callers, M!DissolveFails(t) PROVE MemberBound(d)'
  BY <1>0, <1>10, StoresAssumption, DissolveFailsDoes, CaptureFacts
<1>11. ASSUME NEW t \in Callers, M!BeginClear(t) PROVE MemberBound(d)'
  BY <1>0, <1>11, StoresAssumption, BeginClearDoes, CaptureFacts
<1>12. ASSUME NEW t \in Callers, M!ClearSamples(t) PROVE MemberBound(d)'
  BY <1>0, <1>12, StoresAssumption, ClearSamplesDoes, CaptureFacts
<1>13. ASSUME NEW t \in Callers, M!WipeAll(t) PROVE MemberBound(d)'
  BY <1>0, <1>13, StoresAssumption, WipeAllDoes, CaptureFacts
<1>14. ASSUME NEW t \in M!Threads, M!Enter(t) PROVE MemberBound(d)'
  BY <1>0, <1>14, StoresAssumption, EnterDoes, CaptureFacts
<1>15. ASSUME NEW t \in M!Threads, M!ReadMembers(t) PROVE MemberBound(d)'
  BY <1>0, <1>15, StoresAssumption, ReadMembersDoes, CaptureFacts
<1>16. ASSUME NEW t \in M!Threads, M!FailRebuild(t) PROVE MemberBound(d)'
  BY <1>0, <1>16, StoresAssumption, FailRebuildDoes, CaptureFacts
<1>17. ASSUME NEW t \in M!Threads, M!ReplaceWav(t) PROVE MemberBound(d)'
  BY <1>0, <1>17, StoresAssumption, ReplaceWavDoes, CaptureFacts
<1>18. ASSUME NEW t \in M!Threads, M!PatchRow(t) PROVE MemberBound(d)'
  BY <1>0, <1>18, StoresAssumption, PatchRowDoes, CaptureFacts
<1>19. ASSUME NEW s \in Sids, M!ToggleLock(s) PROVE MemberBound(d)'
  BY <1>0, <1>19, StoresAssumption, ToggleLockDoes, CaptureFacts
<1>20. ASSUME NEW s \in Sids, M!TakeNext(s) PROVE MemberBound(d)'
  BY <1>0, <1>20, StoresAssumption, TakeNextDoes, CaptureFacts
<1>21. ASSUME NEW s \in Sids, M!Export(s) PROVE MemberBound(d)'
  BY <1>0, <1>21, StoresAssumption, CaptureFacts DEF M!Export
<1>22. ASSUME M!SaveAndReprocess PROVE MemberBound(d)'
  BY <1>0, <1>22, StoresAssumption, SaveDoes, CaptureFacts
<1>23. ASSUME M!ListPass \/ M!EndPass PROVE MemberBound(d)'
  BY <1>0, <1>23, StoresAssumption, PassDoes, CaptureFacts
<1>24. CASE UNCHANGED samplesVars BY <1>0, <1>24 DEF samplesVars
<1>25. QED
  BY <1>1, <1>2, <1>3, <1>4, <1>5, <1>6, <1>7, <1>8, <1>9, <1>10, <1>11, <1>12, <1>13,
     <1>14, <1>15, <1>16, <1>17, <1>18, <1>19, <1>20, <1>21, <1>22, <1>23, <1>24
     DEF M!SamplesNext, M!CallerStep

LEMMA SampleMembersKept ==
  ASSUME StoresAssumption, SampleTypes, SamplePlaces, SampleJob, SampleMembers,
         [M!SamplesNext]_samplesVars
  PROVE SampleMembers'
BY MemberBoundKept DEF SampleMembers

\* What was merged, or is about to be, is the members.
LEMMA BuiltOfMembersKept ==
  ASSUME StoresAssumption, SampleTypes, SamplePlaces, SampleJob, SampleLocks,
         SampleHolders, SampleMembers, SampleBuilds,
         [M!SamplesNext]_samplesVars,
         NEW x \in Sids
  PROVE BuiltOfMembers(x)'
<1> USE DEF Excused, Rebuilds, M!Members, ThreadsBut, RowsBut, SameCaptures, Clears, Rest,
            M!Threads, M!Rebuilding, BuiltOfMembers, AimsAtMembers
<1>0. BuiltOfMembers(x) BY DEF SampleBuilds
<1>1. ASSUME NEW t \in Callers, NEW s \in Sids, NEW cs \in SUBSET Captures \ {{}}, M!ValidateMerge(t, s, cs)
      PROVE BuiltOfMembers(x)'
  BY <1>0, <1>1, StoresAssumption, ValidateMergeDoes, ThreadFacts, CaptureFacts
<1>2. ASSUME NEW t \in Callers, NEW s \in Sids,
            M!AdmitRegenerate(t, s) \/ M!AdmitHeal(t, s) \/ M!AdmitDissolve(t, s) PROVE BuiltOfMembers(x)'
  BY <1>0, <1>2, StoresAssumption, AdmitDoes, ThreadFacts, CaptureFacts
<1>3. ASSUME NEW t \in Callers, NEW c \in Captures, M!DeleteMember(t, c) PROVE BuiltOfMembers(x)'
  BY <1>0, <1>3, StoresAssumption, DeleteMemberDoes, ThreadFacts, CaptureFacts
<1>4. ASSUME NEW t \in Callers, M!BuildNew(t) PROVE BuiltOfMembers(x)'
  BY <1>0, <1>4, StoresAssumption, BuildNewDoes, ThreadFacts, CaptureFacts
<1>5. ASSUME NEW t \in Callers, M!Insert(t) PROVE BuiltOfMembers(x)'
  <2> DEFINE s == thread[t].s
             cs == thread[t].cs
  <2>1. /\ thread[t].op = "create" /\ s \in Sids /\ t \in M!Threads /\ cs \in SUBSET Captures
        /\ ThreadsBut(t) /\ row[s].phase = "reserved" /\ broken' = broken
    BY <1>5, StoresAssumption, InsertDoes, ThreadFacts
  <2>2. Excused(x) => Excused(x)' BY <2>1
  <2>3. CASE row' = row /\ capture' = capture BY <1>0, <2>2, <2>3
  <2>4. CASE /\ RowsBut(s) /\ row'[s].built = M!Built(cs, thread[t].gap)
             /\ \A c \in cs : /\ capture[c].row /\ capture[c].sample = "none"
                              /\ capture'[c].row /\ capture'[c].sample = s
             /\ \A c \in Captures \ cs : capture'[c] = capture[c]
    <3>1. CASE x = s
      <4>1. \A c \in Captures : ~(capture[c].row /\ capture[c].sample = s)
        BY <2>1, StoresAssumption DEF SampleMembers, MemberBound
      <4>2. M!Members(x)' = cs
        <5>1. ASSUME NEW c \in Captures
              PROVE c \in cs <=> capture'[c].row /\ capture'[c].sample = s
          BY <2>4, <4>1
        <5> HIDE DEF s, cs
        <5>2. ASSUME NEW z PROVE z \in cs <=> z \in {c \in Captures : capture'[c].row /\ capture'[c].sample = s}
          BY <2>1, <5>1
        <5>3. cs = {c \in Captures : capture'[c].row /\ capture'[c].sample = s} BY <5>2
        <5>4. \A z : M!Members(z)' = {c \in Captures : capture'[c].row /\ capture'[c].sample = z} OBVIOUS
        <5>5. QED BY <3>1, <5>3, <5>4
      <4>3. row'[s].built.of = cs
        <5>1. cs \in SUBSET (Captures \cup Sids) /\ thread[t].gap \in Nat
          BY <2>1 DEF SampleTypes, Doers
        <5>2. M!Built(cs, thread[t].gap).of = cs BY <5>1, BuildsBuilt
        <5>3. QED BY <2>4, <5>2
      <4>4. QED BY <3>1, <4>2, <4>3
    <3>2. CASE x # s
      <4>1. M!Members(x)' = M!Members(x)
        <5>1. ASSUME NEW c \in Captures
              PROVE capture'[c].row /\ capture'[c].sample = x
                      <=> capture[c].row /\ capture[c].sample = x
          BY <2>4, <3>2, StoresAssumption
        <5>2. QED BY <5>1
      <4>2. QED BY <1>0, <2>2, <2>4, <3>2, <4>1
    <3>3. QED BY <3>1, <3>2
  <2>5. QED BY <1>5, <2>3, <2>4, InsertDoes
<1>6. ASSUME NEW t \in Callers, M!Unmerge(t) PROVE BuiltOfMembers(x)'
  BY <1>0, <1>6, StoresAssumption, UnmergeDoes, ThreadFacts, CaptureFacts
<1>7. ASSUME NEW t \in Callers, M!UnlinkAudio(t) PROVE BuiltOfMembers(x)'
  BY <1>0, <1>7, StoresAssumption, UnlinkAudioDoes, ThreadFacts, CaptureFacts
<1>8. ASSUME NEW t \in Callers, M!Dissolve(t) PROVE BuiltOfMembers(x)'
  BY <1>0, <1>8, StoresAssumption, DissolveDoes, ThreadFacts, CaptureFacts
<1>9. ASSUME NEW t \in Callers, M!UnlinkWav(t) PROVE BuiltOfMembers(x)'
  <2>1. /\ ThreadsBut(t) /\ UNCHANGED <<capture, row, broken>> /\ Unlinks(t) /\ t \in M!Threads
    BY <1>9, UnlinkWavDoes DEF Unlinks
  <2>2. row[thread[t].s].phase = "gone" BY <2>1 DEF SampleHolders, Holder
  <2>3. row[x].phase = "live" /\ Excused(x) => Excused(x)' BY <2>1, <2>2
  <2>4. QED BY <1>0, <2>1, <2>3
<1>10. ASSUME NEW t \in Callers, M!DissolveFails(t) PROVE BuiltOfMembers(x)'
  BY <1>0, <1>10, StoresAssumption, DissolveFailsDoes, ThreadFacts, CaptureFacts
<1>11. ASSUME NEW t \in Callers, M!BeginClear(t) PROVE BuiltOfMembers(x)'
  BY <1>0, <1>11, StoresAssumption, BeginClearDoes, ThreadFacts, CaptureFacts
<1>12. ASSUME NEW t \in Callers, M!ClearSamples(t) PROVE BuiltOfMembers(x)'
  BY <1>0, <1>12, StoresAssumption, ClearSamplesDoes, ThreadFacts, CaptureFacts
<1>13. ASSUME NEW t \in Callers, M!WipeAll(t) PROVE BuiltOfMembers(x)'
  BY <1>0, <1>13, StoresAssumption, WipeAllDoes, ThreadFacts, CaptureFacts
<1>14. ASSUME NEW t \in M!Threads, M!Enter(t) PROVE BuiltOfMembers(x)'
  <2>1. ThreadsBut(t) /\ thread[t].op # "delete" /\ UNCHANGED <<capture, row, broken>>
    BY <1>14, EnterDoes
  <2>2. Excused(x) => Excused(x)' BY <2>1
  <2>3. QED BY <1>0, <2>1, <2>2
<1>15. ASSUME NEW t \in M!Threads, M!ReadMembers(t) PROVE BuiltOfMembers(x)'
  BY <1>0, <1>15, StoresAssumption, ReadMembersDoes, ThreadFacts, CaptureFacts
<1>16. ASSUME NEW t \in M!Threads, M!FailRebuild(t) PROVE BuiltOfMembers(x)'
  BY <1>0, <1>16, StoresAssumption, FailRebuildDoes, ThreadFacts, CaptureFacts
<1>17. ASSUME NEW t \in M!Threads, M!ReplaceWav(t) PROVE BuiltOfMembers(x)'
  BY <1>0, <1>17, StoresAssumption, ReplaceWavDoes, ThreadFacts, CaptureFacts
<1>18. ASSUME NEW t \in M!Threads, M!PatchRow(t) PROVE BuiltOfMembers(x)'
  <2> DEFINE s == thread[t].s
  <2>1. /\ Rebuilds(t) /\ s \in Sids /\ thread[t].op # "delete"
        /\ ThreadsBut(t) /\ RowsBut(s) /\ row'[s].phase = row[s].phase
        /\ row[s].phase = "live" => row'[s].built = M!Built(thread[t].cs, thread[t].gap)
        /\ UNCHANGED <<capture, broken>>
    BY <1>18, PatchRowDoes
  <2>2. Excused(x) => Excused(x)' BY <2>1
  <2>3. CASE x = s
    <3>1. row[s].phase = "live" => thread[t].cs = M!Members(s) \/ Excused(s)
      BY <2>1 DEF SampleBuilds, AimsAtMembers
    <3>2. M!Built(thread[t].cs, thread[t].gap).of = thread[t].cs
      BY BuildsBuilt DEF SampleTypes, Doers
    <3>3. QED BY <2>1, <2>2, <2>3, <3>1, <3>2
  <2>4. CASE x # s BY <1>0, <2>1, <2>2, <2>4
  <2>5. QED BY <2>3, <2>4
<1>19. ASSUME NEW s \in Sids, M!ToggleLock(s) PROVE BuiltOfMembers(x)'
  BY <1>0, <1>19, StoresAssumption, ToggleLockDoes, ThreadFacts, CaptureFacts
<1>20. ASSUME NEW s \in Sids, M!TakeNext(s) PROVE BuiltOfMembers(x)'
  BY <1>0, <1>20, StoresAssumption, TakeNextDoes, ThreadFacts, CaptureFacts
<1>21. ASSUME NEW s \in Sids, M!Export(s) PROVE BuiltOfMembers(x)'
  BY <1>0, <1>21, StoresAssumption, ThreadFacts, CaptureFacts DEF M!Export
<1>22. ASSUME M!SaveAndReprocess PROVE BuiltOfMembers(x)'
  BY <1>0, <1>22, StoresAssumption, SaveDoes, ThreadFacts, CaptureFacts
<1>23. ASSUME M!ListPass \/ M!EndPass PROVE BuiltOfMembers(x)'
  BY <1>0, <1>23, StoresAssumption, PassDoes, ThreadFacts, CaptureFacts
<1>24. CASE UNCHANGED samplesVars BY <1>0, <1>24 DEF samplesVars
<1>25. QED
  BY <1>1, <1>2, <1>3, <1>4, <1>5, <1>6, <1>7, <1>8, <1>9, <1>10, <1>11, <1>12, <1>13,
     <1>14, <1>15, <1>16, <1>17, <1>18, <1>19, <1>20, <1>21, <1>22, <1>23, <1>24
     DEF M!SamplesNext, M!CallerStep

LEMMA AimsAtMembersKept ==
  ASSUME StoresAssumption, SampleTypes, SamplePlaces, SampleJob, SampleLocks,
         SampleHolders, SampleMembers, SampleBuilds,
         [M!SamplesNext]_samplesVars,
         NEW u \in M!Threads
  PROVE AimsAtMembers(u)'
<1> USE DEF Excused, Rebuilds, M!Members, ThreadsBut, RowsBut, SameCaptures, Clears, Rest,
            M!Threads, M!Rebuilding, BuiltOfMembers, AimsAtMembers
<1>0. AimsAtMembers(u) BY DEF SampleBuilds
<1>1. ASSUME NEW t \in Callers, NEW s \in Sids, NEW cs \in SUBSET Captures \ {{}}, M!ValidateMerge(t, s, cs)
      PROVE AimsAtMembers(u)'
  BY SMTT(30), <1>0, <1>1, StoresAssumption, ValidateMergeDoes, ThreadFacts, CaptureFacts
<1>2. ASSUME NEW t \in Callers, NEW s \in Sids,
            M!AdmitRegenerate(t, s) \/ M!AdmitHeal(t, s) \/ M!AdmitDissolve(t, s) PROVE AimsAtMembers(u)'
  BY <1>0, <1>2, StoresAssumption, AdmitDoes, ThreadFacts, CaptureFacts
<1>3. ASSUME NEW t \in Callers, NEW c \in Captures, M!DeleteMember(t, c) PROVE AimsAtMembers(u)'
  BY <1>0, <1>3, StoresAssumption, DeleteMemberDoes, ThreadFacts, CaptureFacts
<1>4. ASSUME NEW t \in Callers, M!BuildNew(t) PROVE AimsAtMembers(u)'
  BY <1>0, <1>4, StoresAssumption, BuildNewDoes, ThreadFacts, CaptureFacts
<1>5. ASSUME NEW t \in Callers, M!Insert(t) PROVE AimsAtMembers(u)'
  <2> DEFINE s == thread[t].s
             y == thread[u].s
  <2>1. /\ thread[t].op = "create" /\ s \in Sids /\ t \in M!Threads
        /\ ThreadsBut(t) /\ row[s].phase = "reserved" /\ broken' = broken
        /\ thread'[t].op \in {"none", "create"}
    BY <1>5, StoresAssumption, InsertDoes, ThreadFacts
  <2>2. CASE u = t BY <2>1, <2>2
  <2>3. CASE u # t
    <3>1. thread'[u] = thread[u] BY <2>1, <2>3
    <3>2. ASSUME thread[u].op \in {"heal", "reprocess"} \/ Rebuilds(u), y \in Sids
          PROVE row[y].phase \in {"live", "gone"}
      BY <3>2, StoresAssumption DEF SamplePlaces, Placed
    <3>3. \A z : Excused(z) => Excused(z)' BY <2>1
    <3>4. CASE row' = row /\ capture' = capture BY <1>0, <3>1, <3>3, <3>4
    <3>5. CASE /\ RowsBut(s)
               /\ \A c \in thread[t].cs : capture[c].sample = "none" /\ capture'[c].sample = s
               /\ \A c \in Captures \ thread[t].cs : capture'[c] = capture[c]
      <4>1. ASSUME NEW z \in Sids, z # s PROVE M!Members(z)' = M!Members(z)
        <5>1. ASSUME NEW c \in Captures
              PROVE capture'[c].row /\ capture'[c].sample = z
                      <=> capture[c].row /\ capture[c].sample = z
          BY <3>5, <4>1, StoresAssumption
        <5>2. QED BY <5>1
      <4> HIDE DEF M!Members
      <4>2. QED BY <1>0, <2>1, <3>1, <3>2, <3>3, <3>5, <4>1
    <3>6. QED BY <1>5, <3>4, <3>5, InsertDoes
  <2>4. QED BY <2>2, <2>3
<1>6. ASSUME NEW t \in Callers, M!Unmerge(t) PROVE AimsAtMembers(u)'
  BY <1>0, <1>6, StoresAssumption, UnmergeDoes, ThreadFacts, CaptureFacts
<1>7. ASSUME NEW t \in Callers, M!UnlinkAudio(t) PROVE AimsAtMembers(u)'
  BY <1>0, <1>7, StoresAssumption, UnlinkAudioDoes, ThreadFacts, CaptureFacts
<1>8. ASSUME NEW t \in Callers, M!Dissolve(t) PROVE AimsAtMembers(u)'
  BY <1>0, <1>8, StoresAssumption, DissolveDoes, ThreadFacts, CaptureFacts
<1>9. ASSUME NEW t \in Callers, M!UnlinkWav(t) PROVE AimsAtMembers(u)'
  <2>1. /\ ThreadsBut(t) /\ UNCHANGED <<capture, row, broken>> /\ Unlinks(t) /\ t \in M!Threads
        /\ thread'[t].op = "none"
    BY <1>9, UnlinkWavDoes DEF Unlinks
  <2>2. row[thread[t].s].phase = "gone" BY <2>1 DEF SampleHolders, Holder
  <2>3. CASE u = t BY <2>1, <2>3
  <2>4. CASE u # t
    <3>1. \A z : row[z].phase = "live" /\ Excused(z) => Excused(z)'
      BY <2>1, <2>2, <2>4
    <3>2. QED BY <1>0, <2>1, <2>4, <3>1
  <2>5. QED BY <2>3, <2>4
<1>10. ASSUME NEW t \in Callers, M!DissolveFails(t) PROVE AimsAtMembers(u)'
  BY <1>0, <1>10, StoresAssumption, DissolveFailsDoes, ThreadFacts, CaptureFacts
<1>11. ASSUME NEW t \in Callers, M!BeginClear(t) PROVE AimsAtMembers(u)'
  BY <1>0, <1>11, StoresAssumption, BeginClearDoes, ThreadFacts, CaptureFacts
<1>12. ASSUME NEW t \in Callers, M!ClearSamples(t) PROVE AimsAtMembers(u)'
  BY <1>0, <1>12, StoresAssumption, ClearSamplesDoes, ThreadFacts, CaptureFacts
<1>13. ASSUME NEW t \in Callers, M!WipeAll(t) PROVE AimsAtMembers(u)'
  BY <1>0, <1>13, StoresAssumption, WipeAllDoes, ThreadFacts, CaptureFacts
<1>14. ASSUME NEW t \in M!Threads, M!Enter(t) PROVE AimsAtMembers(u)'
  <2>1. /\ thread[t].op \in M!Rebuilding /\ thread[t].pc = "start" /\ thread[t].s \in Sids
        /\ ThreadsBut(t) /\ UNCHANGED <<capture, row, broken>>
        /\ \/ /\ thread'[t].op = thread[t].op /\ thread'[t].s = thread[t].s
              /\ thread'[t].cs = IF thread[t].op = "regenerate" THEN M!Members(thread[t].s)
                                 ELSE thread[t].cs
           \/ thread'[t].s = "none"
    BY <1>14, EnterDoes
  <2>2. \A z : Excused(z) => Excused(z)' BY <2>1
  <2>3. \A z : M!Members(z)' = M!Members(z) BY <2>1
  <2> HIDE DEF M!Members
  <2>4. CASE u = t
    <3>1. CASE thread[t].op = "regenerate" BY <2>1, <2>3, <2>4, <3>1, StoresAssumption
    <3>2. CASE thread[t].op # "regenerate"
      BY <1>0, <2>1, <2>2, <2>3, <2>4, <3>2, StoresAssumption
    <3>3. QED BY <3>1, <3>2
  <2>5. CASE u # t BY <1>0, <2>1, <2>2, <2>3, <2>5
  <2>6. QED BY <2>4, <2>5
<1>15. ASSUME NEW t \in M!Threads, M!ReadMembers(t) PROVE AimsAtMembers(u)'
  BY <1>0, <1>15, StoresAssumption, ReadMembersDoes, ThreadFacts, CaptureFacts
<1>16. ASSUME NEW t \in M!Threads, M!FailRebuild(t) PROVE AimsAtMembers(u)'
  BY <1>0, <1>16, StoresAssumption, FailRebuildDoes, ThreadFacts, CaptureFacts
<1>17. ASSUME NEW t \in M!Threads, M!ReplaceWav(t) PROVE AimsAtMembers(u)'
  BY <1>0, <1>17, StoresAssumption, ReplaceWavDoes, ThreadFacts, CaptureFacts
<1>18. ASSUME NEW t \in M!Threads, M!PatchRow(t) PROVE AimsAtMembers(u)'
  BY <1>0, <1>18, StoresAssumption, PatchRowDoes, ThreadFacts, CaptureFacts
<1>19. ASSUME NEW s \in Sids, M!ToggleLock(s) PROVE AimsAtMembers(u)'
  BY <1>0, <1>19, StoresAssumption, ToggleLockDoes, ThreadFacts, CaptureFacts
<1>20. ASSUME NEW s \in Sids, M!TakeNext(s) PROVE AimsAtMembers(u)'
  BY <1>0, <1>20, StoresAssumption, TakeNextDoes, ThreadFacts, CaptureFacts
<1>21. ASSUME NEW s \in Sids, M!Export(s) PROVE AimsAtMembers(u)'
  BY <1>0, <1>21, StoresAssumption, ThreadFacts, CaptureFacts DEF M!Export
<1>22. ASSUME M!SaveAndReprocess PROVE AimsAtMembers(u)'
  BY <1>0, <1>22, StoresAssumption, SaveDoes, ThreadFacts, CaptureFacts
<1>23. ASSUME M!ListPass \/ M!EndPass PROVE AimsAtMembers(u)'
  <2>1. /\ Vad \in M!Threads /\ thread[Vad].op = "reprocess" /\ thread[Vad].pc \in {"list", "pass"}
        /\ ThreadsBut(Vad) /\ UNCHANGED <<capture, row, broken>>
        /\ thread'[Vad].s = thread[Vad].s \/ thread'[Vad].s = "none"
    BY <1>23, PassDoes
  <2>2. thread[Vad].s = "none" BY <2>1 DEF SamplePlaces, Placed
  <2>3. \A z : Excused(z) => Excused(z)' BY <2>1, StoresAssumption
  <2>4. CASE u = Vad BY <2>1, <2>2, <2>4, StoresAssumption
  <2>5. CASE u # Vad BY <1>0, <2>1, <2>3, <2>5
  <2>6. QED BY <2>4, <2>5
<1>24. CASE UNCHANGED samplesVars BY <1>0, <1>24 DEF samplesVars
<1>25. QED
  BY <1>1, <1>2, <1>3, <1>4, <1>5, <1>6, <1>7, <1>8, <1>9, <1>10, <1>11, <1>12, <1>13,
     <1>14, <1>15, <1>16, <1>17, <1>18, <1>19, <1>20, <1>21, <1>22, <1>23, <1>24
     DEF M!SamplesNext, M!CallerStep

LEMMA SampleBuildsKept ==
  ASSUME StoresAssumption, SampleTypes, SamplePlaces, SampleJob, SampleLocks,
         SampleHolders, SampleMembers, SampleBuilds,
         [M!SamplesNext]_samplesVars
  PROVE SampleBuilds'
BY BuiltOfMembersKept, AimsAtMembersKept DEF SampleBuilds

\* A save during a pass leaves a rerun.
LEMMA SampleJobKept ==
  ASSUME StoresAssumption, SampleTypes, SamplePlaces, SampleJob,
         [M!SamplesNext]_samplesVars
  PROVE SampleJob'
<1> USE DEF SampleJob, ThreadsBut, Rest, M!Threads, SamplePlaces, Placed, M!Rebuilding, Reprocesses
<1>1. ASSUME NEW t \in Callers, NEW s \in Sids, NEW cs \in SUBSET Captures \ {{}}, M!ValidateMerge(t, s, cs)
      PROVE SampleJob'
  BY <1>1, StoresAssumption, ValidateMergeDoes
<1>2. ASSUME NEW t \in Callers, NEW s \in Sids,
            M!AdmitRegenerate(t, s) \/ M!AdmitHeal(t, s) \/ M!AdmitDissolve(t, s) PROVE SampleJob'
  BY <1>2, StoresAssumption, AdmitDoes
<1>3. ASSUME NEW t \in Callers, NEW c \in Captures, M!DeleteMember(t, c) PROVE SampleJob'
  BY <1>3, StoresAssumption, DeleteMemberDoes
<1>4. ASSUME NEW t \in Callers, M!BuildNew(t) PROVE SampleJob'
  BY <1>4, StoresAssumption, BuildNewDoes
<1>5. ASSUME NEW t \in Callers, M!Insert(t) PROVE SampleJob'
  BY <1>5, StoresAssumption, InsertDoes
<1>6. ASSUME NEW t \in Callers, M!Unmerge(t) PROVE SampleJob'
  BY <1>6, StoresAssumption, UnmergeDoes
<1>7. ASSUME NEW t \in Callers, M!UnlinkAudio(t) PROVE SampleJob'
  BY <1>7, StoresAssumption, UnlinkAudioDoes
<1>8. ASSUME NEW t \in Callers, M!Dissolve(t) PROVE SampleJob'
  BY <1>8, StoresAssumption, DissolveDoes
<1>9. ASSUME NEW t \in Callers, M!UnlinkWav(t) PROVE SampleJob'
  BY <1>9, StoresAssumption, UnlinkWavDoes
<1>10. ASSUME NEW t \in Callers, M!DissolveFails(t) PROVE SampleJob'
  BY <1>10, StoresAssumption, DissolveFailsDoes
<1>11. ASSUME NEW t \in Callers, M!BeginClear(t) PROVE SampleJob'
  BY <1>11, StoresAssumption, BeginClearDoes
<1>12. ASSUME NEW t \in Callers, M!ClearSamples(t) PROVE SampleJob'
  BY <1>12, StoresAssumption, ClearSamplesDoes
<1>13. ASSUME NEW t \in Callers, M!WipeAll(t) PROVE SampleJob'
  BY <1>13, StoresAssumption, WipeAllDoes
<1>14. ASSUME NEW t \in M!Threads, M!Enter(t) PROVE SampleJob'
  BY <1>14, StoresAssumption, EnterDoes
<1>15. ASSUME NEW t \in M!Threads, M!ReadMembers(t) PROVE SampleJob'
  BY <1>15, StoresAssumption, ReadMembersDoes
<1>16. ASSUME NEW t \in M!Threads, M!FailRebuild(t) PROVE SampleJob'
  BY <1>16, StoresAssumption, FailRebuildDoes
<1>17. ASSUME NEW t \in M!Threads, M!ReplaceWav(t) PROVE SampleJob'
  BY <1>17, StoresAssumption, ReplaceWavDoes
<1>18. ASSUME NEW t \in M!Threads, M!PatchRow(t) PROVE SampleJob'
  BY <1>18, StoresAssumption, PatchRowDoes
<1>19. ASSUME NEW s \in Sids, M!ToggleLock(s) PROVE SampleJob'
  BY <1>19, StoresAssumption, ToggleLockDoes
<1>20. ASSUME NEW s \in Sids, M!TakeNext(s) PROVE SampleJob'
  BY <1>20, StoresAssumption, TakeNextDoes
<1>21. ASSUME NEW s \in Sids, M!Export(s) PROVE SampleJob'
  BY <1>21, StoresAssumption DEF M!Export
<1>22. ASSUME M!SaveAndReprocess PROVE SampleJob'
  BY <1>22, StoresAssumption, SaveDoes
<1>23. ASSUME M!ListPass \/ M!EndPass PROVE SampleJob'
  BY <1>23, StoresAssumption, PassDoes
<1>24. CASE UNCHANGED samplesVars BY <1>24 DEF samplesVars
<1>25. QED
  BY <1>1, <1>2, <1>3, <1>4, <1>5, <1>6, <1>7, <1>8, <1>9, <1>10, <1>11, <1>12, <1>13,
     <1>14, <1>15, <1>16, <1>17, <1>18, <1>19, <1>20, <1>21, <1>22, <1>23, <1>24
     DEF M!SamplesNext, M!CallerStep

-----------------------------------------------------------------------------
(* The initial states, and every step.                                         *)

LEMMA SampleInitially ==
  ASSUME StoresAssumption, M!SamplesInit
  PROVE SampleInv
<1> DEFINE first == CHOOSE s \in Sids : TRUE
<1>1. first \in Sids BY StoresAssumption
<1>2. /\ gap = 0
      /\ \A c \in Captures : /\ capture[c].row /\ capture[c] \in CaptureRows
                             /\ capture[c].sample = IF c \in Originals THEN first ELSE "none"
      /\ capture \in [Captures -> CaptureRows]
  BY <1>1 DEF M!SamplesInit, CaptureRows, M!NoSample
<1> HIDE DEF first
<1>3. /\ row \in [Sids -> SampleRows]
      /\ row[first].phase = "live" /\ row[first].built = M!Built(Originals, 0)
      /\ \A s \in Sids \ {first} : row[s].phase = "unused" /\ ~row[s].locked
  <2> DEFINE r == M!NewRow(Originals, 0)
  <2>1. r \in SampleRows /\ r.phase = "live" /\ r.built = M!Built(Originals, 0)
    <3> DEFINE q == M!NoRow("live")
               b == M!Built(Originals, 0)
    <3>1. q \in SampleRows /\ q.phase = "live" BY NoRowTypes
    <3>2. b \in Builds BY StoresAssumption, BuildsBuilt
    <3>3. r = [q EXCEPT !.built = b, !.silence = 0] BY DEF M!NewRow
    <3> HIDE DEF q, b, r
    <3>4. r \in SampleRows /\ r.phase = "live" /\ r.built = b BY <3>1, <3>2, <3>3 DEF SampleRows
    <3>5. QED BY <3>4 DEF b
  <2>2. PICK locked \in BOOLEAN :
          row = [s \in Sids |-> IF s = first THEN [r EXCEPT !.locked = locked]
                                ELSE M!NoRow("unused")]
    BY DEF M!SamplesInit, first
  <2> HIDE DEF r
  <2> DEFINE l == [r EXCEPT !.locked = locked]
  <2>3. l \in SampleRows /\ l.phase = "live" /\ l.built = M!Built(Originals, 0)
    BY <2>1 DEF SampleRows
  <2>4. row = [s \in Sids |-> IF s = first THEN l ELSE M!NoRow("unused")] BY <2>2
  <2> HIDE DEF l
  <2>5. M!NoRow("unused") \in SampleRows /\ M!NoRow("unused").phase = "unused"
        /\ ~M!NoRow("unused").locked
    BY NoRowTypes
  <2>6. QED BY <1>1, <2>3, <2>4, <2>5
<1>4. /\ wav \in [Sids -> Builds]
      /\ wav[first] \in {M!NoBuild, M!Built(Originals, 0)}
      /\ \A s \in Sids \ {first} : wav[s] = M!NoBuild
  <2>1. M!Built(Originals, 0) \in Builds /\ M!NoBuild \in Builds BY StoresAssumption, BuildsBuilt
  <2>2. PICK there \in BOOLEAN :
          wav = [s \in Sids |-> IF s = first /\ there THEN M!Built(Originals, 0) ELSE M!NoBuild]
    BY DEF M!SamplesInit, first
  <2>3. QED BY <1>1, <2>1, <2>2
<1>5. /\ rebuild = [s \in Sids |-> "free"]
      /\ thread \in [M!Threads -> Doers]
      /\ \A t \in M!Threads : thread[t].op = "none" /\ thread[t].s = "none"
      /\ broken = {} /\ unguarded = {}
  BY IdleDoer DEF M!SamplesInit, M!Free
<1>6. job \in Reprocesses /\ job.status = "idle" /\ job.asked = 0 /\ job.began = 0
  BY DEF M!SamplesInit, Reprocesses
<1>7. M!ExportMatches
  BY DEF M!SamplesInit, M!ExportMatches, M!NoBuild
<1>8. Vad \in M!Threads BY DEF M!Threads
<1>9. SampleTypes BY <1>2, <1>3, <1>4, <1>5, <1>6 DEF SampleTypes
<1>10. \A t \in M!Threads : ~Rebuilds(t) /\ ~Unlinks(t)
  BY <1>5 DEF Rebuilds, Unlinks, M!Rebuilding
<1>11. SamplePlaces BY <1>5, <1>8 DEF SamplePlaces, Placed, M!Rebuilding
<1>12. SampleLocks BY <1>5, <1>10, StoresAssumption DEF SampleLocks, M!Threads
<1>13. SampleFresh BY <1>5 DEF SampleFresh
<1>14. SampleHolders BY <1>10 DEF SampleHolders, Holder
<1>15. SampleWavs BY <1>3, <1>4 DEF SampleWavs, WavExplained
<1>16. SampleMembers BY <1>2, <1>3 DEF SampleMembers, MemberBound
<1>17. SampleBuilds
  <2>1. M!Members(first) = Originals
    <3>1. \A z : z \in Originals <=> z \in {c \in Captures : capture[c].row /\ capture[c].sample = first}
      BY <1>1, <1>2, StoresAssumption
    <3>2. Originals = {c \in Captures : capture[c].row /\ capture[c].sample = first} BY <3>1
    <3>3. QED BY <3>2 DEF M!Members
  <2>2. row[first].built.of = Originals BY <1>3, BuildsBuilt, StoresAssumption
  <2>3. \A s \in Sids : BuiltOfMembers(s) BY <1>3, <2>1, <2>2 DEF BuiltOfMembers
  <2>4. \A t \in M!Threads : AimsAtMembers(t) BY <1>5, <1>10 DEF AimsAtMembers
  <2>5. QED BY <2>3, <2>4 DEF SampleBuilds
<1>18. SampleGuards BY <1>3, <1>10 DEF SampleGuards, LockedIsLive, Guarded
<1>19. SampleJob BY <1>2, <1>5, <1>6, <1>8 DEF SampleJob
<1>20. QED
  BY <1>7, <1>9, <1>11, <1>12, <1>13, <1>14, <1>15, <1>16, <1>17, <1>18, <1>19 DEF SampleInv

\* Only an export packs, and what it finds with the lock free is no one's work.
LEMMA ExportMatchesKept ==
  ASSUME StoresAssumption, SampleInv, [M!SamplesNext]_samplesVars
  PROVE M!ExportMatches'
<1>1. ASSUME NEW s \in Sids, M!Export(s) PROVE M!ExportMatches'
  <2>1. rebuild[s] = "free" /\ row[s].phase = "live" /\ wav[s] # M!NoBuild
        /\ row[s].built.of = M!Members(s)
        /\ packed' = [members |-> M!Members(s), wav |-> wav[s], says |-> row[s].built]
    BY <1>1 DEF M!Export, M!Exportable, M!Live, M!Free
  <2>2. ~ \E t \in M!Threads : thread[t].s = s /\ Rebuilds(t)
    BY <2>1, StoresAssumption DEF SampleInv, SampleLocks, M!Threads
  <2>3. wav[s] = row[s].built
    BY <2>1, <2>2 DEF SampleInv, SampleWavs, WavExplained, Merging
  <2>4. QED BY <2>1, <2>3 DEF M!ExportMatches
<1>2. ASSUME ~ \E s \in Sids : M!Export(s) PROVE packed' = packed
  <2>1. ASSUME NEW t \in Callers, M!CallerStep(t) PROVE packed' = packed
    BY <2>1 DEF M!CallerStep, M!ValidateMerge, M!AdmitRegenerate, M!AdmitHeal, M!AdmitDissolve,
         M!DeleteMember, M!BuildNew, M!Insert, M!Unmerge, M!UnlinkAudio, M!Dissolve, M!UnlinkWav,
         M!DissolveFails, M!BeginClear, M!ClearSamples, M!WipeAll, M!Start
  <2>2. ASSUME NEW t \in M!Threads,
               M!Enter(t) \/ M!ReadMembers(t) \/ M!FailRebuild(t) \/ M!ReplaceWav(t) \/ M!PatchRow(t)
        PROVE packed' = packed
    BY <2>2 DEF M!Enter, M!ReadMembers, M!FailRebuild, M!ReplaceWav, M!PatchRow
  <2>3. ASSUME NEW s \in Sids, M!ToggleLock(s) \/ M!TakeNext(s) PROVE packed' = packed
    BY <2>3 DEF M!ToggleLock, M!TakeNext
  <2>4. ASSUME M!SaveAndReprocess \/ M!ListPass \/ M!EndPass PROVE packed' = packed
    BY <2>4 DEF M!SaveAndReprocess, M!ListPass, M!EndPass
  <2>5. CASE UNCHANGED samplesVars BY <2>5 DEF samplesVars
  <2>6. QED BY <1>2, <2>1, <2>2, <2>3, <2>4, <2>5 DEF M!SamplesNext
<1>3. CASE packed' = packed BY <1>3 DEF SampleInv, M!ExportMatches
<1>4. QED BY <1>1, <1>2, <1>3

LEMMA SampleInductive ==
  ASSUME StoresAssumption, SampleInv, [M!SamplesNext]_samplesVars
  PROVE SampleInv'
<1>1. /\ SampleTypes /\ SamplePlaces /\ SampleLocks /\ SampleFresh /\ SampleWavs
      /\ SampleHolders /\ SampleMembers /\ SampleBuilds /\ SampleGuards /\ SampleJob
  BY DEF SampleInv
<1>2. SampleTypes' BY <1>1, SampleTypesKept
<1>3. SamplePlaces' BY <1>1, SamplePlacesKept
<1>4. SampleLocks' BY <1>1, SampleLocksKept
<1>5. SampleFresh' BY <1>1, SampleFreshKept
<1>6. SampleWavs' BY <1>1, SampleWavsKept
<1>7. SampleHolders' BY <1>1, SampleHoldersKept
<1>8. SampleMembers' BY <1>1, SampleMembersKept
<1>9. SampleBuilds' BY <1>1, SampleBuildsKept
<1>10. SampleGuards' BY <1>1, SampleGuardsKept
<1>11. SampleJob' BY <1>1, SampleJobKept
<1>12. M!ExportMatches' BY ExportMatchesKept
<1>13. QED
  BY <1>2, <1>3, <1>4, <1>5, <1>6, <1>7, <1>8, <1>9, <1>10, <1>11, <1>12 DEF SampleInv

\* A behaviour is of one part, and the other parts' steps leave the samples alone.
LEMMA StepOfSamples ==
  ASSUME [SamplesStep \/ CapturesStep \/ UsageStep \/ MediaStep]_
           <<part, samplesVars, storeVars, usageVars, mediaVars>>
  PROVE [M!SamplesNext]_samplesVars
BY DEF SamplesStep, CapturesStep, UsageStep, MediaStep

LEMMA SampleInvariance == StoresSpec => []SampleInv
<1>1. StoresInit => SampleInv BY StoresAssumption, SampleInitially DEF StoresInit
<1>2. SampleInv /\ [SamplesStep \/ CapturesStep \/ UsageStep \/ MediaStep]_
                     <<part, samplesVars, storeVars, usageVars, mediaVars>>
        => SampleInv'
  <2> SUFFICES ASSUME SampleInv,
                      [SamplesStep \/ CapturesStep \/ UsageStep \/ MediaStep]_
                        <<part, samplesVars, storeVars, usageVars, mediaVars>>
               PROVE SampleInv'
    OBVIOUS
  <2>1. [M!SamplesNext]_samplesVars BY StepOfSamples
  <2>2. QED BY <2>1, StoresAssumption, SampleInductive
<1>3. QED BY <1>1, <1>2, PTL DEF StoresSpec

\* A sample is exported with the WAV its row describes and the text of the members
\* that WAV was merged from; its members are those it was merged from; when it is
\* gone nothing of it is left; no settings save is left without a reprocess that
\* read it (the rebuild lock of samples_store, vad_reprocess.start).
THEOREM SamplesAreCorrect == StoresSpec => []SamplesCorrect
<1>1. ASSUME SampleInv PROVE M!NothingLeftBehind
  <2> SUFFICES ASSUME NEW s \in Sids, ~M!Live(s), ~M!Busy(s)
               PROVE (wav[s] # M!NoBuild => s \in unguarded) /\ M!Members(s) = {}
    BY DEF M!NothingLeftBehind
  <2>1. row[s].phase # "live" BY DEF M!Live
  <2>2. ~Wiping /\ \A t \in M!Threads : thread[t].s # s
    BY DEF M!Busy, Wiping, M!Threads
  <2>3. wav[s] # M!NoBuild => s \in unguarded
    BY <1>1, <2>1, <2>2 DEF SampleInv, SampleWavs, WavExplained, Merging
  <2>4. ASSUME NEW c \in Captures PROVE ~(capture[c].row /\ capture[c].sample = s)
    BY <1>1, <2>1, <2>2, StoresAssumption DEF SampleInv, SampleMembers, MemberBound
  <2>5. QED BY <2>3, <2>4 DEF M!Members
<1>2. ASSUME SampleInv PROVE M!MembersComplete
  BY <1>2 DEF SampleInv, SampleBuilds, BuiltOfMembers, Excused, M!MembersComplete, M!Live
<1>3. ASSUME SampleInv PROVE M!RequestsServed
  <2>1. job.began \in Nat /\ job.asked \in Nat
    BY <1>3 DEF SampleInv, SampleTypes, Reprocesses
  <2>2. job.status = "done" => ~(job.asked > job.began) BY <1>3 DEF SampleInv, SampleJob
  <2>3. QED BY <2>1, <2>2 DEF M!RequestsServed
<1>4. SampleInv => SamplesCorrect
  BY <1>1, <1>2, <1>3 DEF SampleInv, SamplesCorrect
<1>5. QED BY <1>4, SampleInvariance, PTL

-----------------------------------------------------------------------------
(* What a reviewer settled.                                                    *)

\* A merge is replaced by nothing else, and the members stay.
Kept(s) ==
  /\ wav[s] # M!NoBuild => wav'[s] \in {wav[s], M!NoBuild}
  /\ \A c \in Captures : capture'[c].row /\ capture'[c].sample = s
                           <=> capture[c].row /\ capture[c].sample = s

\* What writes a WAV or moves a member of another phase's sample, or of one its
\* row, read under the lock, says is not locked.
LEMMA LockedKept ==
  ASSUME StoresAssumption, SampleInv, [M!SamplesNext]_samplesVars,
         NEW x \in Sids, row[x].locked, row'[x].locked
  PROVE Kept(x)
<1>0. /\ row[x].phase = "live" /\ x # "none"
      /\ SampleTypes /\ SamplePlaces /\ SampleLocks /\ SampleJob
      /\ \A t \in M!Threads : Guarded(t)
  BY StoresAssumption DEF SampleInv, SampleGuards, LockedIsLive
<1> HIDE DEF SampleInv
<1> USE DEF Kept, Guarded, Rebuilds, WavsBut, SameCaptures, Clears, M!Threads, M!Rebuilding
<1>1. ASSUME NEW t \in Callers, NEW s \in Sids, NEW cs \in SUBSET Captures \ {{}}, M!ValidateMerge(t, s, cs)
      PROVE Kept(x)
  BY <1>0, <1>1, ValidateMergeDoes, ThreadFacts
<1>2. ASSUME NEW t \in Callers, NEW s \in Sids,
            M!AdmitRegenerate(t, s) \/ M!AdmitHeal(t, s) \/ M!AdmitDissolve(t, s) PROVE Kept(x)
  BY <1>0, <1>2, AdmitDoes, ThreadFacts
<1>3. ASSUME NEW t \in Callers, NEW c \in Captures, M!DeleteMember(t, c) PROVE Kept(x)
  BY <1>0, <1>3, DeleteMemberDoes, ThreadFacts
<1>4. ASSUME NEW t \in Callers, M!BuildNew(t) PROVE Kept(x)
  BY <1>0, <1>4, BuildNewDoes, ThreadFacts
<1>5. ASSUME NEW t \in Callers, M!Insert(t) PROVE Kept(x)
  BY <1>0, <1>5, InsertDoes, ThreadFacts
<1>6. ASSUME NEW t \in Callers, M!Unmerge(t) PROVE Kept(x)
  BY <1>0, <1>6, UnmergeDoes, ThreadFacts
<1>7. ASSUME NEW t \in Callers, M!UnlinkAudio(t) PROVE Kept(x)
  BY <1>0, <1>7, UnlinkAudioDoes, ThreadFacts
<1>8. ASSUME NEW t \in Callers, M!Dissolve(t) PROVE Kept(x)
  BY <1>0, <1>8, DissolveDoes, ThreadFacts
<1>9. ASSUME NEW t \in Callers, M!UnlinkWav(t) PROVE Kept(x)
  BY <1>0, <1>9, UnlinkWavDoes, ThreadFacts
<1>10. ASSUME NEW t \in Callers, M!DissolveFails(t) PROVE Kept(x)
  BY <1>0, <1>10, DissolveFailsDoes, ThreadFacts
<1>11. ASSUME NEW t \in Callers, M!BeginClear(t) PROVE Kept(x)
  BY <1>0, <1>11, BeginClearDoes, ThreadFacts
<1>12. ASSUME NEW t \in Callers, M!ClearSamples(t) PROVE Kept(x)
  BY <1>0, <1>12, ClearSamplesDoes, ThreadFacts
<1>13. ASSUME NEW t \in Callers, M!WipeAll(t) PROVE Kept(x)
  BY <1>0, <1>13, WipeAllDoes, ThreadFacts
<1>14. ASSUME NEW t \in M!Threads, M!Enter(t) PROVE Kept(x)
  BY <1>0, <1>14, EnterDoes, ThreadFacts
<1>15. ASSUME NEW t \in M!Threads, M!ReadMembers(t) PROVE Kept(x)
  BY <1>0, <1>15, ReadMembersDoes, ThreadFacts
<1>16. ASSUME NEW t \in M!Threads, M!FailRebuild(t) PROVE Kept(x)
  BY <1>0, <1>16, FailRebuildDoes, ThreadFacts
<1>17. ASSUME NEW t \in M!Threads, M!ReplaceWav(t) PROVE Kept(x)
  BY <1>0, <1>17, ReplaceWavDoes, ThreadFacts
<1>18. ASSUME NEW t \in M!Threads, M!PatchRow(t) PROVE Kept(x)
  BY <1>0, <1>18, PatchRowDoes, ThreadFacts
<1>19. ASSUME NEW s \in Sids, M!ToggleLock(s) PROVE Kept(x)
  BY <1>0, <1>19, ToggleLockDoes, ThreadFacts
<1>20. ASSUME NEW s \in Sids, M!TakeNext(s) PROVE Kept(x)
  BY <1>0, <1>20, TakeNextDoes, ThreadFacts
<1>21. ASSUME NEW s \in Sids, M!Export(s) PROVE Kept(x)
  BY <1>0, <1>21, ThreadFacts DEF M!Export
<1>22. ASSUME M!SaveAndReprocess PROVE Kept(x)
  BY <1>0, <1>22, SaveDoes, ThreadFacts
<1>23. ASSUME M!ListPass \/ M!EndPass PROVE Kept(x)
  BY <1>0, <1>23, PassDoes, ThreadFacts
<1>24. CASE UNCHANGED samplesVars BY <1>24 DEF samplesVars
<1>25. QED
  BY <1>1, <1>2, <1>3, <1>4, <1>5, <1>6, <1>7, <1>8, <1>9, <1>10, <1>11, <1>12, <1>13,
     <1>14, <1>15, <1>16, <1>17, <1>18, <1>19, <1>20, <1>21, <1>22, <1>23, <1>24
     DEF M!SamplesNext, M!CallerStep

LEMMA LockedStep ==
  ASSUME StoresAssumption, SampleInv, [M!SamplesNext]_samplesVars
  PROVE \A s \in Sids :
          row[s].locked /\ row'[s].locked =>
            /\ wav[s] # M!NoBuild => wav'[s] \in {wav[s], M!NoBuild}
            /\ {c \in Captures : capture'[c].row /\ capture'[c].sample = s} = M!Members(s)
<1> SUFFICES ASSUME NEW s \in Sids, row[s].locked, row'[s].locked
             PROVE /\ wav[s] # M!NoBuild => wav'[s] \in {wav[s], M!NoBuild}
                   /\ {c \in Captures : capture'[c].row /\ capture'[c].sample = s} = M!Members(s)
  OBVIOUS
<1>1. Kept(s) BY StoresAssumption, LockedKept
<1>2. QED BY <1>1 DEF Kept, M!Members

LEMMA LockedFrozenHolds == StoresSpec => M!LockedFrozen
<1>1. SampleInv /\ [SamplesStep \/ CapturesStep \/ UsageStep \/ MediaStep]_
                     <<part, samplesVars, storeVars, usageVars, mediaVars>>
        => [\A s \in Sids :
              row[s].locked /\ row'[s].locked =>
                /\ wav[s] # M!NoBuild => wav'[s] \in {wav[s], M!NoBuild}
                /\ {c \in Captures : capture'[c].row /\ capture'[c].sample = s}
                     = M!Members(s)]_(M!samplesVars)
  <2> SUFFICES ASSUME SampleInv,
                      [SamplesStep \/ CapturesStep \/ UsageStep \/ MediaStep]_
                        <<part, samplesVars, storeVars, usageVars, mediaVars>>
               PROVE \A s \in Sids :
                       row[s].locked /\ row'[s].locked =>
                         /\ wav[s] # M!NoBuild => wav'[s] \in {wav[s], M!NoBuild}
                         /\ {c \in Captures : capture'[c].row /\ capture'[c].sample = s}
                              = M!Members(s)
    OBVIOUS
  <2>1. [M!SamplesNext]_samplesVars BY StepOfSamples
  <2> HIDE DEF SampleInv
  <2>2. QED BY <2>1, StoresAssumption, LockedStep
<1>2. QED BY <1>1, SampleInvariance, PTL DEF StoresSpec, M!LockedFrozen
LEMMA EvictionOrderHolds == StoresSpec => C!EvictionOrder
<1>1. CaptureInv /\ [SamplesStep \/ CapturesStep \/ UsageStep \/ MediaStep]_
                      <<part, samplesVars, storeVars, usageVars, mediaVars>>
        => [\A t \in Tasks : doing[t].step = "insert" /\ doing'[t] # doing[t] =>
              \A i \in rows \ rows' :
                /\ i \notin merged
                /\ status[i] = "ready" => \A j \in rows' \ merged : status'[j] = "ready"
                /\ status[i] = "new" =>
                     \A j \in rows' \ merged : status'[j] \in {"new", "ready"}]_(C!storeVars)
  <2> SUFFICES ASSUME CaptureInv,
                      [SamplesStep \/ CapturesStep \/ UsageStep \/ MediaStep]_
                        <<part, samplesVars, storeVars, usageVars, mediaVars>>,
                      NEW t \in Tasks, doing[t].step = "insert", doing'[t] # doing[t],
                      NEW i \in rows \ rows'
               PROVE /\ i \notin merged
                     /\ status[i] = "ready" => \A j \in rows' \ merged : status'[j] = "ready"
                     /\ status[i] = "new" =>
                          \A j \in rows' \ merged : status'[j] \in {"new", "ready"}
    OBVIOUS
  <2>1. [C!StoreNext]_storeVars BY StepOfCaptures
  <2>2. CaptureTypes /\ CaptureOwn BY DEF CaptureInv
  <2>3. QED BY <2>1, <2>2, StoresAssumption, EvictionInOrder
<1>2. QED BY <1>1, CaptureInvariance, PTL DEF StoresSpec, C!EvictionOrder

\* While a sample stays locked its WAV is not replaced and no member taken from
\* it, and the cap evicts unreviewed captures after reviewed ones, ready ones last
\* and sample members never (is_locked looked at again under the lock, _EVICTION_ORDER).
THEOREM ReviewsAreRespected == StoresSpec => ReviewsRespected
BY LockedFrozenHolds, EvictionOrderHolds DEF ReviewsRespected

=============================================================================
