------------------------------ MODULE MCStages ------------------------------
(* A batch request's stages and the caches of their models, side by side: a     *)
(* single pipeline (diarization or separation), the GGUF translation models,    *)
(* two requests going through the stages. They share no state in these models;  *)
(* each behaviour is of one of them.                                            *)
EXTENDS StageCache, TLC

CONSTANTS
  Refs, Cap, MaxCalls,  \* of the translation cache; Jobs, Warmups and MaxEdits are both caches'
  Requests, Asks(_), Slots, MaxMishaps,  \* of the batch requests
  full, plain           \* the two of them that TLC runs

VARIABLES
  part,
  params, models, older, active, decoding, ggufRows, loading, gate, ggufMutex,
  ggufPc, ggufWant, ggufGot, calls, unstopped, ggufThread,
  run, free, cancels

G == INSTANCE TranslationCache WITH
       Preloads <- Warmups, rows <- ggufRows, mutex <- ggufMutex,
       pc <- ggufPc, want <- ggufWant, got <- ggufGot, thread <- ggufThread

Q == INSTANCE TranscribeRequest WITH req <- run, mishaps <- cancels

\* A link's audio is always retained: the form's flag is read of uploads only.
ASSUME RequestAssumption ==
  /\ IsFiniteSet(Requests) /\ Slots \in Nat
  /\ \A r \in Requests : \A ask \in Asks(r) : ~({"url", "retain"} \subseteq ask)

\* One request asks for everything in turn; another wants the same semaphore.
MCAsks(r) ==
  IF r = full
  THEN {{"url", "separating", "diarizing", "translating", "gpu", "capture"},
        {"retain", "separating", "wav", "translating"}, {"url", "reuse", "text"},
        {"retain", "text"}}
  ELSE {{}}
MCMishaps == [r \in Requests |-> IF r = full THEN 2 ELSE 0]

ggufVars == <<params, models, older, active, decoding, ggufRows, loading, gate, ggufMutex,
              ggufPc, ggufWant, ggufGot, calls, unstopped, ggufThread>>
batchVars == <<run, free, cancels>>
allVars == <<part, vars, ggufVars, batchVars>>

StagesInit ==
  /\ part \in {"pipeline", "gguf", "request"}
  /\ Init /\ G!Init /\ Q!RequestInit
  /\ part # "pipeline" => /\ family = CHOOSE f \in Families : TRUE
                          /\ want = [t \in Tasks |-> CHOOSE k \in Keys : k.device = 0]

PipelineStep == part = "pipeline" /\ Next /\ UNCHANGED <<part, ggufVars, batchVars>>
GgufStep == part = "gguf" /\ G!Next /\ UNCHANGED <<part, vars, batchVars>>
RequestStep == part = "request" /\ Q!RequestNext /\ UNCHANGED <<part, vars, ggufVars>>

StagesSpec == StagesInit /\ [][PipelineStep \/ GgufStep \/ RequestStep]_allVars

MCSymmetry == Permutations(Jobs) \cup Permutations(Refs)

-----------------------------------------------------------------------------

\* A lease, an orphan count or a registry row is never lost nor left behind by a
\* cancellation or a failure of the pipeline's load, run or release, and a vocals
\* file always has one owner (_release_locked, register_through_latch).
PipelineAccounted ==
  part = "pipeline" => TypeOK /\ LeaseAccounting /\ RowsMatch /\ FilesOwned

\* Nothing disturbs a thread inside a pipeline: an eviction drops none under it,
\* and a preload starts no load beside a job (_infer_mutex, busy).
ThreadsUndisturbed == NoFreeUnderThread /\ WarmupLoadsAlone

\* No native context is closed under a thread that decodes on it, every lease and
\* completion of a GGUF model is given back exactly once, and the registry lists
\* the models that are loaded (_drop_locked, _settle, _release_model, _get_model).
GgufAccounted == G!NoUseAfterClose /\ G!CountsExact /\ G!RowsMatch

\* However a batch request ends, and at whatever await it is cancelled, it gives
\* back its lease, slot and counters once and leaves no file but one that a thread
\* it no longer waits for makes; no stage reads a file that is gone (the finally
\* blocks of transcribe, the swap of tmp_path).
RequestsGiveBack == part = "request" => Q!GivenBack /\ Q!InputThere

\* A stage asked for ran or is warned of, an advertised id was there, and nothing
\* behind the decode but a cancellation costs the transcript (_soft_fail_stage, _skip).
AnswersExplained == part = "request" => Q!Explained /\ Q!TranscriptKept

=============================================================================
