---------------------------- MODULE ModelRegistry ----------------------------
(***************************************************************************)
(* The trained models of a process (app/ai_engine/model_bundle.py), loaded *)
(* by the thread that first asks for one, and the forecasts that threads   *)
(* make with them (app/ai_engine/prediction): the crowd at a station, with *)
(* all candidates or only the winner, the crowd at all stations, the delay *)
(* for a forecast of the crowd, and the frequency.  The answers that are   *)
(* kept in the cache, and the rows written for them, are in                *)
(* PredictionService.                                                      *)
(***************************************************************************)
EXTENDS Integers, Sequences, SequencesExt

CONSTANTS Threads,
          Files,         \* per key, what may be on disk: bundles of models (id, models, name,
                         \* model, known, failing) and Missing, when joblib can read none
          LightModes,    \* the values of AI_MODEL_LIGHT_MODE
          MaxCalls,      \* bound: calls in one life of the process
          MaxReplaced,   \* bound: files that are replaced
          Missing, NotLoaded, NoThread

VARIABLES lightMode,
          file,       \* per key, what is on disk
          registry,   \* _registry; Missing is its None
          loads,      \* _load_counts
          holder,     \* _registry_lock
          thread,     \* per thread, its call, the models it still needs and where it is
          answers,    \* history: the forecasts of this life of the process
          calls, replaced

vars == <<lightMode, file, registry, loads, holder, thread, answers, calls, replaced>>

Keys == {"crowd", "delay", "frequency"}       \* _VALID_KEYS

\* The models of a call, in the order in which it asks for them.
Needs == [one |-> <<"crowd">>, light |-> <<"crowd">>, bulk |-> <<"crowd">>,
          delay |-> <<"crowd", "delay">>, frequency |-> <<"frequency">>,
          warmup |-> <<"crowd", "delay", "frequency">>]

Idle == [step |-> "idle", call |-> "one", needs |-> <<>>]

TypeOK ==
    /\ lightMode \in BOOLEAN
    /\ \A k \in Keys : file[k] \in Files[k]
    /\ DOMAIN registry = Keys /\ loads \in [Keys -> Nat]
    /\ holder \in Threads \cup {NoThread}
    /\ \A t \in Threads : thread[t].step \in {"idle", "look", "lock", "load", "predict"}
    /\ \A answer \in answers : answer.key \in Keys
    /\ calls \in 0..MaxCalls /\ replaced \in 0..MaxReplaced

Init ==
    /\ lightMode \in LightModes
    /\ file \in {f \in [Keys -> UNION {Files[k] : k \in Keys}] : \A k \in Keys : f[k] \in Files[k]}
    /\ registry = [k \in Keys |-> NotLoaded] /\ loads = [k \in Keys |-> 0]
    /\ holder = NoThread /\ thread = [t \in Threads |-> Idle]
    /\ answers = {} /\ calls = 0 /\ replaced = 0

Step(t, step) == thread' = [thread EXCEPT ![t].step = step]

-----------------------------------------------------------------------------
(***************************************************************************)
(* get_or_load                                                             *)
(***************************************************************************)
Key(t) == Head(thread[t].needs)

\* A slip: the first of the candidates is kept in place of the winner.
FirstCandidate(bundle) == Head(bundle.models)

Winner(bundle) == IF bundle.name \in ToSet(bundle.models) THEN bundle.name ELSE Head(bundle.models)

\* prune_to_winner
Kept(bundle) ==
    IF ~lightMode \/ Len(bundle.models) <= 1 THEN bundle
    ELSE [bundle EXCEPT !.models = <<Winner(bundle)>>, !.name = Winner(bundle), !.model = Winner(bundle)]

\* Bundles, for sets of ids and of names.
Bundles(Ids, Names) ==
    [id : Ids, models : Seq(Names) \ {<<>>}, name : Names, model : Names, known : BOOLEAN,
     failing : SUBSET Names]

\* What the proofs assume of them, as training writes them: the winner is one of the
\* candidates, and the model that a call for all stations takes.
BundlesAreWhole(Ids, Names) ==
    /\ \A k \in Keys : \A b \in Files[k] \ {Missing} :
          b \in Bundles(Ids, Names) /\ b.name \in ToSet(b.models) /\ b.model = b.name
    /\ NotLoaded \notin Bundles(Ids, Names) \cup {Missing} /\ Missing \notin Bundles(Ids, Names)
    /\ NoThread \notin Threads /\ LightModes \subseteq BOOLEAN

\* A request, or the thread of warm_up_models; loaders are called without the lock first.
Begin(t) ==
    \E call \in DOMAIN Needs :
        /\ thread[t].step = "idle" /\ calls < MaxCalls
        /\ thread' = [thread EXCEPT ![t] = [step |-> "look", call |-> call, needs |-> Needs[call]]]
        /\ calls' = calls + 1
        /\ UNCHANGED <<lightMode, file, registry, loads, holder, answers, replaced>>

Look(t) ==
    /\ thread[t].step = "look"
    /\ Step(t, IF registry[Key(t)] = NotLoaded THEN "lock" ELSE "predict")
    /\ UNCHANGED <<lightMode, file, registry, loads, holder, answers, calls, replaced>>

Lock(t) ==
    /\ thread[t].step = "lock" /\ holder = NoThread
    /\ holder' = t /\ Step(t, "load")
    /\ UNCHANGED <<lightMode, file, registry, loads, answers, calls, replaced>>

\* A slip: the registry is not looked at again under the lock.
Unchecked(key) == TRUE

StillMissing(key) == registry[key] = NotLoaded

\* What cannot be loaded is entered as None, which is not tried again.
Load(t) ==
    LET key == Key(t)
    IN  /\ thread[t].step = "load"
        /\ IF ~StillMissing(key) THEN UNCHANGED <<registry, loads>>
           ELSE IF file[key] = Missing
           THEN registry' = [registry EXCEPT ![key] = Missing] /\ UNCHANGED loads
           ELSE /\ registry' = [registry EXCEPT ![key] = Kept(file[key])]
                /\ loads' = [loads EXCEPT ![key] = @ + 1]
        /\ holder' = NoThread /\ Step(t, "predict")
        /\ UNCHANGED <<lightMode, file, answers, calls, replaced>>

(***************************************************************************)
(* predict_crowd, predict_crowd_bulk, predict_delay, recommend_frequency   *)
(***************************************************************************)
Heuristic == [model |-> "heuristic"]

\* The candidates whose predict() the call waits for: one is enough for the light and the
\* bulk call, the others want all of them.
Asked(call, bundle) ==
    CASE call = "light" -> {Winner(bundle)}
      [] call = "bulk" -> {bundle.model}
      [] OTHER -> ToSet(bundle.models)

\* validate_feature_contract
Valid(bundle) == bundle.known

Raises(call, bundle) == ~Valid(bundle) \/ Asked(call, bundle) \cap bundle.failing # {}

\* The model whose value the caller gets.
Chosen(call, bundle) == IF call = "bulk" THEN bundle.model ELSE Winner(bundle)

Forecast(call, bundle) ==
    IF bundle = Missing THEN Heuristic
    ELSE IF Raises(call, bundle) THEN Heuristic
    ELSE [id |-> bundle.id, model |-> Chosen(call, bundle)]

\* The crowd that goes into the forecast of a delay is that of all candidates.
Predict(t) ==
    LET key == Key(t)
        answer == [key |-> key, call |-> thread[t].call, forecast |-> Forecast(thread[t].call, registry[key])]
        needs == Tail(thread[t].needs)
    IN  /\ thread[t].step = "predict"
        /\ answers' = IF thread[t].call = "warmup" THEN answers ELSE answers \cup {answer}
        /\ thread' = [thread EXCEPT ![t] = IF needs = <<>> THEN Idle ELSE [@ EXCEPT !.step = "look", !.needs = needs]]
        /\ UNCHANGED <<lightMode, file, registry, loads, holder, calls, replaced>>

-----------------------------------------------------------------------------
\* The files come with a deployment, and models trained anew may replace them under way.
Replace ==
    \E key \in Keys : \E content \in Files[key] :
        /\ replaced < MaxReplaced /\ content # file[key]
        /\ file' = [file EXCEPT ![key] = content] /\ replaced' = replaced + 1
        /\ UNCHANGED <<lightMode, registry, loads, holder, thread, answers, calls>>

Restart ==
    /\ registry' = [k \in Keys |-> NotLoaded] /\ loads' = [k \in Keys |-> 0]
    /\ holder' = NoThread /\ thread' = [t \in Threads |-> Idle]
    /\ answers' = {} /\ calls' = 0 /\ lightMode' \in LightModes
    /\ UNCHANGED <<file, replaced>>

Next ==
    \/ \E t \in Threads : Begin(t) \/ Look(t) \/ Lock(t) \/ Load(t) \/ Predict(t)
    \/ Replace
    \/ Restart

Spec == Init /\ [][Next]_vars

-----------------------------------------------------------------------------
\* A process loads each model at most once, whichever of its threads ask for it first.
LoadedOnce == \A key \in Keys : loads[key] <= 1

\* All forecasts that a process makes with trained models of a kind come from one model of
\* one file, light or not, whatever happens to the files meanwhile; and once one thread was
\* given a forecast of the one candidate it asked, no thread gets the heuristic from that call.
AnswersAgree ==
    \A one, other \in answers : one.key = other.key =>
        \/ one.forecast = other.forecast
        \/ Heuristic \in {one.forecast, other.forecast} /\ one.call # other.call
=============================================================================
