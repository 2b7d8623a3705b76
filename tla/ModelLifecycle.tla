--------------------------- MODULE ModelLifecycle ---------------------------
(***************************************************************************)
(* The trained models: ml/registry.py (artifact files with a champion      *)
(* pointer, loaded through an LRU cache), the weekly training of           *)
(* scheduler_v3.py and commands_v3.py, and whoever predicts with them.     *)
(*                                                                         *)
(* The artifact directory is one volume that scheduler, bot and API mount; *)
(* each process has a cache of its own.  joblib writes the file in place,  *)
(* so between opening and closing it holds half a model.  A version is the *)
(* second of its training.  An artifact is known by the number it has in   *)
(* the order in which artifacts were finished; that order is trained_at.   *)
(***************************************************************************)
EXTENDS Integers, Sequences, FiniteSets, SequencesExt

CONSTANTS
  Trainers,       \* runs of scheduled_ml_train: replicas, or the command line
  Readers,        \* processes that recommend: the API, the bot
  Keep,           \* prune_artifacts(keep)
  CacheSize,      \* lru_cache(maxsize)
  LastSecond, MaxTrainings, MaxReads, MaxTrainerDeaths, MaxPromotions

ASSUME LifecycleAssumption == {Keep, CacheSize, LastSecond} \subseteq Nat \ {0}

Kinds == {"regressor", "classifier"}
Broken == 0
NoArtifact == -1

VARIABLES
  second,     \* the clock, as version names tell it
  files,      \* kind -> its files, oldest write first: [version, made]
  champion,   \* kind -> the version in its pointer file, or NoArtifact
  modelRow,   \* set of [version, kind, made]: model_versions, whose key is the version
  forecast,   \* set of [version, made]: the predictions of a bond and day
  loaded,     \* process -> its cache, least recently used first: [kind, version, made]
  model,      \* process -> its training run or its prediction
  finished,   \* artifacts finished so far
  trainings, reads, trainerDeaths, promotions,
  \* for the properties
  named,      \* versions given to an artifact so far
  shared,     \* versions that two artifacts bear
  abandoned,  \* <<kind, version>> of files whose writer died, or that a prune took from it
  unannounced,\* artifacts whose trainer ended before it stored their rows
  passedOver  \* <<kind, version>> promoted after a prune had looked at the pointers

modelVars == <<second, files, champion, modelRow, forecast, loaded, model, finished, trainings,
               reads, trainerDeaths, promotions, named, shared, abandoned, unannounced, passedOver>>

Processes == Trainers \cup Readers
None == [k \in Kinds |-> NoArtifact]
Idle == [step |-> "idle", kind |-> "regressor", version |-> None, path |-> None, made |-> None,
         champions |-> None, doomed |-> << >>]
AtStep(p, step) == model[p].step = step
Goes(p, step) == model' = [model EXCEPT ![p].step = step]

-----------------------------------------------------------------------------
(* The directory.                                                          *)

\* A version has one file of a kind.
Without(s, v) ==
  LET At == {i \in DOMAIN s : s[i].version = v}
  IN IF At = {} THEN s ELSE RemoveAt(s, CHOOSE i \in At : TRUE)
FilesOf(kind, v) == {f \in Range(files[kind]) : f.version = v}

\* A write makes its file the newest.
FilesAfter(kind, v, made) == [files EXCEPT ![kind] = Append(Without(@, v), [version |-> v, made |-> made])]

\* latest_artifact
Latest(kind) ==
  IF FilesOf(kind, champion[kind]) # {} THEN champion[kind]
  ELSE IF files[kind] = << >> THEN NoArtifact ELSE Last(files[kind]).version

\* What comes before the newest Keep.
Older(s) == IF Len(s) > Keep THEN SubSeq(s, 1, Len(s) - Keep) ELSE << >>

\* A mistake: the champion is pruned like any other.
MutDoomed(kind, champions) == Reverse(Older(files[kind]))

\* prune_artifacts: what it unlinks of a kind, newest first.
Doomed(kind, champions) ==
  Reverse(Without(Older(files[kind]), champions[kind]))

Writing(kind, v) ==
  \E t \in Trainers : AtStep(t, "write") /\ model[t].kind = kind /\ model[t].version[kind] = v

-----------------------------------------------------------------------------
(* load_artifact_cached: a hit answers what was loaded then; an artifact   *)
(* that cannot be read raises, which lru_cache does not keep.              *)

CacheHits(p, kind, v) == {e \in Range(loaded[p]) : e.kind = kind /\ e.version = v}
Loads(p, kind, v) ==
  IF CacheHits(p, kind, v) # {} THEN CacheHits(p, kind, v)
  ELSE {[kind |-> kind, version |-> v, made |-> f.made] : f \in {g \in FilesOf(kind, v) : g.made # Broken}}
Touched(p, entry) ==
  LET At == {i \in DOMAIN loaded[p] : loaded[p][i] = entry}
      others == IF At = {} THEN loaded[p] ELSE RemoveAt(loaded[p], CHOOSE i \in At : TRUE)
      full == Append(others, entry)
  IN IF Len(full) > CacheSize THEN Tail(full) ELSE full

Unchosen == UNCHANGED <<second, files, champion, modelRow, finished, trainings, reads, trainerDeaths,
                        promotions, named, shared, abandoned, unannounced, passedOver>>

\* The two calls of latest_artifact.
ChoosePaths(p) ==
  /\ AtStep(p, "choose")
  /\ LET path == [k \in Kinds |-> Latest(k)]
     IN model' = [model EXCEPT ![p] =
          IF path = None THEN [@ EXCEPT !.step = IF p \in Trainers THEN "prune" ELSE "loaded"]
          ELSE [@ EXCEPT !.step = "load", !.kind = "regressor", !.path = path]]
  /\ UNCHANGED <<forecast, loaded>> /\ Unchosen

\* predict_one: the regressor, then the classifier, each if it has a path.  A
\* load that fails ends the prediction, and of a training what follows it.
LoadModel(p) ==
  /\ AtStep(p, "load")
  /\ LET kind == model[p].kind
         v == model[p].path[kind]
         Proceeds(made) == [model[p] EXCEPT !.made[kind] = made, !.kind = "classifier",
                                            !.step = IF kind = "classifier" THEN "loaded" ELSE "load"]
     IN \/ /\ v = NoArtifact
           /\ model' = [model EXCEPT ![p] = Proceeds(NoArtifact)]
           /\ UNCHANGED loaded
        \/ \E entry \in Loads(p, kind, v) :
             /\ loaded' = [loaded EXCEPT ![p] = Touched(p, entry)]
             /\ model' = [model EXCEPT ![p] = Proceeds(entry.made)]
        \/ /\ v # NoArtifact /\ Loads(p, kind, v) = {}
           /\ model' = [model EXCEPT ![p] = Idle]
           /\ UNCHANGED loaded
  /\ UNCHANGED forecast /\ Unchosen

-----------------------------------------------------------------------------
(* scheduled_ml_train.                                                     *)

OnlyTraining == UNCHANGED <<champion, loaded, reads, promotions, passedOver>>

StartTraining(t) ==
  /\ AtStep(t, "idle") /\ trainings < MaxTrainings
  /\ trainings' = trainings + 1
  /\ Goes(t, "fit")
  /\ UNCHANGED <<second, files, modelRow, forecast, finished, trainerDeaths, named, shared, abandoned, unannounced>>
  /\ OnlyTraining

\* The version is the second in which the fitted model is saved.
OpenArtifact(t) ==
  /\ AtStep(t, "fit")
  /\ LET kind == model[t].kind IN
     /\ model' = [model EXCEPT ![t].step = "write", ![t].version[kind] = second]
     /\ files' = FilesAfter(kind, second, Broken)
     /\ named' = named \cup {second}
     /\ shared' = IF second \in named THEN shared \cup {second} ELSE shared
  /\ UNCHANGED <<second, modelRow, forecast, finished, trainings, trainerDeaths, abandoned, unannounced>>
  /\ OnlyTraining

\* A file that another process has unlinked meanwhile stays unlinked; one that
\* two write at once may end up as neither's.
CloseArtifact(t) ==
  /\ AtStep(t, "write")
  /\ LET kind == model[t].kind
         v == model[t].version[kind]
         rival == \E u \in Trainers \ {t} :
                    AtStep(u, "write") /\ model[u].kind = kind /\ model[u].version[kind] = v
     IN /\ finished' = finished + 1
        /\ \E made \in {finished + 1} \cup (IF rival THEN {Broken} ELSE {}) :
             files' = IF FilesOf(kind, v) = {} THEN files ELSE FilesAfter(kind, v, made)
        /\ model' = [model EXCEPT ![t] = [@ EXCEPT
             !.step = IF kind = "regressor" THEN "fit" ELSE "store",
             !.kind = "classifier", !.made[kind] = finished + 1]]
  /\ UNCHANGED <<second, modelRow, forecast, trainings, trainerDeaths, named, shared, abandoned, unannounced>>
  /\ OnlyTraining

\* The history has a single outcome class: no classifier this time.
SingleClass(t) ==
  /\ AtStep(t, "fit") /\ model[t].kind = "classifier"
  /\ Goes(t, "store")
  /\ UNCHANGED <<second, files, modelRow, forecast, finished, trainings, trainerDeaths, named, shared, abandoned, unannounced>>
  /\ OnlyTraining

\* upsert_model_version for what was trained, in one transaction.
Upserted(rows, row) == {r \in rows : r.version # row.version} \cup {row}
RowOf(t, kind) == [version |-> model[t].version[kind], kind |-> kind, made |-> model[t].made[kind]]

StoreTraining(t) ==
  /\ AtStep(t, "store")
  /\ LET withRegressor == Upserted(modelRow, RowOf(t, "regressor")) IN
     modelRow' = IF model[t].made["classifier"] = NoArtifact THEN withRegressor
                 ELSE Upserted(withRegressor, RowOf(t, "classifier"))
  /\ model' = [model EXCEPT ![t] = [@ EXCEPT !.step = "choose", !.version = None, !.made = None]]
  /\ UNCHANGED <<second, files, forecast, finished, trainings, trainerDeaths, named, shared, abandoned, unannounced>>
  /\ OnlyTraining

\* upsert_predictions: the rows bear the versions that their paths name.
StorePredictions(t) ==
  /\ AtStep(t, "loaded") /\ t \in Trainers
  /\ forecast' = {f \in forecast : f.version # model[t].path}
                   \cup {[version |-> model[t].path, made |-> model[t].made]}
  /\ model' = [model EXCEPT ![t] = [Idle EXCEPT !.step = "prune"]]
  /\ UNCHANGED <<second, files, modelRow, finished, trainings, trainerDeaths, named, shared, abandoned, unannounced>>
  /\ OnlyTraining

\* prune_artifacts reads every pointer first, then takes a kind at a time.
ReadChampions(t) ==
  /\ AtStep(t, "prune")
  /\ model' = [model EXCEPT ![t] = [Idle EXCEPT !.step = "list", !.champions = champion]]
  /\ UNCHANGED <<second, files, modelRow, forecast, finished, trainings, trainerDeaths, named, shared, abandoned, unannounced>>
  /\ OnlyTraining

ListDoomed(t) ==
  /\ AtStep(t, "list")
  /\ LET kind == model[t].kind
         doomed == Doomed(kind, model[t].champions)
     IN /\ model' = [model EXCEPT ![t].step = "unlink", ![t].doomed = doomed]
        /\ abandoned' = abandoned \cup
             {<<kind, v>> : v \in {f.version : f \in {g \in Range(doomed) : Writing(kind, g.version)}}}
  /\ UNCHANGED <<second, files, modelRow, forecast, finished, trainings, trainerDeaths, named, shared, unannounced>>
  /\ OnlyTraining

\* A file that another prune has removed raises, and ends this one.
Unlink(t) ==
  /\ AtStep(t, "unlink") /\ model[t].doomed # << >>
  /\ LET kind == model[t].kind
         v == Head(model[t].doomed).version
     IN /\ files' = [files EXCEPT ![kind] = Without(@, v)]
        /\ abandoned' = IF Writing(kind, v) THEN abandoned \cup {<<kind, v>>} ELSE abandoned
        /\ model' = [model EXCEPT ![t] = IF FilesOf(kind, v) = {} THEN Idle
                                         ELSE [@ EXCEPT !.doomed = Tail(model[t].doomed)]]
  /\ UNCHANGED <<second, modelRow, forecast, finished, trainings, trainerDeaths, named, shared, unannounced>>
  /\ OnlyTraining

KindPruned(t) ==
  /\ AtStep(t, "unlink") /\ model[t].doomed = << >>
  /\ model' = [model EXCEPT ![t] = IF @.kind = "classifier" THEN Idle
                                   ELSE [@ EXCEPT !.step = "list", !.kind = "classifier"]]
  /\ UNCHANGED <<second, files, modelRow, forecast, finished, trainings, trainerDeaths, named, shared, abandoned, unannounced>>
  /\ OnlyTraining

\* The run ends before its time: an exception, or the process stops and its
\* cache with it.  A file it was writing stays as it is.
TrainingStops(t) ==
  /\ t \in Trainers /\ ~ AtStep(t, "idle") /\ trainerDeaths < MaxTrainerDeaths
  /\ trainerDeaths' = trainerDeaths + 1
  /\ abandoned' = IF AtStep(t, "write")
                  THEN abandoned \cup {<<model[t].kind, model[t].version[model[t].kind]>>} ELSE abandoned
  /\ unannounced' = IF model[t].version = None THEN unannounced
                    ELSE unannounced \cup (Range(model[t].made) \ {NoArtifact})
  /\ model' = [model EXCEPT ![t] = Idle]
  /\ loaded' \in {loaded, [loaded EXCEPT ![t] = << >>]}
  /\ UNCHANGED <<second, files, champion, modelRow, forecast, finished, trainings, reads, promotions, named, shared, passedOver>>

-----------------------------------------------------------------------------
\* recommend_bonds, recommend_for_issuer
Recommend(r) ==
  /\ AtStep(r, "idle") /\ reads < MaxReads
  /\ reads' = reads + 1
  /\ Goes(r, "choose")
  /\ UNCHANGED <<second, files, champion, modelRow, forecast, loaded, finished, trainings, trainerDeaths,
                 promotions, named, shared, abandoned, unannounced, passedOver>>

Recommended(r) ==
  /\ AtStep(r, "loaded") /\ r \in Readers
  /\ model' = [model EXCEPT ![r] = Idle]
  /\ UNCHANGED <<forecast, loaded>> /\ Unchosen

\* promote_champion, for a file that is there.
Promote(kind, v) ==
  /\ promotions < MaxPromotions
  /\ \E f \in FilesOf(kind, v) : f.made # Broken
  /\ promotions' = promotions + 1
  /\ champion' = [champion EXCEPT ![kind] = v]
  /\ passedOver' = IF \E t \in Trainers : model[t].step \in {"list", "unlink"}
                   THEN passedOver \cup {<<kind, v>>} ELSE passedOver
  /\ UNCHANGED <<second, files, modelRow, forecast, loaded, model, finished, trainings, reads,
                 trainerDeaths, named, shared, abandoned, unannounced>>

\* Nobody looks at the clock but a training that is about to name a version.
NextSecond ==
  /\ second < LastSecond
  /\ \E t \in Trainers : AtStep(t, "fit")
  /\ second' = second + 1
  /\ UNCHANGED <<files, champion, modelRow, forecast, loaded, model, finished, trainings, reads,
                 trainerDeaths, promotions, named, shared, abandoned, unannounced, passedOver>>

\* Some of what may happen once may have happened before; and a training may
\* have ended, which had no classes to tell.
LifecycleInitWith(trained, readsDone, deathsDone, promotionsDone) ==
  /\ second = 1 /\ champion = None /\ forecast = {}
  /\ files = [k \in Kinds |-> IF trained /\ k = "regressor" THEN <<[version |-> 1, made |-> 1]>> ELSE << >>]
  /\ modelRow = IF trained THEN {[version |-> 1, kind |-> "regressor", made |-> 1]} ELSE {}
  /\ loaded = [p \in Processes |-> << >>] /\ model = [p \in Processes |-> Idle]
  /\ finished = (IF trained THEN 1 ELSE 0) /\ trainings = (IF trained THEN 1 ELSE 0)
  /\ reads = readsDone /\ trainerDeaths = deathsDone /\ promotions = promotionsDone
  /\ named = (IF trained THEN {1} ELSE {})
  /\ shared = {} /\ abandoned = {} /\ unannounced = {} /\ passedOver = {}

LifecycleInit == LifecycleInitWith(FALSE, 0, 0, 0)

TrainerStep(t) ==
  \/ StartTraining(t) \/ OpenArtifact(t) \/ CloseArtifact(t) \/ SingleClass(t) \/ StoreTraining(t)
  \/ StorePredictions(t) \/ ReadChampions(t) \/ ListDoomed(t) \/ Unlink(t) \/ KindPruned(t)
  \/ TrainingStops(t)

LifecycleNext ==
  \/ NextSecond
  \/ \E t \in Trainers : TrainerStep(t)
  \/ \E r \in Readers : Recommend(r) \/ Recommended(r)
  \/ \E p \in Processes : ChoosePaths(p) \/ LoadModel(p)
  \/ \E kind \in Kinds, v \in 1 .. LastSecond : Promote(kind, v)

LifecycleSpec == LifecycleInit /\ [][LifecycleNext]_modelVars

-----------------------------------------------------------------------------
\* Half a model is on disk only while it is written, after its writer died,
\* or when two wrote one version at once.
HalfModelsExplained ==
  \A k \in Kinds : \A f \in Range(files[k]) :
    f.made = Broken => Writing(k, f.version) \/ <<k, f.version>> \in abandoned \/ f.version \in shared

\* A kind that has once been trained keeps a model whatever is pruned, unless
\* a file was pruned while it was written, its writer died or versions met; and
\* the champion's file stays unless it was promoted under a prune's nose.
PruningSpares ==
  /\ \A row \in modelRow : files[row.kind] = << >> =>
       shared # {} \/ \E v \in 1 .. LastSecond : <<row.kind, v>> \in abandoned
  /\ \A k \in Kinds : champion[k] # NoArtifact =>
       FilesOf(k, champion[k]) # {} \/ <<k, champion[k]>> \in passedOver

\* A process serves for a path what the file holds, long after the file may
\* have been pruned, except where a version was written twice.
CacheIsTrue ==
  \A p \in Processes : \A e \in Range(loaded[p]) :
    e.version \notin shared => \A f \in FilesOf(e.kind, e.version) : f.made = e.made

\* A prediction bears the versions of the models that made it.
ForecastsNamed ==
  \A f \in forecast : \A k \in Kinds :
    f.version[k] # NoArtifact /\ f.version[k] \notin shared =>
      \A row \in modelRow : row.version = f.version[k] /\ row.kind = k => row.made = f.made[k]

\* Once every run has ended, the newest row of model_versions, which ml-status
\* shows, is the model that is served, unless a champion was chosen, versions
\* met, or a run ended early.
StatusTellsServed ==
  (\A t \in Trainers : model[t].version = None) /\ shared = {} /\ abandoned = {} /\ unannounced = {} =>
    \A k \in Kinds : champion[k] = NoArtifact =>
      LET rows == {r \in modelRow : r.kind = k}
      IN IF rows = {} THEN Latest(k) = NoArtifact
         ELSE \A r \in rows : (\A s \in rows : s.made <= r.made) => r.version = Latest(k)

\* Training, promotion, pruning and serving agree on one directory.
ModelsSound == HalfModelsExplained /\ PruningSpares /\ CacheIsTrue /\ ForecastsNamed /\ StatusTellsServed
=============================================================================
