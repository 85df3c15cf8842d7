--------------------------- MODULE ModelRegistry ---------------------------
(***************************************************************************)
(* Retraining and the model registry (analytics/ml/train.py, registry.py): *)
(* every cycle trains both models.  Saving one writes a file named by its  *)
(* version, then commits a row which may become the champion; the process  *)
(* may die, and the commit fail, between the two.                          *)
(***************************************************************************)
EXTENDS Basics, Functions

CONSTANTS
    ModelNames,      \* in the order in which a cycle trains them
    LabelSeries,     \* data sets, as the labels of their examples in time order
    MinTrainingRows, \* ml_min_training_rows
    Aucs,            \* what an evaluation may measure
    MaxTrainings, MaxDeaths, MaxFilesLost   \* bounds

(* Both classes are in the slice that an evaluation measures, so there     *)
(* always is a measure.                                                    *)
ASSUME RegistryValues ==
    /\ ModelNames \in Seq(ToSet(ModelNames))
    /\ Aucs \subseteq Int
    /\ None \notin Int
    /\ None \notin [version : Nat, auc : Int, active : BOOLEAN, trained : Nat]

VARIABLES
    models,     \* ml_models: name -> rows [version, auc, active, trained]
    artifacts,  \* the files: name -> version -> the training it holds
    retraining, \* the running cycle: names to go, and the save under way
    trainings,  \* trainings so far; a training is named by its number
    deaths, filesLost

registryVars == <<models, artifacts, retraining, trainings, deaths, filesLost>>

NoCycle == [todo |-> <<>>, saving |-> None]

RegistryInit ==
    /\ models = [name \in ToSet(ModelNames) |-> <<>>]
    /\ artifacts = [name \in ToSet(ModelNames) |-> <<>>]
    /\ retraining = NoCycle
    /\ trainings = 0 /\ deaths = 0 /\ filesLost = 0

-----------------------------------------------------------------------------
(* Train on the first 70% in time, calibrate on the next 15%, evaluate on  *)
(* the rest: each slice needs examples of both classes.                    *)
Slices(labels) ==
    LET trainEnd == (70 * Len(labels)) \div 100
        calEnd   == (85 * Len(labels)) \div 100
    IN  {SubSeq(labels, 1, trainEnd), SubSeq(labels, trainEnd + 1, calEnd),
         SubSeq(labels, calEnd + 1, Len(labels))}
Trainable(labels) ==
    /\ Len(labels) >= MinTrainingRows
    /\ \A slice \in Slices(labels) : Cardinality(ToSet(slice)) = 2

(* Faulty variant: the version after the one that serves.                  *)
VersionAfterActive(rows) ==
    LET active == SelectSeq(rows, LAMBDA r : r.active)
    IN  1 + (IF active = <<>> THEN 0 ELSE active[1].version)
NextVersion(rows) == 1 + (IF rows = <<>> THEN 0 ELSE Max({rows[i].version : i \in DOMAIN rows}))

Champion(rows) ==
    LET active == {i \in DOMAIN rows : rows[i].active}
    IN  IF active = {} THEN None ELSE rows[Min(active)]
Promote(rows, auc) ==
    \/ Champion(rows) = None
    \/ /\ auc # None
       /\ Champion(rows).auc = None \/ auc > Champion(rows).auc

CycleBegins ==
    /\ retraining = NoCycle
    /\ trainings < MaxTrainings
    /\ retraining' = [NoCycle EXCEPT !.todo = ModelNames]
    /\ UNCHANGED <<models, artifacts, trainings, deaths, filesLost>>

RetrainSkipped(labels) ==
    /\ retraining.todo # <<>> /\ retraining.saving = None
    /\ ~Trainable(labels)
    /\ retraining' = [retraining EXCEPT !.todo = Tail(@)]
    /\ UNCHANGED <<models, artifacts, trainings, deaths, filesLost>>

(* The file is complete at once: it is written under another name and then *)
(* renamed.  A file already there is replaced.                             *)
Retrain(labels, auc) ==
    LET name == Head(retraining.todo)
        files == artifacts[name]
        version == NextVersion(models[name])
    IN  /\ retraining.todo # <<>> /\ retraining.saving = None
        /\ Trainable(labels)
        /\ trainings < MaxTrainings
        /\ trainings' = trainings + 1
        /\ artifacts' = [artifacts EXCEPT ![name] =
                [v \in DOMAIN files \cup {version} |->
                    IF v = version THEN trainings' ELSE files[v]]]
        /\ retraining' = [retraining EXCEPT
                !.saving = [version |-> version, auc |-> auc, trained |-> trainings']]
        /\ UNCHANGED <<models, deaths, filesLost>>

SaveCommits ==
    LET name == Head(retraining.todo)
        rows == models[name]
        new  == retraining.saving
        promoted == Promote(rows, new.auc)
        kept == IF promoted THEN [i \in DOMAIN rows |-> [rows[i] EXCEPT !.active = FALSE]]
                            ELSE rows
    IN  /\ retraining.todo # <<>> /\ new # None
        /\ models' = [models EXCEPT ![name] =
                Append(kept, [version |-> new.version, auc |-> new.auc,
                              trained |-> new.trained, active |-> promoted])]
        /\ retraining' = [todo |-> Tail(retraining.todo), saving |-> None]
        /\ UNCHANGED <<artifacts, trainings, deaths, filesLost>>

(* The worker dies or the database fails: the cycle is given up, the other *)
(* model of the cycle is not trained, a file already written stays.        *)
CycleFails ==
    /\ retraining # NoCycle
    /\ deaths < MaxDeaths
    /\ deaths' = deaths + 1
    /\ retraining' = NoCycle
    /\ UNCHANGED <<models, artifacts, trainings, filesLost>>

FileLost(name, version) ==
    /\ version \in DOMAIN artifacts[name]
    /\ filesLost < MaxFilesLost
    /\ filesLost' = filesLost + 1
    /\ artifacts' = [artifacts EXCEPT ![name] = Restrict(@, DOMAIN @ \ {version})]
    /\ UNCHANGED <<models, retraining, trainings, deaths>>

RegistryNext ==
    \/ CycleBegins
    \/ \E labels \in LabelSeries : RetrainSkipped(labels)
    \/ \E labels \in LabelSeries, auc \in Aucs : Retrain(labels, auc)
    \/ SaveCommits
    \/ CycleFails
    \/ \E name \in ToSet(ModelNames), version \in 1..MaxTrainings : FileLost(name, version)

-----------------------------------------------------------------------------
(* load_active: what a prediction is computed with, or no model.           *)
LoadActive(name) ==
    LET row == Champion(models[name])
    IN  IF row = None \/ row.version \notin DOMAIN artifacts[name] THEN None
        ELSE [auc |-> row.auc, trained |-> artifacts[name][row.version]]

(* No file is ever replaced by another training's, so whatever dies        *)
(* between a file and its row, a model that serves is the very training    *)
(* its row was evaluated on; and no training on record was evaluated       *)
(* better (registry.py: "append-only; versions only grow", "the old        *)
(* champion keeps serving").                                               *)
ChampionServes ==
    \A name \in ToSet(ModelNames) :
        LET rows == models[name] IN
        /\ \A i \in DOMAIN rows :
              rows[i].version \in DOMAIN artifacts[name]
              => artifacts[name][rows[i].version] = rows[i].trained
        /\ rows # <<>> => Cardinality({i \in DOMAIN rows : rows[i].active}) = 1
        /\ LoadActive(name) # None =>
              \A i \in DOMAIN rows : rows[i].auc <= LoadActive(name).auc
=============================================================================
