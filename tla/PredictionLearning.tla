------------------------- MODULE PredictionLearning -------------------------
(***************************************************************************)
(* Predictions of the trade_profit model and what becomes of them: one is  *)
(* recorded when a leader's buy is evaluated (ml/predict.py), graded when  *)
(* the leader's position has closed (evaluation/prediction_eval.py), and   *)
(* the same buy is a training example of the next model (ml/dataset.py).   *)
(***************************************************************************)
EXTENDS Basics

CONSTANTS
    TradedPairs,  \* (wallet, token) pairs
    Horizon,      \* ml_label_horizon_hours, in ticks
    GradeBatch,   \* evaluation batch of one cycle
    MaxMlNow, MaxCloses,   \* bounds
    MaxLearnt     \* bound: predictions and metrics cycles together

ASSUME HorizonIsTime == Horizon \in Nat
ASSUME NoneIsNoTime == None \notin Nat

VARIABLES
    mlNow,
    closes,      \* closed positions, in the order in which they were recorded
    statsTimes,  \* the timestamps of the wallets' statistics that are committed
    metricsRun,  \* the timestamp of the metrics cycle at work, or None
    predictions, \* [pair, bought, created, features, running]
    graded       \* prediction_outcomes: prediction -> label

snapshotVars == <<statsTimes, metricsRun>>
learningVars == <<mlNow, closes, snapshotVars, predictions, graded>>

LearningInit == /\ mlNow = 0
                /\ closes = <<>>
                /\ statsTimes = {}
                /\ metricsRun = None
                /\ predictions = <<>>
                /\ graded = <<>>

-----------------------------------------------------------------------------
Learnt == Len(predictions) + Cardinality(statsTimes) + (IF metricsRun = None THEN 0 ELSE 1)

(* The row of wallet_stats: the statistics committed last.                 *)
LatestStats == IF statsTimes = {} THEN None ELSE Max(statsTimes)

(* Snapshots stamped at or before a moment.                                *)
StatsUpTo(t) == {s \in statsTimes : s <= t}

(* Faulty variant: the latest statistics there are.                        *)
AsOfLatest(t) == LatestStats
AsOf(t) == IF StatsUpTo(t) = {} THEN None ELSE Max(StatsUpTo(t))

(* The label of a buy: whether the first episode that closes after it, and *)
(* within the horizon, made a profit.  None: no example, or not gradable.  *)
ClosesWithin(pair, t) ==
    {i \in DOMAIN closes :
        closes[i].pair = pair /\ t < closes[i].at /\ closes[i].at <= t + Horizon}
LabelAfter(pair, t) ==
    IF ClosesWithin(pair, t) = {} THEN None ELSE closes[Min(ClosesWithin(pair, t))].profit

(* build_trade_profit_dataset: one example per buy that has a label.       *)
TrainingExample(p) ==
    [features |-> AsOf(p.bought), label |-> LabelAfter(p.pair, p.bought)]

(* A leader that has statistics has its buys scored.  The features are the *)
(* row of wallet_stats at that moment; the cycle that is at work on newer  *)
(* ones is noted for the property.                                         *)
Predict(pair, lag) ==
    /\ Learnt < MaxLearnt
    /\ LatestStats # None
    /\ mlNow >= lag
    /\ predictions' = Append(predictions,
            [pair |-> pair, bought |-> mlNow - lag, created |-> mlNow,
             features |-> LatestStats, running |-> metricsRun])
    /\ UNCHANGED <<mlNow, closes, snapshotVars, graded>>

(* Predictions not graded yet.                                             *)
Ungraded == DOMAIN predictions \ DOMAIN graded

(* Faulty variant: the newest first.                                       *)
NewestBatch(waiting) == {i \in waiting : Cardinality({j \in waiting : i <= j}) <= GradeBatch}
OldestBatch(waiting) == {i \in waiting : Cardinality({j \in waiting : j <= i}) <= GradeBatch}

Gradable(i) == LabelAfter(predictions[i].pair, predictions[i].created) # None

(* resolve_outcomes: of the oldest ungraded predictions, a batch is looked *)
(* at; the ones that cannot be graded stay, and are looked at again.       *)
GradePredictions ==
    LET done == {i \in OldestBatch(Ungraded) : Gradable(i)} IN
    /\ done # {}
    /\ graded' = [i \in DOMAIN graded \cup done |->
                    IF i \in done THEN LabelAfter(predictions[i].pair, predictions[i].created)
                                  ELSE graded[i]]
    /\ UNCHANGED <<mlNow, closes, snapshotVars, predictions>>

-----------------------------------------------------------------------------
(* A position closes on chain at `at` and is recorded now, at the latest a *)
(* tick later; a pair's episodes come one after the other.                 *)
PositionCloses(pair, at, profit) ==
    /\ Len(closes) < MaxCloses
    /\ at \in {mlNow - 1, mlNow}
    /\ \A i \in DOMAIN closes : closes[i].pair = pair => closes[i].at < at
    /\ closes' = Append(closes, [pair |-> pair, at |-> at, profit |-> profit])
    /\ UNCHANGED <<mlNow, snapshotVars, predictions, graded>>

(* A metrics cycle stamps its statistics when it starts, and they are seen *)
(* when it commits, if it does; one cycle follows the other.               *)
SnapshotStarts ==
    /\ metricsRun = None
    /\ Learnt < MaxLearnt
    /\ metricsRun' = mlNow
    /\ UNCHANGED <<mlNow, closes, statsTimes, predictions, graded>>

SnapshotCommits ==
    /\ metricsRun # None
    /\ statsTimes' = statsTimes \cup {metricsRun}
    /\ metricsRun' = None
    /\ UNCHANGED <<mlNow, closes, predictions, graded>>

SnapshotFails ==
    /\ metricsRun # None
    /\ metricsRun' = None
    /\ UNCHANGED <<mlNow, closes, statsTimes, predictions, graded>>

LearningTimePasses ==
    /\ mlNow < MaxMlNow
    /\ mlNow' = mlNow + 1
    /\ UNCHANGED <<closes, snapshotVars, predictions, graded>>

LearningNext ==
    \/ \E pair \in TradedPairs, lag \in {0, 1} : Predict(pair, lag)
    \/ GradePredictions
    \/ \E pair \in TradedPairs, at \in 0..MaxMlNow, profit \in BOOLEAN :
            PositionCloses(pair, at, profit)
    \/ SnapshotStarts \/ SnapshotCommits \/ SnapshotFails
    \/ LearningTimePasses

(* The grading job runs again and again.                                   *)
LearningFairness == WF_learningVars(GradePredictions)

-----------------------------------------------------------------------------
(* The model is graded by what it is trained on: where a prediction was    *)
(* made before anything happened after the buy, its grade is the label of  *)
(* its training example, now and at any later time.  Its statistics are    *)
(* the example's as well, but for the metrics cycle that was at work when  *)
(* they were read: once that commits, its older timestamp puts it in the   *)
(* example.  Training looks neither ahead nor at another episode           *)
(* (prediction_eval.py: "Match with the SAME rule the training labels      *)
(* use"; dataset.py: "wallet features come from the latest [...] row at or *)
(* before the buy").                                                       *)
GradedAsTrained ==
    \A i \in DOMAIN predictions :
        LET p == predictions[i] IN
        /\ /\ i \in DOMAIN graded
           /\ TrainingExample(p).label # None
           /\ \A c \in ToSet(closes) : c.pair = p.pair => c.at \notin p.bought..p.created
           => graded[i] = TrainingExample(p).label
        /\ statsTimes \cap p.bought..p.created = {}
           => TrainingExample(p).features
                = IF p.running \in statsTimes THEN p.running ELSE p.features

(* A prediction whose outcome is known is graded in the end, as long as    *)
(* fewer than a batch of older ones wait without an outcome.  That many,   *)
(* and nothing younger is ever graded again (prediction_eval.py: "a        *)
(* resolvable prediction is never skipped").                               *)
Unresolvable(i) == Cardinality({j \in 1..i : j \notin DOMAIN graded /\ ~Gradable(j)})
KnownOutcomesGraded ==
    \A i \in 1..MaxLearnt :
        /\ i \in DOMAIN predictions
        /\ Gradable(i)
        /\ Unresolvable(i) < GradeBatch
        ~> i \in DOMAIN graded
=============================================================================
