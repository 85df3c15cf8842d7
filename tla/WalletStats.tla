---------------------------- MODULE WalletStats ----------------------------
(***************************************************************************)
(* What is known of a wallet (analytics/wallet_metrics.py, confidence.py,  *)
(* strategy.py): two jobs of one process keep the same row of              *)
(* wallet_stats, one the metrics and the confidence score, the other the   *)
(* style.  Each reads first and commits later, in a session of its own.    *)
(***************************************************************************)
EXTENDS Basics

CONSTANTS
    Traders,      \* wallets; the order of their ids
    Records,      \* histories the wallets may have: [positions, recorded], by trader
    StyleMin,     \* MIN_CLOSED_POSITIONS of a style
    MinWallets, MaxClusters,   \* strategy_min_wallets, strategy_clusters_k
    CentreStyles,              \* the styles a cluster's centre may have
    AutoFollowBar,             \* copy_min_wallet_confidence, in hundredths
    Week, Month, StatsDay,     \* in ticks
    MaxStatsNow                \* bound on time

ASSUME RecordsTyped ==
    /\ None \notin Int
    /\ \A p \in DOMAIN Records :
        /\ Records[p].recorded \in [Traders -> Nat]
        /\ \A w \in Traders :
            LET ps == Records[p].positions[w] IN
            /\ ps \in Seq(ToSet(ps))
            /\ \A i \in DOMAIN ps : ps[i].bought \in Nat \ {0} /\ ps[i].pnl \in Int
            /\ Records[p].recorded[w] <= Len(ps)

Minute == 60
Hour == 3600

VARIABLES
    statsNow,
    past,        \* which of the Records is theirs
    recorded,    \* trader -> how many of them the writer has recorded
    stats,       \* wallet_stats: trader -> row
    statsHistory,\* wallet_stats_snapshots: <<trader, time>> -> row
    styleRows,   \* strategy_stats: the rows of the last cycle
    metricsJob,  \* [at, existing, todo, done], or None
    styleJob,    \* [at, rows], or None
    labelled     \* history: the style that was last committed for a trader

statsVars == <<statsNow, past, recorded, stats, statsHistory, styleRows,
               metricsJob, styleJob, labelled>>

StatsInit ==
    /\ statsNow = 0
    /\ past \in DOMAIN Records
    /\ recorded = Records[past].recorded
    /\ stats = <<>>
    /\ statsHistory = <<>> /\ styleRows = {}
    /\ metricsJob = None /\ styleJob = None
    /\ labelled = [w \in Traders |-> None]

-----------------------------------------------------------------------------
(* Metrics of a list of positions.                                         *)
(* [token, opened, closed, bought, pnl, sells, hold, delay]                *)
Record(w) == Records[past].positions[w]
Positions(w) == SubSeq(Record(w), 1, recorded[w])
Closed(ps) == At(ps, {i \in DOMAIN ps : ps[i].closed # None})
Field(ps, f(_)) == [i \in DOMAIN ps |-> f(ps[i])]
MeanOrNone(s) == IF s = <<>> THEN None ELSE Mean(s)

(* Fall from the highest point of the realized profit, and the share of    *)
(* that point, in percent; none is known before there has been a profit.   *)
Drawdown(closed) ==
    LET ordered == SortSeq(closed, LAMBDA a, b : a.closed < b.closed)
        step(p, acc) ==
            LET curve == acc.curve + p.pnl
                peak  == Max({acc.peak, curve})
                fall  == peak - curve
            IN  [curve |-> curve, peak |-> peak, sol |-> Max({acc.sol, fall}),
                 pct |-> IF peak <= 0 THEN acc.pct
                         ELSE Max({OrZero(acc.pct), (100 * fall) \div peak})]
    IN  FoldLeft(LAMBDA acc, p : step(p, acc),
                 [curve |-> 0, peak |-> 0, sol |-> 0, pct |-> None], ordered)

(* A sell belongs to the earliest episode of its token whose window holds  *)
(* it, so that one on the boundary of two counts once.                     *)
OwnSells(closed, i) ==
    LET Holds(j, t) == closed[j].opened <= t /\ t <= closed[j].closed
        sells == FlattenSeq([j \in DOMAIN closed |->
                    IF closed[j].token = closed[i].token THEN closed[j].sells ELSE <<>>])
    IN  SelectSeq(sells, LAMBDA t :
            /\ Holds(i, t)
            /\ \A j \in DOMAIN closed :
                  /\ closed[j].token = closed[i].token
                  /\ closed[j].opened < closed[i].opened
                  => ~Holds(j, t))
PartialExits(closed) ==
    Cardinality({i \in DOMAIN closed : Len(OwnSells(closed, i)) > 1})

-----------------------------------------------------------------------------
(* score_wallet: five components in ten-thousandths, then the whole is     *)
(* shrunk towards 30 by n/(n+10); the score is in hundredths.              *)
Undefeated == 9000   \* profit without any loss: short of certainty

WinRateShrunk(m) == Clamp(Rounded(10000 * (10 * m.wins + 35), 7 * (m.closed + 10)), 0, 10000)
Profitability(m) == IF m.loss > 0 THEN Rounded(10000 * m.profit, m.profit + m.loss)
                    ELSE IF m.wins > 0 THEN Undefeated ELSE 5000
Consistency(m)   == IF m.roiStd # None /\ m.closed >= 3
                      THEN Rounded(10000 * 100, 100 + m.roiStd) ELSE 5000
Recency(m)       == IF m.pnlMonth = None THEN 5000
                    ELSE 5000 + Rounded(5000 * m.pnlMonth, Abs(m.pnlMonth) + 1)
Experience(m)    == Rounded(10000 * m.closed, m.closed + 20)

RawScore(m) == 35 * WinRateShrunk(m) + 30 * Profitability(m) + 15 * Consistency(m)
                  + 10 * Recency(m) + 10 * Experience(m)

(* Faulty variant: no shrinkage towards the prior.                         *)
ScoreUnshrunk(m) == Clamp(RawScore(m) \div 100, 0, 10000)
ScoreWallet(m) ==
    Clamp(3000 + ((RawScore(m) \div 100 - 3000) * m.closed) \div (m.closed + 10), 0, 10000)

(* _compute_wallet_metrics, all but the score.  A pnl sum is unknown, not  *)
(* zero, as long as nothing has closed.                                    *)
Metrics(ps, at) ==
    LET closed == Closed(ps)
        rois == Field(closed, LAMBDA p : (100 * p.pnl) \div p.bought)
        pnl == Field(closed, LAMBDA p : p.pnl)
        PnlSince(t) == IF closed = <<>> THEN None
                       ELSE SumOver(pnl, {i \in DOMAIN closed : closed[i].closed >= t})
        times == UNION {{ps[i].opened} \cup ToSet(ps[i].sells) : i \in DOMAIN ps}
        trades == Len(ps) + Total(Field(ps, LAMBDA p : Len(p.sells)))
    IN  [positions |-> Len(ps),
         closed    |-> Len(closed),
         wins      |-> Cardinality({i \in DOMAIN closed : pnl[i] > 0}),
         profit    |-> Total(Field(closed, LAMBDA p : IF p.pnl > 0 THEN p.pnl ELSE 0)),
         loss      |-> Total(Field(closed, LAMBDA p : IF p.pnl < 0 THEN -p.pnl ELSE 0)),
         avgRoi    |-> MeanOrNone(rois),
         medianRoi |-> IF rois = <<>> THEN None ELSE Median(rois),
         roiStd    |-> IF Len(rois) < 2 THEN None ELSE Deviation(rois),
         drawdown  |-> IF closed = <<>> THEN None ELSE Drawdown(closed).pct,
         pnlWeek   |-> PnlSince(at - Week),
         pnlMonth  |-> PnlSince(at - Month),
         hold      |-> MeanOrNone(Field(closed, LAMBDA p : p.hold)),
         size      |-> MeanOrNone(Field(ps, LAMBDA p : p.bought)),
         delay     |-> MeanOrNone(Field(ps, LAMBDA p : Max({p.delay, 0}))),
         perDay    |-> IF times = {} THEN None
                       ELSE (trades * StatsDay) \div Max({Max(times) - Min(times), StatsDay}),
         partial   |-> IF closed = <<>> THEN None
                       ELSE (100 * PartialExits(closed)) \div Len(closed)]

-----------------------------------------------------------------------------
Unlabelled == [style |-> None, styleConfidence |-> None]

Style(row) == [style |-> row.style, styleConfidence |-> row.styleConfidence]

(* A row: the columns of the metrics job, and those of the style job.      *)
StatsRow(computed, label) ==
    [metrics |-> computed.metrics, score |-> computed.score, at |-> computed.at,
     style |-> label.style, styleConfidence |-> label.styleConfidence]

PositionRecorded(w) ==
    /\ recorded[w] < Len(Record(w))
    /\ recorded' = [recorded EXCEPT ![w] = @ + 1]
    /\ UNCHANGED <<statsNow, past, stats, statsHistory, styleRows,
                   metricsJob, styleJob, labelled>>

StatsTimePasses ==
    /\ statsNow < MaxStatsNow
    /\ statsNow' = statsNow + 1
    /\ UNCHANGED <<past, recorded, stats, statsHistory, styleRows,
                   metricsJob, styleJob, labelled>>

(* run_once of the metrics: the rows there are, then wallet by wallet, of  *)
(* those that have positions.  wallet_batch is more than the Traders.      *)
MetricsCycle ==
    LET targets == {w \in Traders : recorded[w] > 0} IN
    /\ metricsJob = None
    /\ targets # {}
    /\ metricsJob' = [at |-> statsNow, existing |-> stats, todo |-> targets, done |-> <<>>]
    /\ UNCHANGED <<statsNow, past, recorded, stats, statsHistory, styleRows,
                   styleJob, labelled>>

ComputeMetrics(w) ==
    LET m == Metrics(Positions(w), metricsJob.at)
        done == metricsJob.done
        computed == [metrics |-> m, score |-> ScoreWallet(m), at |-> metricsJob.at]
    IN
    /\ metricsJob # None /\ w \in metricsJob.todo
    /\ metricsJob' =
          [at |-> metricsJob.at, existing |-> metricsJob.existing, todo |-> metricsJob.todo \ {w},
           done |-> [v \in DOMAIN done \cup {w} |-> IF v = w THEN computed ELSE done[v]]]
    /\ UNCHANGED <<statsNow, past, recorded, stats, statsHistory, styleRows,
                   styleJob, labelled>>

(* The whole row, with the style as it was read: what the snapshot keeps.  *)
(* Faulty variant when the row itself is written so.                       *)
WriteWholeRow(w) ==
    StatsRow(metricsJob.done[w], IF w \in DOMAIN metricsJob.existing
                                   THEN Style(metricsJob.existing[w]) ELSE Unlabelled)

(* Only the metric columns of the row are written, a new row has no style. *)
WriteMetrics(w) ==
    StatsRow(metricsJob.done[w], IF w \in DOMAIN stats THEN Style(stats[w]) ELSE Unlabelled)

(* The snapshot has the style that was read.  One that is there stays.     *)
MetricsCommit ==
    /\ metricsJob # None /\ metricsJob.todo = {}
    /\ stats' = [w \in DOMAIN stats \cup DOMAIN metricsJob.done |->
                    IF w \in DOMAIN metricsJob.done THEN WriteMetrics(w) ELSE stats[w]]
    /\ statsHistory' = statsHistory @@
            [key \in (DOMAIN metricsJob.done) \X {metricsJob.at} |-> WriteWholeRow(key[1])]
    /\ metricsJob' = None
    /\ UNCHANGED <<statsNow, past, recorded, styleRows, styleJob, labelled>>

-----------------------------------------------------------------------------
(* The naming rules, on seconds and percents.                              *)
StyleFor(hold, delay, partial) ==
    CASE delay < 2 * Minute -> "sniper"
      [] delay >= 2 * Minute /\ hold < 15 * Minute -> "scalper"
      [] delay >= 2 * Minute /\ hold >= 15 * Minute /\ hold < 4 * Hour /\ delay < Hour
            -> "momentum"
      [] OTHER -> IF partial > 50 THEN "accumulator"
                  ELSE IF hold < 7 * 24 * Hour THEN "swing" ELSE "holder"

(* A feature that a wallet lacks is the median of the others', or zero.    *)
(* (The code takes the median of logarithms.)                              *)
Imputed(rows, w, field) ==
    LET known == {v \in DOMAIN rows : rows[v][field] # None}
        values == [i \in 1..Cardinality(known) |->
                     rows[SetToSortSeq(known, LAMBDA a, b : a < b)[i]][field]]
    IN  IF rows[w][field] # None THEN rows[w][field]
        ELSE IF known = {} THEN 0 ELSE Median(values)

RuleLabel(rows, w) ==
    [style |-> StyleFor(Imputed(rows, w, "hold"), Imputed(rows, w, "delay"),
                        Imputed(rows, w, "partial")),
     styleConfidence |-> IF rows[w].hold = None /\ rows[w].delay = None
                           THEN "imputed" ELSE "rule"]

(* With enough wallets they are clustered, and a wallet has the style of   *)
(* its cluster's centre: any assignment to at most that many clusters.     *)
Clusters(n) == Min({n, Max({2, Min({MaxClusters, n \div 10})})})
Labels(rows) ==
    LET wallets == DOMAIN rows IN
    IF Cardinality(wallets) < MinWallets
      THEN {[w \in wallets |-> RuleLabel(rows, w)]}
      ELSE {[w \in wallets |-> [style |-> f[w], styleConfidence |-> "distance"]] :
              f \in {g \in [wallets -> CentreStyles] :
                       Cardinality({g[w] : w \in wallets}) <= Clusters(Cardinality(wallets))}}

(* _style_stats: per style, the wallets and the positions closed lately.   *)
StyleStats(labels, at) ==
    {LET members == {w \in DOMAIN labels : labels[w].style = style}
         closed == FlattenSeq([i \in 1..Cardinality(members) |->
                      LET w == SetToSortSeq(members, LAMBDA a, b : a < b)[i]
                      IN  SelectSeq(Closed(Positions(w)), LAMBDA p : p.closed >= at - Month)])
     IN  [style |-> style, at |-> at, wallets |-> Cardinality(members), closed |-> Len(closed),
          winRate |-> IF closed = <<>> THEN None
                      ELSE (100 * Len(SelectSeq(closed, LAMBDA p : p.pnl > 0))) \div Len(closed),
          avgRoi |-> MeanOrNone(Field(closed, LAMBDA p : (100 * p.pnl) \div p.bought)),
          pnl |-> IF closed = <<>> THEN None ELSE Total(Field(closed, LAMBDA p : p.pnl))]
     : style \in {labels[w].style : w \in DOMAIN labels}}

StyleCycle ==
    LET enough == {w \in DOMAIN stats : stats[w].metrics.closed >= StyleMin} IN
    /\ styleJob = None
    /\ enough # {}
    /\ styleJob' = [at |-> statsNow, rows |-> [w \in enough |-> stats[w].metrics]]
    /\ UNCHANGED <<statsNow, past, recorded, stats, statsHistory, styleRows,
                   metricsJob, labelled>>

StyleCommit(labels) ==
    /\ styleJob # None
    /\ labels \in Labels(styleJob.rows)
    /\ stats' = [w \in DOMAIN stats |->
                    IF w \in DOMAIN labels THEN StatsRow(stats[w], labels[w]) ELSE stats[w]]
    /\ styleRows' = StyleStats(labels, styleJob.at)
    /\ labelled' = [w \in Traders |-> IF w \in DOMAIN labels THEN labels[w].style
                                      ELSE labelled[w]]
    /\ styleJob' = None
    /\ UNCHANGED <<statsNow, past, recorded, statsHistory, metricsJob>>

(* The process dies, or the database aborts a job: the metrics lock the    *)
(* rows in another order than the styles.                                  *)
MetricsAborted ==
    /\ metricsJob # None
    /\ metricsJob' = None
    /\ UNCHANGED <<statsNow, past, recorded, stats, statsHistory, styleRows, styleJob, labelled>>
StyleAborted ==
    /\ styleJob # None
    /\ styleJob' = None
    /\ UNCHANGED <<statsNow, past, recorded, stats, statsHistory, styleRows, metricsJob, labelled>>

StatsNext ==
    \/ \E w \in Traders : PositionRecorded(w) \/ ComputeMetrics(w)
    \/ MetricsCycle
    \/ MetricsCommit
    \/ StyleCycle
    \/ styleJob # None /\ \E labels \in Labels(styleJob.rows) : StyleCommit(labels)
    \/ MetricsAborted
    \/ StyleAborted
    \/ StatsTimePasses

-----------------------------------------------------------------------------
(* However the two jobs interleave, and whatever aborts, a row has the     *)
(* style that was last committed for the wallet (wallet_metrics.py:        *)
(* "Every column this job computes (all of WalletMetricsColumns except the *)
(* style fields, which the strategy job owns)").                           *)
StyleSurvivesMetrics ==
    \A w \in DOMAIN stats : stats[w].style = labelled[w]

(* A streak alone does not make a wallet worth following: below 13 closed  *)
(* positions no record at all, not even one without a loss, brings it to   *)
(* the bar (confidence.py: "a wallet cannot look brilliant off three lucky *)
(* trades").                                                               *)
LuckyStreakGated ==
    \A w \in DOMAIN stats : stats[w].score >= AutoFollowBar => recorded[w] >= 13
=============================================================================
