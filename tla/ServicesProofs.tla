--------------------------- MODULE ServicesProofs ---------------------------
(***************************************************************************)
(* What holds of the background services for every value of their          *)
(* constants.  Each of them runs on variables of its own: a theorem here   *)
(* is about one service, as its own initial states and next-state relation *)
(* describe it.                                                            *)
(***************************************************************************)
EXTENDS Reports, MarketRegimes, ModelRegistry, PredictionLearning, WalletVetting,
        WalletStats, CopyDecision, FollowLane, SumProofs, SequenceTheorems

-----------------------------------------------------------------------------
(* The n-th of a set of integers has n members up to it.                   *)
LEMMA NthIn ==
  ASSUME NEW S, IsFiniteSet(S), S \subseteq Int, NEW n \in 1..Cardinality(S)
  PROVE  Nth(S, n) \in S /\ Cardinality({j \in S : j <= Nth(S, n)}) = n
<1>. DEFINE P(i) == Cardinality({j \in S : j <= i}) = n
<1>1. \E i \in S : P(i)
  BY NthExists
<1>2. Nth(S, n) = CHOOSE i \in S : P(i)
  BY DEF Nth
<1>. HIDE DEF P
<1>3. Nth(S, n) \in S /\ P(Nth(S, n))
  BY <1>1, <1>2
<1>. QED BY <1>3 DEF P

-----------------------------------------------------------------------------
(* Reports.  A cycle looks for a report of its kind from the start of the  *)
(* period of its own moment on; the moment never lies before a report's.   *)
Kinds == {"daily", "weekly"}
Report == [kind : Kinds, at : Nat]
ReportTypeOK ==
    /\ reportNow \in Nat
    /\ reports \in Seq(Report)
    /\ reportJob # None => reportJob.at \in Nat /\ reportJob.step \in Kinds
ReportInv == ReportTypeOK /\ OneReportPerPeriod

(* A period starts no later than any time in it.                           *)
LEMMA PeriodStarts ==
  ASSUME NEW kind \in Kinds, NEW t \in Nat
  PROVE  PeriodStart(kind, t) \in Int /\ PeriodStart(kind, t) <= t
<1>1. Length(kind) \in Nat /\ Length(kind) > 0
  BY ReportPeriods DEF Length, Kinds
<1>2. t % Length(kind) \in Nat
  <2>. DEFINE n == Length(kind)
  <2>1. n \in Nat /\ n > 0
    BY <1>1
  <2>. HIDE DEF n
  <2>2. t % n \in 0..(n - 1)
    BY <2>1
  <2>. QED BY <2>1, <2>2 DEF n
<1>. QED BY <1>2 DEF PeriodStart

(* A stored report has a time and a kind.                                  *)
LEMMA ReportTyped ==
  ASSUME ReportTypeOK, NEW i \in DOMAIN reports
  PROVE  reports[i].at \in Nat /\ reports[i].kind \in Kinds
<1>1. reports[i] \in Report
  BY ElementOfSeq, LenProperties DEF ReportTypeOK
<1>. QED BY <1>1 DEF Report

(* The cycle goes on to the next kind of report.                           *)
LEMMA ReportCycleMoves ==
  ASSUME ReportTypeOK, reportJob # None
  PROVE  AfterStep # None => AfterStep.at \in Nat /\ AfterStep.step \in Kinds
BY DEF AfterStep, ReportTypeOK, Kinds

(* A step of the report job keeps at most one report a period.             *)
LEMMA ReportStep ==
  ASSUME ReportInv, [ReportNext]_reportVars
  PROVE  ReportInv'
<1>. USE DEF ReportInv
<1>1. CASE ReportCycle
  BY <1>1 DEF ReportCycle, ReportTypeOK, OneReportPerPeriod, PeriodStart, Length, Kinds
<1>2. CASE GenerateReport
  <2>. DEFINE new == [kind |-> reportJob.step, at |-> reportJob.at]
  <2>1. reportJob # None /\ reportJob.at \in Nat /\ reportJob.step \in Kinds
    BY <1>2 DEF GenerateReport, ReportTypeOK
  <2>2. new \in Report
    BY <2>1 DEF Report
  <2>3. reports' = Append(reports, new) /\ reportNow' = reportNow /\ reportJob' = AfterStep
    BY <1>2 DEF GenerateReport
  <2>4. ReportTypeOK'
    BY <2>1, <2>2, <2>3, ReportCycleMoves, AppendProperties DEF ReportTypeOK
  <2>5. \A i \in DOMAIN reports : reports[i].kind = new.kind =>
           reports[i].at < PeriodStart(new.kind, new.at)
    <3>1. ASSUME NEW i \in DOMAIN reports, reports[i].kind = new.kind
          PROVE  reports[i].at < PeriodStart(new.kind, new.at)
      <4>1. ~(reports[i].at >= PeriodStart(new.kind, new.at))
        BY <1>2, <3>1 DEF GenerateReport, ReportExists
      <4>2. reports[i].at \in Nat
        BY ReportTyped
      <4>. QED BY <2>1, <4>1, <4>2, PeriodStarts
    <3>. QED BY <3>1
  <2>6. ASSUME NEW i \in DOMAIN reports, reports[i].kind = new.kind
        PROVE  PeriodStart(reports[i].kind, reports[i].at) # PeriodStart(new.kind, new.at)
    <3>1. reports[i].at \in Nat /\ reports[i].kind \in Kinds
      BY ReportTyped
    <3>. QED BY <2>1, <2>5, <2>6, <3>1, PeriodStarts
  <2>7. OneReportPerPeriod'
    <3>1. DOMAIN reports' = 1..(Len(reports) + 1) /\ DOMAIN reports = 1..Len(reports)
          /\ Len(reports) \in Nat /\ reports'[Len(reports) + 1] = new
          /\ \A i \in DOMAIN reports : reports'[i] = reports[i]
      BY <2>2, <2>3, AppendProperties, LenProperties DEF ReportTypeOK
    <3>2. SUFFICES ASSUME NEW i \in DOMAIN reports', NEW j \in DOMAIN reports',
                          reports'[i].kind = reports'[j].kind,
                          PeriodStart(reports'[i].kind, reports'[i].at)
                            = PeriodStart(reports'[j].kind, reports'[j].at)
                   PROVE  i = j
      BY DEF OneReportPerPeriod, PeriodStart, Length
    <3>3. CASE i \in DOMAIN reports /\ j \in DOMAIN reports
      BY <3>1, <3>2, <3>3 DEF OneReportPerPeriod
    <3>4. CASE i \in DOMAIN reports /\ j \notin DOMAIN reports
      <4>1. reports'[j] = new /\ reports'[i] = reports[i]
        BY <3>1, <3>4
      <4>. QED BY <2>6, <3>2, <3>4, <4>1
    <3>5. CASE i \notin DOMAIN reports /\ j \in DOMAIN reports
      <4>1. reports'[i] = new /\ reports'[j] = reports[j]
        BY <3>1, <3>5
      <4>. QED BY <2>6, <3>2, <3>5, <4>1
    <3>6. CASE i \notin DOMAIN reports /\ j \notin DOMAIN reports
      BY <3>1, <3>6
    <3>. QED BY <3>3, <3>4, <3>5, <3>6
  <2>. QED BY <2>4, <2>7
<1>3. CASE ReportThere
  BY <1>3, ReportCycleMoves
     DEF ReportThere, ReportTypeOK, OneReportPerPeriod, PeriodStart, Length
<1>4. CASE ReportCycleFails
  BY <1>4 DEF ReportCycleFails, ReportTypeOK, OneReportPerPeriod, PeriodStart, Length
<1>5. CASE ReportTimePasses
  BY <1>5 DEF ReportTimePasses, ReportTypeOK, OneReportPerPeriod, PeriodStart, Length
<1>6. CASE UNCHANGED reportVars
  BY <1>6 DEF reportVars, ReportTypeOK, OneReportPerPeriod, PeriodStart, Length
<1>. QED BY <1>1, <1>2, <1>3, <1>4, <1>5, <1>6 DEF ReportNext

(* evaluation/runner.py, report_cycle: however cycles are delayed, fail or  *)
(* start over, a period never has two reports of a kind.                   *)
THEOREM OneReportPerPeriodHolds ==
  ReportInit /\ [][ReportNext]_reportVars => []OneReportPerPeriod
<1>1. ReportInit => ReportInv
  BY EmptySeq DEF ReportInit, ReportInv, ReportTypeOK, OneReportPerPeriod
<1>2. ReportInv /\ [ReportNext]_reportVars => ReportInv'
  BY ReportStep
<1>3. ReportInv => OneReportPerPeriod
  BY DEF ReportInv
<1>. QED BY <1>1, <1>2, <1>3, PTL

-----------------------------------------------------------------------------
(* Market regimes.  Every label but the first follows from its own trend   *)
(* and the label before it, so a label left behind needs the whole         *)
(* hysteresis to return.                                                   *)
Priced == UNION {Markets[t] : t \in 1..Len(Markets)}
TrendLabels == {"bull", "bear", "sideways"}
Flags == {"highVolatility", "lowLiquidity", "whaleAccumulation", "panicSelling", "launchWave",
          "trendExhaustion"}
Regime == [at : Nat, label : TrendLabels, pct : Int \cup {None}, flags : SUBSET Flags]
LabelBefore == IF regimes = <<>> THEN None ELSE Last(regimes).label
MarketTypeOK ==
    /\ watchNow \in Nat
    /\ market \in Seq(Priced) /\ Len(market) > 0
    /\ regimes \in Seq(Regime)
LabelsFollow ==
    \A i \in DOMAIN regimes :
        1 < i => regimes[i].label = TrendLabel(regimes[i].pct, regimes[i - 1].label)
MarketInv == MarketTypeOK /\ LabelsFollow

(* A trend has one of the three labels.                                    *)
LEMMA Labelled == \A pct, previous : TrendLabel(pct, previous) \in TrendLabels
BY DEF TrendLabel, TrendLabels

(* The last n elements of a sequence are elements of it.                   *)
LEMMA EndingIn ==
  ASSUME NEW S, NEW s \in Seq(S), NEW n \in Int, n > 0
  PROVE  Ending(s, n) \in Seq(S)
<1>. DEFINE from == Len(s) - n + 1
            first == Max({1, from})
<1>1. Len(s) \in Nat /\ from \in Int /\ from <= Len(s)
  BY LenProperties
<1>2. IsFiniteSet({1, from})
  <2>1. IsFiniteSet({1}) /\ IsFiniteSet({1} \cup {from})
    BY FS_Singleton, FS_AddElement
  <2>2. {1, from} = {1} \cup {from}
    OBVIOUS
  <2>. QED BY <2>1, <2>2
<1>3. first \in {1, from}
  <2>1. {1, from} \subseteq Int /\ {1, from} # {}
    BY <1>1
  <2>. QED BY <1>2, <2>1, MaxIn
<1>4. first \in Int /\ first >= 1
  <2>. HIDE DEF from
  <2>1. {1, from} \subseteq Int /\ {1, from} # {}
    BY <1>1
  <2>2. \A x \in {1, from} : x <= first
    BY <1>2, <2>1, MaxIn
  <2>. QED BY <1>1, <1>3, <2>2
<1>. HIDE DEF first, from
<1>5. SubSeq(s, first, Len(s)) \in Seq(S)
  BY <1>1, <1>4, SubSeqProperties
<1>. QED BY <1>5 DEF Ending, first, from

(* What is known of a series of markets is a sequence of what is not None. *)
LEMMA KnownIn ==
  ASSUME NEW series \in Seq(Priced)
  PROVE  Known(series, "price") \in Seq(Int)
<1>. DEFINE there == {i \in DOMAIN series : series[i]["price"] # None}
            k == Cardinality(there)
            known == [n \in 1..k |-> series[Nth(there, n)]["price"]]
<1>1. IsFiniteSet(there) /\ there \subseteq Int
  <2>1. DOMAIN series = 1..Len(series) /\ Len(series) \in Nat
    BY LenProperties
  <2>2. 1 \in Int /\ Len(series) \in Int
    BY <2>1
  <2>3. IsFiniteSet(1..Len(series))
    BY <2>2, FS_Interval
  <2>4. there \subseteq 1..Len(series)
    BY <2>1
  <2>. QED BY <2>3, <2>4, FS_Subset
<1>2. k \in Nat
  BY <1>1, FS_CardinalityType
<1>3. ASSUME NEW n \in 1..k
      PROVE  known[n] \in Int
  <2>1. Nth(there, n) \in there
    BY <1>1, NthIn
  <2>2. series[Nth(there, n)] \in Priced
    BY <2>1, ElementOfSeq, LenProperties
  <2>3. PICK t \in 1..Len(Markets) : series[Nth(there, n)] \in Markets[t]
    BY <2>2 DEF Priced
  <2>4. series[Nth(there, n)].price = None \/ series[Nth(there, n)].price \in Int
    BY <2>3, MarketNumbers
  <2>. QED BY <2>1, <2>4
<1>4. known \in Seq(Int)
  BY <1>2, <1>3, SeqDef
<1>. QED BY <1>4 DEF Known

(* A relative change is a number or unknown.                               *)
LEMMA ChangeType ==
  ASSUME NEW a \in Int, NEW b \in Int
  PROVE  Change(a, b) \in Int \cup {None}
<1>1. CASE a = 0
  BY <1>1 DEF Change
<1>2. CASE a # 0
  <2>1. PICK size : size = Abs(a)
    OBVIOUS
  <2>2. size \in Int /\ size > 0
    BY <1>2, <2>1 DEF Abs
  <2>3. PICK x : x = 1000 * (b - a)
    OBVIOUS
  <2>4. x \in Int
    BY <2>3
  <2>5. x \div size \in Int
    BY <2>2, <2>4
  <2>. QED BY <1>2, <2>1, <2>3, <2>5 DEF Change
<1>. QED BY <1>1, <1>2

(* A detected regime is labelled by its trend and the label before.        *)
LEMMA DetectedTyped ==
  ASSUME MarketTypeOK
  PROVE  Detected \in Regime /\ Detected.label = TrendLabel(Detected.pct, LabelBefore)
<1>. DEFINE prices == Known(Series, "price")
            pct == Change(prices[1], Last(prices))
<1>1. Series \in Seq(Priced)
  <2>1. LookbackWindows + 1 \in Int /\ LookbackWindows + 1 > 0
    BY MarketNumbers
  <2>. QED BY <2>1, EndingIn DEF Series, MarketTypeOK
<1>2. prices \in Seq(Int)
  BY <1>1, KnownIn
<1>3. CASE Len(prices) < 2
  <2>1. Detected = [at |-> watchNow, label |-> "sideways", pct |-> None, flags |-> {}]
    BY <1>3 DEF Detected
  <2>2. TrendLabel(None, LabelBefore) = "sideways"
    BY DEF TrendLabel
  <2>. QED BY <2>1, <2>2 DEF Regime, TrendLabels, MarketTypeOK
<1>4. CASE ~(Len(prices) < 2)
  <2>1. prices[1] \in Int /\ Last(prices) \in Int
    <3>1. Len(prices) \in Nat
      BY <1>2, LenProperties
    <3>2. 1 \in 1..Len(prices) /\ Len(prices) \in 1..Len(prices)
      BY <1>4, <3>1
    <3>. HIDE DEF prices
    <3>3. prices[1] \in Int /\ prices[Len(prices)] \in Int
      BY <1>2, <3>2, ElementOfSeq
    <3>. QED BY <3>3 DEF Last
  <2>2. pct \in Int \cup {None}
    <3>. HIDE DEF prices
    <3>. QED BY <2>1, ChangeType
  <2>3. PICK flags : Detected = [at |-> watchNow, pct |-> pct, label |-> TrendLabel(pct, LabelBefore),
                                flags |-> flags] /\ flags \in SUBSET Flags
    BY <1>4 DEF Detected, LabelBefore, Flags
  <2>. HIDE DEF pct
  <2>4. TrendLabel(pct, LabelBefore) \in TrendLabels
    BY Labelled
  <2>. QED BY <2>2, <2>3, <2>4 DEF Regime, MarketTypeOK
<1>. QED BY <1>3, <1>4

(* A step of the detector keeps every label a consequence of the one       *)
(* before.                                                                 *)
LEMMA MarketStep ==
  ASSUME MarketInv, [MarketNext]_marketVars
  PROVE  MarketInv'
<1>. USE DEF MarketInv
<1>1. CASE DetectRegime
  <2>1. PICK new : new = Detected
    OBVIOUS
  <2>2. new \in Regime /\ new.label = TrendLabel(new.pct, LabelBefore)
    BY <2>1, DetectedTyped
  <2>3. regimes' = Append(regimes, new) /\ UNCHANGED <<watchNow, market>>
    BY <1>1, <2>1 DEF DetectRegime
  <2>4. MarketTypeOK'
    BY <2>2, <2>3, AppendProperties DEF MarketTypeOK
  <2>5. DOMAIN regimes' = 1..(Len(regimes) + 1) /\ DOMAIN regimes = 1..Len(regimes)
        /\ Len(regimes) \in Nat /\ regimes'[Len(regimes) + 1] = new
        /\ \A i \in DOMAIN regimes : regimes'[i] = regimes[i]
    BY <2>2, <2>3, AppendProperties, LenProperties DEF MarketTypeOK
  <2>6. ASSUME NEW i \in DOMAIN regimes', 1 < i
        PROVE  regimes'[i].label = TrendLabel(regimes'[i].pct, regimes'[i - 1].label)
    <3>1. i - 1 \in DOMAIN regimes
      BY <2>5, <2>6
    <3>2. CASE i \in DOMAIN regimes
      BY <2>5, <2>6, <3>1, <3>2 DEF LabelsFollow
    <3>3. CASE i \notin DOMAIN regimes
      <4>1. i = Len(regimes) + 1 /\ Len(regimes) = i - 1 /\ regimes # <<>>
        BY <2>5, <2>6, <3>1, <3>3
      <4>2. LabelBefore = regimes'[i - 1].label
        BY <2>5, <3>1, <4>1 DEF LabelBefore, Last
      <4>. QED BY <2>2, <2>5, <4>1, <4>2
    <3>. QED BY <3>2, <3>3
  <2>7. LabelsFollow'
    BY <2>6 DEF LabelsFollow, TrendLabel
  <2>. QED BY <2>4, <2>7
<1>2. CASE RegimeStrategyStats
  BY <1>2 DEF RegimeStrategyStats, MarketTypeOK, LabelsFollow, TrendLabel
<1>3. CASE RegimeCycleDies
  BY <1>3 DEF RegimeCycleDies, MarketTypeOK, LabelsFollow, TrendLabel
<1>4. ASSUME watchNow + 1 < Len(Markets), NEW m \in Markets[watchNow + 2], WindowPasses(m)
      PROVE  MarketInv'
  <2>1. m \in Priced
    <3>1. watchNow + 2 \in 1..Len(Markets)
      BY <1>4, MarketNumbers DEF MarketTypeOK
    <3>. QED BY <3>1 DEF Priced
  <2>2. market' = Append(market, m) /\ watchNow' = watchNow + 1 /\ regimes' = regimes
    BY <1>4 DEF WindowPasses
  <2>3. market' \in Seq(Priced) /\ Len(market') > 0
    BY <2>1, <2>2, AppendProperties, LenProperties DEF MarketTypeOK
  <2>. QED BY <2>2, <2>3 DEF MarketTypeOK, LabelsFollow, TrendLabel
<1>5. CASE UNCHANGED marketVars
  BY <1>5 DEF marketVars, MarketTypeOK, LabelsFollow, TrendLabel
<1>. QED BY <1>1, <1>2, <1>3, <1>4, <1>5 DEF MarketNext

(* The band seen from the stored rows: no flapping.                        *)
LEMMA HysteresisHolds == MarketInv => NoFlapping
<1>. SUFFICES ASSUME MarketInv, NEW i \in DOMAIN regimes, NEW j \in DOMAIN regimes,
                     1 < i, i < j, regimes[i - 1].label \in {"bull", "bear"},
                     regimes[j].label = regimes[i - 1].label,
                     \A k \in i..(j - 1) : regimes[k].label = "sideways",
                     regimes[i].pct # None
              PROVE  Abs(regimes[j].pct - regimes[i].pct) > Hysteresis
  BY DEF NoFlapping
<1>1. i \in Int /\ j \in Int /\ i \in i..(j - 1) /\ j - 1 \in i..(j - 1) /\ 1 < j
  BY LenProperties DEF MarketInv, MarketTypeOK
<1>2. regimes[i].label = "sideways" /\ regimes[j - 1].label = "sideways"
  BY <1>1
<1>3. regimes[i] \in Regime /\ regimes[j] \in Regime
  BY ElementOfSeq, LenProperties DEF MarketInv, MarketTypeOK
<1>. DEFINE left == regimes[i].pct
            back == regimes[j].pct
<1>4. left \in Int
  BY <1>3 DEF Regime
<1>5. TrendLabel(left, regimes[i - 1].label) = "sideways"
      /\ TrendLabel(back, "sideways") = regimes[i - 1].label
  BY <1>1, <1>2 DEF MarketInv, LabelsFollow
<1>6. back # None /\ back \in Int
  <2>1. TrendLabel(None, "sideways") = "sideways"
    BY DEF TrendLabel
  <2>. QED BY <1>3, <1>5, <2>1 DEF Regime
<1>. HIDE DEF left, back
<1>7. CASE regimes[i - 1].label = "bull"
  <2>1. TrendLabel(left, "bull") = "sideways" /\ TrendLabel(back, "sideways") = "bull"
    BY <1>5, <1>7
  <2>2. left # None
    BY DEF left
  <2>3. left <= Bull - Hysteresis
    BY <1>4, <2>1, <2>2, MarketNumbers DEF TrendLabel
  <2>4. back > Bull
    BY <1>6, <2>1, MarketNumbers DEF TrendLabel
  <2>5. back - left > Hysteresis
    BY <1>4, <1>6, <2>3, <2>4, MarketNumbers
  <2>. QED BY <1>4, <1>6, <2>5, MarketNumbers DEF Abs, left, back
<1>8. CASE regimes[i - 1].label = "bear"
  <2>1. TrendLabel(left, "bear") = "sideways" /\ TrendLabel(back, "sideways") = "bear"
    BY <1>5, <1>8
  <2>2. left # None
    BY DEF left
  <2>3. left >= Hysteresis - Bull
    BY <1>4, <2>1, <2>2, MarketNumbers DEF TrendLabel
  <2>4. back < -Bull
    BY <1>6, <2>1, MarketNumbers DEF TrendLabel
  <2>5. left - back > Hysteresis
    BY <1>4, <1>6, <2>3, <2>4, MarketNumbers
  <2>. QED BY <1>4, <1>6, <2>5, MarketNumbers DEF Abs, left, back
<1>. QED BY <1>7, <1>8

(* evaluation/regime.py, detect_regime: whatever the prices do, and        *)
(* whatever cycles died or had no price, a bull or a bear market that has  *)
(* been left returns only when the trend has moved by more than the        *)
(* hysteresis.                                                             *)
THEOREM NoFlappingHolds == MarketInit /\ [][MarketNext]_marketVars => []NoFlapping
<1>1. MarketInit => MarketInv
  <2>1. SUFFICES ASSUME MarketInit PROVE MarketInv
    OBVIOUS
  <2>2. PICK m \in Markets[1] : market = <<m>>
    BY <2>1 DEF MarketInit
  <2>3. m \in Priced
    <3>1. 1 \in 1..Len(Markets)
      BY MarketNumbers
    <3>. QED BY <3>1 DEF Priced
  <2>4. market \in Seq(Priced) /\ Len(market) = 1
    BY <2>2, <2>3
  <2>. QED BY <2>1, <2>4, EmptySeq DEF MarketInit, MarketInv, MarketTypeOK, LabelsFollow
<1>2. MarketInv /\ [MarketNext]_marketVars => MarketInv'
  BY MarketStep
<1>. QED BY <1>1, <1>2, HysteresisHolds, PTL

-----------------------------------------------------------------------------
(* The model registry.  A file is named by the version after every row's,  *)
(* so that the file a row names holds its own training; one row of a model *)
(* is active, and none was evaluated better.                               *)
Names == ToSet(ModelNames)
ModelRow == [version : Nat, auc : Int, active : BOOLEAN, trained : Nat]
Save == [version : Nat, auc : Int, trained : Nat]
RegistryTypeOK ==
    /\ models \in [Names -> Seq(ModelRow)]
    /\ artifacts \in [Names -> UNION {[versions -> Nat] : versions \in SUBSET Nat}]
    /\ retraining \in [todo : Seq(Names), saving : Save \cup {None}]
    /\ trainings \in Nat
FilesMatch(rows, files) ==
    \A i \in DOMAIN rows :
        rows[i].version \in DOMAIN files => files[rows[i].version] = rows[i].trained
OneChampion(rows) ==
    rows # <<>> => \E c \in DOMAIN rows :
        /\ rows[c].active
        /\ \A i \in DOMAIN rows : rows[i].active => i = c
        /\ \A i \in DOMAIN rows : rows[i].auc <= rows[c].auc
SaveIsNext ==
    retraining.saving # None =>
        /\ retraining.todo # <<>>
        /\ LET name == Head(retraining.todo)
                save == retraining.saving
           IN  /\ save.version = NextVersion(models[name])
               /\ save.version \in DOMAIN artifacts[name] =>
                     artifacts[name][save.version] = save.trained
RegistryInv ==
    /\ RegistryTypeOK
    /\ \A name \in Names : FilesMatch(models[name], artifacts[name]) /\ OneChampion(models[name])
    /\ SaveIsNext

(* The next version is after every version on record.                      *)
LEMMA NextVersionLast ==
  ASSUME NEW rows \in Seq(ModelRow)
  PROVE  NextVersion(rows) \in Nat /\ \A i \in DOMAIN rows : rows[i].version < NextVersion(rows)
<1>. DEFINE versions == {rows[i].version : i \in DOMAIN rows}
<1>1. DOMAIN rows = 1..Len(rows) /\ Len(rows) \in Nat /\ (rows = <<>> <=> Len(rows) = 0)
  BY LenProperties, EmptySeq
<1>2. \A i \in DOMAIN rows : rows[i].version \in Nat
  <2>1. ASSUME NEW i \in DOMAIN rows PROVE rows[i].version \in Nat
    <3>1. rows[i] \in ModelRow
      BY <1>1, ElementOfSeq
    <3>. QED BY <3>1 DEF ModelRow
  <2>. QED BY <2>1
<1>3. CASE rows = <<>>
  BY <1>1, <1>3 DEF NextVersion
<1>4. CASE rows # <<>>
  <2>1. IsFiniteSet(versions)
    <3>1. IsFiniteSet(DOMAIN rows)
      <4>1. 1 \in Int /\ Len(rows) \in Int
        BY <1>1
      <4>. QED BY <1>1, <4>1, FS_Interval
    <3>2. PICK f : f = [i \in DOMAIN rows |-> rows[i].version]
      OBVIOUS
    <3>3. IsFiniteSet({f[i] : i \in DOMAIN rows})
      BY <3>1, ImageFinite
    <3>4. versions = {f[i] : i \in DOMAIN rows}
      BY <3>2
    <3>. QED BY <3>3, <3>4
  <2>2. versions \subseteq Int /\ versions # {}
    <3>1. 1 \in DOMAIN rows
      BY <1>1, <1>4
    <3>. QED BY <1>2, <3>1
  <2>3. versions \subseteq Nat
    BY <1>2
  <2>. HIDE DEF versions
  <2>4. Max(versions) \in versions /\ \A v \in versions : v <= Max(versions)
    BY <2>1, <2>2, MaxIn
  <2>5. NextVersion(rows) = 1 + Max(versions)
    BY <1>4 DEF NextVersion, versions
  <2>6. \A i \in DOMAIN rows : rows[i].version \in versions
    BY DEF versions
  <2>7. Max(versions) \in Nat
    BY <2>3, <2>4
  <2>8. ASSUME NEW i \in DOMAIN rows
        PROVE  rows[i].version < NextVersion(rows)
    <3>1. rows[i].version <= Max(versions)
      BY <2>4, <2>6
    <3>. QED BY <1>2, <2>5, <2>7, <3>1
  <2>. QED BY <2>5, <2>7, <2>8
<1>. QED BY <1>3, <1>4

(* With one active row, that row is the champion.                          *)
LEMMA ChampionIs ==
  ASSUME NEW rows \in Seq(ModelRow), NEW c \in DOMAIN rows, rows[c].active,
         \A i \in DOMAIN rows : rows[i].active => i = c
  PROVE  /\ {i \in DOMAIN rows : rows[i].active} = {c}
         /\ Champion(rows) = rows[c] /\ Champion(rows) # None
<1>1. {i \in DOMAIN rows : rows[i].active} = {c}
  OBVIOUS
<1>2. DOMAIN rows = 1..Len(rows) /\ c \in Int /\ rows[c] \in ModelRow
  BY LenProperties, ElementOfSeq
<1>3. Min({c}) = c
  <2>1. IsFiniteSet({c}) /\ {c} \subseteq Int /\ {c} # {}
    BY <1>2, FS_Singleton
  <2>2. Min({c}) \in {c}
    BY <2>1, MinIn
  <2>. QED BY <2>2
<1>4. rows[c] # None
  BY <1>2, RegistryValues DEF ModelRow
<1>5. Champion(rows) = rows[Min({c})]
  BY <1>1 DEF Champion
<1>. QED BY <1>1, <1>3, <1>4, <1>5

(* A model without rows has no champion.                                   *)
LEMMA NoChampion == Champion(<<>>) = None
BY DEF Champion

(* The next model of the cycle is one of the models.                       *)
LEMMA NextName ==
  ASSUME RegistryTypeOK, retraining.todo # <<>>
  PROVE  Head(retraining.todo) \in Names /\ Tail(retraining.todo) \in Seq(Names)
BY HeadTailProperties DEF RegistryTypeOK

(* Writing a file, before its row: no row names that version yet.          *)
LEMMA RetrainStep ==
  ASSUME RegistryInv, NEW labels \in LabelSeries, NEW auc \in Aucs, Retrain(labels, auc)
  PROVE  RegistryInv'
<1>. USE DEF RegistryInv
<1>1. PICK name : name = Head(retraining.todo)
  OBVIOUS
<1>2. PICK rows, files : rows = models[name] /\ files = artifacts[name]
  OBVIOUS
<1>3. name \in Names /\ retraining.todo # <<>>
  BY <1>1, NextName DEF Retrain
<1>4. rows \in Seq(ModelRow) /\ DOMAIN files \subseteq Nat /\ files \in [DOMAIN files -> Nat]
  <2>1. PICK versions \in SUBSET Nat : files \in [versions -> Nat]
    BY <1>2, <1>3 DEF RegistryTypeOK
  <2>. QED BY <1>2, <1>3, <2>1 DEF RegistryTypeOK
<1>5. PICK version : version = NextVersion(rows)
  OBVIOUS
<1>6. version \in Nat /\ \A i \in DOMAIN rows : rows[i].version < version
  BY <1>4, <1>5, NextVersionLast
<1>7. PICK written : written = [v \in DOMAIN files \cup {version} |->
                                 IF v = version THEN trainings' ELSE files[v]]
  OBVIOUS
<1>8. /\ artifacts' = [artifacts EXCEPT ![name] = written]
      /\ trainings' = trainings + 1 /\ models' = models
      /\ retraining' = [retraining EXCEPT
                !.saving = [version |-> version, auc |-> auc, trained |-> trainings']]
  BY <1>1, <1>2, <1>5, <1>7 DEF Retrain
<1>9. trainings' \in Nat
  BY <1>8 DEF RegistryTypeOK
<1>10. written \in [DOMAIN files \cup {version} -> Nat] /\ DOMAIN files \cup {version} \in SUBSET Nat
  BY <1>4, <1>6, <1>7, <1>9
<1>11. artifacts' \in [Names -> UNION {[versions -> Nat] : versions \in SUBSET Nat}]
       /\ artifacts'[name] = written /\ \A other \in Names \ {name} : artifacts'[other] = artifacts[other]
  BY <1>3, <1>8, <1>10 DEF RegistryTypeOK
<1>12. /\ retraining'.todo = retraining.todo /\ retraining'.todo \in Seq(Names)
       /\ retraining'.saving = [version |-> version, auc |-> auc, trained |-> trainings']
       /\ retraining' \in [todo : Seq(Names), saving : Save \cup {None}]
  <2>1. [version |-> version, auc |-> auc, trained |-> trainings'] \in Save
    BY <1>6, <1>9, RegistryValues DEF Save
  <2>. QED BY <1>8, <2>1 DEF RegistryTypeOK
<1>13. RegistryTypeOK'
  BY <1>8, <1>9, <1>11, <1>12 DEF RegistryTypeOK
<1>14. ASSUME NEW other \in Names
       PROVE  FilesMatch(models[other], artifacts'[other]) /\ OneChampion(models[other])
  <2>1. CASE other # name
    BY <1>11, <1>14, <2>1
  <2>2. CASE other = name
    <3>1. FilesMatch(rows, files)
      BY <1>2, <1>3
    <3>2. FilesMatch(rows, written)
      <4>1. ASSUME NEW i \in DOMAIN rows, rows[i].version \in DOMAIN written
            PROVE  written[rows[i].version] = rows[i].trained
        <5>1. rows[i] \in ModelRow
          BY <1>4, LenProperties, ElementOfSeq
        <5>2. rows[i].version # version
          BY <1>6, <5>1 DEF ModelRow
        <5>3. rows[i].version \in DOMAIN files /\ written[rows[i].version] = files[rows[i].version]
          BY <1>7, <4>1, <5>2
        <5>. QED BY <3>1, <5>3 DEF FilesMatch
      <4>. QED BY <4>1 DEF FilesMatch
    <3>. QED BY <1>2, <1>3, <1>11, <2>2, <3>2
  <2>. QED BY <2>1, <2>2
<1>15. SaveIsNext'
  <2>1. retraining'.todo # <<>> /\ Head(retraining'.todo) = name /\ models'[name] = rows
        /\ artifacts'[name] = written
    BY <1>1, <1>2, <1>3, <1>8, <1>11, <1>12
  <2>2. written[version] = trainings'
    BY <1>7
  <2>3. NextVersion(models'[name]) = version
    BY <1>5, <2>1
  <2>4. retraining'.saving.version = version /\ retraining'.saving.trained = trainings'
    BY <1>12
  <2>5. (NextVersion(models[Head(retraining.todo)]))' = version
    BY <2>1, <2>3 DEF NextVersion
  <2>. QED BY <2>1, <2>2, <2>4, <2>5 DEF SaveIsNext
<1>16. models' = models
  BY <1>8
<1>. QED BY <1>13, <1>14, <1>15, <1>16 DEF FilesMatch, OneChampion

(* The row goes in; when it is promoted, the champion is demoted with it.  *)
LEMMA SaveStep ==
  ASSUME RegistryInv, SaveCommits
  PROVE  RegistryInv'
<1>. USE DEF RegistryInv
<1>1. PICK name, save : name = Head(retraining.todo) /\ save = retraining.saving
  OBVIOUS
<1>2. PICK rows, files : rows = models[name] /\ files = artifacts[name]
  OBVIOUS
<1>3. name \in Names /\ retraining.todo # <<>> /\ save # None
  BY <1>1, NextName DEF SaveCommits
<1>4. rows \in Seq(ModelRow) /\ save \in Save
  BY <1>1, <1>2, <1>3 DEF RegistryTypeOK
<1>5. save.version \in Nat /\ save.auc \in Int /\ save.trained \in Nat
  BY <1>4 DEF Save
<1>6. PICK promoted : promoted = Promote(rows, save.auc)
  OBVIOUS
<1>7. promoted \in BOOLEAN
  BY <1>6 DEF Promote
<1>8. PICK kept : kept = IF promoted THEN [i \in DOMAIN rows |-> [rows[i] EXCEPT !.active = FALSE]]
                                     ELSE rows
  OBVIOUS
<1>9. PICK new : new = [version |-> save.version, auc |-> save.auc,
                        trained |-> save.trained, active |-> promoted]
  OBVIOUS
<1>10. new \in ModelRow /\ new.version = save.version /\ new.auc = save.auc
       /\ new.trained = save.trained
       /\ (promoted => new.active) /\ (~promoted => ~new.active)
  BY <1>5, <1>7, <1>9 DEF ModelRow
<1>11. /\ models' = [models EXCEPT ![name] = Append(kept, new)]
       /\ retraining' = [todo |-> Tail(retraining.todo), saving |-> None]
       /\ UNCHANGED <<artifacts, trainings>>
  BY <1>1, <1>2, <1>6, <1>8, <1>9 DEF SaveCommits
<1>12. DOMAIN rows = 1..Len(rows) /\ Len(rows) \in Nat /\ \A i \in DOMAIN rows : rows[i] \in ModelRow
  BY <1>4, LenProperties, ElementOfSeq
<1>13. kept \in Seq(ModelRow) /\ Len(kept) = Len(rows)
  <2>1. CASE ~promoted
    BY <1>4, <1>8, <2>1
  <2>2. CASE promoted
    <3>1. kept = [i \in 1..Len(rows) |-> [rows[i] EXCEPT !.active = FALSE]]
      BY <1>8, <1>12, <2>2
    <3>2. \A i \in 1..Len(rows) : kept[i] \in ModelRow
      BY <1>12, <3>1 DEF ModelRow
    <3>3. kept \in Seq(ModelRow)
      BY <1>12, <3>1, <3>2, SeqDef
    <3>. QED BY <1>12, <3>1, <3>3
  <2>. QED BY <2>1, <2>2
<1>14. ASSUME NEW i \in DOMAIN rows
       PROVE  /\ kept[i].version = rows[i].version /\ kept[i].auc = rows[i].auc
              /\ kept[i].trained = rows[i].trained
              /\ promoted => ~kept[i].active
              /\ ~promoted => kept[i] = rows[i]
  <2>1. rows[i] \in ModelRow
    BY <1>12
  <2>2. CASE ~promoted
    BY <1>8, <2>1, <2>2 DEF ModelRow
  <2>3. CASE promoted
    <3>1. kept[i] = [rows[i] EXCEPT !.active = FALSE]
      BY <1>8, <2>3
    <3>. QED BY <2>1, <2>3, <3>1 DEF ModelRow
  <2>. QED BY <2>2, <2>3
<1>15. PICK grown : grown = Append(kept, new)
  OBVIOUS
<1>16. /\ grown \in Seq(ModelRow) /\ DOMAIN grown = 1..(Len(rows) + 1)
       /\ grown[Len(rows) + 1] = new /\ \A i \in DOMAIN rows : grown[i] = kept[i]
       /\ grown # <<>>
  BY <1>10, <1>12, <1>13, <1>15, AppendProperties, LenProperties
<1>17. models' \in [Names -> Seq(ModelRow)] /\ models'[name] = grown
       /\ \A other \in Names \ {name} : models'[other] = models[other]
  BY <1>3, <1>11, <1>15, <1>16 DEF RegistryTypeOK
<1>18. RegistryTypeOK'
  BY <1>3, <1>11, <1>17, NextName DEF RegistryTypeOK
<1>19. FilesMatch(grown, files)
  <2>1. ASSUME NEW i \in DOMAIN grown, grown[i].version \in DOMAIN files
        PROVE  files[grown[i].version] = grown[i].trained
    <3>1. CASE i \in DOMAIN rows
      <4>1. FilesMatch(rows, files)
        BY <1>2, <1>3
      <4>. QED BY <1>14, <1>16, <2>1, <3>1, <4>1 DEF FilesMatch
    <3>2. CASE i \notin DOMAIN rows
      <4>1. grown[i] = new
        BY <1>12, <1>16, <3>2
      <4>. QED BY <1>1, <1>2, <1>3, <1>10, <2>1, <4>1 DEF SaveIsNext
    <3>. QED BY <3>1, <3>2
  <2>. QED BY <2>1 DEF FilesMatch
<1>20. OneChampion(grown)
  <2>1. CASE rows = <<>>
    <3>1. promoted
      BY <1>6, <2>1, NoChampion DEF Promote
    <3>2. DOMAIN grown = {1} /\ grown[1] = new
      BY <1>16, <2>1
    <3>3. grown[1].active /\ grown[1].auc <= grown[1].auc
      BY <1>5, <1>10, <3>1, <3>2
    <3>4. \A i \in DOMAIN grown : i = 1
      BY <3>2
    <3>. QED BY <3>2, <3>3, <3>4 DEF OneChampion
  <2>2. CASE rows # <<>>
    <3>1. PICK c \in DOMAIN rows :
            /\ rows[c].active
            /\ \A i \in DOMAIN rows : rows[i].active => i = c
            /\ \A i \in DOMAIN rows : rows[i].auc <= rows[c].auc
      BY <1>2, <1>3, <2>2 DEF OneChampion
    <3>2. Champion(rows) = rows[c] /\ Champion(rows) # None
      BY <1>4, <3>1, ChampionIs
    <3>3. rows[c].auc \in Int /\ rows[c].auc # None /\ save.auc # None
      BY <1>5, <1>12, RegistryValues DEF ModelRow
    <3>4. promoted <=> save.auc > rows[c].auc
      BY <1>6, <3>2, <3>3 DEF Promote
    <3>5. CASE promoted
      <4>1. \A i \in DOMAIN grown : grown[i].active => i = Len(rows) + 1
        BY <1>12, <1>14, <1>16, <3>5
      <4>2. ASSUME NEW i \in DOMAIN grown PROVE grown[i].auc <= new.auc
        <5>1. CASE i \in DOMAIN rows
          <6>1. grown[i].auc = rows[i].auc /\ rows[i].auc <= rows[c].auc /\ rows[i].auc \in Int
            BY <1>12, <1>14, <1>16, <3>1, <5>1 DEF ModelRow
          <6>. QED BY <1>5, <1>10, <3>3, <3>4, <3>5, <6>1
        <5>2. CASE i \notin DOMAIN rows
          BY <1>5, <1>10, <1>12, <1>16, <5>2
        <5>. QED BY <5>1, <5>2
      <4>3. Len(rows) + 1 \in DOMAIN grown /\ grown[Len(rows) + 1].active
        BY <1>10, <1>12, <1>16, <3>5
      <4>. QED BY <1>16, <4>1, <4>2, <4>3 DEF OneChampion
    <3>6. CASE ~promoted
      <4>1. \A i \in DOMAIN grown : grown[i].active => i = c
        <5>1. ASSUME NEW i \in DOMAIN grown, grown[i].active PROVE i = c
          <6>1. i \in DOMAIN rows
            BY <1>10, <1>12, <1>16, <3>6, <5>1
          <6>. QED BY <1>14, <1>16, <3>1, <5>1, <6>1
        <5>. QED BY <5>1
      <4>2. c \in DOMAIN grown /\ grown[c].active /\ grown[c].auc = rows[c].auc
        BY <1>12, <1>14, <1>16, <3>1, <3>6
      <4>3. ASSUME NEW i \in DOMAIN grown PROVE grown[i].auc <= rows[c].auc
        <5>1. CASE i \in DOMAIN rows
          BY <1>14, <1>16, <3>1, <5>1
        <5>2. CASE i \notin DOMAIN rows
          BY <1>5, <1>10, <1>12, <1>16, <3>3, <3>4, <3>6, <5>2
        <5>. QED BY <5>1, <5>2
      <4>. QED BY <4>1, <4>2, <4>3 DEF OneChampion
    <3>. QED BY <3>5, <3>6
  <2>. QED BY <2>1, <2>2
<1>21. ASSUME NEW other \in Names
       PROVE  FilesMatch(models'[other], artifacts[other]) /\ OneChampion(models'[other])
  <2>1. CASE other # name
    BY <1>17, <1>21, <2>1
  <2>2. CASE other = name
    BY <1>2, <1>17, <1>19, <1>20, <2>2
  <2>. QED BY <2>1, <2>2
<1>22. SaveIsNext' /\ artifacts' = artifacts
  BY <1>11 DEF SaveIsNext
<1>. QED BY <1>18, <1>21, <1>22 DEF FilesMatch, OneChampion

(* A lost file leaves the others as they were.                             *)
LEMMA FileLostStep ==
  ASSUME RegistryInv, NEW name \in Names, NEW version, FileLost(name, version)
  PROVE  RegistryInv'
<1>. USE DEF RegistryInv
<1>1. PICK files, left : files = artifacts[name] /\ left = Restrict(files, DOMAIN files \ {version})
  OBVIOUS
<1>2. artifacts' = [artifacts EXCEPT ![name] = left] /\ UNCHANGED <<models, retraining, trainings>>
  BY <1>1 DEF FileLost
<1>3. PICK versions \in SUBSET Nat : files \in [versions -> Nat]
  BY <1>1 DEF RegistryTypeOK
<1>4. /\ left \in [versions \ {version} -> Nat] /\ versions \ {version} \in SUBSET Nat
      /\ DOMAIN left \subseteq DOMAIN files /\ \A v \in DOMAIN left : left[v] = files[v]
  BY <1>1, <1>3 DEF Restrict
<1>5. artifacts' \in [Names -> UNION {[some -> Nat] : some \in SUBSET Nat}]
      /\ artifacts'[name] = left /\ \A other \in Names \ {name} : artifacts'[other] = artifacts[other]
  <2>. DEFINE Files == UNION {[some -> Nat] : some \in SUBSET Nat}
  <2>1. left \in Files
    BY <1>4
  <2>2. artifacts \in [Names -> Files]
    BY DEF RegistryTypeOK
  <2>. HIDE DEF Files
  <2>3. artifacts' \in [Names -> Files]
      /\ artifacts'[name] = left /\ \A other \in Names \ {name} : artifacts'[other] = artifacts[other]
    BY <1>2, <2>1, <2>2
  <2>. QED BY <2>3 DEF Files
<1>6. RegistryTypeOK'
  BY <1>2, <1>5 DEF RegistryTypeOK
<1>7. \A other \in Names : \A v \in DOMAIN artifacts'[other] :
         v \in DOMAIN artifacts[other] /\ artifacts'[other][v] = artifacts[other][v]
  BY <1>1, <1>4, <1>5
<1>8. ASSUME NEW other \in Names
      PROVE  FilesMatch(models[other], artifacts'[other]) /\ OneChampion(models[other])
  BY <1>7, <1>8 DEF FilesMatch
<1>9. SaveIsNext'
  BY <1>2, <1>7, NextName DEF SaveIsNext, NextVersion
<1>. QED BY <1>2, <1>6, <1>8, <1>9 DEF FilesMatch, OneChampion

(* Every step keeps files and rows in agreement.                           *)
LEMMA RegistryStep ==
  ASSUME RegistryInv, [RegistryNext]_registryVars
  PROVE  RegistryInv'
<1>. USE DEF RegistryInv
<1>1. CASE CycleBegins
  <2>1. /\ retraining' = [NoCycle EXCEPT !.todo = ModelNames]
        /\ UNCHANGED <<models, artifacts, trainings>>
    BY <1>1 DEF CycleBegins
  <2>2. retraining' = [todo |-> ModelNames, saving |-> None]
    BY <2>1 DEF NoCycle
  <2>3. ModelNames \in Seq(Names)
    BY RegistryValues DEF Names
  <2>4. retraining'.saving = None /\ retraining' \in [todo : Seq(Names), saving : Save \cup {None}]
    BY <2>2, <2>3
  <2>5. RegistryTypeOK' /\ SaveIsNext'
    BY <2>1, <2>4 DEF RegistryTypeOK, SaveIsNext
  <2>. QED BY <2>1, <2>5 DEF FilesMatch, OneChampion
<1>2. ASSUME NEW labels \in LabelSeries, RetrainSkipped(labels)
      PROVE  RegistryInv'
  <2>1. /\ retraining.todo # <<>> /\ retraining.saving = None
        /\ retraining' = [retraining EXCEPT !.todo = Tail(retraining.todo)]
        /\ UNCHANGED <<models, artifacts, trainings>>
    BY <1>2 DEF RetrainSkipped
  <2>. QED BY <2>1, NextName DEF RegistryTypeOK, SaveIsNext, FilesMatch, OneChampion
<1>3. ASSUME NEW labels \in LabelSeries, NEW auc \in Aucs, Retrain(labels, auc)
      PROVE  RegistryInv'
  BY <1>3, RetrainStep
<1>4. CASE SaveCommits
  BY <1>4, SaveStep
<1>5. CASE CycleFails
  BY <1>5, EmptySeq
     DEF CycleFails, NoCycle, RegistryTypeOK, SaveIsNext, FilesMatch, OneChampion
<1>6. ASSUME NEW name \in Names, NEW version \in 1..MaxTrainings, FileLost(name, version)
      PROVE  RegistryInv'
  BY <1>6, FileLostStep
<1>7. CASE UNCHANGED registryVars
  BY <1>7 DEF registryVars, RegistryTypeOK, SaveIsNext, FilesMatch, OneChampion, NextVersion
<1>. QED BY <1>1, <1>2, <1>3, <1>4, <1>5, <1>6, <1>7 DEF RegistryNext, Names

(* Hence what serves is the champion's own training.                       *)
LEMMA ServesTheChampion == RegistryInv => ChampionServes
<1>. SUFFICES ASSUME RegistryInv, NEW name \in Names
              PROVE  LET rows == models[name] IN
                     /\ \A i \in DOMAIN rows :
                           rows[i].version \in DOMAIN artifacts[name]
                           => artifacts[name][rows[i].version] = rows[i].trained
                     /\ rows # <<>> => Cardinality({i \in DOMAIN rows : rows[i].active}) = 1
                     /\ LoadActive(name) # None =>
                           \A i \in DOMAIN rows : rows[i].auc <= LoadActive(name).auc
  BY DEF ChampionServes, Names
<1>1. PICK rows : rows = models[name]
  OBVIOUS
<1>2. rows \in Seq(ModelRow) /\ FilesMatch(rows, artifacts[name]) /\ OneChampion(rows)
  BY <1>1 DEF RegistryInv, RegistryTypeOK
<1>3. CASE rows = <<>>
  <2>1. LoadActive(name) = None
    BY <1>1, <1>3, NoChampion DEF LoadActive
  <2>. QED BY <1>1, <1>2, <1>3, <2>1 DEF FilesMatch
<1>4. CASE rows # <<>>
  <2>1. PICK c \in DOMAIN rows :
          /\ rows[c].active
          /\ \A i \in DOMAIN rows : rows[i].active => i = c
          /\ \A i \in DOMAIN rows : rows[i].auc <= rows[c].auc
    BY <1>2, <1>4 DEF OneChampion
  <2>2. {i \in DOMAIN rows : rows[i].active} = {c} /\ Champion(rows) = rows[c]
    BY <1>2, <2>1, ChampionIs
  <2>3. Cardinality({i \in DOMAIN rows : rows[i].active}) = 1
    BY <2>2, FS_Singleton
  <2>4. LoadActive(name) # None => LoadActive(name).auc = rows[c].auc
    BY <1>1, <2>2 DEF LoadActive
  <2>. QED BY <1>1, <1>2, <2>1, <2>3, <2>4 DEF FilesMatch
<1>. QED BY <1>3, <1>4

(* analytics/ml/train.py and registry.py: wherever a retraining dies, and  *)
(* whichever files are lost, a file holds the training its row names, one  *)
(* version of a model is active, and none was evaluated better than the    *)
(* one that serves.                                                        *)
THEOREM ChampionServesHolds == RegistryInit /\ [][RegistryNext]_registryVars => []ChampionServes
<1>1. RegistryInit => RegistryInv
  <2>1. SUFFICES ASSUME RegistryInit PROVE RegistryInv
    OBVIOUS
  <2>2. \A name \in Names : models[name] = <<>> /\ artifacts[name] = <<>>
    BY <2>1 DEF RegistryInit, Names
  <2>3. <<>> \in [{} -> Nat] /\ {} \in SUBSET Nat
    OBVIOUS
  <2>4. RegistryTypeOK
    BY <2>1, <2>3, EmptySeq DEF RegistryInit, Names, RegistryTypeOK, NoCycle
  <2>5. SaveIsNext
    BY <2>1 DEF RegistryInit, NoCycle, SaveIsNext
  <2>. QED BY <2>2, <2>4, <2>5 DEF RegistryInv, FilesMatch, OneChampion
<1>2. RegistryInv /\ [RegistryNext]_registryVars => RegistryInv'
  BY RegistryStep
<1>. QED BY <1>1, <1>2, ServesTheChampion, PTL

-----------------------------------------------------------------------------
(* Predictions.  The closes of a pair are recorded in the order in which   *)
(* they happen, so the first one after a moment stays the first, and is    *)
(* the same from the buy and from the prediction unless one lies between.  *)
(* Metrics cycles follow each other, so that only the one that was at work *)
(* when a prediction read the statistics can commit an older stamp later.  *)
Close == [pair : TradedPairs, at : Int, profit : BOOLEAN]
Prediction == [pair : TradedPairs, bought : Int, created : Int, features : Nat,
               running : Nat \cup {None}]
LearningTypeOK ==
    /\ mlNow \in Nat
    /\ closes \in Seq(Close)
    /\ statsTimes \subseteq Nat /\ IsFiniteSet(statsTimes)
    /\ metricsRun \in Nat \cup {None}
    /\ predictions \in Seq(Prediction)
    /\ DOMAIN graded \subseteq DOMAIN predictions
ClosesInOrder ==
    \A i, j \in DOMAIN closes :
        i < j /\ closes[i].pair = closes[j].pair => closes[i].at < closes[j].at
BoughtBefore ==
    \A i \in DOMAIN predictions :
        predictions[i].bought <= predictions[i].created /\ predictions[i].created <= mlNow
GradesAreLabels ==
    \A i \in DOMAIN graded :
        /\ graded[i] # None
        /\ graded[i] = LabelAfter(predictions[i].pair, predictions[i].created)
RunIsNewest ==
    /\ \A s \in statsTimes : s <= mlNow
    /\ metricsRun # None =>
         metricsRun <= mlNow /\ \A s \in statsTimes : s <= metricsRun
StatsServed(p) ==
    /\ p.features \in statsTimes /\ p.features <= p.created
    /\ p.running # None => p.features <= p.running /\ p.running <= p.created
    /\ \A s \in statsTimes : s <= p.features \/ s = p.running \/ p.created <= s
    /\ metricsRun # None => metricsRun = p.running \/ p.created <= metricsRun
PredictionsServed == \A i \in DOMAIN predictions : StatsServed(predictions[i])
LearningInv ==
    /\ LearningTypeOK /\ ClosesInOrder /\ BoughtBefore /\ GradesAreLabels
    /\ RunIsNewest /\ PredictionsServed

(* A recorded close has a time.                                            *)
LEMMA CloseTyped ==
  ASSUME LearningTypeOK, NEW i \in DOMAIN closes
  PROVE  i \in Int /\ closes[i].at \in Int
<1>1. i \in 1..Len(closes) /\ closes[i] \in Close /\ Len(closes) \in Nat
  BY LenProperties, ElementOfSeq DEF LearningTypeOK
<1>. QED BY <1>1 DEF Close

(* A prediction has its times.                                             *)
LEMMA PredictionTyped ==
  ASSUME LearningTypeOK, NEW i \in DOMAIN predictions
  PROVE  /\ predictions[i].bought \in Int /\ predictions[i].created \in Int
         /\ predictions[i].features \in Nat /\ predictions[i].running \in Nat \cup {None}
<1>1. predictions[i] \in Prediction
  BY LenProperties, ElementOfSeq DEF LearningTypeOK
<1>. QED BY <1>1 DEF Prediction

(* The label is that of the first close within the horizon.                *)
LEMMA FirstWithin ==
  ASSUME LearningTypeOK, NEW pair, NEW t, ClosesWithin(pair, t) # {}
  PROVE  /\ Min(ClosesWithin(pair, t)) \in ClosesWithin(pair, t)
         /\ \A i \in ClosesWithin(pair, t) : Min(ClosesWithin(pair, t)) <= i
<1>1. DOMAIN closes = 1..Len(closes) /\ Len(closes) \in Nat
  BY LenProperties DEF LearningTypeOK
<1>2. IsFiniteSet(1..Len(closes))
  <2>1. 1 \in Int /\ Len(closes) \in Int
    BY <1>1
  <2>. QED BY <2>1, FS_Interval
<1>3. ClosesWithin(pair, t) \subseteq 1..Len(closes)
  BY <1>1 DEF ClosesWithin
<1>4. IsFiniteSet(ClosesWithin(pair, t)) /\ ClosesWithin(pair, t) \subseteq Int
  BY <1>2, <1>3, FS_Subset
<1>. QED BY <1>4, MinIn

(* A least member of a finite set is its minimum.                          *)
LEMMA MinIs ==
  ASSUME NEW S \in SUBSET Int, IsFiniteSet(S), NEW m \in S, \A x \in S : m <= x
  PROVE  Min(S) = m
<1>1. Min(S) \in S /\ Min(S) <= m
  BY MinIn
<1>2. m <= Min(S) /\ Min(S) \in Int /\ m \in Int
  BY <1>1
<1>. QED BY <1>1, <1>2

(* A greatest member of a finite set is its maximum.                       *)
LEMMA MaxIs ==
  ASSUME NEW S \in SUBSET Int, IsFiniteSet(S), NEW m \in S, \A x \in S : x <= m
  PROVE  Max(S) = m
<1>1. Max(S) \in S /\ m <= Max(S)
  BY MaxIn
<1>2. Max(S) <= m /\ Max(S) \in Int /\ m \in Int
  BY <1>1
<1>. QED BY <1>1, <1>2

(* A label that is known stays what it is when another position closes.    *)
LEMMA LabelStays ==
  ASSUME LearningTypeOK, NEW new \in Close, closes' = Append(closes, new),
         NEW pair, NEW t, LabelAfter(pair, t) # None
  PROVE  (LabelAfter(pair, t))' = LabelAfter(pair, t)
<1>1. /\ closes' \in Seq(Close) /\ DOMAIN closes' = 1..(Len(closes) + 1)
      /\ DOMAIN closes = 1..Len(closes) /\ Len(closes) \in Nat
      /\ \A i \in DOMAIN closes : closes'[i] = closes[i]
  BY AppendProperties, LenProperties DEF LearningTypeOK
<1>2. PICK before, after : /\ before = ClosesWithin(pair, t)
                           /\ after = {i \in DOMAIN closes' : closes'[i].pair = pair
                                        /\ t < closes'[i].at /\ closes'[i].at <= t + Horizon}
  OBVIOUS
<1>3. before # {}
  BY <1>2 DEF LabelAfter
<1>4. PICK first : first = Min(before)
  OBVIOUS
<1>5. first \in before /\ \A i \in before : first <= i
  BY <1>2, <1>3, <1>4, FirstWithin
<1>6. before \subseteq after /\ \A i \in after : i \in before \/ i = Len(closes) + 1
  BY <1>1, <1>2 DEF ClosesWithin
<1>7. first \in DOMAIN closes
  BY <1>2, <1>5 DEF ClosesWithin
<1>8. \A i \in after : first <= i
  BY <1>1, <1>5, <1>6, <1>7
<1>9. IsFiniteSet(after) /\ after \in SUBSET Int
  <2>1. 1 \in Int /\ Len(closes) + 1 \in Int
    BY <1>1
  <2>2. after \subseteq 1..(Len(closes) + 1)
    BY <1>1, <1>2
  <2>3. IsFiniteSet(1..(Len(closes) + 1))
    BY <2>1, FS_Interval
  <2>4. IsFiniteSet(after)
    BY <2>2, <2>3, FS_Subset
  <2>5. after \in SUBSET Int
    BY <2>2
  <2>. QED BY <2>4, <2>5
<1>10. Min(after) = first /\ after # {}
  BY <1>5, <1>6, <1>8, <1>9, MinIs
<1>11. (LabelAfter(pair, t))' = closes'[first].profit
  BY <1>2, <1>10 DEF LabelAfter, ClosesWithin
<1>12. LabelAfter(pair, t) = closes[first].profit
  BY <1>2, <1>3, <1>4 DEF LabelAfter
<1>. QED BY <1>1, <1>7, <1>11, <1>12

(* Without a close between a buy and its prediction, both have the same    *)
(* label, if the buy has one.                                              *)
LEMMA SameLabel ==
  ASSUME LearningTypeOK, ClosesInOrder, NEW pair, NEW bought \in Int, NEW created \in Int,
         bought <= created, LabelAfter(pair, bought) # None,
         \A i \in DOMAIN closes : closes[i].pair = pair => closes[i].at \notin bought..created
  PROVE  LabelAfter(pair, created) = LabelAfter(pair, bought)
<1>1. PICK early, late : early = ClosesWithin(pair, bought) /\ late = ClosesWithin(pair, created)
  OBVIOUS
<1>2. early # {}
  BY <1>1 DEF LabelAfter
<1>3. PICK first : first = Min(early)
  OBVIOUS
<1>4. first \in early /\ \A i \in early : first <= i
  BY <1>1, <1>2, <1>3, FirstWithin
<1>5. early \subseteq DOMAIN closes /\ late \subseteq DOMAIN closes
  BY <1>1 DEF ClosesWithin
<1>6. first \in late
  <2>1. /\ closes[first].pair = pair /\ bought < closes[first].at
        /\ closes[first].at <= bought + Horizon /\ closes[first].at \in Int
    BY <1>1, <1>4, <1>5, CloseTyped DEF ClosesWithin
  <2>2. closes[first].at \notin bought..created
    BY <1>4, <1>5, <2>1
  <2>3. created < closes[first].at /\ closes[first].at <= created + Horizon
    BY <2>1, <2>2, HorizonIsTime
  <2>. QED BY <1>1, <1>4, <1>5, <2>1, <2>3 DEF ClosesWithin
<1>7. ASSUME NEW i \in late PROVE first <= i
  <2>1. i \in DOMAIN closes /\ first \in DOMAIN closes /\ i \in Int /\ first \in Int
        /\ closes[i].at \in Int /\ closes[first].at \in Int
    BY <1>4, <1>5, CloseTyped
  <2>2. /\ closes[i].pair = pair /\ created < closes[i].at
        /\ closes[first].pair = pair /\ closes[first].at <= bought + Horizon
    BY <1>1, <1>4 DEF ClosesWithin
  <2>3. SUFFICES ASSUME i < first PROVE FALSE
    BY <2>1
  <2>4. closes[i].at < closes[first].at
    BY <2>1, <2>2, <2>3 DEF ClosesInOrder
  <2>5. bought < closes[i].at /\ closes[i].at <= bought + Horizon
    BY <2>1, <2>2, <2>4, HorizonIsTime
  <2>6. i \in early
    BY <1>1, <2>1, <2>2, <2>5 DEF ClosesWithin
  <2>. QED BY <1>4, <2>1, <2>3, <2>6
<1>8. IsFiniteSet(late) /\ late \in SUBSET Int
  <2>1. DOMAIN closes = 1..Len(closes) /\ Len(closes) \in Nat
    BY LenProperties DEF LearningTypeOK
  <2>2. 1 \in Int /\ Len(closes) \in Int
    BY <2>1
  <2>3. IsFiniteSet(1..Len(closes)) /\ late \subseteq 1..Len(closes)
    BY <1>5, <2>1, <2>2, FS_Interval
  <2>. QED BY <2>3, FS_Subset
<1>9. Min(late) = first /\ late # {}
  BY <1>6, <1>7, <1>8, MinIs
<1>. QED BY <1>1, <1>2, <1>3, <1>9 DEF LabelAfter

(* Grades stay labels where no close is recorded.                          *)
LEMMA GradesKept ==
  ASSUME closes' = closes,
         \A i \in DOMAIN graded' :
            /\ predictions'[i] = predictions[i] /\ graded'[i] # None
            /\ graded'[i] = LabelAfter(predictions[i].pair, predictions[i].created)
  PROVE  GradesAreLabels'
<1>1. ASSUME NEW i \in DOMAIN graded'
      PROVE  graded'[i] # None
             /\ graded'[i] = (LabelAfter(predictions[i].pair, predictions[i].created))'
  <2>1. PICK p, t : p = predictions[i].pair /\ t = predictions[i].created
    OBVIOUS
  <2>2. predictions'[i].pair = p /\ predictions'[i].created = t
    BY <2>1
  <2>3. (LabelAfter(predictions[i].pair, predictions[i].created))' = (LabelAfter(p, t))'
    BY <2>2 DEF LabelAfter, ClosesWithin
  <2>4. (LabelAfter(p, t))' = LabelAfter(p, t)
    BY DEF LabelAfter, ClosesWithin
  <2>. QED BY <2>1, <2>3, <2>4
<1>. QED BY <1>1 DEF GradesAreLabels

(* The latest statistics are the ones with the greatest stamp.             *)
LEMMA LatestStatsIs ==
  ASSUME LearningTypeOK, LatestStats # None
  PROVE  LatestStats \in statsTimes /\ \A s \in statsTimes : s <= LatestStats
<1>1. statsTimes # {} /\ LatestStats = Max(statsTimes)
  BY DEF LatestStats
<1>2. statsTimes \subseteq Int /\ IsFiniteSet(statsTimes)
  BY DEF LearningTypeOK
<1>. QED BY <1>1, <1>2, MaxIn

(* A prediction is made, with the latest statistics.                       *)
LEMMA PredictStep ==
  ASSUME LearningInv, NEW pair \in TradedPairs, NEW lag \in {0, 1}, Predict(pair, lag)
  PROVE  LearningInv'
<1>. USE DEF LearningInv
<1>1. PICK new : new = [pair |-> pair, bought |-> mlNow - lag, created |-> mlNow,
                        features |-> LatestStats, running |-> metricsRun]
  OBVIOUS
<1>2. /\ predictions' = Append(predictions, new) /\ LatestStats # None
      /\ UNCHANGED <<mlNow, closes, statsTimes, metricsRun, graded>>
  BY <1>1 DEF Predict, snapshotVars
<1>3. mlNow \in Int /\ mlNow - lag \in Int /\ mlNow - lag <= mlNow
  BY DEF LearningTypeOK
<1>4. /\ LatestStats \in statsTimes /\ \A s \in statsTimes : s <= LatestStats
      /\ LatestStats \in Nat /\ metricsRun \in Nat \cup {None}
  BY <1>2, LatestStatsIs DEF LearningTypeOK
<1>5. new \in Prediction
  BY <1>1, <1>3, <1>4 DEF Prediction
<1>6. /\ predictions' \in Seq(Prediction) /\ DOMAIN predictions' = 1..(Len(predictions) + 1)
      /\ DOMAIN predictions = 1..Len(predictions) /\ Len(predictions) \in Nat
      /\ predictions'[Len(predictions) + 1] = new
      /\ \A i \in DOMAIN predictions : predictions'[i] = predictions[i]
  BY <1>2, <1>5, AppendProperties, LenProperties DEF LearningTypeOK
<1>7. \A i \in DOMAIN predictions' : i \in DOMAIN predictions \/ predictions'[i] = new
  BY <1>6
<1>8. LearningTypeOK'
  BY <1>2, <1>6 DEF LearningTypeOK
<1>9. BoughtBefore'
  BY <1>1, <1>2, <1>3, <1>6, <1>7 DEF BoughtBefore
<1>10. GradesAreLabels'
  BY <1>2, <1>6, GradesKept DEF GradesAreLabels, LearningTypeOK
<1>11. ClosesInOrder' /\ RunIsNewest'
  BY <1>2 DEF ClosesInOrder, RunIsNewest
<1>12. StatsServed(new)
  BY <1>1, <1>4 DEF StatsServed, RunIsNewest
<1>13. PredictionsServed'
  BY <1>2, <1>6, <1>7, <1>12 DEF PredictionsServed, StatsServed
<1>. QED BY <1>8, <1>9, <1>10, <1>11, <1>13

(* Grading writes labels.                                                  *)
LEMMA GradeStep ==
  ASSUME LearningInv, GradePredictions
  PROVE  LearningInv'
<1>. USE DEF LearningInv
<1>1. PICK done : done = {i \in OldestBatch(Ungraded) : Gradable(i)}
  OBVIOUS
<1>2. PICK label : label = [i \in done |-> LabelAfter(predictions[i].pair, predictions[i].created)]
  OBVIOUS
<1>3. /\ graded' = [i \in DOMAIN graded \cup done |-> IF i \in done THEN label[i] ELSE graded[i]]
      /\ UNCHANGED <<mlNow, closes, statsTimes, metricsRun, predictions>>
  BY <1>1, <1>2 DEF GradePredictions, snapshotVars
<1>4. done \subseteq DOMAIN predictions
  BY <1>1 DEF OldestBatch, Ungraded
<1>5. \A i \in done : label[i] # None
                       /\ label[i] = LabelAfter(predictions[i].pair, predictions[i].created)
  BY <1>1, <1>2 DEF Gradable
<1>6. \A i \in DOMAIN graded' :
         /\ i \in done => graded'[i] = label[i]
         /\ i \notin done => i \in DOMAIN graded /\ graded'[i] = graded[i]
  BY <1>3
<1>7. LearningTypeOK'
  BY <1>3, <1>4 DEF LearningTypeOK
<1>8. \A i \in DOMAIN graded' :
         /\ graded'[i] # None
         /\ graded'[i] = LabelAfter(predictions[i].pair, predictions[i].created)
  BY <1>5, <1>6 DEF GradesAreLabels
<1>9. GradesAreLabels'
  BY <1>3, <1>8, GradesKept
<1>10. ClosesInOrder' /\ BoughtBefore' /\ RunIsNewest' /\ PredictionsServed'
  BY <1>3 DEF ClosesInOrder, BoughtBefore, RunIsNewest, PredictionsServed, StatsServed
<1>. QED BY <1>7, <1>9, <1>10

(* A close that is recorded late changes no label that was given.          *)
LEMMA CloseStep ==
  ASSUME LearningInv, NEW pair \in TradedPairs, NEW at \in 0..MaxMlNow, NEW profit \in BOOLEAN,
         PositionCloses(pair, at, profit)
  PROVE  LearningInv'
<1>. USE DEF LearningInv
<1>1. PICK new : new = [pair |-> pair, at |-> at, profit |-> profit]
  OBVIOUS
<1>2. /\ closes' = Append(closes, new)
      /\ \A i \in DOMAIN closes : closes[i].pair = new.pair => closes[i].at < new.at
      /\ UNCHANGED <<mlNow, statsTimes, metricsRun, predictions, graded>>
  BY <1>1 DEF PositionCloses, snapshotVars
<1>3. new \in Close
  BY <1>1 DEF Close
<1>4. /\ closes' \in Seq(Close) /\ DOMAIN closes' = 1..(Len(closes) + 1)
      /\ DOMAIN closes = 1..Len(closes) /\ Len(closes) \in Nat
      /\ closes'[Len(closes) + 1] = new
      /\ \A i \in DOMAIN closes : closes'[i] = closes[i]
  BY <1>2, <1>3, AppendProperties, LenProperties DEF LearningTypeOK
<1>5. LearningTypeOK'
  BY <1>2, <1>4 DEF LearningTypeOK
<1>6. ClosesInOrder'
  <2>1. ASSUME NEW i \in DOMAIN closes', NEW j \in DOMAIN closes', i < j,
               closes'[i].pair = closes'[j].pair
        PROVE  closes'[i].at < closes'[j].at
    <3>1. i \in DOMAIN closes
      BY <1>4, <2>1
    <3>2. CASE j \in DOMAIN closes
      BY <1>4, <2>1, <3>1, <3>2 DEF ClosesInOrder
    <3>3. CASE j \notin DOMAIN closes
      <4>1. closes'[j] = new
        BY <1>4, <3>3
      <4>. QED BY <1>2, <1>4, <2>1, <3>1, <4>1
    <3>. QED BY <3>2, <3>3
  <2>. QED BY <2>1 DEF ClosesInOrder
<1>7. GradesAreLabels'
  <2>1. ASSUME NEW i \in DOMAIN graded
        PROVE  graded[i] # None
               /\ graded[i] = (LabelAfter(predictions[i].pair, predictions[i].created))'
    <3>1. PICK p, t : p = predictions[i].pair /\ t = predictions[i].created
      OBVIOUS
    <3>2. graded[i] # None /\ graded[i] = LabelAfter(p, t)
      BY <3>1 DEF GradesAreLabels
    <3>3. LabelAfter(p, t) # None
      BY <3>2
    <3>. HIDE DEF LearningInv
    <3>4. LearningTypeOK
      BY DEF LearningInv
    <3>5. (LabelAfter(p, t))' = LabelAfter(p, t)
      BY ONLY <1>2, <1>3, <3>3, <3>4, LabelStays
    <3>6. (LabelAfter(predictions[i].pair, predictions[i].created))' = (LabelAfter(p, t))'
      BY <1>2, <3>1 DEF LabelAfter, ClosesWithin
    <3>. QED BY <3>2, <3>5, <3>6
  <2>. QED BY <1>2, <2>1 DEF GradesAreLabels
<1>8. BoughtBefore' /\ RunIsNewest' /\ PredictionsServed'
  BY <1>2 DEF BoughtBefore, RunIsNewest, PredictionsServed, StatsServed
<1>. QED BY <1>5, <1>6, <1>7, <1>8

(* A cycle that starts is stamped after every prediction.                  *)
LEMMA SnapshotStartsStep ==
  ASSUME LearningInv, SnapshotStarts
  PROVE  LearningInv'
<1>. USE DEF LearningInv
<1>1. metricsRun' = mlNow /\ UNCHANGED <<mlNow, closes, statsTimes, predictions, graded>>
  BY DEF SnapshotStarts
<1>2. LearningTypeOK' /\ ClosesInOrder' /\ BoughtBefore'
  BY <1>1 DEF LearningTypeOK, ClosesInOrder, BoughtBefore
<1>3. GradesAreLabels'
  BY <1>1, GradesKept DEF GradesAreLabels
<1>4. mlNow \in Int
  BY DEF LearningTypeOK
<1>5. RunIsNewest'
  BY <1>1, <1>4 DEF RunIsNewest
<1>6. PredictionsServed'
  BY <1>1 DEF PredictionsServed, StatsServed, BoughtBefore
<1>. QED BY <1>2, <1>3, <1>5, <1>6

(* A cycle that commits is the one that was at work when a prediction read *)
(* the statistics, or was stamped after it.                                *)
LEMMA SnapshotEndsStep ==
  ASSUME LearningInv, SnapshotCommits \/ SnapshotFails
  PROVE  LearningInv'
<1>. USE DEF LearningInv
<1>1. /\ metricsRun # None /\ metricsRun' = None
      /\ UNCHANGED <<mlNow, closes, predictions, graded>>
      /\ statsTimes' = statsTimes \/ statsTimes' = statsTimes \cup {metricsRun}
  BY DEF SnapshotCommits, SnapshotFails
<1>2. metricsRun \in Nat /\ IsFiniteSet(statsTimes) /\ statsTimes \subseteq Nat
  BY <1>1 DEF LearningTypeOK
<1>3. IsFiniteSet(statsTimes') /\ statsTimes' \subseteq Nat
  <2>1. IsFiniteSet(statsTimes \cup {metricsRun})
    BY <1>2, FS_AddElement
  <2>. QED BY <1>1, <1>2, <2>1
<1>4. LearningTypeOK' /\ ClosesInOrder' /\ BoughtBefore'
  BY <1>1, <1>3 DEF LearningTypeOK, ClosesInOrder, BoughtBefore
<1>5. GradesAreLabels'
  BY <1>1, GradesKept DEF GradesAreLabels
<1>6. RunIsNewest'
  BY <1>1 DEF RunIsNewest
<1>7. \A s \in statsTimes' : s \in statsTimes \/ s = metricsRun
  BY <1>1
<1>8. PredictionsServed'
  BY <1>1, <1>7 DEF PredictionsServed, StatsServed
<1>. QED BY <1>4, <1>5, <1>6, <1>8

(* Every step keeps grades the labels that training computes.              *)
LEMMA LearningStep ==
  ASSUME LearningInv, [LearningNext]_learningVars
  PROVE  LearningInv'
<1>1. ASSUME NEW pair \in TradedPairs, NEW lag \in {0, 1}, Predict(pair, lag)
      PROVE  LearningInv'
  BY <1>1, PredictStep
<1>2. CASE GradePredictions
  BY <1>2, GradeStep
<1>3. ASSUME NEW pair \in TradedPairs, NEW at \in 0..MaxMlNow, NEW profit \in BOOLEAN,
             PositionCloses(pair, at, profit)
      PROVE  LearningInv'
  BY <1>3, CloseStep
<1>4. CASE SnapshotStarts \/ SnapshotCommits \/ SnapshotFails
  BY <1>4, SnapshotStartsStep, SnapshotEndsStep
<1>5. CASE LearningTimePasses
  <2>1. mlNow' = mlNow + 1 /\ UNCHANGED <<closes, statsTimes, metricsRun, predictions, graded>>
    BY <1>5 DEF LearningTimePasses, snapshotVars
  <2>2. LearningTypeOK' /\ ClosesInOrder'
    BY <2>1 DEF LearningInv, LearningTypeOK, ClosesInOrder
  <2>3. BoughtBefore'
    <3>1. ASSUME NEW i \in DOMAIN predictions
          PROVE  predictions[i].bought <= predictions[i].created
                 /\ predictions[i].created <= mlNow + 1
      <4>1. predictions[i].created \in Int /\ mlNow \in Int
        BY PredictionTyped DEF LearningInv, LearningTypeOK
      <4>. QED BY <4>1 DEF LearningInv, BoughtBefore
    <3>. QED BY <2>1, <3>1 DEF BoughtBefore
  <2>4. GradesAreLabels'
    BY <2>1, GradesKept DEF LearningInv, GradesAreLabels
  <2>5. PredictionsServed'
    BY <2>1 DEF LearningInv, PredictionsServed, StatsServed
  <2>6. RunIsNewest'
    <3>1. mlNow \in Int /\ statsTimes \subseteq Int /\ metricsRun \in Int \cup {None}
      BY DEF LearningInv, LearningTypeOK
    <3>. QED BY <2>1, <3>1 DEF LearningInv, RunIsNewest
  <2>. QED BY <2>2, <2>3, <2>4, <2>5, <2>6 DEF LearningInv
<1>6. CASE UNCHANGED learningVars
  <2>1. UNCHANGED <<mlNow, closes, statsTimes, metricsRun, predictions, graded>>
    BY <1>6 DEF learningVars, snapshotVars
  <2>2. LearningTypeOK' /\ ClosesInOrder' /\ BoughtBefore'
    BY <2>1 DEF LearningInv, LearningTypeOK, ClosesInOrder, BoughtBefore
  <2>3. GradesAreLabels'
    BY <2>1, GradesKept DEF LearningInv, GradesAreLabels
  <2>4. RunIsNewest' /\ PredictionsServed'
    BY <2>1 DEF LearningInv, RunIsNewest, PredictionsServed, StatsServed
  <2>. QED BY <2>2, <2>3, <2>4 DEF LearningInv
<1>. QED BY <1>1, <1>2, <1>3, <1>4, <1>5, <1>6 DEF LearningNext

(* With no statistics stamped between a buy and its prediction, the buy is *)
(* trained on what was served, or on the cycle that was then at work.      *)
LEMMA TrainedOnServed ==
  ASSUME LearningInv, NEW i \in DOMAIN predictions, NEW p, p = predictions[i],
         statsTimes \cap p.bought..p.created = {}
  PROVE  AsOf(p.bought) = IF p.running \in statsTimes THEN p.running ELSE p.features
<1>1. /\ p.bought \in Int /\ p.created \in Int /\ p.features \in Nat
      /\ p.running \in Nat \cup {None} /\ p.bought <= p.created
  BY PredictionTyped DEF LearningInv, BoughtBefore
<1>2. StatsServed(p) /\ statsTimes \subseteq Nat /\ IsFiniteSet(statsTimes)
  BY DEF LearningInv, PredictionsServed, LearningTypeOK
<1>3. ASSUME NEW s \in statsTimes, s <= p.created PROVE s < p.bought
  <2>1. s \in Int
    BY <1>2
  <2>2. s \notin p.bought..p.created
    OBVIOUS
  <2>3. p.bought \in Int /\ p.created \in Int
    BY <1>1
  <2>. QED BY <1>3, <2>1, <2>2, <2>3
<1>4. PICK upTo : upTo = StatsUpTo(p.bought)
  OBVIOUS
<1>5. upTo \in SUBSET Int /\ IsFiniteSet(upTo)
  <2>1. upTo \subseteq statsTimes
    BY <1>4 DEF StatsUpTo
  <2>2. IsFiniteSet(upTo)
    BY <1>2, <2>1, FS_Subset
  <2>. QED BY <1>2, <2>1, <2>2
<1>6. p.features \in upTo
  BY <1>1, <1>2, <1>3, <1>4 DEF StatsServed, StatsUpTo
<1>7. \A s \in upTo : s <= p.features \/ s = p.running
  BY <1>1, <1>2, <1>3, <1>4 DEF StatsServed, StatsUpTo
<1>8. CASE p.running \in statsTimes
  <2>1. p.running \in Nat /\ p.running # None
    BY <1>2, <1>8, NoneIsNoTime
  <2>2. p.features <= p.running /\ p.running <= p.created
    BY <1>2, <2>1 DEF StatsServed
  <2>3. p.running \in upTo
    BY <1>1, <1>3, <1>4, <1>8, <2>1, <2>2 DEF StatsUpTo
  <2>4. \A s \in upTo : s <= p.running
    BY <1>1, <1>5, <1>7, <2>1, <2>2
  <2>5. Max(upTo) = p.running
    BY <1>5, <2>3, <2>4, MaxIs
  <2>. QED BY <1>4, <1>8, <2>3, <2>5 DEF AsOf
<1>9. CASE p.running \notin statsTimes
  <2>1. \A s \in upTo : s <= p.features
    BY <1>1, <1>4, <1>7, <1>9 DEF StatsUpTo
  <2>2. Max(upTo) = p.features
    BY <1>5, <1>6, <2>1, MaxIs
  <2>. QED BY <1>4, <1>6, <1>9, <2>2 DEF AsOf
<1>. QED BY <1>8, <1>9

(* Hence a prediction is graded as its buy is trained on.                  *)
LEMMA GradesMatchTraining == LearningInv => GradedAsTrained
<1>. SUFFICES ASSUME LearningInv, NEW i \in DOMAIN predictions
              PROVE  LET p == predictions[i] IN
                     /\ /\ i \in DOMAIN graded
                        /\ TrainingExample(p).label # None
                        /\ \A c \in ToSet(closes) : c.pair = p.pair => c.at \notin p.bought..p.created
                        => graded[i] = TrainingExample(p).label
                     /\ statsTimes \cap p.bought..p.created = {}
                        => TrainingExample(p).features
                             = IF p.running \in statsTimes THEN p.running ELSE p.features
  BY DEF GradedAsTrained
<1>1. PICK p : p = predictions[i]
  OBVIOUS
<1>2. TrainingExample(p).label = LabelAfter(p.pair, p.bought)
      /\ TrainingExample(p).features = AsOf(p.bought)
  BY DEF TrainingExample
<1>3. ASSUME i \in DOMAIN graded, TrainingExample(p).label # None,
             \A c \in ToSet(closes) : c.pair = p.pair => c.at \notin p.bought..p.created
      PROVE  graded[i] = TrainingExample(p).label
  <2>1. p.bought \in Int /\ p.created \in Int /\ p.bought <= p.created
    BY <1>1, PredictionTyped DEF LearningInv, BoughtBefore
  <2>2. \A j \in DOMAIN closes : closes[j].pair = p.pair => closes[j].at \notin p.bought..p.created
    BY <1>3 DEF ToSet
  <2>3. LabelAfter(p.pair, p.created) = LabelAfter(p.pair, p.bought)
    BY <1>2, <1>3, <2>1, <2>2, SameLabel DEF LearningInv
  <2>. QED BY <1>1, <1>2, <1>3, <2>3 DEF LearningInv, GradesAreLabels
<1>4. ASSUME statsTimes \cap p.bought..p.created = {}
      PROVE  TrainingExample(p).features
               = IF p.running \in statsTimes THEN p.running ELSE p.features
  BY <1>1, <1>2, <1>4, TrainedOnServed
<1>. QED BY <1>1, <1>3, <1>4

(* evaluation/prediction_eval.py and analytics/ml/dataset.py: a prediction *)
(* is graded with the label that its buy has as a training example, if no  *)
(* position of the pair closed between the two.  Unless statistics were    *)
(* stamped between the two, the example has those that the prediction was  *)
(* given, or those of the metrics cycle at work then, once it commits.     *)
THEOREM GradedAsTrainedHolds == LearningInit /\ [][LearningNext]_learningVars => []GradedAsTrained
<1>1. LearningInit => LearningInv
  BY EmptySeq, FS_EmptySet
     DEF LearningInit, LearningInv, LearningTypeOK, ClosesInOrder, BoughtBefore,
         GradesAreLabels, RunIsNewest, PredictionsServed
<1>2. LearningInv /\ [LearningNext]_learningVars => LearningInv'
  BY LearningStep
<1>. QED BY <1>1, <1>2, GradesMatchTraining, PTL

-----------------------------------------------------------------------------
(* Vetting.  A cycle takes only wallets that were not vetted recently, and *)
(* while it runs the mirror is right about the rows it has flushed, but    *)
(* for the one whose verdict is due; so the mirror is right about a wallet *)
(* again when its rows are committed, and does not matter when they are    *)
(* lost.                                                                   *)
Funders == {TraceFunder(Wallets[id].history, answered).funder :
               id \in WalletIds, answered \in BOOLEAN}
FunderKinds == {TraceFunder(Wallets[id].history, answered).kind :
               id \in WalletIds, answered \in BOOLEAN}
VettingRow == [wallet : WalletIds, verdict : Verdicts, funder : Funders, kind : FunderKinds,
               at : Int]
Has(rows, id) == \E i \in DOMAIN rows : rows[i].wallet = id
VettingTypeOK ==
    /\ vettingNow \in Int
    /\ vettingRows \in Seq(VettingRow)
    /\ cycle \in [running : BOOLEAN, queue : SUBSET WalletIds, rows : Seq(VettingRow),
                  broken : BOOLEAN]
    /\ mirror \in [WalletIds -> Verdicts \cup {None}]
VerdictFlushed ==
    verdictDue # None =>
        /\ cycle.running
        /\ Has(cycle.rows, verdictDue.wallet) /\ verdictDue.wallet \in WalletIds
        /\ verdictDue.verdict \in Verdicts
        /\ LatestRow(cycle.rows, verdictDue.wallet).verdict = verdictDue.verdict
CycleTakesStale ==
    cycle.running =>
        \A id \in WalletIds : id \in cycle.queue \/ Has(cycle.rows, id) => ~RecentlyVetted(id)
MirrorTracksCycle ==
    cycle.running =>
        \A id \in WalletIds \ missed :
            Has(cycle.rows, id) /\ (verdictDue = None \/ verdictDue.wallet # id) =>
                mirror[id] = LatestRow(cycle.rows, id).verdict
MirrorTracksRows ==
    \A id \in WalletIds \ missed :
        RecentlyVetted(id) => mirror[id] = LatestRow(vettingRows, id).verdict
VettingInv ==
    VettingTypeOK /\ VerdictFlushed /\ CycleTakesStale /\ MirrorTracksCycle /\ MirrorTracksRows

(* A wallet has finitely many rows.                                        *)
LEMMA OwnRows ==
  ASSUME NEW rows \in Seq(VettingRow), NEW id
  PROVE  /\ IsFiniteSet({i \in DOMAIN rows : rows[i].wallet = id})
         /\ {i \in DOMAIN rows : rows[i].wallet = id} \in SUBSET Int
<1>. DEFINE own == {i \in DOMAIN rows : rows[i].wallet = id}
<1>1. DOMAIN rows = 1..Len(rows) /\ Len(rows) \in Nat
  BY LenProperties
<1>2. 1 \in Int /\ Len(rows) \in Int
  BY <1>1
<1>3. IsFiniteSet(1..Len(rows)) /\ own \subseteq 1..Len(rows)
  BY <1>1, <1>2, FS_Interval
<1>. HIDE DEF own
<1>4. IsFiniteSet(own)
  BY <1>3, FS_Subset
<1>5. own \in SUBSET Int
  BY <1>3
<1>. QED BY <1>4, <1>5 DEF own

(* The latest row of a wallet is the last one with its id.                 *)
LEMMA LatestIs ==
  ASSUME NEW rows \in Seq(VettingRow), NEW id, NEW m \in DOMAIN rows, rows[m].wallet = id,
         \A i \in DOMAIN rows : rows[i].wallet = id => i <= m
  PROVE  LatestRow(rows, id) = rows[m]
<1>. DEFINE own == {i \in DOMAIN rows : rows[i].wallet = id}
<1>1. IsFiniteSet(own) /\ own \in SUBSET Int
  BY OwnRows
<1>2. m \in own /\ \A i \in own : i <= m
  OBVIOUS
<1>. HIDE DEF own
<1>3. Max(own) = m /\ own # {}
  BY <1>1, <1>2, MaxIs
<1>. QED BY <1>3 DEF LatestRow, own

(* The latest row of a wallet is its last one.                             *)
LEMMA LatestPicked ==
  ASSUME NEW rows \in Seq(VettingRow), NEW id, Has(rows, id)
  PROVE  \E m \in DOMAIN rows : /\ rows[m].wallet = id /\ LatestRow(rows, id) = rows[m]
                                /\ \A i \in DOMAIN rows : rows[i].wallet = id => i <= m
<1>. DEFINE own == {i \in DOMAIN rows : rows[i].wallet = id}
<1>1. IsFiniteSet(own) /\ own \in SUBSET Int
  BY OwnRows
<1>2. own # {}
  BY DEF Has
<1>3. PICK m : m = Max(own)
  OBVIOUS
<1>4. m \in own /\ \A i \in own : i <= m
  <2>. HIDE DEF own
  <2>. QED BY <1>1, <1>2, <1>3, MaxIn
<1>5. LatestRow(rows, id) = rows[m]
  BY <1>2, <1>3 DEF LatestRow
<1>. QED BY <1>4, <1>5

(* After an insert, the latest row is the new one if it is the wallet's.   *)
LEMMA LatestAppended ==
  ASSUME NEW rows \in Seq(VettingRow), NEW new \in VettingRow, NEW id
  PROVE  /\ Has(Append(rows, new), id) <=> Has(rows, id) \/ new.wallet = id
         /\ new.wallet = id => LatestRow(Append(rows, new), id) = new
         /\ new.wallet # id /\ Has(rows, id) =>
               LatestRow(Append(rows, new), id) = LatestRow(rows, id)
<1>1. PICK grown : grown = Append(rows, new)
  OBVIOUS
<1>2. /\ grown \in Seq(VettingRow) /\ DOMAIN grown = 1..(Len(rows) + 1)
      /\ DOMAIN rows = 1..Len(rows) /\ Len(rows) \in Nat
      /\ grown[Len(rows) + 1] = new /\ \A i \in DOMAIN rows : grown[i] = rows[i]
  BY <1>1, AppendProperties, LenProperties
<1>3. PICK last : last = Len(rows) + 1
  OBVIOUS
<1>4. /\ last \in DOMAIN grown /\ grown[last] = new
      /\ \A i \in DOMAIN grown : i <= last /\ (i \in DOMAIN rows \/ i = last)
  BY <1>2, <1>3
<1>5. Has(grown, id) <=> Has(rows, id) \/ new.wallet = id
  BY <1>2, <1>3, <1>4 DEF Has
<1>6. new.wallet = id => LatestRow(grown, id) = new
  BY <1>2, <1>4, LatestIs
<1>7. ASSUME new.wallet # id, Has(rows, id)
      PROVE  LatestRow(grown, id) = LatestRow(rows, id)
  <2>1. PICK m \in DOMAIN rows : /\ rows[m].wallet = id /\ LatestRow(rows, id) = rows[m]
                                /\ \A i \in DOMAIN rows : rows[i].wallet = id => i <= m
    BY <1>7, LatestPicked
  <2>2. m \in DOMAIN grown /\ grown[m].wallet = id /\ grown[m] = rows[m]
        /\ \A i \in DOMAIN grown : grown[i].wallet = id => i <= m
    BY <1>2, <1>4, <1>7, <2>1
  <2>3. LatestRow(grown, id) = grown[m]
    BY <1>2, <2>2, LatestIs
  <2>. QED BY <2>1, <2>2, <2>3
<1>. QED BY <1>1, <1>5, <1>6, <1>7

(* After a commit, the latest row is a committed one if the cycle wrote    *)
(* none.                                                                   *)
LEMMA LatestJoined ==
  ASSUME NEW early \in Seq(VettingRow), NEW late \in Seq(VettingRow), NEW id
  PROVE  /\ Has(early \o late, id) <=> Has(early, id) \/ Has(late, id)
         /\ Has(late, id) => LatestRow(early \o late, id) = LatestRow(late, id)
         /\ ~Has(late, id) /\ Has(early, id) =>
               LatestRow(early \o late, id) = LatestRow(early, id)
<1>1. PICK rows, n : rows = early \o late /\ n = Len(early)
  OBVIOUS
<1>2. /\ rows \in Seq(VettingRow) /\ DOMAIN rows = 1..(n + Len(late))
      /\ DOMAIN early = 1..n /\ DOMAIN late = 1..Len(late) /\ n \in Nat /\ Len(late) \in Nat
      /\ \A i \in DOMAIN early : rows[i] = early[i]
      /\ \A i \in DOMAIN late : rows[n + i] = late[i]
  BY <1>1, ConcatProperties, LenProperties
<1>3. \A i \in DOMAIN rows : i \in DOMAIN early \/ (i > n /\ i - n \in DOMAIN late /\ i = n + (i - n))
  BY <1>2
<1>4. \A i \in DOMAIN late : n + i \in DOMAIN rows
  BY <1>2
<1>5. Has(rows, id) <=> Has(early, id) \/ Has(late, id)
  <2>1. Has(early, id) => Has(rows, id)
    BY <1>2 DEF Has
  <2>2. Has(late, id) => Has(rows, id)
    BY <1>2, <1>4 DEF Has
  <2>3. Has(rows, id) => Has(early, id) \/ Has(late, id)
    <3>1. ASSUME NEW i \in DOMAIN rows, rows[i].wallet = id, i \notin DOMAIN early
          PROVE  Has(late, id)
      <4>1. i - n \in DOMAIN late /\ i = n + (i - n)
        BY <1>3, <3>1
      <4>2. rows[i] = late[i - n]
        BY <1>2, <4>1
      <4>. QED BY <3>1, <4>1, <4>2 DEF Has
    <3>2. ASSUME NEW i \in DOMAIN rows, rows[i].wallet = id, i \in DOMAIN early
          PROVE  Has(early, id)
      BY <1>2, <3>2 DEF Has
    <3>. QED BY <3>1, <3>2 DEF Has
  <2>. QED BY <2>1, <2>2, <2>3
<1>6. ASSUME Has(late, id) PROVE LatestRow(rows, id) = LatestRow(late, id)
  <2>1. PICK m \in DOMAIN late : /\ late[m].wallet = id /\ LatestRow(late, id) = late[m]
                                /\ \A i \in DOMAIN late : late[i].wallet = id => i <= m
    BY <1>6, LatestPicked
  <2>2. PICK k : k = n + m
    OBVIOUS
  <2>3. k \in DOMAIN rows /\ rows[k] = late[m] /\ k \in Int /\ k >= n
    BY <1>2, <1>4, <2>2
  <2>4. ASSUME NEW i \in DOMAIN rows, rows[i].wallet = id PROVE i <= k
    <3>1. CASE i \in DOMAIN early
      BY <1>2, <2>3, <3>1
    <3>2. CASE i \notin DOMAIN early
      <4>1. i - n \in DOMAIN late /\ i = n + (i - n)
        BY <1>3, <3>2
      <4>2. rows[i] = late[i - n]
        BY <1>2, <4>1
      <4>3. i - n <= m
        BY <2>1, <2>4, <4>1, <4>2
      <4>. QED BY <1>2, <2>2, <4>1, <4>3
    <3>. QED BY <3>1, <3>2
  <2>5. LatestRow(rows, id) = rows[k]
    BY <1>2, <2>1, <2>3, <2>4, LatestIs
  <2>. QED BY <2>1, <2>3, <2>5
<1>7. ASSUME ~Has(late, id), Has(early, id) PROVE LatestRow(rows, id) = LatestRow(early, id)
  <2>1. PICK m \in DOMAIN early : /\ early[m].wallet = id /\ LatestRow(early, id) = early[m]
                                 /\ \A i \in DOMAIN early : early[i].wallet = id => i <= m
    BY <1>7, LatestPicked
  <2>2. m \in DOMAIN rows /\ rows[m] = early[m]
    BY <1>2
  <2>3. ASSUME NEW i \in DOMAIN rows, rows[i].wallet = id PROVE i <= m
    <3>1. CASE i \in DOMAIN early
      BY <1>2, <2>1, <2>3, <3>1
    <3>2. CASE i \notin DOMAIN early
      <4>1. i - n \in DOMAIN late /\ i = n + (i - n)
        BY <1>3, <3>2
      <4>2. rows[i] = late[i - n]
        BY <1>2, <4>1
      <4>. QED BY <1>7, <2>3, <4>1, <4>2 DEF Has
    <3>. QED BY <3>1, <3>2
  <2>4. LatestRow(rows, id) = rows[m]
    BY <1>2, <2>1, <2>2, <2>3, LatestIs
  <2>. QED BY <2>1, <2>2, <2>4
<1>. QED BY <1>1, <1>5, <1>6, <1>7

(* A verdict is one of the verdicts.                                       *)
LEMMA VerdictTyped ==
  \A id, info, rows : Verdict(id, info, rows) \in Verdicts
BY DEF Verdict, Verdicts

(* A vetting owes its mirror.                                              *)
LEMMA VetWalletStep ==
  ASSUME VettingInv, NEW id \in WalletIds, NEW answered \in BOOLEAN, VetWallet(id, answered)
  PROVE  VettingInv'
<1>. USE DEF VettingInv
<1>1. PICK info : info = TraceFunder(Wallets[id].history, answered)
  OBVIOUS
<1>2. PICK verdict : verdict = Verdict(id, info, vettingRows \o cycle.rows)
  OBVIOUS
<1>3. PICK row : row = [wallet |-> id, verdict |-> verdict, funder |-> info.funder,
                        kind |-> info.kind, at |-> vettingNow]
  OBVIOUS
<1>4. verdict \in Verdicts /\ info.funder \in Funders /\ info.kind \in FunderKinds
  BY <1>1, <1>2, VerdictTyped DEF Funders, FunderKinds
<1>5. row \in VettingRow /\ row.wallet = id /\ row.verdict = verdict
  BY <1>3, <1>4 DEF VettingRow, VettingTypeOK
<1>6. PICK flushed, grown : flushed = cycle.rows /\ grown = Append(flushed, row)
  OBVIOUS
<1>7. /\ cycle.running /\ verdictDue = None /\ id \in cycle.queue
      /\ cycle' = [cycle EXCEPT !.queue = cycle.queue \ {id}, !.rows = grown]
      /\ verdictDue' = [wallet |-> id, verdict |-> verdict]
      /\ UNCHANGED <<vettingNow, vettingRows, mirror, missed>>
  BY <1>1, <1>2, <1>3, <1>6 DEF VetWallet, VettedNext, FlushRow
<1>8. flushed \in Seq(VettingRow) /\ grown \in Seq(VettingRow)
  BY <1>5, <1>6, AppendProperties DEF VettingTypeOK
<1>9. /\ cycle' \in [running : BOOLEAN, queue : SUBSET WalletIds, rows : Seq(VettingRow),
                    broken : BOOLEAN]
      /\ cycle'.running /\ cycle'.queue = cycle.queue \ {id} /\ cycle'.rows = grown
  BY <1>7, <1>8 DEF VettingTypeOK
<1>10. VettingTypeOK'
  BY <1>7, <1>9 DEF VettingTypeOK
<1>11. verdictDue' # None /\ verdictDue'.wallet = id /\ verdictDue'.verdict = verdict
  BY <1>4, <1>7, VettingValues DEF WalletIds
<1>12. \A other : /\ Has(grown, other) <=> Has(flushed, other) \/ other = id
                  /\ other # id /\ Has(flushed, other) =>
                        LatestRow(grown, other) = LatestRow(flushed, other)
       /\ LatestRow(grown, id) = row
  BY <1>5, <1>6, <1>8, LatestAppended
<1>13. VerdictFlushed'
  <2>1. Has(grown, id) /\ LatestRow(grown, id).verdict = verdict
    BY <1>5, <1>12
  <2>. QED BY <1>4, <1>9, <1>11, <2>1 DEF VerdictFlushed, Has, LatestRow
<1>14. \A other : (RecentlyVetted(other))' = RecentlyVetted(other)
  BY <1>7 DEF RecentlyVetted
<1>15. \A other \in WalletIds : other \in cycle.queue \/ Has(grown, other) => ~RecentlyVetted(other)
  BY <1>6, <1>7, <1>12 DEF CycleTakesStale
<1>16. CycleTakesStale'
  BY <1>9, <1>14, <1>15 DEF CycleTakesStale, Has
<1>17. \A other \in WalletIds \ missed :
          Has(grown, other) /\ other # id => mirror[other] = LatestRow(grown, other).verdict
  BY <1>6, <1>7, <1>12 DEF MirrorTracksCycle
<1>18. MirrorTracksCycle'
  BY <1>7, <1>9, <1>11, <1>17 DEF MirrorTracksCycle, Has, LatestRow
<1>19. MirrorTracksRows'
  BY <1>7, <1>14 DEF MirrorTracksRows, LatestRow
<1>. QED BY <1>10, <1>13, <1>16, <1>18, <1>19

(* A cycle that keeps its rows keeps their latest ones.                    *)
LEMMA SameLatest ==
  ASSUME NEW rows, cycle'.rows = rows, NEW id
  PROVE  /\ (Has(cycle.rows, id))' <=> Has(rows, id)
         /\ (LatestRow(cycle.rows, id))' = LatestRow(rows, id)
BY DEF Has, LatestRow

(* Nothing of what the rows say changes.                                   *)
LEMMA SameRows ==
  ASSUME VettingInv, UNCHANGED <<vettingNow, vettingRows, mirror, missed>>
  PROVE  MirrorTracksRows' /\ \A id : (RecentlyVetted(id))' = RecentlyVetted(id)
BY DEF VettingInv, MirrorTracksRows, RecentlyVetted, LatestRow

(* A cycle starts with nothing of its own.                                 *)
LEMMA CycleStartsStep ==
  ASSUME VettingInv, CycleStarts
  PROVE  VettingInv'
<1>. USE DEF VettingInv
<1>1. /\ cycle' = [IdleCycle EXCEPT !.running = TRUE, !.queue = Candidates]
      /\ ~cycle.running
      /\ UNCHANGED <<vettingNow, vettingRows, mirror, verdictDue, missed>>
  BY DEF CycleStarts
<1>2. \A id \in Candidates : id \in WalletIds /\ ~RecentlyVetted(id)
  BY DEF Candidates
<1>3. /\ cycle' \in [running : BOOLEAN, queue : SUBSET WalletIds, rows : Seq(VettingRow),
                    broken : BOOLEAN]
      /\ cycle'.queue = Candidates /\ cycle'.rows = <<>>
  BY <1>1, <1>2, EmptySeq DEF IdleCycle
<1>4. verdictDue = None
  BY <1>1 DEF VerdictFlushed
<1>5. \A id : ~Has(<<>>, id)
  BY EmptySeq DEF Has
<1>6. VettingTypeOK' /\ VerdictFlushed'
  BY <1>1, <1>3, <1>4 DEF VettingTypeOK, VerdictFlushed
<1>7. CycleTakesStale'
  BY <1>1, <1>2, <1>3, <1>5, SameRows DEF CycleTakesStale, Has
<1>8. MirrorTracksCycle'
  BY <1>3, <1>5 DEF MirrorTracksCycle, Has
<1>. QED BY <1>1, <1>6, <1>7, <1>8, SameRows

(* A vetting that fails goes on to the next wallet or loses the cycle.     *)
LEMMA VetFailsStep ==
  ASSUME VettingInv, NEW id \in WalletIds, NEW database \in BOOLEAN, VetFails(id, database)
  PROVE  VettingInv'
<1>. USE DEF VettingInv
<1>1. PICK left : left = IF database THEN {} ELSE cycle.queue \ {id}
  OBVIOUS
<1>2. /\ cycle' = [cycle EXCEPT !.broken = database, !.queue = left]
      /\ cycle.running /\ verdictDue = None
      /\ UNCHANGED <<vettingNow, vettingRows, mirror, verdictDue, missed>>
  BY <1>1 DEF VetFails, VettedNext
<1>3. left \subseteq cycle.queue
  BY <1>1
<1>4. /\ cycle' \in [running : BOOLEAN, queue : SUBSET WalletIds, rows : Seq(VettingRow),
                    broken : BOOLEAN]
      /\ cycle'.running /\ cycle'.queue = left /\ cycle'.rows = cycle.rows
  BY <1>2, <1>3 DEF VettingTypeOK
<1>5. VettingTypeOK' /\ VerdictFlushed'
  BY <1>2, <1>4 DEF VettingTypeOK, VerdictFlushed
<1>6. CycleTakesStale'
  BY <1>2, <1>3, <1>4, SameRows DEF CycleTakesStale, Has
<1>7. MirrorTracksCycle'
  BY <1>2, <1>4 DEF MirrorTracksCycle, Has, LatestRow
<1>. QED BY <1>2, <1>5, <1>6, <1>7, SameRows

(* Mirroring pays what the vetting owed.                                   *)
LEMMA MirrorVerdictStep ==
  ASSUME VettingInv, MirrorVerdict
  PROVE  VettingInv'
<1>. USE DEF VettingInv
<1>1. PICK id, verdict : id = verdictDue.wallet /\ verdict = verdictDue.verdict
  OBVIOUS
<1>2. /\ verdictDue # None /\ verdictDue' = None
      /\ mirror' = [mirror EXCEPT ![id] = verdict]
      /\ missed' = missed \ {id}
      /\ UNCHANGED <<vettingNow, vettingRows, cycle>>
  BY <1>1 DEF MirrorVerdict
<1>3. /\ cycle.running /\ Has(cycle.rows, id) /\ id \in WalletIds /\ verdict \in Verdicts
      /\ LatestRow(cycle.rows, id).verdict = verdict
  BY <1>1, <1>2 DEF VerdictFlushed
<1>4. /\ mirror' \in [WalletIds -> Verdicts \cup {None}] /\ mirror'[id] = verdict
      /\ \A other \in WalletIds \ {id} : mirror'[other] = mirror[other]
  BY <1>2, <1>3 DEF VettingTypeOK
<1>5. VettingTypeOK' /\ VerdictFlushed' /\ CycleTakesStale'
  BY <1>2, <1>4 DEF VettingTypeOK, VerdictFlushed, CycleTakesStale, RecentlyVetted
<1>6. \A other \in WalletIds \ missed' :
         Has(cycle.rows, other) => mirror'[other] = LatestRow(cycle.rows, other).verdict
  <2>1. ASSUME NEW other \in WalletIds \ missed', Has(cycle.rows, other)
        PROVE  mirror'[other] = LatestRow(cycle.rows, other).verdict
    <3>1. CASE other = id
      BY <1>3, <1>4, <3>1
    <3>2. CASE other # id
      BY <1>1, <1>2, <1>3, <1>4, <2>1, <3>2 DEF MirrorTracksCycle
    <3>. QED BY <3>1, <3>2
  <2>. QED BY <2>1
<1>7. MirrorTracksCycle'
  <2>1. SUFFICES ASSUME NEW other \in WalletIds \ missed', (Has(cycle.rows, other))'
                 PROVE  mirror'[other] = (LatestRow(cycle.rows, other))'.verdict
    BY DEF MirrorTracksCycle
  <2>2. PICK flushed : flushed = cycle.rows
    OBVIOUS
  <2>3. cycle'.rows = flushed
    BY <1>2, <2>2
  <2>4. Has(flushed, other) /\ (LatestRow(cycle.rows, other))' = LatestRow(flushed, other)
    BY <2>1, <2>3, SameLatest
  <2>. QED BY <1>6, <2>2, <2>4
<1>8. \A other \in WalletIds \ missed' :
         RecentlyVetted(other) => mirror'[other] = LatestRow(vettingRows, other).verdict
  <2>1. ~RecentlyVetted(id)
    BY <1>3 DEF CycleTakesStale
  <2>. QED BY <1>2, <1>4, <2>1 DEF MirrorTracksRows
<1>9. MirrorTracksRows'
  BY <1>2, <1>8 DEF MirrorTracksRows, RecentlyVetted, LatestRow
<1>. QED BY <1>5, <1>7, <1>9

(* A mirror that Redis refuses is missed.                                  *)
LEMMA MirrorFailsStep ==
  ASSUME VettingInv, MirrorFails
  PROVE  VettingInv'
<1>. USE DEF VettingInv
<1>1. /\ verdictDue # None /\ verdictDue' = None
      /\ missed' = missed \cup {verdictDue.wallet}
      /\ UNCHANGED <<vettingNow, vettingRows, cycle, mirror>>
  BY DEF MirrorFails
<1>2. VettingTypeOK' /\ VerdictFlushed' /\ CycleTakesStale'
  BY <1>1 DEF VettingTypeOK, VerdictFlushed, CycleTakesStale, RecentlyVetted
<1>3. \A other \in WalletIds \ missed' : other \in WalletIds \ missed /\ other # verdictDue.wallet
  BY <1>1
<1>4. MirrorTracksCycle'
  <2>1. SUFFICES ASSUME (cycle.running)', NEW other \in WalletIds \ missed', (Has(cycle.rows, other))'
                 PROVE  mirror'[other] = (LatestRow(cycle.rows, other))'.verdict
    BY DEF MirrorTracksCycle
  <2>2. PICK flushed : flushed = cycle.rows
    OBVIOUS
  <2>3. cycle'.rows = flushed /\ cycle.running /\ mirror' = mirror
    BY <1>1, <2>1, <2>2
  <2>4. Has(flushed, other) /\ (LatestRow(cycle.rows, other))' = LatestRow(flushed, other)
    BY <2>1, <2>3, SameLatest
  <2>5. mirror[other] = LatestRow(flushed, other).verdict
    BY <1>3, <2>2, <2>3, <2>4 DEF MirrorTracksCycle
  <2>. QED BY <2>3, <2>4, <2>5
<1>5. MirrorTracksRows'
  BY <1>1, <1>3 DEF MirrorTracksRows, RecentlyVetted, LatestRow
<1>. QED BY <1>2, <1>4, <1>5

(* The rows of the cycle become rows on record, unless its session broke.  *)
LEMMA CycleCommitsStep ==
  ASSUME VettingInv, CycleCommits
  PROVE  VettingInv'
<1>. USE DEF VettingInv
<1>1. PICK late : late = cycle.rows
  OBVIOUS
<1>2. /\ cycle.running /\ verdictDue = None
      /\ vettingRows' = IF cycle.broken THEN vettingRows ELSE vettingRows \o late
      /\ cycle' = IdleCycle
      /\ UNCHANGED <<vettingNow, mirror, verdictDue, missed>>
  BY <1>1 DEF CycleCommits
<1>3. late \in Seq(VettingRow)
  BY <1>1 DEF VettingTypeOK
<1>4. ~cycle'.running
      /\ cycle' \in [running : BOOLEAN, queue : SUBSET WalletIds, rows : Seq(VettingRow),
                     broken : BOOLEAN]
  BY <1>2, EmptySeq DEF IdleCycle
<1>5. VettingTypeOK'
  BY <1>2, <1>3, <1>4, ConcatProperties DEF VettingTypeOK
<1>6. VerdictFlushed' /\ CycleTakesStale' /\ MirrorTracksCycle'
  BY <1>2, <1>4 DEF VerdictFlushed, CycleTakesStale, MirrorTracksCycle
<1>7. CASE cycle.broken
  BY <1>2, <1>5, <1>6, <1>7, SameRows
<1>8. CASE ~cycle.broken
  <2>1. PICK rows : rows = vettingRows \o late
    OBVIOUS
  <2>2. vettingRows' = rows /\ vettingRows \in Seq(VettingRow)
    BY <1>2, <1>8, <2>1 DEF VettingTypeOK
  <2>3. ASSUME NEW id \in WalletIds \ missed, (RecentlyVetted(id))'
        PROVE  mirror[id] = LatestRow(rows, id).verdict
    <3>1. CASE Has(late, id)
      <4>1. LatestRow(rows, id) = LatestRow(late, id)
        BY <1>3, <2>1, <2>2, <3>1, LatestJoined
      <4>. QED BY <1>1, <1>2, <2>3, <3>1, <4>1 DEF MirrorTracksCycle
    <3>2. CASE ~Has(late, id)
      <4>1. RecentlyVetted(id)
        <5>1. PICK i \in DOMAIN rows : rows[i].wallet = id /\ rows[i].at >= vettingNow - StaleAfter
          BY <1>2, <2>2, <2>3 DEF RecentlyVetted
        <5>2. PICK n : n = Len(vettingRows)
          OBVIOUS
        <5>3. /\ DOMAIN rows = 1..(n + Len(late)) /\ n \in Nat /\ Len(late) \in Nat
              /\ DOMAIN vettingRows = 1..n /\ DOMAIN late = 1..Len(late)
              /\ \A j \in 1..n : rows[j] = vettingRows[j]
              /\ \A j \in 1..Len(late) : rows[n + j] = late[j]
          BY <1>3, <2>1, <2>2, <5>2, ConcatProperties, LenProperties
        <5>4. CASE i \in 1..n
          BY <5>1, <5>3, <5>4 DEF RecentlyVetted
        <5>5. CASE i \notin 1..n
          <6>1. i - n \in 1..Len(late) /\ i = n + (i - n)
            BY <5>3, <5>5
          <6>2. rows[i] = late[i - n]
            BY <5>3, <6>1
          <6>. QED BY <3>2, <5>1, <5>3, <6>1, <6>2 DEF Has
        <5>. QED BY <5>4, <5>5
      <4>2. Has(vettingRows, id)
        BY <4>1 DEF RecentlyVetted, Has
      <4>3. LatestRow(rows, id) = LatestRow(vettingRows, id)
        BY <1>3, <2>1, <2>2, <3>2, <4>2, LatestJoined
      <4>. QED BY <2>3, <4>1, <4>3 DEF MirrorTracksRows
    <3>. QED BY <3>1, <3>2
  <2>4. MirrorTracksRows'
    <3>1. SUFFICES ASSUME NEW id \in WalletIds \ missed', (RecentlyVetted(id))'
                   PROVE  mirror'[id] = (LatestRow(vettingRows, id))'.verdict
      BY DEF MirrorTracksRows
    <3>2. (LatestRow(vettingRows, id))' = LatestRow(rows, id)
      BY <2>2 DEF LatestRow
    <3>. QED BY <1>2, <2>3, <3>1, <3>2
  <2>. QED BY <1>5, <1>6, <2>4
<1>. QED BY <1>7, <1>8

(* Every step keeps the mirror with the latest rows.                       *)
LEMMA VettingStep ==
  ASSUME VettingInv, [VettingNext]_vettingVars
  PROVE  VettingInv'
<1>1. CASE CycleStarts
  BY <1>1, CycleStartsStep
<1>2. ASSUME NEW id \in WalletIds, NEW answered \in BOOLEAN, VetWallet(id, answered)
      PROVE  VettingInv'
  BY <1>2, VetWalletStep
<1>3. ASSUME NEW id \in WalletIds, NEW database \in BOOLEAN, VetFails(id, database)
      PROVE  VettingInv'
  BY <1>3, VetFailsStep
<1>4. CASE MirrorVerdict
  BY <1>4, MirrorVerdictStep
<1>5. CASE MirrorFails
  BY <1>5, MirrorFailsStep
<1>6. CASE CycleCommits
  BY <1>6, CycleCommitsStep
<1>7. CASE CycleDies
  <2>1. /\ cycle' = IdleCycle /\ verdictDue' = None
        /\ UNCHANGED <<vettingNow, vettingRows, mirror, missed>>
    BY <1>7 DEF CycleDies
  <2>2. ~cycle'.running
        /\ cycle' \in [running : BOOLEAN, queue : SUBSET WalletIds, rows : Seq(VettingRow),
                       broken : BOOLEAN]
    BY <2>1, EmptySeq DEF IdleCycle
  <2>3. VettingTypeOK' /\ VerdictFlushed' /\ CycleTakesStale' /\ MirrorTracksCycle'
    BY <2>1, <2>2
       DEF VettingInv, VettingTypeOK, VerdictFlushed, CycleTakesStale, MirrorTracksCycle
  <2>. QED BY <2>1, <2>3, SameRows DEF VettingInv
<1>8. CASE VettingTimePasses
  <2>1. /\ ~cycle.running /\ vettingNow' = vettingNow + 1
        /\ UNCHANGED <<vettingRows, mirror, cycle, verdictDue, missed>>
    BY <1>8 DEF VettingTimePasses
  <2>2. VettingTypeOK' /\ VerdictFlushed' /\ CycleTakesStale' /\ MirrorTracksCycle'
    BY <2>1
       DEF VettingInv, VettingTypeOK, VerdictFlushed, CycleTakesStale, MirrorTracksCycle
  <2>3. ASSUME NEW id, (RecentlyVetted(id))' PROVE RecentlyVetted(id)
    <3>1. PICK i \in DOMAIN vettingRows :
            vettingRows[i].wallet = id /\ vettingRows[i].at >= vettingNow' - StaleAfter
      BY <2>1, <2>3 DEF RecentlyVetted
    <3>2. vettingRows[i] \in VettingRow
      BY ElementOfSeq, LenProperties DEF VettingInv, VettingTypeOK
    <3>3. vettingRows[i].at \in Int /\ vettingNow \in Int
      BY <3>2 DEF VettingRow, VettingInv, VettingTypeOK
    <3>4. vettingRows[i].at >= vettingNow - StaleAfter
      BY <2>1, <3>1, <3>3, VettingValues
    <3>. QED BY <3>1, <3>4 DEF RecentlyVetted
  <2>4. MirrorTracksRows'
    <3>1. SUFFICES ASSUME NEW id \in WalletIds \ missed', (RecentlyVetted(id))'
                   PROVE  mirror'[id] = (LatestRow(vettingRows, id))'.verdict
      BY DEF MirrorTracksRows
    <3>2. (LatestRow(vettingRows, id))' = LatestRow(vettingRows, id)
      BY <2>1 DEF LatestRow
    <3>. QED BY <2>1, <2>3, <3>1, <3>2 DEF VettingInv, MirrorTracksRows
  <2>. QED BY <2>2, <2>4 DEF VettingInv
<1>9. CASE UNCHANGED vettingVars
  <2>1. UNCHANGED <<vettingNow, vettingRows, mirror, cycle, verdictDue, missed>>
    BY <1>9 DEF vettingVars
  <2>2. MirrorTracksRows' /\ \A id : (RecentlyVetted(id))' = RecentlyVetted(id)
    BY <2>1, SameRows
  <2>3. VettingTypeOK' /\ VerdictFlushed'
    BY <2>1 DEF VettingInv, VettingTypeOK, VerdictFlushed, Has, LatestRow
  <2>4. CycleTakesStale'
    BY <2>1, <2>2 DEF VettingInv, CycleTakesStale, Has
  <2>5. MirrorTracksCycle'
    <3>1. \A id : /\ Has(cycle.rows, id)' = Has(cycle.rows, id)
                  /\ LatestRow(cycle.rows, id)' = LatestRow(cycle.rows, id)
      BY <2>1 DEF Has, LatestRow
    <3>. QED BY <2>1, <3>1 DEF VettingInv, MirrorTracksCycle
  <2>. QED BY <2>2, <2>3, <2>4, <2>5 DEF VettingInv
<1>. QED BY <1>1, <1>2, <1>3, <1>4, <1>5, <1>6, <1>7, <1>8, <1>9 DEF VettingNext

(* analytics/vetting.py: wherever a cycle breaks off, the verdict that the *)
(* evaluator reads from Redis is that of the latest row on record, for a   *)
(* wallet that the next cycle would pass over.                             *)
THEOREM MirrorTracksVerdictHolds ==
  VettingInit /\ [][VettingNext]_vettingVars => []MirrorTracksVerdict
<1>1. VettingInit => VettingInv
  <2>1. SUFFICES ASSUME VettingInit PROVE VettingInv
    OBVIOUS
  <2>2. \A id : ~RecentlyVetted(id)
    BY <2>1 DEF VettingInit, RecentlyVetted
  <2>3. ~cycle.running
    BY <2>1 DEF VettingInit, IdleCycle
  <2>4. VettingTypeOK
    BY <2>1, EmptySeq DEF VettingInit, VettingTypeOK, IdleCycle
  <2>. QED BY <2>1, <2>2, <2>3, <2>4
         DEF VettingInit, VettingInv, VerdictFlushed, CycleTakesStale, MirrorTracksCycle,
             MirrorTracksRows
<1>2. VettingInv /\ [VettingNext]_vettingVars => VettingInv'
  BY VettingStep
<1>3. VettingInv => MirrorTracksVerdict
  BY DEF VettingInv, MirrorTracksRows, MirrorTracksVerdict
<1>. QED BY <1>1, <1>2, <1>3, PTL

-----------------------------------------------------------------------------
(* Wallet statistics.  First what the metrics of any positions are, and    *)
(* from that the most that the score can be on few of them.                *)
Traded(p) == p.bought \in Nat \ {0} /\ p.pnl \in Int

(* What the quotient of a division is.                                     *)
LEMMA Quotient ==
  ASSUME NEW a \in Int, NEW b \in Int, b > 0
  PROVE  a \div b \in Int /\ b * (a \div b) <= a /\ a < b * (a \div b) + b
OBVIOUS

(* A quotient stays below a bound that its numerator does not reach.       *)
LEMMA QuotientBelow ==
  ASSUME NEW a \in Int, NEW b \in Int, b > 0, NEW q \in Int, a < b * (q + 1)
  PROVE  a \div b <= q
<1>1. PICK x : x = a \div b
  OBVIOUS
<1>2. x \in Int /\ b * x <= a
  BY <1>1, Quotient
<1>3. b * x < b * (q + 1)
  BY <1>2
<1>4. x < q + 1
  BY <1>2, <1>3
<1>. QED BY <1>1, <1>2, <1>4

(* The members of a sequence at given places.                              *)
LEMMA AtIn ==
  ASSUME NEW S, NEW s \in Seq(S), NEW places \in SUBSET (DOMAIN s)
  PROVE  /\ At(s, places) \in Seq(S) /\ Len(At(s, places)) = Cardinality(places)
         /\ Len(At(s, places)) \in Nat /\ Len(At(s, places)) <= Len(s)
<1>1. DOMAIN s = 1..Len(s) /\ Len(s) \in Nat
  BY LenProperties
<1>2. IsFiniteSet(1..Len(s)) /\ Cardinality(1..Len(s)) = Len(s)
  <2>1. 1 \in Int /\ Len(s) \in Int
    BY <1>1
  <2>2. IsFiniteSet(1..Len(s)) /\ Cardinality(1..Len(s)) = IF 1 > Len(s) THEN 0 ELSE Len(s) - 1 + 1
    BY <2>1, FS_Interval
  <2>. QED BY <1>1, <2>2
<1>3. IsFiniteSet(places) /\ Cardinality(places) <= Len(s) /\ Cardinality(places) \in Nat
  <2>1. places \subseteq 1..Len(s)
    BY <1>1
  <2>. QED BY <1>2, <2>1, FS_Subset, FS_CardinalityType
<1>4. PICK k : k = Cardinality(places)
  OBVIOUS
<1>5. places \subseteq Int
  BY <1>1
<1>6. ASSUME NEW n \in 1..k PROVE s[Nth(places, n)] \in S
  <2>1. Nth(places, n) \in places
    BY <1>3, <1>4, <1>5, NthIn
  <2>. QED BY <1>1, <2>1, ElementOfSeq
<1>7. PICK t : t = [n \in 1..k |-> s[Nth(places, n)]]
  OBVIOUS
<1>8. t \in Seq(S) /\ Len(t) = k
  BY <1>3, <1>4, <1>6, <1>7, SeqDef
<1>9. At(s, places) = t
  BY <1>4, <1>7 DEF At
<1>. QED BY <1>3, <1>4, <1>8, <1>9

(* A sequence has as many places as its length.                            *)
LEMMA DomainFinite ==
  ASSUME NEW S, NEW s \in Seq(S)
  PROVE  IsFiniteSet(DOMAIN s) /\ Cardinality(DOMAIN s) = Len(s)
<1>1. DOMAIN s = 1..Len(s) /\ Len(s) \in Nat
  BY LenProperties
<1>2. 1 \in Int /\ Len(s) \in Int
  BY <1>1
<1>3. IsFiniteSet(1..Len(s)) /\ Cardinality(1..Len(s)) = IF 1 > Len(s) THEN 0 ELSE Len(s) - 1 + 1
  BY <1>2, FS_Interval
<1>. QED BY <1>1, <1>3

(* The mean of whole numbers, and the deviation from it.                   *)
LEMMA MeanTyped ==
  ASSUME NEW s \in Seq(Int), s # <<>>
  PROVE  /\ Mean(s) \in Int
         /\ (\A i \in DOMAIN s : s[i] >= 0) => Mean(s) >= 0
<1>1. DOMAIN s = 1..Len(s) /\ Len(s) \in Nat /\ Len(s) > 0
  BY LenProperties, EmptySeq
<1>2. IsFiniteSet(DOMAIN s)
  BY DomainFinite
<1>3. \A i \in DOMAIN s : s[i] \in Int
  BY <1>1, ElementOfSeq
<1>4. PICK total, n : total = Total(s) /\ n = Len(s)
  OBVIOUS
<1>5. total \in Int
  BY <1>2, <1>3, <1>4, SumType DEF Total
<1>6. n \in Int /\ n > 0
  BY <1>1, <1>4
<1>7. PICK mean : mean = total \div n
  OBVIOUS
<1>8. mean \in Int /\ total < n * mean + n
  BY <1>5, <1>6, <1>7, Quotient
<1>9. ASSUME \A i \in DOMAIN s : s[i] >= 0 PROVE mean >= 0
  <2>1. \A i \in DOMAIN s : s[i] \in Nat
    BY <1>3, <1>9
  <2>2. total \in Nat
    BY <1>2, <1>4, <2>1, SumNat DEF Total
  <2>3. n * mean + n = n * (mean + 1)
    BY <1>6, <1>8
  <2>4. n * (mean + 1) > 0
    BY <1>6, <1>8, <2>2, <2>3
  <2>5. mean + 1 > 0
    BY <1>6, <1>8, <2>4
  <2>. QED BY <1>8, <2>5
<1>10. Mean(s) = mean
  BY <1>4, <1>7 DEF Mean
<1>. QED BY <1>8, <1>9, <1>10

(* A root is a natural number.                                             *)
LEMMA RootTyped == \A x \in Nat : Root(x) \in Nat
<1>. SUFFICES ASSUME NEW x \in Nat PROVE Root(x) \in Nat
  OBVIOUS
<1>1. PICK R : R = {r \in 0..x : r * r <= x}
  OBVIOUS
<1>2. IsFiniteSet(R) /\ R \subseteq 0..x
  <2>1. 0 \in Int /\ x \in Int
    OBVIOUS
  <2>2. IsFiniteSet(0..x) /\ R \subseteq 0..x
    BY <1>1, <2>1, FS_Interval
  <2>. QED BY <2>2, FS_Subset
<1>3. 0 \in R
  BY <1>1
<1>4. PICK r \in R : \A y \in R : r >= y
  <2>1. \A y \in R : y \in Int
    BY <1>2
  <2>. QED BY <1>2, <1>3, <2>1, LargestExists
<1>5. r \in 0..x /\ r * r <= x /\ r \in Nat
  BY <1>1
<1>6. x < (r + 1) * (r + 1)
  <2>1. SUFFICES ASSUME ~(x < (r + 1) * (r + 1)) PROVE FALSE
    OBVIOUS
  <2>2. PICK next : next = r + 1
    OBVIOUS
  <2>3. next \in Nat /\ next * next <= x /\ next >= 1
    BY <1>5, <2>1, <2>2
  <2>4. next <= next * next
    BY <2>3
  <2>5. next \in R
    BY <1>1, <2>3, <2>4
  <2>. QED BY <1>4, <1>5, <2>2, <2>5
<1>7. \E root \in 0..x : root * root <= x /\ x < (root + 1) * (root + 1)
  BY <1>5, <1>6
<1>8. Root(x) \in 0..x
  BY <1>7 DEF Root
<1>. QED BY <1>8

(* So is a standard deviation.                                             *)
LEMMA DeviationTyped ==
  ASSUME NEW s \in Seq(Int), s # <<>>
  PROVE  Deviation(s) \in Nat
<1>1. PICK mean : mean = Mean(s)
  OBVIOUS
<1>2. mean \in Int
  BY <1>1, MeanTyped
<1>3. DOMAIN s = 1..Len(s) /\ Len(s) \in Nat /\ Len(s) > 0
  BY LenProperties, EmptySeq
<1>4. PICK squares : squares = [i \in DOMAIN s |-> (s[i] - mean) * (s[i] - mean)]
  OBVIOUS
<1>5. ASSUME NEW i \in DOMAIN s PROVE squares[i] \in Int /\ squares[i] >= 0
  <2>1. PICK d : d = s[i] - mean
    OBVIOUS
  <2>2. d \in Int
    BY <1>2, <1>3, <2>1, ElementOfSeq
  <2>3. d * d \in Int /\ d * d >= 0
    BY <2>2
  <2>. QED BY <1>4, <2>1, <2>3
<1>6. squares \in Seq(Int) /\ squares # <<>> /\ \A i \in DOMAIN squares : squares[i] >= 0
  <2>1. squares = [i \in 1..Len(s) |-> squares[i]] /\ DOMAIN squares = 1..Len(s)
    BY <1>3, <1>4
  <2>2. squares \in Seq(Int)
    BY <1>3, <1>5, <2>1, SeqDef
  <2>. QED BY <1>3, <1>5, <2>1, <2>2, EmptySeq
<1>7. Mean(squares) \in Nat
  BY <1>6, MeanTyped
<1>. QED BY <1>1, <1>4, <1>7, RootTyped DEF Deviation

(* The values that a field of the elements has, and their sum.             *)
LEMMA TotalNat ==
  ASSUME NEW S, NEW s \in Seq(S), NEW f, DOMAIN f = DOMAIN s, \A i \in DOMAIN s : f[i] \in Nat
  PROVE  Total(f) \in Nat
<1>1. IsFiniteSet(DOMAIN f)
  BY DomainFinite
<1>. QED BY <1>1, SumNat DEF Total

Amounts(m) ==
    /\ m.closed \in Nat /\ m.wins \in Nat /\ m.wins <= m.closed
    /\ m.profit \in Nat /\ m.loss \in Nat
    /\ m.pnlMonth \in Int \cup {None} /\ m.roiStd \in Nat \cup {None}

(* What the score needs of the metrics of any positions that were traded.  *)
LEMMA MetricsTyped ==
  ASSUME NEW S, \A x \in S : Traded(x), NEW ps \in Seq(S), NEW at
  PROVE  Amounts(Metrics(ps, at)) /\ Metrics(ps, at).closed <= Len(ps)
<1>1. PICK closed : closed = Closed(ps)
  OBVIOUS
<1>2. closed \in Seq(S) /\ Len(closed) \in Nat /\ Len(closed) <= Len(ps)
  <2>1. {i \in DOMAIN ps : ps[i].closed # None} \in SUBSET (DOMAIN ps)
    OBVIOUS
  <2>. QED BY <1>1, <2>1, AtIn DEF Closed
<1>3. DOMAIN closed = 1..Len(closed) /\ IsFiniteSet(DOMAIN closed) /\ Cardinality(DOMAIN closed) = Len(closed)
  BY <1>2, LenProperties, DomainFinite
<1>4. \A i \in DOMAIN closed : closed[i].bought \in Nat \ {0} /\ closed[i].pnl \in Int
  <2>1. \A i \in DOMAIN closed : closed[i] \in S
    BY <1>2, <1>3, ElementOfSeq
  <2>. QED BY <2>1 DEF Traded
<1>5. PICK pnl : pnl = [i \in DOMAIN closed |-> closed[i].pnl]
  OBVIOUS
<1>6. pnl = Field(closed, LAMBDA p : p.pnl)
  BY <1>5 DEF Field
<1>7. PICK wins : wins = {i \in DOMAIN closed : pnl[i] > 0}
  OBVIOUS
<1>8. Cardinality(wins) \in Nat /\ Cardinality(wins) <= Len(closed)
  BY <1>3, <1>7, FS_Subset, FS_CardinalityType
<1>9. Total(Field(closed, LAMBDA p : IF p.pnl > 0 THEN p.pnl ELSE 0)) \in Nat
  <2>1. PICK f : f = [i \in DOMAIN closed |-> IF closed[i].pnl > 0 THEN closed[i].pnl ELSE 0]
    OBVIOUS
  <2>2. DOMAIN f = DOMAIN closed /\ \A i \in DOMAIN closed : f[i] \in Nat
    BY <1>4, <2>1
  <2>3. Total(f) \in Nat
    BY <1>2, <2>2, TotalNat
  <2>. QED BY <2>1, <2>3 DEF Field
<1>10. Total(Field(closed, LAMBDA p : IF p.pnl < 0 THEN -p.pnl ELSE 0)) \in Nat
  <2>1. PICK f : f = [i \in DOMAIN closed |-> IF closed[i].pnl < 0 THEN -closed[i].pnl ELSE 0]
    OBVIOUS
  <2>2. DOMAIN f = DOMAIN closed /\ \A i \in DOMAIN closed : f[i] \in Nat
    BY <1>4, <2>1
  <2>3. Total(f) \in Nat
    BY <1>2, <2>2, TotalNat
  <2>. QED BY <2>1, <2>3 DEF Field
<1>11. ASSUME NEW t PROVE SumOver(pnl, {i \in DOMAIN closed : closed[i].closed >= t}) \in Int
  <2>1. PICK lately : lately = {i \in DOMAIN closed : closed[i].closed >= t}
    OBVIOUS
  <2>2. IsFiniteSet(lately) /\ lately \subseteq DOMAIN closed
    BY <1>3, <2>1, FS_Subset
  <2>3. \A i \in lately : pnl[i] \in Int
    BY <1>4, <1>5, <2>2
  <2>. QED BY <2>1, <2>2, <2>3, SumType
<1>12. PICK rois : rois = [i \in DOMAIN closed |-> (100 * closed[i].pnl) \div closed[i].bought]
  OBVIOUS
<1>13. rois = Field(closed, LAMBDA p : (100 * p.pnl) \div p.bought)
  BY <1>12 DEF Field
<1>14. rois \in Seq(Int) /\ Len(rois) = Len(closed)
  <2>1. ASSUME NEW i \in DOMAIN closed PROVE rois[i] \in Int
    <3>1. PICK a, b : a = 100 * closed[i].pnl /\ b = closed[i].bought
      OBVIOUS
    <3>2. a \in Int /\ b \in Int /\ b > 0
      BY <1>4, <3>1
    <3>3. a \div b \in Int
      BY <3>2, Quotient
    <3>. QED BY <1>12, <3>1, <3>3
  <2>2. rois = [i \in 1..Len(closed) |-> rois[i]]
    BY <1>3, <1>12
  <2>. QED BY <1>2, <1>3, <2>1, <2>2, SeqDef
<1>15. Len(rois) < 2 \/ Deviation(rois) \in Nat
  BY <1>2, <1>14, EmptySeq, DeviationTyped
<1>16. PICK m : m = Metrics(ps, at)
  OBVIOUS
<1>17. m.closed = Len(closed) /\ m.wins = Cardinality(wins)
  BY <1>1, <1>6, <1>7, <1>16 DEF Metrics
<1>18. m.profit \in Nat /\ m.loss \in Nat
  BY <1>1, <1>9, <1>10, <1>16 DEF Metrics
<1>19. m.pnlMonth \in Int \cup {None}
  BY <1>1, <1>6, <1>11, <1>16 DEF Metrics
<1>20. m.roiStd \in Nat \cup {None}
  BY <1>1, <1>13, <1>15, <1>16 DEF Metrics
<1>. QED BY <1>2, <1>8, <1>16, <1>17, <1>18, <1>19, <1>20 DEF Amounts

(* A component is at most 10000: the quotient that it rounds is below the  *)
(* next whole number.                                                      *)
LEMMA RoundedBelow ==
  ASSUME NEW a \in Int, NEW b \in Int, b > 0, NEW q \in Int, 2 * a < b * (2 * q + 1)
  PROVE  Rounded(a, b) \in Int /\ Rounded(a, b) <= q
<1>1. PICK x, y : x = 2 * a + b /\ y = 2 * b
  OBVIOUS
<1>2. x \in Int /\ y \in Int /\ y > 0
  BY <1>1
<1>3. y * (q + 1) = b * (2 * q + 1) + b
  BY <1>1
<1>4. x < y * (q + 1)
  BY <1>1, <1>3
<1>5. x \div y \in Int /\ x \div y <= q
  BY <1>2, <1>4, Quotient, QuotientBelow
<1>. QED BY <1>1, <1>5 DEF Rounded

ShortRecord(m) == Amounts(m) /\ m.closed <= 12

(* The five components of the score of a record of twelve positions or     *)
(* fewer.                                                                  *)
LEMMA ComponentBounds ==
  ASSUME NEW m, ShortRecord(m), None \notin Int
  PROVE  /\ WinRateShrunk(m) \in Int /\ WinRateShrunk(m) <= 10000
         /\ Profitability(m) \in Int /\ Profitability(m) <= 10000
         /\ Consistency(m) \in Int /\ Consistency(m) <= 10000
         /\ Recency(m) \in Int /\ Recency(m) <= 10000
         /\ Experience(m) \in Int /\ Experience(m) <= 3750
<1>1. PICK c, wins, profit, loss, month, std :
        /\ c = m.closed /\ wins = m.wins /\ profit = m.profit /\ loss = m.loss
        /\ month = m.pnlMonth /\ std = m.roiStd
  OBVIOUS
<1>2. /\ c \in Nat /\ c <= 12 /\ wins \in Nat /\ wins <= c /\ profit \in Nat /\ loss \in Nat
      /\ month \in Int \cup {None} /\ std \in Nat \cup {None}
  BY <1>1 DEF ShortRecord, Amounts
<1>3. WinRateShrunk(m) \in Int /\ WinRateShrunk(m) <= 10000
  <2>1. PICK a, b : a = 10000 * (10 * wins + 35) /\ b = 7 * (c + 10)
    OBVIOUS
  <2>2. a \in Int /\ b \in Int /\ b > 0 /\ a >= 0
    BY <1>2, <2>1
  <2>3. PICK x, y : x = 2 * a + b /\ y = 2 * b
    OBVIOUS
  <2>4. x \in Int /\ y \in Int /\ y > 0
    BY <2>2, <2>3
  <2>5. Rounded(a, b) \in Int
    BY <2>3, <2>4, Quotient DEF Rounded
  <2>. QED BY <1>1, <2>1, <2>5 DEF WinRateShrunk, Clamp
<1>4. Profitability(m) \in Int /\ Profitability(m) <= 10000
  <2>1. CASE loss > 0
    <3>1. PICK a, b : a = 10000 * profit /\ b = profit + loss
      OBVIOUS
    <3>2. a \in Int /\ b \in Int /\ b > 0
      BY <1>2, <2>1, <3>1
    <3>3. 2 * a < b * (2 * 10000 + 1)
      BY <1>2, <2>1, <3>1
    <3>4. Rounded(a, b) \in Int /\ Rounded(a, b) <= 10000
      BY <3>2, <3>3, RoundedBelow
    <3>. QED BY <1>1, <2>1, <3>1, <3>4 DEF Profitability
  <2>2. CASE ~(loss > 0)
    BY <1>1, <2>2 DEF Profitability, Undefeated
  <2>. QED BY <2>1, <2>2
<1>5. Consistency(m) \in Int /\ Consistency(m) <= 10000
  <2>1. CASE std # None
    <3>1. PICK a, b : a = 10000 * 100 /\ b = 100 + std
      OBVIOUS
    <3>2. a \in Int /\ b \in Int /\ b > 0
      BY <1>2, <2>1, <3>1
    <3>3. 2 * a < b * (2 * 10000 + 1)
      BY <1>2, <2>1, <3>1
    <3>4. Rounded(a, b) \in Int /\ Rounded(a, b) <= 10000
      BY <3>2, <3>3, RoundedBelow
    <3>. QED BY <1>1, <3>1, <3>4 DEF Consistency
  <2>2. CASE std = None
    BY <1>1, <2>2 DEF Consistency
  <2>. QED BY <2>1, <2>2
<1>6. Recency(m) \in Int /\ Recency(m) <= 10000
  <2>1. CASE month # None
    <3>1. PICK a, b : a = 5000 * month /\ b = Abs(month) + 1
      OBVIOUS
    <3>2. month \in Int /\ Abs(month) \in Nat /\ month <= Abs(month)
      BY <1>2, <2>1 DEF Abs
    <3>3. a \in Int /\ b \in Int /\ b > 0
      BY <3>1, <3>2
    <3>4. 2 * a < b * (2 * 5000 + 1)
      BY <3>1, <3>2
    <3>5. Rounded(a, b) \in Int /\ Rounded(a, b) <= 5000
      BY <3>3, <3>4, RoundedBelow
    <3>. QED BY <1>1, <2>1, <3>1, <3>5 DEF Recency
  <2>2. CASE month = None
    BY <1>1, <2>2 DEF Recency
  <2>. QED BY <2>1, <2>2
<1>7. Experience(m) \in Int /\ Experience(m) <= 3750
  <2>1. PICK a, b : a = 10000 * c /\ b = c + 20
    OBVIOUS
  <2>2. a \in Int /\ b \in Int /\ b > 0 /\ 2 * a < b * (2 * 3750 + 1)
    BY <1>2, <2>1
  <2>3. Rounded(a, b) \in Int /\ Rounded(a, b) <= 3750
    BY <2>2, RoundedBelow
  <2>. QED BY <1>1, <2>1, <2>3 DEF Experience
<1>. QED BY <1>3, <1>4, <1>5, <1>6, <1>7

(* However good, a record of twelve positions stays below 64.78.           *)
LEMMA ScoreBound ==
  ASSUME NEW m, ShortRecord(m), None \notin Int
  PROVE  ScoreWallet(m) \in Int /\ ScoreWallet(m) <= 6477
<1>1. PICK c : c = m.closed
  OBVIOUS
<1>2. c \in 0..12
  BY <1>1 DEF ShortRecord, Amounts
<1>3. RawScore(m) \in Int /\ RawScore(m) <= 937500
  BY ComponentBounds DEF RawScore
<1>4. PICK raw : raw = RawScore(m) \div 100
  OBVIOUS
<1>5. raw \in Int /\ raw <= 9375
  BY <1>3, <1>4
<1>6. PICK a, b : a = (raw - 3000) * c /\ b = c + 10
  OBVIOUS
<1>7. a \in Int /\ b \in Int /\ b > 0
  BY <1>2, <1>5, <1>6
<1>8. a <= 6375 * c
  <2>1. raw - 3000 <= 6375
    BY <1>5
  <2>. QED BY <1>2, <1>5, <1>6, <2>1
<1>9. a < b * (3477 + 1)
  BY <1>2, <1>6, <1>7, <1>8
<1>10. a \div b \in Int /\ a \div b <= 3477
  BY <1>7, <1>9, Quotient, QuotientBelow
<1>. QED BY <1>1, <1>4, <1>6, <1>10 DEF ScoreWallet, Clamp

(* The rows and what the jobs hold are of traders; the styles a job will   *)
(* write are of wallets that have a row, and rows are never removed.       *)
StatsTyped ==
    /\ past \in DOMAIN Records
    /\ recorded \in [Traders -> Nat]
    /\ \A w \in Traders : recorded[w] <= Len(Record(w))
    /\ DOMAIN stats \subseteq Traders
    /\ metricsJob # None => DOMAIN metricsJob.done \subseteq Traders
                            /\ metricsJob.todo \subseteq Traders
    /\ styleJob # None => DOMAIN styleJob.rows \subseteq DOMAIN stats

StyleKept ==
    /\ StyleSurvivesMetrics
    /\ \A w \in Traders \ DOMAIN stats : labelled[w] = None

ScoresEarned ==
    /\ LuckyStreakGated
    /\ metricsJob # None =>
          \A w \in DOMAIN metricsJob.done :
             metricsJob.done[w].score >= AutoFollowBar => recorded[w] >= 13

(* Styles are given to the rows that were read.                            *)
LEMMA LabelsOf == \A rows : \A labels \in Labels(rows) : DOMAIN labels = DOMAIN rows
BY DEF Labels

(* A position more is all that can happen to what is recorded.             *)
LEMMA RecordedStep ==
  ASSUME StatsTyped, [StatsNext]_statsVars
  PROVE  /\ past' = past /\ recorded' \in [Traders -> Nat]
         /\ \A w \in Traders : recorded[w] <= recorded'[w] /\ recorded'[w] <= Len(Record(w))
<1>1. \A w \in Traders : Len(Record(w)) \in Nat
  BY RecordsTyped, LenProperties DEF StatsTyped, Record
<1>2. ASSUME NEW w \in Traders, PositionRecorded(w)
      PROVE  /\ past' = past /\ recorded' \in [Traders -> Nat]
             /\ \A v \in Traders : recorded[v] <= recorded'[v] /\ recorded'[v] <= Len(Record(v))
  <2>1. recorded[w] < Len(Record(w)) /\ recorded' = [recorded EXCEPT ![w] = recorded[w] + 1]
    BY <1>2 DEF PositionRecorded
  <2>2. past' = past
    BY <1>2 DEF PositionRecorded
  <2>3. recorded[w] + 1 <= Len(Record(w))
    BY <1>1, <2>1 DEF StatsTyped
  <2>. QED BY <2>1, <2>2, <2>3 DEF StatsTyped
<1>3. UNCHANGED <<past, recorded>> \/ \E w \in Traders : PositionRecorded(w)
  BY DEF StatsNext, statsVars, ComputeMetrics, MetricsCycle, MetricsCommit, StyleCycle,
         StyleCommit, MetricsAborted, StyleAborted, StatsTimePasses
<1>4. CASE UNCHANGED <<past, recorded>>
  BY <1>4 DEF StatsTyped
<1>. QED BY <1>2, <1>3, <1>4

(* Every step keeps the types.                                             *)
LEMMA StatsTypedStep ==
  ASSUME StatsTyped, [StatsNext]_statsVars
  PROVE  StatsTyped'
<1>1. past' \in DOMAIN Records /\ recorded' \in [Traders -> Nat]
      /\ (\A w \in Traders : recorded[w] <= Len(Record(w)))'
  BY RecordedStep DEF StatsTyped, Record
<1>. DEFINE Kept ==
       /\ DOMAIN stats' \subseteq Traders
       /\ metricsJob' # None => DOMAIN metricsJob'.done \subseteq Traders
                                /\ metricsJob'.todo \subseteq Traders
       /\ styleJob' # None => DOMAIN styleJob'.rows \subseteq DOMAIN stats'
<1>2. ASSUME UNCHANGED <<stats, metricsJob, styleJob>> PROVE Kept
  BY <1>2 DEF StatsTyped
<1>3. ASSUME NEW w \in Traders, ComputeMetrics(w) PROVE Kept
  BY <1>3 DEF StatsTyped, ComputeMetrics
<1>4. ASSUME MetricsCycle PROVE Kept
  BY <1>4 DEF StatsTyped, MetricsCycle
<1>5. ASSUME MetricsCommit PROVE Kept
  BY <1>5 DEF StatsTyped, MetricsCommit
<1>6. ASSUME StyleCycle PROVE Kept
  BY <1>6 DEF StatsTyped, StyleCycle
<1>7. ASSUME NEW labels \in Labels(styleJob.rows), StyleCommit(labels) PROVE Kept
  BY <1>7 DEF StatsTyped, StyleCommit
<1>8. ASSUME MetricsAborted PROVE Kept
  BY <1>8 DEF StatsTyped, MetricsAborted
<1>9. ASSUME StyleAborted PROVE Kept
  BY <1>9 DEF StatsTyped, StyleAborted
<1>10. (StatsTimePasses \/ (\E w \in Traders : PositionRecorded(w)) \/ UNCHANGED statsVars)
       => UNCHANGED <<stats, metricsJob, styleJob>>
  BY DEF StatsTimePasses, PositionRecorded, statsVars
<1>11. Kept
  BY <1>2, <1>3, <1>4, <1>5, <1>6, <1>7, <1>8, <1>9, <1>10 DEF StatsNext
<1>. QED BY <1>1, <1>11 DEF StatsTyped

(* Every step keeps the committed style.                                   *)
LEMMA StyleKeptStep ==
  ASSUME StatsTyped, StyleKept, [StatsNext]_statsVars
  PROVE  StyleKept'
<1>. DEFINE Kept ==
       /\ \A w \in DOMAIN stats' : stats'[w].style = labelled'[w]
       /\ \A w \in Traders \ DOMAIN stats' : labelled'[w] = None
<1>1. ASSUME MetricsCommit PROVE Kept
  <2>1. stats' = [w \in DOMAIN stats \cup DOMAIN metricsJob.done |->
                    IF w \in DOMAIN metricsJob.done THEN WriteMetrics(w) ELSE stats[w]]
        /\ labelled' = labelled /\ DOMAIN metricsJob.done \subseteq Traders
    BY <1>1 DEF MetricsCommit, StatsTyped
  <2>2. \A w : WriteMetrics(w).style = IF w \in DOMAIN stats THEN stats[w].style ELSE None
    BY DEF WriteMetrics, StatsRow, Style, Unlabelled
  <2>3. \A w \in DOMAIN metricsJob.done : WriteMetrics(w).style = labelled[w]
    BY <2>1, <2>2 DEF StyleKept, StyleSurvivesMetrics
  <2>. QED BY <2>1, <2>3 DEF StyleKept, StyleSurvivesMetrics
<1>2. ASSUME NEW labels \in Labels(styleJob.rows), StyleCommit(labels) PROVE Kept
  <2>1. /\ stats' = [w \in DOMAIN stats |->
                       IF w \in DOMAIN labels THEN StatsRow(stats[w], labels[w]) ELSE stats[w]]
        /\ labelled' = [w \in Traders |-> IF w \in DOMAIN labels THEN labels[w].style
                                          ELSE labelled[w]]
        /\ DOMAIN styleJob.rows \subseteq DOMAIN stats /\ DOMAIN stats \subseteq Traders
    BY <1>2 DEF StyleCommit, StatsTyped
  <2>2. DOMAIN labels \subseteq DOMAIN stats
    BY <2>1, LabelsOf
  <2>3. \A w : StatsRow(stats[w], labels[w]).style = labels[w].style
    BY DEF StatsRow
  <2>. QED BY <2>1, <2>2, <2>3 DEF StyleKept, StyleSurvivesMetrics
<1>3. UNCHANGED <<stats, labelled>> \/ MetricsCommit
      \/ \E labels \in Labels(styleJob.rows) : StyleCommit(labels)
  BY DEF StatsNext, statsVars, PositionRecorded, ComputeMetrics, MetricsCycle, StyleCycle,
         MetricsAborted, StyleAborted, StatsTimePasses
<1>4. ASSUME UNCHANGED <<stats, labelled>> PROVE Kept
  BY <1>4 DEF StyleKept, StyleSurvivesMetrics
<1>5. Kept
  BY <1>1, <1>2, <1>3, <1>4
<1>. QED BY <1>5 DEF StyleKept, StyleSurvivesMetrics

(* The style job writes whole labels and the metrics job leaves them: what *)
(* a row says its style is is what was committed last, whichever of the    *)
(* two read first, committed last or was aborted (wallet_metrics.py writes *)
(* the columns it computes and no other).                                  *)
THEOREM StyleSurvivesMetricsHolds ==
    StatsInit /\ [][StatsNext]_statsVars => []StyleSurvivesMetrics
<1>1. StatsInit => StatsTyped /\ StyleKept
  BY RecordsTyped DEF StatsInit, StatsTyped, StyleKept, StyleSurvivesMetrics, Record
<1>2. StatsTyped /\ StyleKept /\ [StatsNext]_statsVars => StatsTyped' /\ StyleKept'
  BY StatsTypedStep, StyleKeptStep
<1>3. StyleKept => StyleSurvivesMetrics
  BY DEF StyleKept
<1>. QED BY <1>1, <1>2, <1>3, PTL

(* The score of a wallet that has at most twelve positions recorded.       *)
LEMMA ScoreOfFew ==
  ASSUME StatsTyped, NEW w \in Traders, recorded[w] <= 12, NEW at
  PROVE  ScoreWallet(Metrics(Positions(w), at)) \in Int
         /\ ScoreWallet(Metrics(Positions(w), at)) <= 6477
<1>1. PICK ps : ps = Record(w)
  OBVIOUS
<1>2. PICK S : S = ToSet(ps)
  OBVIOUS
<1>3. ps \in Seq(S) /\ \A i \in DOMAIN ps : Traded(ps[i])
  BY <1>1, <1>2, RecordsTyped DEF StatsTyped, Record, Traded
<1>4. \A x \in S : Traded(x)
  BY <1>2, <1>3 DEF ToSet
<1>5. PICK n : n = recorded[w]
  OBVIOUS
<1>6. n \in Nat /\ n <= 12 /\ n <= Len(ps)
  BY <1>1, <1>5 DEF StatsTyped
<1>7. PICK few : few = SubSeq(ps, 1, n)
  OBVIOUS
<1>8. few \in Seq(S) /\ Len(few) = n
  BY <1>3, <1>6, <1>7, SubSeqProperties
<1>9. PICK m : m = Metrics(few, at)
  OBVIOUS
<1>10. Amounts(m) /\ m.closed <= n
  BY <1>4, <1>8, <1>9, MetricsTyped
<1>11. ShortRecord(m)
  BY <1>6, <1>10 DEF ShortRecord, Amounts
<1>12. ScoreWallet(m) \in Int /\ ScoreWallet(m) <= 6477
  BY <1>11, ScoreBound, RecordsTyped
<1>13. Positions(w) = few
  BY <1>1, <1>5, <1>7 DEF Positions
<1>. QED BY <1>9, <1>12, <1>13

(* Every step keeps high scores with long records.                         *)
LEMMA ScoresEarnedStep ==
  ASSUME AutoFollowBar \in Int, AutoFollowBar > 6477,
         StatsTyped, ScoresEarned, [StatsNext]_statsVars
  PROVE  ScoresEarned'
<1>1. \A w \in Traders : recorded[w] \in Nat /\ recorded'[w] \in Nat /\ recorded[w] <= recorded'[w]
  BY RecordedStep DEF StatsTyped
<1>. DEFINE Earned ==
       /\ \A w \in DOMAIN stats' : stats'[w].score >= AutoFollowBar => recorded'[w] >= 13
       /\ metricsJob' # None =>
             \A w \in DOMAIN metricsJob'.done :
                metricsJob'.done[w].score >= AutoFollowBar => recorded'[w] >= 13
<1>2. \A w \in DOMAIN stats : stats[w].score >= AutoFollowBar => recorded'[w] >= 13
  BY <1>1 DEF ScoresEarned, LuckyStreakGated, StatsTyped
<1>3. metricsJob # None =>
        \A w \in DOMAIN metricsJob.done :
           metricsJob.done[w].score >= AutoFollowBar => recorded'[w] >= 13
  BY <1>1 DEF ScoresEarned, StatsTyped
<1>4. ASSUME UNCHANGED <<stats, metricsJob>> PROVE Earned
  BY <1>2, <1>3, <1>4
<1>5. ASSUME NEW w \in Traders, ComputeMetrics(w) PROVE Earned
  <2>1. PICK m : m = Metrics(Positions(w), metricsJob.at)
    OBVIOUS
  <2>2. PICK done : done = metricsJob.done
    OBVIOUS
  <2>. DEFINE computed == [metrics |-> m, score |-> ScoreWallet(m), at |-> metricsJob.at]
  <2>3. computed.score = ScoreWallet(m)
    OBVIOUS
  <2>4. /\ metricsJob # None
        /\ metricsJob'.done = [v \in DOMAIN done \cup {w} |-> IF v = w THEN computed ELSE done[v]]
        /\ UNCHANGED <<stats, recorded>>
    BY <1>5, <2>1, <2>2 DEF ComputeMetrics
  <2>. HIDE DEF computed
  <2>5. computed.score >= AutoFollowBar => recorded[w] >= 13
    <3>1. SUFFICES ASSUME ~(recorded[w] >= 13) PROVE ~(computed.score >= AutoFollowBar)
      OBVIOUS
    <3>2. recorded[w] <= 12
      BY <1>1, <3>1
    <3>3. ScoreWallet(m) \in Int /\ ScoreWallet(m) <= 6477
      BY <2>1, <3>2, ScoreOfFew
    <3>. QED BY <2>3, <3>3
  <2>. QED BY <1>2, <1>3, <2>2, <2>4, <2>5
<1>6. ASSUME MetricsCycle PROVE Earned
  BY <1>2, <1>6 DEF MetricsCycle
<1>7. ASSUME MetricsCommit PROVE Earned
  <2>1. /\ metricsJob # None /\ metricsJob' = None
        /\ stats' = [w \in DOMAIN stats \cup DOMAIN metricsJob.done |->
                       IF w \in DOMAIN metricsJob.done THEN WriteMetrics(w) ELSE stats[w]]
    BY <1>7 DEF MetricsCommit
  <2>2. \A w : WriteMetrics(w).score = metricsJob.done[w].score
    BY DEF WriteMetrics, StatsRow
  <2>. QED BY <1>2, <1>3, <2>1, <2>2
<1>8. ASSUME NEW labels, StyleCommit(labels) PROVE Earned
  <2>1. /\ UNCHANGED metricsJob
        /\ stats' = [w \in DOMAIN stats |->
                       IF w \in DOMAIN labels THEN StatsRow(stats[w], labels[w]) ELSE stats[w]]
    BY <1>8 DEF StyleCommit
  <2>2. \A w : StatsRow(stats[w], labels[w]).score = stats[w].score
    BY DEF StatsRow
  <2>. QED BY <1>2, <1>3, <2>1, <2>2
<1>9. ASSUME MetricsAborted PROVE Earned
  BY <1>2, <1>9 DEF MetricsAborted
<1>10. UNCHANGED <<stats, metricsJob>> \/ (\E w \in Traders : ComputeMetrics(w)) \/ MetricsCycle
       \/ MetricsCommit \/ MetricsAborted \/ \E labels \in Labels(styleJob.rows) : StyleCommit(labels)
  BY DEF StatsNext, statsVars, PositionRecorded, StyleCycle, StyleAborted, StatsTimePasses
<1>11. Earned
  BY <1>4, <1>5, <1>6, <1>7, <1>8, <1>9, <1>10
<1>. QED BY <1>11 DEF ScoresEarned, LuckyStreakGated

(* A bar above 64.77, as the default of 65 is, keeps every wallet that has *)
(* at most twelve recorded positions from being followed on its score,     *)
(* whatever they won: confidence.py shrinks the score towards 30 by how    *)
(* few have closed.  A bar that an operator lowers may not.                *)
THEOREM LuckyStreakGatedHolds ==
    AutoFollowBar \in Int /\ AutoFollowBar > 6477
    => (StatsInit /\ [][StatsNext]_statsVars => []LuckyStreakGated)
<1>. SUFFICES ASSUME AutoFollowBar \in Int, AutoFollowBar > 6477
              PROVE  StatsInit /\ [][StatsNext]_statsVars => []LuckyStreakGated
  OBVIOUS
<1>1. StatsInit => StatsTyped /\ ScoresEarned
  BY RecordsTyped DEF StatsInit, StatsTyped, ScoresEarned, LuckyStreakGated, Record
<1>2. StatsTyped /\ ScoresEarned /\ [StatsNext]_statsVars => StatsTyped' /\ ScoresEarned'
  BY StatsTypedStep, ScoresEarnedStep
<1>3. ScoresEarned => LuckyStreakGated
  BY DEF ScoresEarned
<1>. QED BY <1>1, <1>2, <1>3, PTL

-----------------------------------------------------------------------------
(* The copy decision.  First the sum over the six components, and that     *)
(* whatever weights were learned are clamped to whole numbers near the     *)
(* base.                                                                   *)
LEMMA SixComponents ==
  /\ Components = {"authority", "holders", "lp", "deployer", "volume", "liquidityAge"}
  /\ IsFiniteSet(Components)
<1>1. Components = {"authority", "holders", "lp", "deployer", "volume", "liquidityAge"}
  BY DEF Components, BaseWeights
<1>2. Components = {} \cup {"authority"} \cup {"holders"} \cup {"lp"} \cup {"deployer"}
                     \cup {"volume"} \cup {"liquidityAge"}
  BY <1>1
<1>3. IsFiniteSet(Components)
  <2>1. ASSUME NEW S, IsFiniteSet(S), NEW x PROVE IsFiniteSet(S \cup {x})
    BY <2>1, FS_AddElement
  <2>. QED BY <1>2, <2>1, FS_EmptySet
<1>. QED BY <1>1, <1>3

(* The sum of six weights.                                                 *)
LEMMA ComponentSum ==
  ASSUME NEW w, \A c \in Components : w[c] \in Int
  PROVE  SumOver(w, Components) = w["authority"] + w["holders"] + w["lp"] + w["deployer"]
                                    + w["volume"] + w["liquidityAge"]
<1>. DEFINE A == {"authority"}
            B == A \cup {"holders"}
            C == B \cup {"lp"}
            D == C \cup {"deployer"}
            E == D \cup {"volume"}
            F == E \cup {"liquidityAge"}
<1>1. F = Components /\ \A c \in F : w[c] \in Int
  BY SixComponents
<1>2. IsFiniteSet(A) /\ IsFiniteSet(B) /\ IsFiniteSet(C) /\ IsFiniteSet(D) /\ IsFiniteSet(E)
  <2>1. A \subseteq F /\ B \subseteq F /\ C \subseteq F /\ D \subseteq F /\ E \subseteq F
    OBVIOUS
  <2>. HIDE DEF A, B, C, D, E, F
  <2>. QED BY <1>1, <2>1, SixComponents, FS_Subset
<1>3. SumOver(w, A) = w["authority"]
  BY <1>1, SumSingle
<1>4. "holders" \notin A /\ "lp" \notin B /\ "deployer" \notin C /\ "volume" \notin D
      /\ "liquidityAge" \notin E
  OBVIOUS
<1>5. SumOver(w, B) = w["holders"] + SumOver(w, A)
  <2>1. \A x \in A \cup {"holders"} : w[x] \in Int
    BY <1>1
  <2>. QED BY <1>2, <1>4, <2>1, SumAdd
<1>6. SumOver(w, C) = w["lp"] + SumOver(w, B)
  <2>1. \A x \in B \cup {"lp"} : w[x] \in Int
    BY <1>1
  <2>. HIDE DEF B
  <2>. QED BY <1>2, <1>4, <2>1, SumAdd
<1>7. SumOver(w, D) = w["deployer"] + SumOver(w, C)
  <2>1. \A x \in C \cup {"deployer"} : w[x] \in Int
    BY <1>1
  <2>. HIDE DEF C
  <2>. QED BY <1>2, <1>4, <2>1, SumAdd
<1>8. SumOver(w, E) = w["volume"] + SumOver(w, D)
  <2>1. \A x \in D \cup {"volume"} : w[x] \in Int
    BY <1>1
  <2>. HIDE DEF D
  <2>. QED BY <1>2, <1>4, <2>1, SumAdd
<1>9. SumOver(w, F) = w["liquidityAge"] + SumOver(w, E)
  <2>1. \A x \in E \cup {"liquidityAge"} : w[x] \in Int
    BY <1>1
  <2>. HIDE DEF E
  <2>. QED BY <1>2, <1>4, <2>1, SumAdd
<1>10. \A c \in {"authority", "holders", "lp", "deployer", "volume", "liquidityAge"} : w[c] \in Int
  BY SixComponents
<1>11. SumOver(w, F) = w["authority"] + w["holders"] + w["lp"] + w["deployer"]
                         + w["volume"] + w["liquidityAge"]
  <2>. HIDE DEF A, B, C, D, E, F
  <2>. QED BY <1>3, <1>5, <1>6, <1>7, <1>8, <1>9, <1>10
<1>. QED BY <1>1, <1>11

TypedWeights(learned) == \A c \in Components \cap DOMAIN learned : learned[c] \in Int

(* The clamp keeps each weight positive and below the sum of the others.   *)
LEMMA WeightsLoaded ==
  ASSUME NEW learned, TypedWeights(learned)
  PROVE  /\ LoadWeights(learned) \in [Components -> Nat \ {0}]
         /\ WeightTotal(LoadWeights(learned)) \in Nat \ {0}
         /\ \A c \in Components :
               2 * LoadWeights(learned)[c] <= WeightTotal(LoadWeights(learned))
<1>1. PICK w : w = LoadWeights(learned)
  OBVIOUS
<1>2. ASSUME NEW c \in Components, NEW low, NEW high,
             low = BaseWeights[c] \div 2, high = 2 * BaseWeights[c], low \in Int, high \in Int,
             low <= high
      PROVE  w[c] \in Int /\ low <= w[c] /\ w[c] <= high
  <2>1. PICK x : x = IF c \in DOMAIN learned THEN learned[c] ELSE BaseWeights[c]
    OBVIOUS
  <2>2. BaseWeights[c] \in Int
    BY SixComponents DEF BaseWeights
  <2>3. x \in Int
    BY <2>1, <2>2 DEF TypedWeights
  <2>4. w[c] = Clamp(x, low, high)
    BY <1>1, <1>2, <2>1 DEF LoadWeights
  <2>. QED BY <1>2, <2>3, <2>4 DEF Clamp
<1>3. w["authority"] \in 4..16 /\ w["holders"] \in 4..16
  BY <1>2, SixComponents DEF BaseWeights
<1>4. w["lp"] \in 3..12 /\ w["deployer"] \in 3..12
  BY <1>2, SixComponents DEF BaseWeights
<1>5. w["volume"] \in 3..12 /\ w["liquidityAge"] \in 3..12
  BY <1>2, SixComponents DEF BaseWeights
<1>6. \A c \in Components : w[c] \in Nat \ {0}
  BY <1>3, <1>4, <1>5, SixComponents
<1>7. PICK total : total = WeightTotal(w)
  OBVIOUS
<1>8. total = w["authority"] + w["holders"] + w["lp"] + w["deployer"]
                + w["volume"] + w["liquidityAge"]
  BY <1>6, <1>7, ComponentSum DEF WeightTotal
<1>9. total \in Nat \ {0}
  BY <1>3, <1>4, <1>5, <1>8
<1>10. \A c \in {"authority", "holders", "lp", "deployer", "volume", "liquidityAge"} :
          2 * w[c] <= total
  BY <1>3, <1>4, <1>5, <1>8
<1>11. w = [c \in Components |-> w[c]]
  BY <1>1 DEF LoadWeights
<1>12. w \in [Components -> Nat \ {0}]
  BY <1>6, <1>11
<1>. QED BY <1>1, <1>7, <1>9, <1>10, <1>12, SixComponents

(* A curve is read as a whole number of percents.                          *)
LEMMA LinearTyped ==
  ASSUME NEW x \in Int, NEW lo \in Int, NEW hi \in Int, lo < hi
  PROVE  Linear(x, lo, hi) \in Int
<1>1. PICK a, b : a = 100 * (x - lo) /\ b = hi - lo
  OBVIOUS
<1>2. a \in Int /\ b \in Int /\ b > 0
  BY <1>1
<1>3. a \div b \in Int
  BY <1>2, Quotient
<1>. QED BY <1>1, <1>3 DEF Linear, Clamp

(* The holders' share is a number or unknown.                              *)
LEMMA ShareTyped ==
  ASSUME NEW f, TypedFacts(f)
  PROVE  TopShare(f) \in Int \cup {None}
<1>1. CASE f.supply <= 0
  BY <1>1 DEF TopShare
<1>2. CASE ~(f.supply <= 0)
  <2>1. PICK S, accounts : S = ToSet(f.accounts) /\ accounts = f.accounts
    OBVIOUS
  <2>2. accounts \in Seq(S) /\ \A i \in DOMAIN accounts : accounts[i].amount \in Nat
    BY <2>1 DEF TypedFacts
  <2>3. \A a \in S : a.amount \in Nat
    BY <2>1, <2>2 DEF ToSet
  <2>4. PICK places : places = {i \in DOMAIN accounts :
                                  \A p \in f.pools : accounts[i].address # Reserve(p)}
    OBVIOUS
  <2>5. PICK holders : holders = At(accounts, places)
    OBVIOUS
  <2>6. holders \in Seq(S) /\ Len(holders) \in Nat
    <3>1. places \in SUBSET (DOMAIN accounts)
      BY <2>4
    <3>. QED BY <2>2, <2>5, <3>1, AtIn
  <2>7. holders = ExternalHolders(f)
    BY <2>1, <2>4, <2>5 DEF ExternalHolders
  <2>8. PICK n : n = IF Len(holders) < TopHolders THEN Len(holders) ELSE TopHolders
    OBVIOUS
  <2>9. n \in Nat /\ n <= Len(holders)
    BY <2>6, <2>8, RiskSettings
  <2>10. PICK top : top = [i \in 1..n |-> holders[i].amount]
    OBVIOUS
  <2>11. \A i \in DOMAIN top : top[i] \in Nat
    <3>1. \A i \in 1..n : holders[i] \in S
      BY <2>6, <2>9, ElementOfSeq
    <3>. QED BY <2>3, <2>10, <3>1
  <2>12. IsFiniteSet(DOMAIN top)
    <3>1. 1 \in Int /\ n \in Int
      BY <2>9
    <3>. QED BY <2>10, <3>1, FS_Interval
  <2>13. PICK total, supply : total = Total(top) /\ supply = f.supply
    OBVIOUS
  <2>14. total \in Nat /\ supply \in Int /\ supply > 0
    <3>1. total \in Nat
      BY <2>11, <2>12, <2>13, SumNat DEF Total
    <3>. QED BY <1>2, <2>13, <3>1 DEF TypedFacts
  <2>15. PICK x : x = 100 * total
    OBVIOUS
  <2>16. x \div supply \in Int
    BY <2>14, <2>15, Quotient
  <2>17. TopShare(f) = Clamp(x \div supply, 0, 100)
    BY <1>2, <2>7, <2>8, <2>10, <2>13, <2>15 DEF TopShare
  <2>. QED BY <2>16, <2>17 DEF Clamp
<1>. QED BY <1>1, <1>2

ScoreSet == [authority : Int, holders : Int, lp : Int, deployer : Int, volume : Int,
             liquidityAge : Int]

(* Each component's score is a number or unknown.                          *)
LEMMA ScoresTyped ==
  ASSUME NEW f, TypedFacts(f), NEW s, s.top10 \in Int \cup {None}, NEW now \in Int
  PROVE  ScoreComponents(f, s, now) \in ScoreSet
<1>1. AuthorityScore(s) \in Int /\ LpScore(s) \in Int
  BY DEF AuthorityScore, LpScore
<1>2. HolderScore(s) \in Int
  <2>1. s.top10 # None => Linear(s.top10, 20, 70) \in Int
    BY LinearTyped
  <2>. QED BY <2>1 DEF HolderScore
<1>3. DeployerScore(f) \in Int
  <2>1. PICK S, priors : S = ToSet(f.priors) /\ priors = f.priors
    OBVIOUS
  <2>2. priors \in Seq(S)
    BY <2>1 DEF TypedFacts
  <2>3. PICK dead : dead = {i \in DOMAIN priors : TokenIsDead(priors[i])}
    OBVIOUS
  <2>4. Cardinality(dead) \in Nat
    <3>1. IsFiniteSet(DOMAIN priors) /\ dead \subseteq DOMAIN priors
      BY <2>2, <2>3, DomainFinite
    <3>. QED BY <3>1, FS_Subset, FS_CardinalityType
  <2>5. PICK a, b : a = 100 * Cardinality(dead) /\ b = Len(priors)
    OBVIOUS
  <2>6. a \in Int /\ b \in Int /\ (priors # <<>> => b > 0)
    BY <2>2, <2>4, <2>5, LenProperties, EmptySeq
  <2>7. priors # <<>> => a \div b \in Int
    BY <2>6, Quotient
  <2>. QED BY <2>1, <2>3, <2>5, <2>7 DEF DeployerScore
<1>4. VolumeScore(f) \in Int
  <2>1. PICK buys, buyers : buys = f.buys /\ buyers = f.buyers
    OBVIOUS
  <2>2. buys \in Int /\ buyers \in Int
    BY <2>1 DEF TypedFacts
  <2>3. PICK a : a = 140 * (buys - buyers)
    OBVIOUS
  <2>4. ~(buys < 10) => a \div buys \in Int
    <3>1. a \in Int
      BY <2>2, <2>3
    <3>. QED BY <2>2, <3>1, Quotient
  <2>. QED BY <2>1, <2>3, <2>4 DEF VolumeScore, Clamp
<1>5. LiquidityAgeScore(f, now) \in Int
  <2>1. PICK liquidity, age : liquidity = OrZero(f.liquidity) /\ age = now - f.firstSeen
    OBVIOUS
  <2>2. liquidity \in Int /\ age \in Int
    BY <2>1 DEF TypedFacts, OrZero
  <2>3. PICK a, b : a = Linear(liquidity, 0, 200) /\ b = Linear(age, 0, DayTicks)
    OBVIOUS
  <2>4. a \in Int /\ b \in Int
    <3>1. DayTicks \in Int /\ 0 < DayTicks
      BY RiskSettings
    <3>2. b \in Int
      BY <2>2, <2>3, <3>1, LinearTyped
    <3>3. a \in Int
      BY <2>2, <2>3, LinearTyped
    <3>. QED BY <3>2, <3>3
  <2>5. PICK x : x = (100 - a) * (100 - b)
    OBVIOUS
  <2>6. x \in Int
    BY <2>4, <2>5
  <2>7. x \div 100 \in Int
    BY <2>6
  <2>. QED BY <2>1, <2>3, <2>5, <2>7 DEF LiquidityAgeScore
<1>. QED BY <1>1, <1>2, <1>3, <1>4, <1>5 DEF ScoreComponents, ScoreSet

(* The composite score is a number.                                        *)
LEMMA CompositeTyped ==
  ASSUME NEW scores \in ScoreSet, NEW learned, TypedWeights(learned)
  PROVE  Composite(scores, LoadWeights(learned)) \in Int
<1>1. PICK w : w = LoadWeights(learned)
  OBVIOUS
<1>2. w \in [Components -> Nat \ {0}] /\ WeightTotal(w) \in Nat \ {0}
  BY <1>1, WeightsLoaded
<1>3. PICK f : f = [c \in Components |-> scores[c] * w[c]]
  OBVIOUS
<1>4. \A c \in Components : scores[c] \in Int
  BY SixComponents DEF ScoreSet
<1>5. \A c \in Components : f[c] \in Int
  BY <1>2, <1>3, <1>4
<1>6. PICK a, b : a = SumOver(f, Components) /\ b = WeightTotal(w)
  OBVIOUS
<1>7. a \in Int /\ b \in Int /\ b > 0
  BY <1>2, <1>5, <1>6, SixComponents, SumType
<1>8. a \div b \in Int
  BY <1>7, Quotient
<1>. QED BY <1>1, <1>3, <1>6, <1>8 DEF Composite, Clamp

Outcomes == {None, "unknown", "rug", "profit", "loss"}
AssessmentSet == [at : Int, engine : Int, version : Nat, scores : ScoreSet, score : Int,
                  blocked : BOOLEAN, outcome : Outcomes]

(* What a probe saw of the holders is a number or unknown.                 *)
LEMMA ProbeTyped ==
  ASSUME NEW f, TypedFacts(f), NEW answered
  PROVE  Probe(f, answered).top10 \in Int \cup {None}
BY ShareTyped DEF Probe

(* A new assessment is a row of the table.                                 *)
LEMMA AssessmentTyped ==
  ASSUME NEW f, TypedFacts(f), NEW answered, NEW now \in Int, NEW running \in Int, NEW redis,
         redis.version \in Nat, TypedWeights(redis.weights)
  PROVE  NewAssessment(f, answered, now, running, redis) \in AssessmentSet
<1>1. PICK s : s = Probe(f, answered)
  OBVIOUS
<1>2. PICK scores : scores = ScoreComponents(f, s, now)
  OBVIOUS
<1>3. scores \in ScoreSet
  BY <1>1, <1>2, ProbeTyped, ScoresTyped
<1>4. PICK score : score = Composite(scores, LoadWeights(redis.weights))
  OBVIOUS
<1>5. score \in Int
  BY <1>3, <1>4, CompositeTyped
<1>6. NewAssessment(f, answered, now, running, redis) =
        [at |-> now, engine |-> running, version |-> redis.version, scores |-> scores,
         score |-> score, blocked |-> HardFilters(s) # {}, outcome |-> None]
  BY <1>1, <1>2, <1>4 DEF NewAssessment
<1>. QED BY <1>3, <1>5, <1>6 DEF AssessmentSet, Outcomes

SnapshotSet == [liquidity : Int \cup {None}, price : Int \cup {None}, cap : Int \cup {None}, at : Int]
WeightRowSet == [version : Nat, weights : [Components -> Int]]

RiskTypeOK ==
    /\ riskNow \in Int /\ engine \in Int
    /\ TypedFacts(facts)
    /\ snapshots \in Seq(SnapshotSet)
    /\ assessments \in Seq(AssessmentSet)
    /\ looks \in Seq(BOOLEAN) /\ Len(looks) = Len(assessments)
    /\ riskRedis.version \in Nat /\ TypedWeights(riskRedis.weights)
    /\ weightRows \in Seq(WeightRowSet)

(* An assessment that does not block was made when the chain looked safe.  *)
LooksMatch == \A i \in DOMAIN assessments : ~assessments[i].blocked => looks[i]

(* The token's facts as the engine scores them: the same chain.            *)
LEMMA RiskFactsTyped ==
  ASSUME RiskTypeOK
  PROVE  /\ TypedFacts(RiskFacts)
         /\ RiskFacts.mint = facts.mint /\ RiskFacts.freeze = facts.freeze
         /\ RiskFacts.accounts = facts.accounts /\ RiskFacts.supply = facts.supply
         /\ RiskFacts.pools = facts.pools /\ RiskFacts.primaryDex = facts.primaryDex
<1>1. PICK liquidity : liquidity = IF snapshots = <<>> THEN None ELSE Latest.liquidity
  OBVIOUS
<1>2. liquidity \in Int \cup {None}
  <2>1. snapshots # <<>> => snapshots[Len(snapshots)] \in SnapshotSet
    <3>1. snapshots # <<>> => Len(snapshots) \in Nat /\ Len(snapshots) > 0
      BY LenProperties, EmptySeq DEF RiskTypeOK
    <3>. QED BY <3>1, ElementOfSeq DEF RiskTypeOK
  <2>. QED BY <1>1, <2>1 DEF Latest, Last, SnapshotSet
<1>3. PICK f : f = facts
  OBVIOUS
<1>4. TypedFacts(f)
  BY <1>3 DEF RiskTypeOK
<1>5. PICK g : g = [f EXCEPT !.liquidity = liquidity]
  OBVIOUS
<1>6. DOMAIN g = DOMAIN f /\ g.liquidity = liquidity
  BY <1>4, <1>5 DEF TypedFacts
<1>7. /\ g.mint = f.mint /\ g.freeze = f.freeze /\ g.accounts = f.accounts
      /\ g.supply = f.supply /\ g.pools = f.pools /\ g.primaryDex = f.primaryDex
      /\ g.priors = f.priors /\ g.buys = f.buys /\ g.buyers = f.buyers
      /\ g.firstSeen = f.firstSeen
  BY <1>4, <1>5 DEF TypedFacts
<1>8. TypedFacts(g)
  BY <1>2, <1>4, <1>6, <1>7 DEF TypedFacts
<1>9. RiskFacts = g
  BY <1>1, <1>3, <1>5 DEF RiskFacts
<1>. QED BY <1>3, <1>7, <1>8, <1>9

(* What passes the filters is safe to copy: what was not seen is not       *)
(* taken for an authority that was given up.                               *)
LEMMA UnblockedIsSafe ==
  ASSUME RiskTypeOK, NEW answered, HardFilters(Probe(RiskFacts, answered)) = {}
  PROVE  SafeToCopy(answered)
<1>1. PICK s : s = Probe(RiskFacts, answered)
  OBVIOUS
<1>2. /\ s.freeze # "held" /\ s.freeze # None /\ s.mint # None
      /\ s.mint # "held" \/ s.curve
      /\ s.top10 = None \/ ~(s.top10 > Top10Limit)
  <2>1. HardFilters(s) = {}
    BY <1>1
  <2>. QED BY <2>1 DEF HardFilters
<1>3. "authorities" \in answered /\ s.mint = facts.mint /\ s.freeze = facts.freeze
  BY <1>1, <1>2, RiskFactsTyped DEF Probe
<1>4. s.curve <=> OnCurve(facts)
  BY <1>1, RiskFactsTyped DEF Probe, OnCurve
<1>5. TopShare(RiskFacts) = TopShare(facts)
  BY RiskFactsTyped DEF TopShare, ExternalHolders
<1>6. "holders" \in answered => s.top10 = TopShare(facts)
  BY <1>1, <1>5 DEF Probe
<1>7. TopShare(facts) \in Int \cup {None}
  BY ShareTyped DEF RiskTypeOK
<1>8. Top10Limit \in Int
  BY RiskSettings
<1>9. "holders" \in answered /\ TopShare(facts) # None => TopShare(facts) <= Top10Limit
  BY <1>2, <1>6, <1>7, <1>8
<1>10. facts.mint \in {"held", "renounced"} /\ facts.freeze \in {"held", "renounced"}
  BY DEF RiskTypeOK, TypedFacts
<1>. QED BY <1>2, <1>3, <1>4, <1>9, <1>10 DEF SafeToCopy

(* A mean of scores is a number.                                           *)
LEMMA MeanScoreTyped ==
  ASSUME RiskTypeOK, NEW rows \in SUBSET (DOMAIN assessments), NEW c \in Components
  PROVE  MeanScore(rows, c) \in Int
<1>1. PICK list : list = assessments
  OBVIOUS
<1>2. list \in Seq(AssessmentSet) /\ rows \subseteq DOMAIN list
  BY <1>1 DEF RiskTypeOK
<1>3. PICK f : f = [i \in DOMAIN list |-> list[i].scores[c]]
  OBVIOUS
<1>4. \A i \in DOMAIN list : f[i] \in Int
  <2>1. \A i \in DOMAIN list : list[i] \in AssessmentSet
    BY <1>2, LenProperties, ElementOfSeq
  <2>2. \A i \in DOMAIN list : list[i].scores \in ScoreSet
    BY <2>1 DEF AssessmentSet
  <2>. QED BY <1>3, <2>2, SixComponents DEF ScoreSet
<1>5. IsFiniteSet(rows) /\ Cardinality(rows) \in Nat /\ (rows # {} => Cardinality(rows) > 0)
  <2>1. IsFiniteSet(rows)
    BY <1>2, DomainFinite, FS_Subset
  <2>. QED BY <2>1, FS_CardinalityType, FS_EmptySet
<1>6. PICK a, b : a = SumOver(f, rows) /\ b = Cardinality(rows)
  OBVIOUS
<1>7. a \in Int /\ b \in Int /\ (rows # {} => b > 0)
  <2>1. a \in Int
    BY <1>2, <1>4, <1>5, <1>6, SumType
  <2>. QED BY <1>5, <1>6, <2>1
<1>8. rows # {} => a \div b \in Int
  BY <1>7, Quotient
<1>. QED BY <1>1, <1>3, <1>6, <1>8 DEF MeanScore

(* Tuned weights are numbers.                                              *)
LEMMA TunedTyped ==
  ASSUME RiskTypeOK
  PROVE  TunedWeights \in [Components -> Int]
<1>. DEFINE gap(c) == MeanScore(Labeled({"rug"}), c) - MeanScore(Labeled({"profit", "loss"}), c)
<1>1. ASSUME NEW c \in Components PROVE gap(c) \in Int
  <2>1. \A outcomes : Labeled(outcomes) \in SUBSET (DOMAIN assessments)
    BY DEF Labeled
  <2>2. MeanScore(Labeled({"rug"}), c) \in Int /\ MeanScore(Labeled({"profit", "loss"}), c) \in Int
    BY <2>1, MeanScoreTyped
  <2>. QED BY <2>2
<1>2. PICK scaled : scaled = [c \in Components |-> BaseWeights[c] * Clamp(100 + gap(c), 50, 200)]
  OBVIOUS
<1>3. \A c \in Components : BaseWeights[c] \in 6..8
  BY SixComponents DEF BaseWeights
<1>4. ASSUME NEW c \in Components PROVE scaled[c] \in Nat /\ scaled[c] > 0
  <2>1. PICK x : x = Clamp(100 + gap(c), 50, 200)
    OBVIOUS
  <2>2. x \in 50..200
    <3>. HIDE DEF gap
    <3>. QED BY <1>1, <2>1 DEF Clamp
  <2>3. scaled[c] = BaseWeights[c] * x
    BY <1>2, <2>1
  <2>4. BaseWeights[c] \in Int /\ BaseWeights[c] > 0
    BY <1>3
  <2>. QED BY <2>2, <2>3, <2>4
<1>. HIDE DEF gap
<1>5. PICK total : total = WeightTotal(scaled)
  OBVIOUS
<1>6. total \in Int /\ total > 0
  <2>1. \A c \in {"authority", "holders", "lp", "deployer", "volume", "liquidityAge"} :
           scaled[c] \in Nat /\ scaled[c] > 0
    BY <1>4, SixComponents
  <2>2. total = scaled["authority"] + scaled["holders"] + scaled["lp"] + scaled["deployer"]
                  + scaled["volume"] + scaled["liquidityAge"]
    BY <1>4, <1>5, ComponentSum DEF WeightTotal
  <2>. QED BY <2>1, <2>2
<1>7. ASSUME NEW c \in Components PROVE (40 * scaled[c]) \div total \in Int
  <2>1. PICK a : a = 40 * scaled[c]
    OBVIOUS
  <2>2. a \in Int
    BY <1>4, <2>1
  <2>. QED BY <1>6, <2>1, <2>2, Quotient
<1>8. TunedWeights = [c \in Components |-> (40 * scaled[c]) \div total]
  BY <1>2, <1>5 DEF TunedWeights, gap
<1>. QED BY <1>7, <1>8

(* An outcome is one of the outcomes.                                      *)
LEMMA OutcomeTyped == \A row : OutcomeOf(row) \in Outcomes
BY DEF OutcomeOf, Outcomes

(* An outcome that is filled in changes nothing else of an assessment.     *)
LEMMA OutcomeFilled ==
  ASSUME RiskTypeOK, ResolveOutcomes
  PROVE  /\ assessments' \in Seq(AssessmentSet) /\ Len(assessments') = Len(assessments)
         /\ DOMAIN assessments' = DOMAIN assessments
         /\ \A i \in DOMAIN assessments :
               /\ assessments'[i].at = assessments[i].at
               /\ assessments'[i].engine = assessments[i].engine
               /\ assessments'[i].score = assessments[i].score
               /\ assessments'[i].blocked = assessments[i].blocked
<1>1. PICK old, n : old = assessments /\ n = Len(assessments)
  OBVIOUS
<1>2. old \in Seq(AssessmentSet) /\ DOMAIN old = 1..n /\ n \in Nat
  BY <1>1, LenProperties DEF RiskTypeOK
<1>3. ASSUME NEW i \in 1..n
      PROVE  /\ assessments'[i] \in AssessmentSet
             /\ assessments'[i].at = old[i].at /\ assessments'[i].engine = old[i].engine
             /\ assessments'[i].score = old[i].score /\ assessments'[i].blocked = old[i].blocked
  <2>1. PICK row : row = old[i]
    OBVIOUS
  <2>2. row \in AssessmentSet
    BY <1>2, <2>1, ElementOfSeq
  <2>3. PICK outcome : outcome = OutcomeOf(row)
    OBVIOUS
  <2>4. outcome \in Outcomes
    BY <2>3, OutcomeTyped
  <2>5. assessments'[i] = row \/ assessments'[i] = [row EXCEPT !.outcome = outcome]
    BY <1>1, <1>2, <2>1, <2>3 DEF ResolveOutcomes
  <2>. QED BY <2>1, <2>2, <2>4, <2>5 DEF AssessmentSet
<1>4. assessments' = [i \in 1..n |-> assessments'[i]]
  BY <1>1, <1>2 DEF ResolveOutcomes
<1>5. assessments' \in Seq(AssessmentSet) /\ Len(assessments') = n
  BY <1>2, <1>3, <1>4, SeqDef
<1>. QED BY <1>1, <1>2, <1>3, <1>4, <1>5

(* A probe appends its assessment, unblocked only if it saw a safe token.  *)
LEMMA ProbingAppends ==
  ASSUME RiskTypeOK, NEW b, NEW redis \in {riskRedis, NothingLearned}, NEW answered,
         EvaluateProbing(b, redis, answered)
  PROVE  LET row == NewAssessment(RiskFacts, answered, riskNow, engine, redis) IN
         /\ row \in AssessmentSet /\ row.at = riskNow /\ row.engine = engine
         /\ ~row.blocked => SafeToCopy(answered)
         /\ assessments' = Append(assessments, row)
         /\ looks' = Append(looks, SafeToCopy(answered))
         /\ lastDecision' = Decided(b, row)
<1>1. redis.version \in Nat /\ TypedWeights(redis.weights)
  BY DEF RiskTypeOK, NothingLearned, TypedWeights
<1>2. PICK row : row = NewAssessment(RiskFacts, answered, riskNow, engine, redis)
  OBVIOUS
<1>3. row \in AssessmentSet
  BY <1>1, <1>2, RiskFactsTyped, AssessmentTyped DEF RiskTypeOK
<1>4. row.at = riskNow /\ row.engine = engine
  BY <1>2 DEF NewAssessment
<1>5. ~row.blocked => HardFilters(Probe(RiskFacts, answered)) = {}
  BY <1>2 DEF NewAssessment
<1>6. ~row.blocked => SafeToCopy(answered)
  BY <1>5, UnblockedIsSafe
<1>7. /\ assessments' = Append(assessments, row)
      /\ looks' = Append(looks, SafeToCopy(answered))
      /\ lastDecision' = Decided(b, row)
  BY <1>2 DEF EvaluateProbing
<1>. QED BY <1>2, <1>3, <1>4, <1>6, <1>7

(* A look is safe or not.                                                  *)
LEMMA SafeIsBoolean == \A answered : SafeToCopy(answered) \in BOOLEAN
BY DEF SafeToCopy

(* Every step keeps the types.                                             *)
LEMMA RiskTypeStep ==
  ASSUME RiskTypeOK, [RiskNext]_riskVars
  PROVE  RiskTypeOK'
<1>. DEFINE Kept ==
       /\ riskNow' \in Int /\ engine' \in Int
       /\ TypedFacts(facts')
       /\ snapshots' \in Seq(SnapshotSet)
       /\ assessments' \in Seq(AssessmentSet)
       /\ looks' \in Seq(BOOLEAN) /\ Len(looks') = Len(assessments')
       /\ riskRedis'.version \in Nat /\ TypedWeights(riskRedis'.weights)
       /\ weightRows' \in Seq(WeightRowSet)
<1>1. ASSUME UNCHANGED <<facts, snapshots, assessments, looks, riskRedis, weightRows>>,
             riskNow' \in Int, engine' \in Int
      PROVE  Kept
  BY <1>1 DEF RiskTypeOK
<1>2. ASSUME NEW b, NEW redis \in {riskRedis, NothingLearned}, NEW answered,
             EvaluateProbing(b, redis, answered)
      PROVE  Kept
  <2>1. PICK row : row = NewAssessment(RiskFacts, answered, riskNow, engine, redis)
    OBVIOUS
  <2>2. row \in AssessmentSet /\ assessments' = Append(assessments, row)
        /\ looks' = Append(looks, SafeToCopy(answered))
    BY <1>2, <2>1, ProbingAppends
  <2>3. assessments' \in Seq(AssessmentSet) /\ Len(assessments') = Len(assessments) + 1
    BY <2>2, AppendProperties DEF RiskTypeOK
  <2>4. looks' \in Seq(BOOLEAN) /\ Len(looks') = Len(looks) + 1
    BY <2>2, SafeIsBoolean, AppendProperties DEF RiskTypeOK
  <2>5. UNCHANGED <<riskNow, facts, snapshots, riskRedis, weightRows, engine>>
    BY <1>2 DEF EvaluateProbing
  <2>. QED BY <2>3, <2>4, <2>5 DEF RiskTypeOK
<1>3. ASSUME ResolveOutcomes PROVE Kept
  <2>1. UNCHANGED <<riskNow, facts, snapshots, looks, riskRedis, weightRows, engine>>
    BY <1>3 DEF ResolveOutcomes
  <2>. QED BY <1>3, <2>1, OutcomeFilled DEF RiskTypeOK
<1>4. ASSUME NEW committed, TuneWeights(committed) PROVE Kept
  <2>1. PICK weights, version : weights = TunedWeights /\ version = Len(weightRows) + 1
    OBVIOUS
  <2>2. weights \in [Components -> Int] /\ version \in Nat
    BY <2>1, TunedTyped, LenProperties DEF RiskTypeOK
  <2>3. PICK tuned : tuned = [version |-> version, weights |-> weights]
    OBVIOUS
  <2>4. tuned \in WeightRowSet /\ tuned.version \in Nat /\ TypedWeights(tuned.weights)
    BY <2>2, <2>3 DEF WeightRowSet, TypedWeights
  <2>5. riskRedis' = tuned /\ (weightRows' = weightRows \/ weightRows' = Append(weightRows, tuned))
        /\ UNCHANGED <<riskNow, facts, snapshots, assessments, looks, engine>>
    BY <1>4, <2>1, <2>3 DEF TuneWeights
  <2>6. weightRows' \in Seq(WeightRowSet)
    <3>1. weightRows \in Seq(WeightRowSet) /\ tuned \in WeightRowSet
      BY <2>4 DEF RiskTypeOK
    <3>2. Append(weightRows, tuned) \in Seq(WeightRowSet)
      BY <3>1, AppendProperties
    <3>. QED BY <2>5, <3>1, <3>2
  <2>. QED BY <2>4, <2>5, <2>6 DEF RiskTypeOK
<1>5. ASSUME ChainChanges PROVE Kept
  <2>1. UNCHANGED <<riskNow, snapshots, assessments, looks, riskRedis, weightRows, engine>>
    BY <1>5 DEF ChainChanges
  <2>2. PICK f : f = facts
    OBVIOUS
  <2>3. TypedFacts(f)
    BY <2>2 DEF RiskTypeOK
  <2>4. CASE facts' = Renounced
    <3>1. facts' = [f EXCEPT !.mint = "renounced", !.freeze = "renounced"]
      BY <2>2, <2>4 DEF Renounced
    <3>2. TypedFacts(facts')
      BY <2>3, <3>1 DEF TypedFacts
    <3>. QED BY <2>1, <3>2 DEF RiskTypeOK
  <2>5. CASE facts' = Graduated
    <3>1. PICK pools : facts' = [f EXCEPT !.pools = pools]
      BY <2>2, <2>5 DEF Graduated
    <3>2. TypedFacts(facts')
      BY <2>3, <3>1 DEF TypedFacts
    <3>. QED BY <2>1, <3>2 DEF RiskTypeOK
  <2>6. CASE \E holders \in HolderLists : facts' = [facts EXCEPT !.accounts = holders]
    <3>1. PICK holders \in HolderLists : facts' = [f EXCEPT !.accounts = holders]
      BY <2>2, <2>6
    <3>2. /\ holders \in Seq(ToSet(holders))
          /\ \A i \in DOMAIN holders : holders[i].amount \in Nat
      BY DecisionValues
    <3>3. TypedFacts(facts')
      BY <2>3, <3>1, <3>2 DEF TypedFacts
    <3>. QED BY <2>1, <3>3 DEF RiskTypeOK
  <2>. QED BY <1>5, <2>4, <2>5, <2>6 DEF ChainChanges
<1>6. ASSUME SnapshotTaken PROVE Kept
  <2>1. UNCHANGED <<riskNow, facts, assessments, looks, riskRedis, weightRows, engine>>
    BY <1>6 DEF SnapshotTaken
  <2>2. PICK s \in Snapshots :
          snapshots' = Append(snapshots, [liquidity |-> s.liquidity, price |-> s.price,
                                          cap |-> s.cap, at |-> riskNow])
    BY <1>6 DEF SnapshotTaken
  <2>3. PICK row : row = [liquidity |-> s.liquidity, price |-> s.price,
                          cap |-> s.cap, at |-> riskNow]
    OBVIOUS
  <2>4. row \in SnapshotSet
    BY <2>3, DecisionValues DEF SnapshotSet, RiskTypeOK
  <2>5. snapshots' \in Seq(SnapshotSet)
    BY <2>2, <2>3, <2>4, AppendProperties DEF RiskTypeOK
  <2>. QED BY <2>1, <2>5 DEF RiskTypeOK
<1>7. ASSUME OpsWriteWeights PROVE Kept
  <2>1. UNCHANGED <<riskNow, facts, snapshots, assessments, looks, weightRows, engine>>
    BY <1>7 DEF OpsWriteWeights
  <2>2. riskRedis'.version \in Nat /\ TypedWeights(riskRedis'.weights)
    BY <1>7, DecisionValues DEF OpsWriteWeights, NothingLearned, TypedWeights
  <2>. QED BY <2>1, <2>2 DEF RiskTypeOK
<1>8. CASE RiskNext
  <2>1. \/ UNCHANGED <<facts, snapshots, assessments, looks, riskRedis, weightRows>>
           /\ riskNow' \in Int /\ engine' \in Int
        \/ \E b \in Buys : \E answered \in SUBSET Lookups :
              \E redis \in {riskRedis, NothingLearned} : EvaluateProbing(b, redis, answered)
        \/ ResolveOutcomes
        \/ \E committed \in BOOLEAN : TuneWeights(committed)
        \/ ChainChanges
        \/ SnapshotTaken
        \/ OpsWriteWeights
    BY <1>8 DEF RiskNext, Evaluate, EvaluateUnknown, EvaluateReusing, EvaluateUnassessed,
                TimePasses, Deploy, RiskTypeOK
  <2>2. Kept
    BY <1>1, <1>2, <1>3, <1>4, <1>5, <1>6, <1>7, <2>1
  <2>. QED BY <2>2 DEF RiskTypeOK
<1>9. CASE UNCHANGED riskVars
  BY <1>9 DEF RiskTypeOK, riskVars
<1>. QED BY <1>8, <1>9

(* Every step keeps unblocked assessments with safe looks.                 *)
LEMMA LooksStep ==
  ASSUME RiskTypeOK, LooksMatch, [RiskNext]_riskVars
  PROVE  LooksMatch'
<1>. DEFINE Kept == \A i \in DOMAIN assessments' : ~assessments'[i].blocked => looks'[i]
<1>1. DOMAIN assessments = 1..Len(assessments) /\ Len(assessments) \in Nat
  BY LenProperties DEF RiskTypeOK
<1>2. ASSUME NEW b, NEW redis \in {riskRedis, NothingLearned}, NEW answered,
             EvaluateProbing(b, redis, answered)
      PROVE  Kept
  <2>1. PICK row : row = NewAssessment(RiskFacts, answered, riskNow, engine, redis)
    OBVIOUS
  <2>2. row \in AssessmentSet /\ assessments' = Append(assessments, row)
        /\ looks' = Append(looks, SafeToCopy(answered)) /\ (~row.blocked => SafeToCopy(answered))
    BY <1>2, <2>1, ProbingAppends
  <2>3. PICK n : n = Len(assessments)
    OBVIOUS
  <2>4. /\ DOMAIN assessments' = 1..(n + 1) /\ assessments'[n + 1] = row
        /\ \A i \in 1..n : assessments'[i] = assessments[i]
    <3>1. Len(assessments') = n + 1 /\ assessments' \in Seq(AssessmentSet)
      BY <2>2, <2>3, AppendProperties DEF RiskTypeOK
    <3>2. DOMAIN assessments' = 1..(n + 1)
      BY <2>3, <3>1, LenProperties
    <3>. QED BY <2>2, <2>3, <3>2, AppendProperties DEF RiskTypeOK
  <2>5. looks'[n + 1] = SafeToCopy(answered) /\ \A i \in 1..n : looks'[i] = looks[i]
    BY <2>2, <2>3, SafeIsBoolean, AppendProperties DEF RiskTypeOK
  <2>6. ASSUME NEW i \in 1..(n + 1), ~assessments'[i].blocked PROVE looks'[i]
    <3>1. CASE i = n + 1
      BY <2>2, <2>4, <2>5, <2>6, <3>1
    <3>2. CASE i # n + 1
      <4>1. i \in 1..n
        BY <1>1, <2>3, <3>2
      <4>. QED BY <1>1, <2>3, <2>4, <2>5, <2>6, <4>1 DEF LooksMatch
    <3>. QED BY <3>1, <3>2
  <2>. QED BY <2>4, <2>6
<1>3. ASSUME ResolveOutcomes PROVE Kept
  <2>1. looks' = looks
    BY <1>3 DEF ResolveOutcomes
  <2>. QED BY <1>3, <2>1, OutcomeFilled DEF LooksMatch
<1>4. ASSUME UNCHANGED <<assessments, looks>> PROVE Kept
  BY <1>4 DEF LooksMatch
<1>5. \/ UNCHANGED <<assessments, looks>>
      \/ \E b \in Buys : \E answered \in SUBSET Lookups :
            \E redis \in {riskRedis, NothingLearned} : EvaluateProbing(b, redis, answered)
      \/ ResolveOutcomes
  BY DEF RiskNext, riskVars, Evaluate, EvaluateUnknown, EvaluateReusing, EvaluateUnassessed,
         TimePasses, TuneWeights, ChainChanges, SnapshotTaken, Deploy, OpsWriteWeights
<1>6. Kept
  BY <1>2, <1>3, <1>4, <1>5
<1>. QED BY <1>6 DEF LooksMatch

(* What a copy of some size needs of the verdict on its token.             *)
LEMMA SizedIsSafe ==
  ASSUME NEW b, NEW verdict, verdict.score \in Int, Decided(b, verdict).size > 0
  PROVE  /\ ~verdict.blocked /\ verdict.score <= MaxRugScore
         /\ Decided(b, verdict).at = riskNow /\ Decided(b, verdict).engine = engine
<1>1. FailedGates(b, verdict) = {}
  BY DEF Decided
<1>2. ~(verdict.blocked \/ verdict.score > MaxRugScore)
  BY <1>1 DEF FailedGates
<1>. QED BY <1>2, DecisionValues DEF Decided

(* Every decision for a copy rests on such an assessment.                  *)
LEMMA CopyBackedStep ==
  ASSUME RiskTypeOK, LooksMatch, CopyBackedByProbe, [RiskNext]_riskVars
  PROVE  CopyBackedByProbe'
<1>. DEFINE Backed(i) ==
              /\ looks'[i]
              /\ assessments'[i].at >= lastDecision'.at - AssessmentTTL
              /\ assessments'[i].engine = lastDecision'.engine
              /\ assessments'[i].score <= MaxRugScore
            Kept == lastDecision' # None /\ lastDecision'.size > 0 =>
                      \E i \in DOMAIN looks' : Backed(i)
<1>1. DOMAIN assessments = 1..Len(assessments) /\ DOMAIN looks = 1..Len(assessments)
      /\ Len(assessments) \in Nat
  BY LenProperties DEF RiskTypeOK
<1>2. \A i \in DOMAIN assessments : assessments[i] \in AssessmentSet
  BY <1>1, ElementOfSeq DEF RiskTypeOK
<1>3. ASSUME UNCHANGED <<assessments, looks, lastDecision>> PROVE Kept
  BY <1>3 DEF CopyBackedByProbe
<1>4. ASSUME EvaluateUnknown PROVE Kept
  BY <1>4 DEF EvaluateUnknown, Skipped
<1>5. ASSUME NEW b, EvaluateUnassessed(b) PROVE Kept
  <2>1. SUFFICES ASSUME lastDecision'.size > 0 PROVE FALSE
    OBVIOUS
  <2>2. PICK verdict : verdict = [blocked |-> TRUE, score |-> 100]
    OBVIOUS
  <2>3. lastDecision' = Decided(b, verdict)
    BY <1>5, <2>2 DEF EvaluateUnassessed
  <2>4. verdict.score \in Int /\ verdict.blocked
    BY <2>2
  <2>. QED BY <2>1, <2>3, <2>4, SizedIsSafe
<1>6. ASSUME NEW b, EvaluateReusing(b) PROVE Kept
  <2>1. SUFFICES ASSUME lastDecision'.size > 0 PROVE \E i \in DOMAIN looks' : Backed(i)
    OBVIOUS
  <2>2. PICK row \in Reusable(assessments, riskNow, engine) : lastDecision' = Decided(b, row)
    BY <1>6 DEF EvaluateReusing
  <2>3. assessments' = assessments /\ looks' = looks
    BY <1>6 DEF EvaluateReusing
  <2>4. PICK ours : ours = {i \in DOMAIN assessments : assessments[i].engine = engine}
    OBVIOUS
  <2>5. ours # {} /\ row = assessments[Max(ours)] /\ row.at >= riskNow - AssessmentTTL
    BY <2>2, <2>4 DEF Reusable, NewestOf
  <2>6. PICK i : i = Max(ours)
    OBVIOUS
  <2>7. i \in ours
    <3>1. IsFiniteSet(DOMAIN assessments)
      BY DomainFinite DEF RiskTypeOK
    <3>2. IsFiniteSet(ours)
      BY <2>4, <3>1, FS_Subset
    <3>3. ours \subseteq Int
      BY <1>1, <2>4
    <3>. QED BY <2>5, <2>6, <3>2, <3>3, MaxIn
  <2>8. i \in DOMAIN assessments /\ row = assessments[i] /\ row.engine = engine
        /\ row.score \in Int
    <3>1. i \in DOMAIN assessments /\ row = assessments[i] /\ row.engine = engine
      BY <2>4, <2>5, <2>6, <2>7
    <3>2. row \in AssessmentSet
      BY <1>2, <3>1
    <3>. QED BY <3>1, <3>2 DEF AssessmentSet
  <2>9. /\ ~row.blocked /\ row.score <= MaxRugScore
        /\ lastDecision'.at = riskNow /\ lastDecision'.engine = engine
    BY <2>1, <2>2, <2>8, SizedIsSafe
  <2>10. Backed(i)
    BY <2>3, <2>5, <2>8, <2>9 DEF LooksMatch
  <2>. QED BY <1>1, <2>3, <2>8, <2>10
<1>7. ASSUME NEW b, NEW redis \in {riskRedis, NothingLearned}, NEW answered,
             EvaluateProbing(b, redis, answered)
      PROVE  Kept
  <2>1. SUFFICES ASSUME lastDecision'.size > 0 PROVE \E i \in DOMAIN looks' : Backed(i)
    OBVIOUS
  <2>2. PICK row : row = NewAssessment(RiskFacts, answered, riskNow, engine, redis)
    OBVIOUS
  <2>3. /\ row \in AssessmentSet /\ row.at = riskNow /\ row.engine = engine
        /\ ~row.blocked => SafeToCopy(answered)
        /\ assessments' = Append(assessments, row)
        /\ looks' = Append(looks, SafeToCopy(answered))
        /\ lastDecision' = Decided(b, row)
    BY <1>7, <2>2, ProbingAppends
  <2>4. row.score \in Int
    BY <2>3 DEF AssessmentSet
  <2>5. /\ ~row.blocked /\ row.score <= MaxRugScore
        /\ lastDecision'.at = riskNow /\ lastDecision'.engine = engine
    BY <2>1, <2>3, <2>4, SizedIsSafe
  <2>6. PICK n : n = Len(assessments) + 1
    OBVIOUS
  <2>7. assessments'[n] = row
    BY <2>3, <2>6, AppendProperties DEF RiskTypeOK
  <2>8. looks'[n] = SafeToCopy(answered) /\ n \in DOMAIN looks'
    <3>1. looks' \in Seq(BOOLEAN) /\ Len(looks') = n /\ looks'[n] = SafeToCopy(answered)
      BY <2>3, <2>6, SafeIsBoolean, AppendProperties DEF RiskTypeOK
    <3>. QED BY <1>1, <2>6, <3>1, LenProperties
  <2>9. riskNow >= riskNow - AssessmentTTL
    BY RiskSettings DEF RiskTypeOK
  <2>10. Backed(n)
    BY <2>3, <2>5, <2>7, <2>8, <2>9
  <2>. QED BY <2>8, <2>10
<1>8. ASSUME ResolveOutcomes PROVE Kept
  <2>1. looks' = looks /\ lastDecision' = lastDecision
    BY <1>8 DEF ResolveOutcomes
  <2>2. \A i \in DOMAIN assessments :
           /\ assessments'[i].at = assessments[i].at
           /\ assessments'[i].engine = assessments[i].engine
           /\ assessments'[i].score = assessments[i].score
    BY <1>8, OutcomeFilled
  <2>. QED BY <1>1, <2>1, <2>2 DEF CopyBackedByProbe
<1>9. \/ UNCHANGED <<assessments, looks, lastDecision>>
      \/ EvaluateUnknown
      \/ \E b \in Buys : \/ EvaluateReusing(b) \/ EvaluateUnassessed(b)
                         \/ \E answered \in SUBSET Lookups :
                              \E redis \in {riskRedis, NothingLearned} :
                                 EvaluateProbing(b, redis, answered)
      \/ ResolveOutcomes
  BY DEF RiskNext, riskVars, Evaluate, TimePasses, TuneWeights, ChainChanges, SnapshotTaken,
         Deploy, OpsWriteWeights
<1>10. Kept
  BY <1>3, <1>4, <1>5, <1>6, <1>7, <1>8, <1>9
<1>. QED BY <1>10 DEF CopyBackedByProbe

RiskInv == RiskTypeOK /\ LooksMatch /\ CopyBackedByProbe

(* The evaluator starts without assessments and without a decision.        *)
LEMMA RiskStarts == RiskInit => RiskInv
<1>1. SUFFICES ASSUME RiskInit PROVE RiskInv
  OBVIOUS
<1>2. RiskTypeOK
  BY <1>1, DecisionValues, EmptySeq DEF RiskInit, RiskTypeOK, NothingLearned, TypedWeights
<1>. QED BY <1>1, <1>2 DEF RiskInit, RiskInv, LooksMatch, CopyBackedByProbe

(* Every step keeps all three.                                             *)
LEMMA RiskStep == RiskInv /\ [RiskNext]_riskVars => RiskInv'
BY RiskTypeStep, LooksStep, CopyBackedStep DEF RiskInv

(* evaluator.py gives a copy a size only when no gate fails, so that what  *)
(* token_risk.py assessed, now or within the TTL and by this engine, did   *)
(* not block; and an assessment that does not block was made when the      *)
(* probe saw both authorities given up (a curve may mint) and no holders   *)
(* above the limit.  An authority that it could not read blocks.           *)
THEOREM CopyBackedByProbeHolds ==
    RiskInit /\ [][RiskNext]_riskVars => []CopyBackedByProbe
<1>1. RiskInv => CopyBackedByProbe
  BY DEF RiskInv
<1>. QED BY <1>1, RiskStarts, RiskStep, PTL

(* _load_weights clamps each weight to half and double its base: whatever  *)
(* whole numbers risk_learning.py or an operator put into Redis, a         *)
(* component outweighs at most the five others together, and none is zero. *)
THEOREM NoComponentDominatesHolds ==
    RiskInit /\ [][RiskNext]_riskVars => []NoComponentDominates
<1>1. RiskInv => NoComponentDominates
  <2>1. SUFFICES ASSUME RiskInv PROVE NoComponentDominates
    OBVIOUS
  <2>2. PICK w : w = LoadWeights(riskRedis.weights)
    OBVIOUS
  <2>3. w \in [Components -> Nat \ {0}] /\ \A c \in Components : 2 * w[c] <= WeightTotal(w)
    BY <2>1, <2>2, WeightsLoaded DEF RiskInv, RiskTypeOK
  <2>. QED BY <2>2, <2>3 DEF NoComponentDominates
<1>. QED BY <1>1, RiskStarts, RiskStep, PTL

-----------------------------------------------------------------------------
(* The follow lane.                                                         *)

(* Distinct ranks from 0 up: as many elements as asked for have a lower    *)
(* one.                                                                    *)
LEMMA RanksFill ==
  ASSUME NEW S, IsFiniteSet(S), NEW size, size = Cardinality(S),
         NEW r, r \in [S -> 0..(size - 1)], \A a, b \in S : r[a] = r[b] => a = b,
         NEW k \in 0..size
  PROVE  Cardinality({w \in S : r[w] < k}) = k
<1>. DEFINE T == {w \in S : r[w] < k}
            g == [w \in T |-> r[w]]
<1>1. size \in Nat
  BY FS_CardinalityType
<1>2. IsFiniteSet(0..(size - 1)) /\ Cardinality(0..(size - 1)) = size
  <2>1. 0 \in Int /\ size - 1 \in Int
    BY <1>1
  <2>2. /\ IsFiniteSet(0..(size - 1))
        /\ Cardinality(0..(size - 1)) = IF 0 > size - 1 THEN 0 ELSE (size - 1) - 0 + 1
    BY <2>1, FS_Interval
  <2>. QED BY <1>1, <2>2
<1>3. r \in Injection(S, 0..(size - 1))
  BY DEF Injection, IsInjective
<1>4. r \in Surjection(S, 0..(size - 1))
  BY <1>2, <1>3, FS_Injection
<1>5. \A i \in 0..(size - 1) : \E w \in S : r[w] = i
  BY <1>4 DEF Surjection
<1>6. g \in Bijection(T, 0..(k - 1))
  <2>1. g \in [T -> 0..(k - 1)]
    BY <1>1
  <2>2. \A a, b \in T : g[a] = g[b] => a = b
    OBVIOUS
  <2>3. \A i \in 0..(k - 1) : \E w \in T : g[w] = i
    BY <1>1, <1>5
  <2>. HIDE DEF T, g
  <2>4. g \in Injection(T, 0..(k - 1))
    BY <2>1, <2>2 DEF Injection, IsInjective
  <2>5. g \in Surjection(T, 0..(k - 1))
    BY <2>1, <2>3 DEF Surjection
  <2>. QED BY <2>4, <2>5 DEF Bijection
<1>7. IsFiniteSet(T)
  BY FS_Subset
<1>8. Cardinality(T) = Cardinality(0..(k - 1))
  <2>. HIDE DEF T, g
  <2>1. ExistsBijection(T, 0..(k - 1))
    BY <1>6 DEF ExistsBijection
  <2>. QED BY <1>7, <2>1, FS_Bijection
<1>9. Cardinality(0..(k - 1)) = k
  BY <1>1, FS_Interval
<1>. QED BY <1>8, <1>9

(* The wallets with a score above another one's. *)
Above(w) == {v \in Qualified : Better(v, w)}

LaneTypeOK ==
    /\ tracked \subseteq Followable
    /\ confidence \in [Followable -> Confidences \cup {None}]

(* Qualified wallets have distinct ranks.                                  *)
LEMMA RanksDiffer ==
  ASSUME LaneTypeOK
  PROVE  /\ IsFiniteSet(Qualified)
         /\ \A w \in Qualified :
              Cardinality(Above(w)) \in 0..(Cardinality(Qualified) - 1)
         /\ \A a, b \in Qualified :
              /\ Better(a, b) <=> Cardinality(Above(a)) < Cardinality(Above(b))
              /\ Cardinality(Above(a)) = Cardinality(Above(b)) => a = b
<1>1. /\ IsFiniteSet(Qualified)
      /\ \A w \in Qualified : w \in Int /\ confidence[w] \in Int
  BY LaneParameters, FS_Subset DEF LaneParameters, Qualified, LaneTypeOK
<1>2. \A w \in Qualified : /\ IsFiniteSet(Above(w)) /\ Cardinality(Above(w)) \in Nat
                           /\ Above(w) \subseteq Qualified /\ w \notin Above(w)
  BY <1>1, FS_Subset, FS_CardinalityType DEF Above, Better
<1>3. ASSUME NEW a \in Qualified, NEW b \in Qualified, Better(a, b)
      PROVE  Cardinality(Above(a)) < Cardinality(Above(b))
  <2>1. Above(a) \subseteq Above(b) /\ a \in Above(b) /\ a \notin Above(a)
    BY <1>1, <1>2, <1>3 DEF Above, Better
  <2>2. /\ Cardinality(Above(a)) <= Cardinality(Above(b))
        /\ Cardinality(Above(a)) # Cardinality(Above(b))
    BY <1>2, <2>1, FS_Subset
  <2>. QED BY <1>2, <2>2
<1>4. \A a, b \in Qualified : a = b \/ Better(a, b) \/ Better(b, a)
  BY <1>1 DEF Better
<1>5. \A w \in Qualified : Cardinality(Above(w)) \in 0..(Cardinality(Qualified) - 1)
  <2>1. SUFFICES ASSUME NEW w \in Qualified
                 PROVE  Cardinality(Above(w)) \in 0..(Cardinality(Qualified) - 1)
    OBVIOUS
  <2>2. /\ Cardinality(Above(w)) <= Cardinality(Qualified)
        /\ Cardinality(Above(w)) # Cardinality(Qualified)
    BY <1>1, <1>2, FS_Subset
  <2>3. Cardinality(Above(w)) \in Nat /\ Cardinality(Qualified) \in Nat
    BY <1>1, <1>2, FS_CardinalityType
  <2>. QED BY <2>2, <2>3
<1>6. ASSUME NEW a \in Qualified, NEW b \in Qualified
      PROVE  /\ Better(a, b) <=> Cardinality(Above(a)) < Cardinality(Above(b))
             /\ Cardinality(Above(a)) = Cardinality(Above(b)) => a = b
  <2>1. Cardinality(Above(a)) \in Nat /\ Cardinality(Above(b)) \in Nat
    BY <1>2
  <2>. QED BY <1>3, <1>4, <2>1
<1>. QED BY <1>1, <1>5, <1>6

(* With at most LaneMax tracked wallets there is one set to follow: every  *)
(* tracked wallet and, in the room that is left, the qualified ones of the *)
(* highest score, none of them passed over for a worse one, and none left  *)
(* out while there is room; with more tracked wallets it is LaneMax of     *)
(* those (publish_followed: "tracked wallets always make the cut; the      *)
(* remainder of the budget goes to the highest-confidence qualifiers").    *)
THEOREM FollowsTheBest ==
  ASSUME LaneTypeOK
  PROVE  /\ \A addresses \in ToFollow :
              addresses \subseteq Followable /\ Cardinality(addresses) <= LaneMax
         /\ Cardinality(tracked) <= LaneMax =>
              \E addresses :
                 /\ ToFollow = {addresses}
                 /\ tracked \subseteq addresses
                 /\ addresses \subseteq tracked \cup Qualified
                 /\ \A w \in Qualified \ addresses :
                      /\ Cardinality(addresses) = LaneMax
                      /\ \A v \in addresses \ tracked : Better(v, w)
<1>. DEFINE size == Cardinality(Qualified)
            room == Max({LaneMax - Cardinality(tracked), 0})
            rank == [w \in Qualified |-> Cardinality(Above(w))]
            auto == {w \in Qualified : Cardinality({v \in Qualified : Better(v, w)}) < room}
            few == Min({LaneMax, Cardinality(tracked)})
<1>1. /\ IsFiniteSet(tracked) /\ Cardinality(tracked) \in Nat /\ LaneMax \in Nat
      /\ IsFiniteSet(Qualified) /\ size \in Nat /\ tracked \subseteq Followable
      /\ Qualified \subseteq Followable /\ Qualified \cap tracked = {}
  BY LaneParameters, RanksDiffer, FS_Subset, FS_CardinalityType
     DEF LaneParameters, LaneTypeOK, Qualified
<1>2. room = (IF Cardinality(tracked) <= LaneMax THEN LaneMax - Cardinality(tracked) ELSE 0)
      /\ room \in Nat
  <2>. DEFINE left == LaneMax - Cardinality(tracked)
  <2>1. left \in Int /\ IsFiniteSet({left, 0}) /\ {left, 0} \subseteq Int /\ {left, 0} # {}
    <3>1. left \in Int
      BY <1>1
    <3>. HIDE DEF left
    <3>2. IsFiniteSet({left})
      BY FS_Singleton
    <3>3. IsFiniteSet({left} \cup {0})
      BY <3>2, FS_AddElement
    <3>4. {left} \cup {0} = {left, 0}
      OBVIOUS
    <3>. QED BY <3>1, <3>3, <3>4
  <2>2. Max({left, 0}) \in {left, 0} /\ \A x \in {left, 0} : x <= Max({left, 0})
    <3>. HIDE DEF left
    <3>. QED BY <2>1, MaxIn
  <2>3. room = Max({left, 0})
    OBVIOUS
  <2>4. left >= 0 <=> Cardinality(tracked) <= LaneMax
    BY <1>1
  <2>. HIDE DEF left, room
  <2>5. room \in {left, 0} /\ left <= room /\ 0 <= room
    BY <2>2, <2>3
  <2>6. room = (IF left >= 0 THEN left ELSE 0) /\ room \in Nat
    BY <2>1, <2>5
  <2>. QED BY <1>1, <2>4, <2>6 DEF left
<1>3. few = (IF Cardinality(tracked) <= LaneMax THEN Cardinality(tracked) ELSE LaneMax)
      /\ few \in Nat
  <2>. DEFINE many == Cardinality(tracked)
  <2>1. many \in Nat /\ IsFiniteSet({LaneMax, many}) /\ {LaneMax, many} \subseteq Int
        /\ {LaneMax, many} # {}
    <3>1. many \in Nat
      BY <1>1
    <3>. HIDE DEF many
    <3>2. IsFiniteSet({LaneMax})
      BY FS_Singleton
    <3>3. IsFiniteSet({LaneMax} \cup {many})
      BY <3>2, FS_AddElement
    <3>4. {LaneMax} \cup {many} = {LaneMax, many}
      OBVIOUS
    <3>. QED BY <1>1, <3>1, <3>3, <3>4
  <2>2. Min({LaneMax, many}) \in {LaneMax, many}
        /\ \A x \in {LaneMax, many} : Min({LaneMax, many}) <= x
    <3>. HIDE DEF many
    <3>. QED BY <2>1, MinIn
  <2>3. few = Min({LaneMax, many})
    OBVIOUS
  <2>. HIDE DEF few
  <2>4. few \in {LaneMax, many} /\ few <= LaneMax /\ few <= many
    <3>. HIDE DEF many
    <3>. QED BY <2>2, <2>3
  <2>. QED BY <1>1, <2>1, <2>4
<1>4. ToFollow = {pinned \cup auto : pinned \in {s \in SUBSET tracked : Cardinality(s) = few}}
  BY DEF ToFollow, kSubset
<1>5. \A w \in Qualified : {v \in Qualified : Better(v, w)} = Above(w)
  BY DEF Above
<1>6. auto = {w \in Qualified : rank[w] < room}
  BY <1>5
<1>7. /\ rank \in [Qualified -> 0..(size - 1)]
      /\ \A a, b \in Qualified : /\ rank[a] = rank[b] => a = b
                                 /\ Better(a, b) <=> rank[a] < rank[b]
      /\ \A w \in Qualified : rank[w] \in 0..(size - 1)
  BY RanksDiffer
<1>. HIDE DEF room, few, rank, size, auto
<1>8. /\ IsFiniteSet(auto) /\ Cardinality(auto) \in Nat
      /\ Cardinality(auto) <= room
      /\ size >= room => Cardinality(auto) = room
  <2>1. IsFiniteSet(auto) /\ Cardinality(auto) \in Nat /\ Cardinality(auto) <= size
    BY <1>1, <1>6, FS_Subset, FS_CardinalityType DEF size
  <2>2. CASE size >= room
    <3>1. room \in 0..size
      BY <1>1, <1>2, <2>2
    <3>2. Cardinality(auto) = room
      BY <1>1, <1>6, <1>7, <3>1, RanksFill DEF size
    <3>. QED BY <1>2, <2>1, <3>2
  <2>3. CASE size < room
    BY <1>1, <1>2, <2>1, <2>3
  <2>. QED BY <1>1, <1>2, <2>2, <2>3
<1>9. ASSUME NEW pinned \in SUBSET tracked
      PROVE  /\ IsFiniteSet(pinned \cup auto) /\ pinned \cup auto \subseteq Followable
             /\ Cardinality(pinned) \in Nat
             /\ Cardinality(pinned \cup auto) = Cardinality(pinned) + Cardinality(auto)
  <2>1. IsFiniteSet(pinned) /\ pinned \cap auto = {} /\ auto \subseteq Followable
    BY <1>1, <1>6, FS_Subset
  <2>2. Cardinality(pinned) \in Nat
    BY <2>1, FS_CardinalityType
  <2>3. IsFiniteSet(pinned \cup auto)
        /\ Cardinality(pinned \cup auto) = Cardinality(pinned) + Cardinality(auto) - 0
    BY <1>8, <2>1, FS_Union, FS_EmptySet
  <2>. QED BY <1>1, <1>8, <2>1, <2>2, <2>3
<1>10. ASSUME NEW addresses \in ToFollow
       PROVE  addresses \subseteq Followable /\ Cardinality(addresses) <= LaneMax
  <2>1. PICK pinned \in SUBSET tracked :
           Cardinality(pinned) = few /\ addresses = pinned \cup auto
    BY <1>4
  <2>2. few + room = LaneMax /\ few \in Nat /\ room \in Nat
    BY <1>1, <1>2, <1>3
  <2>3. addresses \subseteq Followable /\ Cardinality(addresses) = few + Cardinality(auto)
    BY <1>9, <2>1
  <2>. QED BY <1>1, <1>8, <2>2, <2>3
<1>11. ASSUME Cardinality(tracked) <= LaneMax
       PROVE  LET addresses == tracked \cup auto IN
              /\ ToFollow = {addresses}
              /\ tracked \subseteq addresses
              /\ addresses \subseteq tracked \cup Qualified
              /\ \A w \in Qualified \ addresses :
                   /\ Cardinality(addresses) = LaneMax
                   /\ \A v \in addresses \ tracked : Better(v, w)
  <2>1. few = Cardinality(tracked) /\ room = LaneMax - Cardinality(tracked)
    BY <1>2, <1>3, <1>11
  <2>2. {s \in SUBSET tracked : Cardinality(s) = few} = {tracked}
    BY <1>1, <2>1, FS_Subset
  <2>3. ToFollow = {tracked \cup auto}
    BY <1>4, <2>2
  <2>4. tracked \cup auto \subseteq tracked \cup Qualified
    BY <1>6
  <2>5. ASSUME NEW w \in Qualified \ (tracked \cup auto)
        PROVE  /\ Cardinality(tracked \cup auto) = LaneMax
               /\ \A v \in (tracked \cup auto) \ tracked : Better(v, w)
    <3>1. ~(rank[w] < room) /\ rank[w] \in 0..(size - 1)
      BY <1>6, <1>7, <2>5
    <3>2. size >= room
      BY <1>1, <1>2, <3>1
    <3>3. Cardinality(auto) = room
      BY <1>8, <3>2
    <3>4. Cardinality(tracked \cup auto) = LaneMax
      <4>1. Cardinality(tracked \cup auto) = Cardinality(tracked) + Cardinality(auto)
        BY <1>9
      <4>. QED BY <1>1, <2>1, <3>3, <4>1
    <3>5. \A v \in auto : Better(v, w)
      <4>1. SUFFICES ASSUME NEW v \in auto PROVE Better(v, w)
        OBVIOUS
      <4>2. v \in Qualified /\ rank[v] < room /\ rank[v] \in 0..(size - 1)
        BY <1>6, <1>7, <4>1
      <4>3. rank[v] < rank[w]
        BY <1>1, <1>2, <3>1, <4>2
      <4>. QED BY <1>7, <2>5, <4>2, <4>3
    <3>. QED BY <3>4, <3>5
  <2>. QED BY <2>3, <2>4, <2>5
<1>. QED BY <1>10, <1>11

(* A subset of finitely many numbers has at most as many members with      *)
(* fewer than so many below them.                                          *)
LEMMA CutBounded ==
  ASSUME NEW addresses, addresses \subseteq Followable
  PROVE  Cut(addresses) \subseteq addresses /\ Cardinality(Cut(addresses)) <= LaneMax
<1>. PICK kept : kept = Cut(addresses)
  OBVIOUS
<1>1. /\ IsFiniteSet(addresses) /\ addresses \subseteq Int /\ kept \subseteq addresses
      /\ IsFiniteSet(kept) /\ kept \subseteq Int /\ LaneMax \in Nat
  BY LaneParameters, FS_Subset DEF LaneParameters, Cut
<1>2. CASE kept = {}
  BY <1>1, <1>2, FS_EmptySet
<1>3. CASE kept # {}
  <2>1. PICK last \in kept : \A w \in kept : w <= last
    BY <1>1, <1>3, MaxIn
  <2>2. Cardinality({v \in addresses : v < last}) < LaneMax
    BY <2>1 DEF Cut
  <2>3. kept \ {last} \subseteq {v \in addresses : v < last}
    <3>1. \A w \in kept \ {last} : w \in Int /\ last \in Int /\ w <= last /\ w # last
      BY <1>1, <2>1
    <3>2. \A w \in kept \ {last} : w \in addresses /\ w < last
      BY <1>1, <3>1
    <3>. QED BY <3>2
  <2>4. IsFiniteSet({v \in addresses : v < last})
        /\ Cardinality({v \in addresses : v < last}) \in Nat
    <3>1. IsFiniteSet({v \in addresses : v < last})
      BY <1>1, FS_Subset
    <3>. QED BY <3>1, FS_CardinalityType
  <2>5. IsFiniteSet(kept \ {last})
        /\ Cardinality(kept \ {last}) <= Cardinality({v \in addresses : v < last})
    BY <2>3, <2>4, FS_Subset
  <2>6. Cardinality(kept \ {last}) = Cardinality(kept) - 1
    BY <1>1, <2>1, FS_RemoveElement
  <2>7. Cardinality(kept) \in Nat
    BY <1>1, FS_CardinalityType
  <2>. QED BY <1>1, <2>2, <2>4, <2>5, <2>6, <2>7
<1>. QED BY <1>2, <1>3

(* What the lane's limit means: what is about to be published and what a   *)
(* connection asks for are wallets, and no more than LaneMax; it is        *)
(* subscribed to some of those, and without a connection to none.          *)
LaneWithinLimit ==
    /\ publishing # None => publishing \subseteq Followable /\ Cardinality(publishing) <= LaneMax
    /\ asked # None => asked \subseteq Followable /\ Cardinality(asked) <= LaneMax
    /\ subscribed \subseteq (IF asked = None THEN {} ELSE asked)

(* The key itself may hold more: a nudge adds to it without counting.      *)
Nudge == [id : Nat, wallet : Followable, followed : BOOLEAN, seen : {None} \cup SUBSET Followable]
LaneInv ==
    /\ LaneTypeOK /\ LaneWithinLimit
    /\ followKey \subseteq Followable
    /\ nudges \subseteq Nudge
    /\ churn \in Nat

(* Every step of the lane keeps its invariant.                             *)
LEMMA LaneInvNext == LaneInv /\ [LaneNext]_laneVars => LaneInv'
<1>. SUFFICES ASSUME LaneInv, [LaneNext]_laneVars PROVE LaneInv'
  OBVIOUS
<1>1. /\ tracked \subseteq Followable /\ confidence \in [Followable -> Confidences \cup {None}]
      /\ followKey \subseteq Followable /\ nudges \subseteq Nudge /\ churn \in Nat
      /\ LaneWithinLimit
  BY DEF LaneInv, LaneTypeOK
<1>2. ASSUME NEW addresses \in ToFollow, PublishReads(addresses) PROVE LaneInv'
  <2>1. addresses \subseteq Followable /\ Cardinality(addresses) <= LaneMax
    BY <1>1, FollowsTheBest DEF LaneTypeOK
  <2>. QED BY <1>1, <1>2, <2>1 DEF PublishReads, connectionVars, LaneInv, LaneTypeOK, LaneWithinLimit
<1>3. CASE PublishWrites
  BY <1>1, <1>3 DEF PublishWrites, Published, connectionVars, LaneInv, LaneTypeOK, LaneWithinLimit
<1>4. CASE PublishFails
  BY <1>1, <1>4 DEF PublishFails, connectionVars, LaneInv, LaneTypeOK, LaneWithinLimit
<1>5. ASSUME NEW w \in Followable, NEW followed \in BOOLEAN, Track(w, followed) PROVE LaneInv'
  <2>1. [id |-> churn, wallet |-> w, followed |-> followed, seen |-> None] \in Nudge
    BY <1>1 DEF Nudge
  <2>. QED BY <1>1, <1>5, <2>1 DEF Track, Churn, connectionVars, LaneInv, LaneTypeOK, LaneWithinLimit
<1>6. ASSUME NEW w \in Followable, NEW score \in Confidences, ScoreChanges(w, score)
      PROVE  LaneInv'
  BY <1>1, <1>6 DEF ScoreChanges, Churn, connectionVars, LaneInv, LaneTypeOK, LaneWithinLimit
<1>7. ASSUME NEW n \in nudges, NEW answered \in BOOLEAN, NudgeReads(n, answered) PROVE LaneInv'
  <2>1. n \in Nudge
    BY <1>1
  <2>2. [n EXCEPT !.seen = IF answered THEN followKey ELSE {}] \in Nudge
    BY <1>1, <2>1 DEF Nudge
  <2>3. nudges' \subseteq Nudge
    BY <1>1, <1>7, <2>2 DEF NudgeReads
  <2>. QED BY <1>1, <1>7, <2>3 DEF NudgeReads, connectionVars, LaneInv, LaneTypeOK, LaneWithinLimit
<1>8. ASSUME NEW n \in nudges, NEW answered \in BOOLEAN, NudgeWrites(n, answered) PROVE LaneInv'
  <2>1. n.wallet \in Followable /\ n.seen \subseteq Followable
    BY <1>1, <1>8 DEF Nudge, NudgeWrites
  <2>2. followKey' \subseteq Followable /\ nudges' \subseteq Nudge
    BY <1>1, <1>8, <2>1 DEF NudgeWrites
  <2>. QED BY <1>1, <1>8, <2>2 DEF NudgeWrites, connectionVars, LaneInv, LaneTypeOK, LaneWithinLimit
<1>9. ASSUME NEW answered \in BOOLEAN, Connect(answered) PROVE LaneInv'
  <2>1. FollowedNow(answered) \subseteq Followable /\ Cardinality(FollowedNow(answered)) <= LaneMax
    <3>1. Cut(followKey) \subseteq followKey /\ Cardinality(Cut(followKey)) <= LaneMax
      BY <1>1, CutBounded
    <3>2. Cardinality({}) <= LaneMax
      BY LaneParameters, FS_EmptySet DEF LaneParameters
    <3>. QED BY <1>1, <3>1, <3>2 DEF FollowedNow
  <2>. QED BY <1>1, <1>9, <2>1 DEF Connect, LaneInv, LaneTypeOK, LaneWithinLimit
<1>10. ASSUME NEW answered \in BOOLEAN, WatcherCloses(answered) PROVE LaneInv'
  BY <1>1, <1>10 DEF WatcherCloses, Disconnects, LaneInv, LaneTypeOK, LaneWithinLimit
<1>11. CASE ConnectionLost
  BY <1>1, <1>11 DEF ConnectionLost, Disconnects, LaneInv, LaneTypeOK, LaneWithinLimit
<1>12. CASE UNCHANGED laneVars
  BY <1>1, <1>12 DEF laneVars, connectionVars, LaneInv, LaneTypeOK, LaneWithinLimit
<1>13. ASSUME NEW w \in Followable, Subscribes(w) PROVE LaneInv'
  BY <1>1, <1>13 DEF Subscribes, Unanswered, LaneInv, LaneTypeOK, LaneWithinLimit
<1>14. ASSUME NEW w \in Followable, RefusesOne(w) PROVE LaneInv'
  BY <1>1, <1>14 DEF RefusesOne, LaneInv, LaneTypeOK, LaneWithinLimit
<1>. QED BY <1>2, <1>3, <1>4, <1>5, <1>6, <1>7, <1>8, <1>9, <1>10, <1>11, <1>12, <1>13, <1>14
         DEF LaneNext

(* However stars, scores, publications and failures interleave, what is    *)
(* published by a cycle and what the listener subscribes to stay within    *)
(* follow_lane_max, although nudges add to the key without looking at it   *)
(* (ws_listener.py:69, follow_lane.py: "so subscription count stays        *)
(* bounded no matter how many wallets qualify").                           *)
THEOREM LaneWithinLimitHolds == LaneInit /\ [][LaneNext]_laneVars => []LaneWithinLimit
<1>1. LaneInit => LaneInv
  <2>1. LaneMax \in Nat /\ Cardinality({}) = 0
    BY LaneParameters, FS_EmptySet DEF LaneParameters
  <2>. QED BY <2>1 DEF LaneInit, LaneInv, LaneTypeOK, LaneWithinLimit
<1>2. LaneInv => LaneWithinLimit
  BY DEF LaneInv
<1>. QED BY <1>1, <1>2, LaneInvNext, PTL
=============================================================================
