---------------------------- MODULE CopyDecision ----------------------------
(***************************************************************************)
(* A leader's buy, evaluated (decision/evaluator.py): the token is         *)
(* assessed or a recent assessment reused, confidence and risk are         *)
(* composed, the copy is sized, and every gate must pass.  Meanwhile the   *)
(* chain changes under the stored assessments, engines are deployed, and   *)
(* the learning loop (analytics/risk_learning.py) labels assessments with  *)
(* what became of the token and re-weights the score.                      *)
(***************************************************************************)
EXTENDS TokenRisk

CONSTANTS
    MaxRugScore, MinWalletConfidence, MinConfidence, MaxRisk, MinLiquidity, MinCap, MaxCap,
    FixedSize, MaxPosition, MaxExposure, DustSize,   \* settings, sizes in units of SOL
    MinOutcomeAge, UnknownAfter,  \* in ticks
    MinRugs, MinSamples,          \* settings of the learning loop
    Buys,            \* the situations in which a leader's buy may be met
    FirstFacts, HolderLists, Snapshots, OpsWeights,  \* the token, and what operators write
    MaxRiskNow, MaxLooks, MaxVersions, MaxChanges    \* bounds

TypedFacts(f) ==
    /\ DOMAIN f = {"mint", "freeze", "accounts", "supply", "pools", "primaryDex", "priors",
                   "buys", "buyers", "liquidity", "firstSeen"}
    /\ f.mint \in {"held", "renounced"} /\ f.freeze \in {"held", "renounced"}
    /\ f.accounts \in Seq(ToSet(f.accounts)) /\ f.priors \in Seq(ToSet(f.priors))
    /\ \A i \in DOMAIN f.accounts : f.accounts[i].amount \in Nat
    /\ {f.supply, f.buys, f.buyers, f.firstSeen} \subseteq Int
    /\ f.liquidity \in Int \cup {None}

ASSUME DecisionValues ==
    /\ None \notin Int /\ MaxRugScore \in Int
    /\ \A f \in FirstFacts : TypedFacts(f)
    /\ \A holders \in HolderLists :
          /\ holders \in Seq(ToSet(holders))
          /\ \A i \in DOMAIN holders : holders[i].amount \in Nat
    /\ \A s \in Snapshots : {s.liquidity, s.price, s.cap} \subseteq Int \cup {None}
    /\ \A r \in OpsWeights :
          r.version \in Nat /\ \A c \in Components \cap DOMAIN r.weights : r.weights[c] \in Int

VARIABLES riskNow, facts,
          snapshots,     \* token_snapshots of the token, the oldest first
          assessments,   \* token_risk_assessments, the oldest first
          looks,         \* history: per assessment, what the chain was like
          riskRedis,     \* risk:weights
          weightRows,    \* risk_weight_snapshots
          engine,        \* ENGINE_VERSION of the running worker
          lastDecision,
          changes        \* how often the world has changed

riskVars == <<riskNow, facts, snapshots, assessments, looks, riskRedis, weightRows, engine,
              lastDecision, changes>>

NothingLearned == [version |-> 0, weights |-> <<>>]

-----------------------------------------------------------------------------
(* decision/ranking.py: what the leader's copied outcomes (their number    *)
(* and weighted ROI, in percent) make of its confidence.                   *)
AdjustmentFactor(outcomes) ==
    CASE outcomes = None \/ outcomes.n < 5 -> 100
      [] outcomes # None /\ outcomes.n >= 5 /\ outcomes.ew < 0 -> Clamp(100 + outcomes.ew, 50, 100)
      [] OTHER -> Clamp(100 + (2 * outcomes.ew) \div 5, 100, 120)
WalletConfidence(b) ==
    Clamp(((IF b.confidence = None THEN 30 ELSE b.confidence) * AdjustmentFactor(b.outcomes))
            \div 100, 0, 100)

(* Liquidity of the latest snapshot, however old; else a live probe.       *)
Latest == Last(snapshots)
KnownLiquidity(b) ==
    IF snapshots # <<>> /\ Latest.liquidity # None THEN Latest.liquidity
    ELSE IF b.liquidityAnswers THEN LiveLiquidity(facts) ELSE None

TokenQuality(b) ==
    (40 * Linear(OrZero(KnownLiquidity(b)), 0, 500) + 30 * Linear(b.volume, 0, 1000)
        + 30 * Linear(b.holderGrowth, 0, 50)) \div 100
Confidence(b) ==
    LET ml == IF b.pProfit = None \/ b.confidence = None THEN 0 ELSE 25 IN
    ((70 - ml) * WalletConfidence(b) + ml * OrZero(b.pProfit) + 20 * TokenQuality(b) + 10 * 50)
        \div 100
RiskScore(b) ==
    ((100 - Linear(OrZero(KnownLiquidity(b)), 0, 200)) * 40
        + (100 - Linear(riskNow - facts.firstSeen, 0, DayTicks)) * 25
        + Linear(b.volatility, 0, 50) * 20 + Linear(b.roiStd, 0, 300) * 15) \div 100

(* decision/sizing.py                                                      *)
CopySize(b) ==
    LET room == MaxExposure - b.exposure
        wanted == IF b.percent = None THEN FixedSize ELSE (b.leaderSize * b.percent) \div 100
        size == Min({wanted, MaxPosition, room})
    IN  IF room <= 0 \/ size < DustSize THEN 0 ELSE size

Suspicious(b) == b.vetting = "suspicious"
CapKnown == snapshots # <<>> /\ Latest.cap # None

(* The gates that fail, given the verdict on the token.                    *)
FailedGates(b, verdict) ==
    {g \in {"followed_leader", "blacklists", "token_rug_risk", "leader_vetting",
            "confidence_threshold", "risk_threshold", "liquidity_floor", "market_cap_band",
            "position_size", "safety_rails", "no_duplicate_position"} :
        \/ g = "followed_leader" /\ ~b.tracked /\ WalletConfidence(b) < MinWalletConfidence
        \/ g = "blacklists" /\ b.blacklisted
        \/ g = "token_rug_risk" /\ (verdict.blocked \/ verdict.score > MaxRugScore)
        \/ g = "leader_vetting" /\ Suspicious(b) /\ ~b.tracked
        \/ g = "confidence_threshold" /\ Confidence(b) < MinConfidence
        \/ g = "risk_threshold" /\ RiskScore(b) > MaxRisk
        \/ g = "liquidity_floor" /\ (KnownLiquidity(b) = None \/ KnownLiquidity(b) < MinLiquidity)
        \/ g = "market_cap_band" /\ CapKnown /\ Latest.cap \notin MinCap..MaxCap
        \/ g = "position_size" /\ CopySize(b) = 0
        \/ g = "safety_rails" /\ b.railsBlock
        \/ g = "no_duplicate_position" /\ b.alreadyOpen}

(* evaluate_buy's row in trade_decisions.                                  *)
Decided(b, verdict) ==
    LET failed == FailedGates(b, verdict) IN
    [at |-> riskNow, engine |-> engine, size |-> IF failed = {} THEN CopySize(b) ELSE 0]
Skipped == [at |-> riskNow, engine |-> engine, size |-> 0]

RiskFacts == [facts EXCEPT !.liquidity = IF snapshots = <<>> THEN None ELSE Latest.liquidity]

(* The leader or the token is not in the database yet.                     *)
EvaluateUnknown ==
    /\ lastDecision' = Skipped
    /\ UNCHANGED <<riskNow, facts, snapshots, assessments, looks, riskRedis,
                   weightRows, engine, changes>>

(* A recent assessment is reused.                                          *)
EvaluateReusing(b) ==
    /\ \E row \in Reusable(assessments, riskNow, engine) : lastDecision' = Decided(b, row)
    /\ UNCHANGED <<riskNow, facts, snapshots, assessments, looks, riskRedis,
                   weightRows, engine, changes>>

(* The chain as it really is: nobody can freeze the token or, a curve       *)
(* aside, mint it, and no few wallets are seen to hold nearly all of it.    *)
SafeToCopy(answered) ==
    /\ facts.freeze = "renounced"
    /\ facts.mint = "renounced" \/ OnCurve(facts)
    /\ "holders" \in answered /\ TopShare(facts) # None => TopShare(facts) <= Top10Limit

(* The token is probed; assessment and decision are committed together.    *)
(* Weights that Redis cannot give are the base weights.                    *)
EvaluateProbing(b, redis, answered) ==
    LET row == NewAssessment(RiskFacts, answered, riskNow, engine, redis) IN
    /\ Reusable(assessments, riskNow, engine) = {}
    /\ Len(assessments) < MaxLooks
    /\ assessments' = Append(assessments, row)
    /\ looks' = Append(looks, SafeToCopy(answered))
    /\ lastDecision' = Decided(b, row)
    /\ UNCHANGED <<riskNow, facts, snapshots, riskRedis, weightRows, engine, changes>>

(* The assessor raises: the token counts as blocked, the decision is       *)
(* recorded all the same.                                                  *)
EvaluateUnassessed(b) ==
    /\ Reusable(assessments, riskNow, engine) = {}
    /\ lastDecision' = Decided(b, [blocked |-> TRUE, score |-> 100])
    /\ UNCHANGED <<riskNow, facts, snapshots, assessments, looks, riskRedis,
                   weightRows, engine, changes>>

-----------------------------------------------------------------------------
(* The learning loop.  A fall of nine tenths since the last snapshot that  *)
(* the assessment could have known is a rug.                               *)
Dropped(before, after) == before # None /\ after # None /\ before > 0 /\ 10 * after <= before
OutcomeOf(row) ==
    LET known == SelectSeq(snapshots, LAMBDA s : s.at <= row.at)
        expired == riskNow - row.at >= UnknownAfter
        base == Last(known)
    IN  CASE known = <<>> -> IF expired THEN "unknown" ELSE None
          [] known # <<>> /\ (Dropped(base.liquidity, Latest.liquidity)
                                \/ Dropped(base.price, Latest.price)) -> "rug"
          [] known # <<>> /\ ~Dropped(base.liquidity, Latest.liquidity)
                /\ ~Dropped(base.price, Latest.price) ->
                IF OrZero(base.price) <= 0 \/ Latest.price = None
                  THEN IF expired THEN "unknown" ELSE None
                  ELSE IF Latest.price > base.price THEN "profit" ELSE "loss"
Due(row) == row.outcome = None /\ row.at < riskNow - MinOutcomeAge

ResolveOutcomes ==
    /\ \E i \in DOMAIN assessments : Due(assessments[i])
    /\ assessments' = [i \in DOMAIN assessments |->
            IF Due(assessments[i])
              THEN [assessments[i] EXCEPT !.outcome = OutcomeOf(assessments[i])]
              ELSE assessments[i]]
    /\ UNCHANGED <<riskNow, facts, snapshots, looks, riskRedis, weightRows, engine,
                   lastDecision, changes>>

(* A component that scores rugs higher than the rest earns weight, within  *)
(* the factors of the contract; then all are normalized, to fortieths.     *)
Labeled(outcomes) == {i \in DOMAIN assessments : assessments[i].outcome \in outcomes}
MeanScore(rows, c) ==
    IF rows = {} THEN 0
    ELSE SumOver([i \in DOMAIN assessments |-> assessments[i].scores[c]], rows)
           \div Cardinality(rows)
TunedWeights ==
    LET gap(c) == MeanScore(Labeled({"rug"}), c) - MeanScore(Labeled({"profit", "loss"}), c)
        scaled == [c \in Components |-> BaseWeights[c] * Clamp(100 + gap(c), 50, 200)]
    IN  [c \in Components |-> (40 * scaled[c]) \div WeightTotal(scaled)]

(* The weights in force: Redis, else the newest snapshot, else the base.   *)
ActiveWeights == CASE DOMAIN riskRedis.weights # {} -> riskRedis.weights
                   [] DOMAIN riskRedis.weights = {} /\ weightRows # <<>> -> Last(weightRows).weights
                   [] OTHER -> BaseWeights

(* Redis is written before the caller commits the snapshot's row, which    *)
(* may fail: the version is then given out again.                          *)
TuneWeights(committed) ==
    LET tuned == [version |-> Len(weightRows) + 1, weights |-> TunedWeights] IN
    /\ Len(weightRows) < MaxVersions
    /\ Cardinality(Labeled({"rug", "profit", "loss"})) >= MinSamples
    /\ Cardinality(Labeled({"rug"})) >= MinRugs
    /\ \E c \in Components : TunedWeights[c] #
            (IF c \in DOMAIN ActiveWeights THEN ActiveWeights[c] ELSE BaseWeights[c])
    /\ riskRedis' = tuned
    /\ weightRows' = IF committed THEN Append(weightRows, tuned) ELSE weightRows
    /\ UNCHANGED <<riskNow, facts, snapshots, assessments, looks, engine, lastDecision, changes>>

-----------------------------------------------------------------------------
(* The world.                                                              *)
TimePasses ==
    /\ riskNow < MaxRiskNow
    /\ riskNow' = riskNow + 1
    /\ UNCHANGED <<facts, snapshots, assessments, looks, riskRedis, weightRows, engine,
                   lastDecision, changes>>

WorldChanges == changes < MaxChanges /\ changes' = changes + 1

(* An authority once given up is gone; holders come and go; the curve      *)
(* completes and its SOL moves to a pool of the AMM.                       *)
Renounced == [facts EXCEPT !.mint = "renounced", !.freeze = "renounced"]
Graduated == [facts EXCEPT !.pools =
                {[p EXCEPT !.sol = 0] : p \in @}
                  \cup {[dex |-> "pumpswap", address |-> "amm", sol |-> None]}]
ChainChanges ==
    /\ WorldChanges
    /\ \/ facts' = Renounced
       \/ facts' = Graduated
       \/ \E holders \in HolderLists : facts' = [facts EXCEPT !.accounts = holders]
    /\ UNCHANGED <<riskNow, snapshots, assessments, looks, riskRedis, weightRows,
                   engine, lastDecision>>

SnapshotTaken ==
    /\ WorldChanges
    /\ \E s \in Snapshots :
          snapshots' = Append(snapshots, [liquidity |-> s.liquidity, price |-> s.price,
                                          cap |-> s.cap, at |-> riskNow])
    /\ UNCHANGED <<riskNow, facts, assessments, looks, riskRedis, weightRows, engine,
                   lastDecision>>

Deploy ==
    /\ WorldChanges
    /\ engine = 1
    /\ engine' = 2
    /\ UNCHANGED <<riskNow, facts, snapshots, assessments, looks, riskRedis, weightRows,
                   lastDecision>>

(* Redis is flushed, or an operator writes weights by hand.                *)
OpsWriteWeights ==
    /\ WorldChanges
    /\ riskRedis' \in OpsWeights \cup {NothingLearned}
    /\ UNCHANGED <<riskNow, facts, snapshots, assessments, looks, weightRows, engine,
                   lastDecision>>

RiskInit ==
    /\ riskNow = 0
    /\ facts \in FirstFacts
    /\ snapshots = <<>> /\ assessments = <<>> /\ looks = <<>> /\ weightRows = <<>>
    /\ riskRedis = NothingLearned
    /\ engine = 1
    /\ lastDecision = None
    /\ changes = 0

Evaluate == \/ EvaluateUnknown
            \/ \E b \in Buys : \/ EvaluateReusing(b)
                               \/ \E answered \in SUBSET Lookups :
                                   \E redis \in {riskRedis, NothingLearned} :
                                     EvaluateProbing(b, redis, answered)
                               \/ EvaluateUnassessed(b)
RiskNext == \/ Evaluate
            \/ ResolveOutcomes
            \/ \E committed \in BOOLEAN : TuneWeights(committed)
            \/ TimePasses
            \/ ChainChanges
            \/ SnapshotTaken
            \/ Deploy
            \/ OpsWriteWeights

-----------------------------------------------------------------------------
(* A copy rests on a look at the chain, at most a TTL old and scored by    *)
(* the engine that decides, at which nobody could freeze the token, nobody *)
(* could mint it (a curve aside), and no few wallets were seen to hold     *)
(* nearly all of it; what could not be seen never counted in its favour    *)
(* (token_risk.py: "a deployed scoring change must not be masked by stale  *)
(* rows"; risk_contracts.py: "None always means could not determine, never *)
(* safe").                                                                 *)
CopyBackedByProbe ==
    lastDecision # None /\ lastDecision.size > 0 =>
        \E i \in DOMAIN looks : /\ looks[i]
                               /\ assessments[i].at >= lastDecision.at - AssessmentTTL
                               /\ assessments[i].engine = lastDecision.engine
                               /\ assessments[i].score <= MaxRugScore

(* Whatever the loop has learned, however often, and whatever an operator  *)
(* has put into Redis: no component of the score weighs more than the      *)
(* others together, and none vanishes (token_risk.py, _load_weights: "a    *)
(* fat-fingered weight can never dominate or vanish a component").         *)
NoComponentDominates ==
    LET w == LoadWeights(riskRedis.weights) IN
    \A c \in Components : w[c] > 0 /\ 2 * w[c] <= WeightTotal(w)
=============================================================================
