------------------------------ MODULE TokenRisk ------------------------------
(***************************************************************************)
(* The rug-risk assessment of a token before it is copied: the on-chain    *)
(* probe (enrichment/token_security.py), hard filters and weighted score   *)
(* (decision/token_risk.py), and the reuse of a stored assessment.         *)
(* Shares and scores are whole percents.                                   *)
(***************************************************************************)
EXTENDS Basics

CONSTANTS TopHolders,     \* _TOP_HOLDERS
          Top10Limit,     \* rug_block_top10_pct
          AssessmentTTL,  \* rug_assessment_ttl_seconds, in ticks
          DayTicks        \* _AGE_FULL_SECONDS, in ticks

ASSUME RiskSettings == /\ TopHolders \in Nat \ {0}
                       /\ Top10Limit \in 0..100
                       /\ AssessmentTTL \in Nat
                       /\ DayTicks \in Nat \ {0}

-----------------------------------------------------------------------------
(* The probe.  A token's facts: who holds what (largest account first),    *)
(* the pools the ledger has recorded, both authorities.  A look-up that    *)
(* fails leaves its signal unknown.  No code records a pool's lp_mint or   *)
(* vaults: every pool's reserve is taken to be its own token account, and  *)
(* nothing is ever known of LP shares.                                     *)
Lookups == {"authorities", "holders"}

Reserve(pool) == <<"ata", pool.address>>
ExternalHolders(facts) ==
    At(facts.accounts, {i \in DOMAIN facts.accounts :
                          \A p \in facts.pools : facts.accounts[i].address # Reserve(p)})
TopShare(facts) ==
    LET holders == ExternalHolders(facts)
        top == [i \in 1..(IF Len(holders) < TopHolders THEN Len(holders) ELSE TopHolders)
                    |-> holders[i].amount]
    IN  IF facts.supply <= 0 THEN None ELSE Clamp((100 * Total(top)) \div facts.supply, 0, 100)

(* A curve's pool row is never removed, so the token stays on the curve.   *)
OnCurve(facts) == IF facts.pools = {} THEN facts.primaryDex = "pumpfun"
                  ELSE \E p \in facts.pools : p.dex = "pumpfun"

Probe(facts, answered) ==
    LET read == "authorities" \in answered IN
    [mint |-> IF read THEN facts.mint ELSE None,
     freeze |-> IF read THEN facts.freeze ELSE None,
     top10 |-> IF "holders" \in answered THEN TopShare(facts) ELSE None,
     curve |-> OnCurve(facts)]

(* SOL in the token's deepest pool that can be read: only curves can.      *)
LiveLiquidity(facts) ==
    LET readable == {p.sol : p \in {q \in facts.pools : q.dex = "pumpfun" /\ q.sol # None}}
    IN  IF readable = {} THEN None ELSE Max(readable)

-----------------------------------------------------------------------------
(* Hard filters, all of them configured on, as by default.                 *)
HardFilters(s) ==
    {r \in {"mint_authority_active", "freeze_authority_active",
            "holder_concentration_extreme", "authority_unknown_fail_closed"} :
        \/ r = "mint_authority_active" /\ s.mint = "held" /\ ~s.curve
        \/ r = "freeze_authority_active" /\ s.freeze = "held"
        \/ r = "holder_concentration_extreme" /\ s.top10 # None /\ s.top10 > Top10Limit
        \/ r = "authority_unknown_fail_closed" /\ None \in {s.mint, s.freeze}}

(* Soft components.                                                        *)
AuthorityScore(s) == CASE s.mint = "held" -> 100
                       [] s.mint # "held" /\ s.freeze = "held" -> 80
                       [] s.mint = None /\ s.freeze = None -> 60
                       [] OTHER -> 0
HolderScore(s) == IF s.top10 = None THEN 50 ELSE Linear(s.top10, 20, 70)
LpScore(s) == IF s.curve THEN 40 ELSE 50

(* A token of the same creator has died: no liquidity left in its latest   *)
(* snapshot, or nine tenths of its best price lost.                        *)
TokenIsDead(other) ==
    /\ other.latest # None
    /\ \/ other.latest.liquidity # None /\ other.latest.liquidity <= 1
       \/ /\ other.latest.price # None
          /\ other.peak > 0
          /\ 10 * other.latest.price <= other.peak
DeployerScore(facts) ==
    IF facts.priors = <<>> THEN 30
    ELSE (100 * Cardinality({i \in DOMAIN facts.priors : TokenIsDead(facts.priors[i])}))
           \div Len(facts.priors)

(* Buys of the last hours, and the wallets behind them.                    *)
VolumeScore(facts) ==
    IF facts.buys < 10 THEN 50
    ELSE Clamp((140 * (facts.buys - facts.buyers)) \div facts.buys, 0, 100)
LiquidityAgeScore(facts, now) ==
    ((100 - Linear(OrZero(facts.liquidity), 0, 200))
        * (100 - Linear(now - facts.firstSeen, 0, DayTicks))) \div 100

ScoreComponents(facts, s, now) ==
    [authority |-> AuthorityScore(s), holders |-> HolderScore(s), lp |-> LpScore(s),
     deployer |-> DeployerScore(facts), volume |-> VolumeScore(facts),
     liquidityAge |-> LiquidityAgeScore(facts, now)]

(* Weights, in fortieths.  What Redis holds is clamped to half and double  *)
(* the base; nothing readable there is the base itself.                    *)
BaseWeights == [authority |-> 8, holders |-> 8, lp |-> 6,
                deployer |-> 6, volume |-> 6, liquidityAge |-> 6]
Components == DOMAIN BaseWeights

(* Faulty variant: whatever Redis holds is used.                           *)
TrustedWeights(learned) ==
    [c \in Components |-> IF c \in DOMAIN learned THEN learned[c] ELSE BaseWeights[c]]

LoadWeights(learned) ==
    [c \in Components |-> Clamp(IF c \in DOMAIN learned THEN learned[c] ELSE BaseWeights[c],
                                BaseWeights[c] \div 2, 2 * BaseWeights[c])]
WeightTotal(w) == SumOver(w, Components)
Composite(scores, w) ==
    Clamp(SumOver([c \in Components |-> scores[c] * w[c]], Components) \div WeightTotal(w), 0, 100)

(* An assessment row: what was seen, by which engine, with which weights.  *)
NewAssessment(facts, answered, now, engine, redis) ==
    LET signals == Probe(facts, answered)
        scores == ScoreComponents(facts, signals, now)
    IN  [at |-> now, engine |-> engine, version |-> redis.version, scores |-> scores,
         score |-> Composite(scores, LoadWeights(redis.weights)),
         blocked |-> HardFilters(signals) # {}, outcome |-> None]

(* The newest row of this engine, if there is one.                         *)
NewestOf(rows, engine) ==
    LET ours == {i \in DOMAIN rows : rows[i].engine = engine}
    IN  IF ours = {} THEN {} ELSE {rows[Max(ours)]}

(* Faulty variant: an assessment never ages.                               *)
ReusableForever(rows, now, engine) == NewestOf(rows, engine)

(* It, if it is within the TTL.                                            *)
Reusable(rows, now, engine) == {r \in NewestOf(rows, engine) : r.at >= now - AssessmentTTL}
=============================================================================
