----------------------------- MODULE MCServices -----------------------------
(***************************************************************************)
(* The background services.  They share no variable, only tables that each *)
(* part has in its own view, so one of them runs at a time.                *)
(***************************************************************************)
EXTENDS CopyDecision, WalletVetting, PredictionLearning, ModelRegistry, WalletStats,
        MarketRegimes, Reports, FollowLane, ChainTrades

VARIABLE part

(* The copy decision: a leader above the bar, and one that is tracked but  *)
(* suspicious, has lost lately, has no history and whose token's liquidity *)
(* cannot be read.                                                         *)
Leader == [tracked |-> FALSE, blacklisted |-> FALSE, confidence |-> 80, outcomes |-> None,
           pProfit |-> 70, volume |-> 600, holderGrowth |-> 30, volatility |-> 10, roiStd |-> 100,
           leaderSize |-> 1000, percent |-> None, exposure |-> 0, vetting |-> "clear",
           railsBlock |-> FALSE, alreadyOpen |-> FALSE, liquidityAnswers |-> TRUE]
MCBuys == {Leader,
           [Leader EXCEPT !.tracked = TRUE, !.vetting = "suspicious", !.percent = 2,
                          !.confidence = None, !.pProfit = None, !.liquidityAnswers = FALSE,
                          !.outcomes = [n |-> 9, ew |-> -60]]}
Pump == {[dex |-> "pumpfun", address |-> "curve", sol |-> 60]}
Ann == <<"wallet", "ann">>
Bob == <<"wallet", "bob">>
Curve == <<"ata", "curve">>
Spread == <<[address |-> Curve, amount |-> 70], [address |-> Ann, amount |-> 5],
            [address |-> Bob, amount |-> 5]>>
Whales == <<[address |-> Ann, amount |-> 60], [address |-> Bob, amount |-> 30],
            [address |-> Curve, amount |-> 10]>>
Prior == [latest |-> [liquidity |-> 0, price |-> 1], peak |-> 5]
Held == [mint |-> "held", freeze |-> "held", accounts |-> Spread, supply |-> 100, pools |-> Pump,
         primaryDex |-> "pumpfun", priors |-> <<Prior>>, buys |-> 20, buyers |-> 16,
         liquidity |-> None, firstSeen |-> 0]
MCFacts == {Held, [Held EXCEPT !.mint = "renounced", !.freeze = "renounced"]}
MCHolders == {Spread, Whales}
MCSnapshots == {[liquidity |-> 300, price |-> 20, cap |-> 500],
                [liquidity |-> 8, price |-> 1, cap |-> 5]}
MCOps == {[version |-> 9, weights |-> [deployer |-> 400]]}

(* Vetting: two wallets funded by the same person, and a tracked one that  *)
(* meets the same co-traders and won on a token of its own.                *)
Person == [address |-> "a1", tracked |-> FALSE, confidence |-> 70, casts |-> <<{}, {7}>>,
           history |-> [deep |-> FALSE, earliest |-> <<None, "boss">>], wins |-> <<>>]
MCWallets ==
    <<Person, [Person EXCEPT !.address = "a2", !.confidence = 50],
      [Person EXCEPT !.address = "a3", !.tracked = TRUE, !.casts = <<{7, 8}, {7, 8, 9}>>,
                     !.history.deep = TRUE, !.wins = <<"a3", None>>]>>

(* Training: too few rows, enough of them, a slice with a single class.    *)
MCModelNames == <<"trade_profit", "wallet_persistence">>
Alternating(n) == [i \in 1..n |-> i % 2]
MCLabelSeries == {Alternating(4), Alternating(20),
                  [i \in 1..20 |-> IF i \in 15..17 THEN 0 ELSE i % 2]}

(* Statistics: a streak of 12 or of 15 wins, and a slow wallet of which a  *)
(* sale lies on the boundary of two episodes.                              *)
Position(token, at, pnl, sells, hold, delay) ==
    [token |-> token, opened |-> at, closed |-> at + 1, bought |-> 100, pnl |-> pnl,
     sells |-> sells, hold |-> hold, delay |-> delay]
Streak(n) == [i \in 1..n |-> Position(i, i - n, 60, <<i - n + 1>>, 600, 300)]
Slow == <<Position(1, -8, 20, <<-7>>, 6000, 600), Position(1, -7, -5, <<-6, -6>>, 6000, 4000),
          Position(2, -3, 20, <<-2>>, 90000, 4000), Position(2, -1, 20, <<0>>, 600000, 7000)>>
MCRecords ==
    <<[positions |-> <<Streak(12), Slow>>, recorded |-> <<11, 4>>],
      [positions |-> <<Streak(15), <<>>>>, recorded |-> <<14, 0>>]>>

(* The market: calm, a rush, a panic, or no data.                          *)
Market(price, volume, launched, flow, books) ==
    [price |-> price, volume |-> volume, trades |-> 10, launched |-> launched,
     flow |-> flow, books |-> books]
Flow(wallet, side, amount) == [wallet |-> wallet, side |-> side, amount |-> amount]
Calm(price) == Market(price, 100, 2, <<>>, <<30, 40>>)
Rush(price) == Market(price, 40, 8, <<Flow(1, "buy", 20), Flow(2, "sell", 2), Flow(3, "buy", 1)>>,
                      <<20, 30>>)
Panic(price) == Market(price, 90, 2, <<Flow(1, "sell", 5), Flow(2, "sell", 9), Flow(1, "sell", 2)>>,
                       <<>>)
Silence == Market(None, None, None, <<>>, <<>>)
MCMarkets == <<{Calm(1000)}, {Calm(1000), Silence}, {Calm(1035), Silence},
               {Calm(1025), Rush(1090), Silence}, {Calm(1071), Panic(1000), Silence}>>
MCClosedTrades == {[opened |-> 0, closed |-> 1, style |-> "swing", pnl |-> 3],
                   [opened |-> 1, closed |-> 3, style |-> None, pnl |-> -3]}

(* Trades: for SOL, native or wrapped, for stablecoins, for another token; *)
(* over every venue, and one that no parser knows.                         *)
Want(token, tokens, quote, amount, native) ==
    [token |-> token, tokens |-> tokens, quote |-> quote, amount |-> amount, native |-> native]
MCIntents == {Want(4, 20, WSOL, -10, TRUE), Want(4, -20, WSOL, 10, TRUE),
              Want(4, 20, WSOL, -10, FALSE), Want(4, -20, WSOL, 10, FALSE),
              Want(4, 20, USDC, -10, FALSE), Want(4, -20, USDT, 10, FALSE),
              Want(4, 20, 5, -10, FALSE)}
Hop(program, form, account, inner) ==
    [program |-> program, form |-> form, account |-> account, inner |-> inner]
MCHops == {Hop("pumpfun", "other", "curve", FALSE), Hop("pumpfun", "other", "side", TRUE),
           Hop("raydium_amm", "swap", "amm", FALSE), Hop("raydium_cpmm", "swap", "cp", TRUE),
           Hop("raydium_clmm", "other", None, FALSE), Hop("orca", "swap", "whirl", FALSE),
           Hop("orca", "twoHop", None, FALSE), Hop("jupiter_v6", "other", None, FALSE),
           Hop("unknown", "other", "x", FALSE)}

-----------------------------------------------------------------------------
Parts == {"decision", "vetting", "learning", "registry", "stats", "market", "reports", "lane",
          "trades"}
vars == <<part, riskVars, vettingVars, learningVars, registryVars, statsVars, marketVars,
          reportVars, laneVars, tradeVars>>

ServicesInit ==
    /\ part \in Parts
    /\ RiskInit /\ (part # "decision" => facts = Held)
    /\ StatsInit /\ (part # "stats" => past = 1)
    /\ VettingInit /\ LearningInit /\ RegistryInit /\ MarketInit /\ ReportInit
    /\ LaneInit /\ TradeInit

ServicesNext ==
    /\ \/ part = "decision" /\ RiskNext
       \/ part = "vetting" /\ VettingNext
       \/ part = "learning" /\ LearningNext
       \/ part = "registry" /\ RegistryNext
       \/ part = "stats" /\ StatsNext
       \/ part = "market" /\ MarketNext
       \/ part = "reports" /\ ReportNext
       \/ part = "lane" /\ LaneNext
       \/ part = "trades" /\ TradeNext
    /\ UNCHANGED part
    /\ part # "decision" => UNCHANGED riskVars
    /\ part # "vetting" => UNCHANGED vettingVars
    /\ part # "learning" => UNCHANGED learningVars
    /\ part # "registry" => UNCHANGED registryVars
    /\ part # "stats" => UNCHANGED statsVars
    /\ part # "market" => UNCHANGED marketVars
    /\ part # "reports" => UNCHANGED reportVars
    /\ part # "lane" => UNCHANGED laneVars
    /\ part # "trades" => UNCHANGED tradeVars

ServicesSpec ==
    /\ ServicesInit /\ [][ServicesNext]_vars
    /\ WF_learningVars(part = "learning" /\ GradePredictions)
    /\ WF_laneVars(part = "lane" /\ PublishCycle)
    /\ WF_laneVars(part = "lane" /\ NudgeEnds)
    /\ WF_laneVars(part = "lane" /\ Connect(TRUE))
    /\ WF_laneVars(part = "lane" /\ NodeAnswers)
    /\ WF_laneVars(part = "lane" /\ WatcherCloses(TRUE))
=============================================================================
