--------------------------- MODULE MarketRegimes ---------------------------
(***************************************************************************)
(* The regime detector and what is computed per regime (evaluation/        *)
(* regime.py, regime_strategy.py): every cycle labels the market by the    *)
(* trend of the SOL price, with hysteresis against the label before, and   *)
(* raises flags; positions are then grouped by the regime they were opened *)
(* in.  A tick is one window; percentages are in tenths.                   *)
(***************************************************************************)
EXTENDS Basics

CONSTANTS
    Markets,      \* what each tick may bring: [price, volume, trades, launched, flow, books]
    LookbackWindows,
    Bull, Hysteresis, HighVol, LowLiquidity, WhaleMinWallets, WhaleNetFlow,
    PanicMinTrades, LaunchWaveMin, ExhaustionMin,   \* thresholds of the code
    ClosedTrades, \* positions to close: [opened, closed, style, pnl]
    RegimeStatsWindow

ASSUME MarketNumbers ==
    /\ Bull \in Int /\ Hysteresis \in Int /\ LookbackWindows \in Nat
    /\ Len(Markets) \in Nat \ {0}
    /\ \A t \in 1..Len(Markets) : \A m \in Markets[t] : m.price = None \/ m.price \in Int

VARIABLES
    watchNow,
    market,      \* the snapshots: one market per tick so far
    regimes,     \* market_regimes
    regimeStats, \* regime_strategy_stats: the rows of the last cycle
    statsOwed    \* the cycle's second half is still to come

marketVars == <<watchNow, market, regimes, regimeStats, statsOwed>>

MarketInit ==
    /\ watchNow = 0
    /\ market \in {<<m>> : m \in Markets[1]}
    /\ regimes = <<>> /\ regimeStats = {} /\ statsOwed = FALSE

-----------------------------------------------------------------------------
(* The last snapshot of every window of the lookback.                      *)
Series == Ending(market, LookbackWindows + 1)
Known(series, field) ==
    LET there == {i \in DOMAIN series : series[i][field] # None}
    IN  [n \in 1..Cardinality(there) |-> series[Nth(there, n)][field]]

Change(a, b) == IF a = 0 THEN None ELSE (1000 * (b - a)) \div Abs(a)

(* Faulty variant: the label before does not matter.                       *)
TrendNow(pct, previous) ==
    IF pct = None THEN "sideways"
    ELSE IF pct > Bull THEN "bull" ELSE IF pct < -Bull THEN "bear" ELSE "sideways"

TrendLabel(pct, previous) ==
    CASE pct = None -> "sideways"
      [] pct # None /\ (pct > Bull \/ (previous = "bull" /\ pct > Bull - Hysteresis)) -> "bull"
      [] pct # None /\ (pct < -Bull \/ (previous = "bear" /\ pct < Hysteresis - Bull)) -> "bear"
      [] OTHER -> "sideways"

HighVolatility(prices) ==
    LET returns == SelectSeq([i \in 1..Len(prices) - 1 |-> Change(prices[i], prices[i + 1])],
                             LAMBDA r : r # None)
    IN  Len(prices) >= 3 /\ returns # <<>> /\ Deviation(returns) > HighVol

(* Thin books, or a collapse of the venue's volume.                        *)
LowLiquid(books, series) ==
    LET volumes == Known(series, "volume") IN
    \/ books # <<>> /\ Median(books) < LowLiquidity
    \/ /\ volumes # <<>>
       /\ Median(volumes) > 0
       /\ 2 * Last(volumes) < Median(volumes)

(* The biggest tenth of the window's wallets buys more than it sells.      *)
Turnover(flow, wallet) == Total([i \in DOMAIN flow |->
    IF flow[i].wallet = wallet THEN flow[i].amount ELSE 0])
NetFlow(flow, wallets) == Total([i \in DOMAIN flow |->
    IF flow[i].wallet \notin wallets THEN 0
    ELSE IF flow[i].side = "buy" THEN flow[i].amount ELSE -flow[i].amount])
WhaleAccumulation(flow) ==
    LET wallets == {flow[i].wallet : i \in DOMAIN flow}
        sizes == SortSeq(SetToSeq({<<Turnover(flow, w), w>> : w \in wallets}),
                         LAMBDA a, b : a[1] < b[1])
        rank == 9 * (Cardinality(wallets) - 1)       \* of the 90th percentile, in tenths
        low == sizes[rank \div 10 + 1][1]
        high == sizes[Min({rank \div 10 + 2, Len(sizes)})][1]
        threshold == 10 * low + (rank % 10) * (high - low)
    IN  /\ Cardinality(wallets) >= WhaleMinWallets
        /\ NetFlow(flow, {w \in wallets : 10 * Turnover(flow, w) >= threshold}) > WhaleNetFlow

PanicSelling(flow, lastChange) ==
    LET count(side) == Len(SelectSeq(flow, LAMBDA t : t.side = side)) IN
    /\ lastChange # None /\ lastChange < 0
    /\ Len(flow) >= PanicMinTrades
    /\ 2 * count("sell") > 3 * Max({count("buy"), 1})

LaunchWave(series) ==
    LET launched == Known(series, "launched") IN
    /\ launched # <<>>
    /\ Last(launched) >= LaunchWaveMin
    /\ Last(launched) >= 2 * Median(launched)

(* The price and the participation move apart.                             *)
TrendExhaustion(series) ==
    LET tail == Ending(series, 3)
        prices == Known(tail, "price")
        moves == IF Len(Known(tail, "volume")) >= 2 THEN Known(tail, "volume")
                 ELSE Known(tail, "trades")
        price == Change(prices[1], Last(prices))
        momentum == Change(moves[1], Last(moves))
    IN  /\ Len(prices) >= 2 /\ Len(moves) >= 2
        /\ price # None /\ momentum # None
        /\ Abs(price) >= ExhaustionMin /\ Abs(momentum) >= ExhaustionMin
        /\ (price > 0) # (momentum > 0)

(* Too few prices: sideways, and no flag.                                  *)
Detected ==
    LET series == Series
        prices == Known(series, "price")
        pct == Change(prices[1], Last(prices))
        now == Last(market)
        lastPrices == Known(Ending(series, 2), "price")
        lastChange == IF lastPrices = <<>> THEN None
                      ELSE Change(prices[Len(prices) - 1], Last(prices))
        Raised == [highVolatility |-> HighVolatility(prices),
                   lowLiquidity |-> LowLiquid(now.books, series),
                   whaleAccumulation |-> WhaleAccumulation(now.flow),
                   panicSelling |-> PanicSelling(now.flow, lastChange),
                   launchWave |-> LaunchWave(series),
                   trendExhaustion |-> TrendExhaustion(series)]
    IN  IF Len(prices) < 2
          THEN [at |-> watchNow, label |-> "sideways", pct |-> None, flags |-> {}]
          ELSE [at |-> watchNow, pct |-> pct,
                label |-> TrendLabel(pct, IF regimes = <<>> THEN None ELSE Last(regimes).label),
                flags |-> {flag \in DOMAIN Raised : Raised[flag]}]

(* One cycle a tick.                                                       *)
DetectRegime ==
    /\ ~statsOwed
    /\ \A i \in DOMAIN regimes : regimes[i].at < watchNow
    /\ regimes' = Append(regimes, Detected)
    /\ statsOwed' = TRUE
    /\ UNCHANGED <<watchNow, market, regimeStats>>

(* The regime in force when a position was opened.                         *)
RegimeAt(t) ==
    LET before == SelectSeq(regimes, LAMBDA r : r.at <= t)
    IN  IF before = <<>> THEN "unknown" ELSE Last(before).label

RegimeStrategyStats ==
    LET closed == {p \in ClosedTrades : p.closed <= watchNow
                                        /\ p.closed >= watchNow - RegimeStatsWindow}
        style(p) == IF p.style = None THEN "unknown" ELSE p.style
    IN  /\ statsOwed
        /\ statsOwed' = FALSE
        /\ regimeStats' = IF closed = {} THEN regimeStats ELSE
             {LET group == {p \in closed : RegimeAt(p.opened) = key[1] /\ style(p) = key[2]}
              IN  [regime |-> key[1], style |-> key[2], at |-> Last(regimes).at,
                   closed |-> Cardinality(group),
                   wins |-> Cardinality({p \in group : OrZero(p.pnl) > 0}),
                   pnl |-> Sum(group, LAMBDA p : OrZero(p.pnl))]
              : key \in {<<RegimeAt(p.opened), style(p)>> : p \in closed}}
        /\ UNCHANGED <<watchNow, market, regimes>>

(* The worker dies between the two halves.                                 *)
RegimeCycleDies ==
    /\ statsOwed
    /\ statsOwed' = FALSE
    /\ UNCHANGED <<watchNow, market, regimes, regimeStats>>

WindowPasses(m) ==
    /\ ~statsOwed
    /\ watchNow' = watchNow + 1
    /\ market' = Append(market, m)
    /\ UNCHANGED <<regimes, regimeStats, statsOwed>>

MarketNext ==
    \/ DetectRegime
    \/ RegimeStrategyStats
    \/ RegimeCycleDies
    \/ watchNow + 1 < Len(Markets) /\ \E m \in Markets[watchNow + 2] : WindowPasses(m)

-----------------------------------------------------------------------------
(* The label does not flap: once a bull or a bear market has been left for *)
(* want of a trend, it comes back only after the trend has moved by more   *)
(* than the hysteresis, whatever cycles were missed or had no price in     *)
(* between (regime.py: "the trend must decay this far back inside the      *)
(* neutral zone before the label reverts").                                *)
NoFlapping ==
    \A i, j \in DOMAIN regimes :
        /\ 1 < i /\ i < j
        /\ regimes[i - 1].label \in {"bull", "bear"}
        /\ regimes[j].label = regimes[i - 1].label
        /\ \A k \in i..j - 1 : regimes[k].label = "sideways"
        /\ regimes[i].pct # None
        => Abs(regimes[j].pct - regimes[i].pct) > Hysteresis
=============================================================================
