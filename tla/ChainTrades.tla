----------------------------- MODULE ChainTrades -----------------------------
(***************************************************************************)
(* What reaches the parsers: a trader's swap as the chain reports it, put  *)
(* together step by step.  The trader wants one trade; the transaction     *)
(* routes it over some venues, pays a tip, opens a token account, or       *)
(* fails.  The parsers see only balances and instructions.                 *)
(***************************************************************************)
EXTENDS SwapParsing

CONSTANTS
    Intents,  \* [token, tokens, quote, amount, native]; tokens < 0 is a sale
    HopKinds, \* calls [program, form, account, inner] a route may make
    MaxHops   \* bound

Fee == 1
Tip == 7
Rent == 2

(* A trade moves a token against a quote mint or another token, the price  *)
(* the other way.  A price in SOL, native or wrapped, outweighs the rent   *)
(* of an account (util.py: dust next to a trade).                          *)
ASSUME TradesAreSwaps ==
    \A trade \in Intents :
        /\ trade.token \in Nat /\ trade.token > USDT
        /\ trade.quote \in Nat \ {0, trade.token}
        /\ trade.tokens \in Int \ {0} /\ trade.amount \in Int
        /\ Opposite(trade.amount, trade.tokens)
        /\ trade.native \in BOOLEAN /\ (trade.native => trade.quote = WSOL)
        /\ trade.quote = WSOL => Abs(trade.amount) > MinSolFlow + Rent

(* A pool is not the trader, and a swap that is executed names its pool.   *)
ASSUME HopsAreCalls ==
    /\ None \notin Intents /\ None # "trader"
    /\ \A hop \in HopKinds :
        /\ hop.program \in PumpPrograms \cup RaydiumPrograms \cup JupiterPrograms
                             \cup {"orca", "unknown"}
        /\ hop.account # "trader"
        /\ hop.form = "swap" => hop.account # None

VARIABLES intent, route, tipped, rented, txFailed

tradeVars == <<intent, route, tipped, rented, txFailed>>

TradeInit == intent = None /\ route = <<>> /\ tipped = 0 /\ rented = 0 /\ txFailed = FALSE

-----------------------------------------------------------------------------
Account(owner, mint, delta) ==
    [owner |-> owner, mint |-> mint, pre |-> Abs(delta), post |-> Abs(delta) + delta]
Pools == {route[i].account : i \in DOMAIN route} \ {None}

(* Native SOL: the price, if it is paid that way, and what else is paid.   *)
Lamports == (IF intent.native THEN intent.amount ELSE 0) - Fee - tipped - rented

(* The trader's token is split over two accounts; every pool gives or      *)
(* takes a part.                                                           *)
Transaction ==
    [failed |-> txFailed, payer |-> "trader", calls |-> route,
     lamports |-> Lamports, fee |-> Fee, tips |-> tipped,
     accounts |->
        [place \in ({"trader"} \X (1..3)) \cup (Pools \X {0}) |->
           CASE place[2] = 0 -> Account(place[1], intent.token, -intent.tokens)
             [] place[2] = 1 -> Account("trader", intent.token, intent.tokens + 3)
             [] place[2] = 2 -> Account("trader", intent.token, -3)
             [] place[2] = 3 -> Account("trader", intent.quote,
                                        IF intent.native THEN 0 ELSE intent.amount)]]

Intend(trade) ==
    /\ intent = None
    /\ intent' = trade
    /\ UNCHANGED <<route, tipped, rented, txFailed>>

TakesHop(hop) ==
    /\ intent # None /\ Len(route) < MaxHops
    /\ hop.inner => route # <<>>
    /\ route' = Append(route, hop)
    /\ UNCHANGED <<intent, tipped, rented, txFailed>>

PaysTip ==
    /\ intent # None /\ tipped = 0
    /\ tipped' = Tip
    /\ UNCHANGED <<intent, route, rented, txFailed>>

(* Only next to a SOL leg: the rent of an account opened by a trade in     *)
(* stablecoins or tokens passes for the price, see the README.             *)
PaysRent ==
    /\ intent # None /\ rented = 0
    /\ intent.quote = WSOL
    /\ rented' = Rent
    /\ UNCHANGED <<intent, route, tipped, txFailed>>

TradeFails ==
    /\ intent # None /\ ~txFailed
    /\ txFailed' = TRUE
    /\ UNCHANGED <<intent, route, tipped, rented>>

TradeNext ==
    \/ \E trade \in Intents : Intend(trade)
    \/ \E hop \in HopKinds : TakesHop(hop)
    \/ PaysTip
    \/ PaysRent
    \/ TradeFails

-----------------------------------------------------------------------------
(* Whatever the route, the tip and the accounts, the events are the trade: *)
(* one event of it (two if it swaps two tokens), with the side and the     *)
(* exact amount of the token, and a price that is off by no more than the  *)
(* rent; a failed transaction, or one no parser knows, has none.  A pool   *)
(* is named only if the venue's swaps all went through it (util.py: "Infer *)
(* one swap from the fee payer's balance deltas"; raydium.py: "only when   *)
(* exactly one").                                                          *)
Parsed(event, token, tokens, quote, amount) ==
    /\ event.token = token /\ event.quote = quote
    /\ event.side = (IF tokens > 0 THEN "buy" ELSE "sell")
    /\ event.tokens = Abs(tokens)
    /\ Abs(event.paid - Abs(amount)) <= rented
PoolCertain(event) ==
    LET own == IF event.venue.dex \in RaydiumPrograms THEN RaydiumPrograms
               ELSE {event.venue.program}
    IN  event.venue.pool # None /\ event.venue.program \notin PumpPrograms
        => \A i \in Calls(Transaction, own) :
              route[i].form = "swap" => route[i].account = event.venue.pool
TradeRecovered ==
    intent # None =>
      \A events \in {ParseTransaction(Transaction, stables) : stables \in StableOrders} :
        LET known == \E i \in DOMAIN route : route[i].program # "unknown"
        IN  /\ \A i \in DOMAIN events : PoolCertain(events[i])
            /\ IF txFailed \/ ~known THEN events = <<>>
               ELSE IF intent.quote \in QuoteMints
               THEN /\ Len(events) = 1
                    /\ Parsed(events[1], intent.token, intent.tokens, intent.quote, intent.amount)
               ELSE /\ Len(events) = 2
                    /\ \E i \in {1, 2} :
                        /\ Parsed(events[i], intent.token, intent.tokens,
                                  intent.quote, intent.amount)
                        /\ Parsed(events[3 - i], intent.quote, intent.amount,
                                  intent.token, intent.tokens)
=============================================================================
