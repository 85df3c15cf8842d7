----------------------------- MODULE TradeLedger -----------------------------
(***************************************************************************)
(* The ledger that backend/app/ingestion/writer.py keeps, as if one writer *)
(* worked alone and a transaction were recorded in one step: trades are    *)
(* inserted once, and each new one is folded into the open position of its *)
(* wallet and token, a new one if there is none.  PositionLedger is shown  *)
(* to implement this.                                                      *)
(***************************************************************************)
EXTENDS SwapParsing

CONSTANTS Txs,         \* transactions: [id, tx], tx a record of SwapParsing
          SolPrice,    \* the price of a SOL in stable units
          DustDivisor, \* 1 / DUST_FRACTION
          Scale        \* realized profit is kept in 1/Scale units of SOL
ASSUME LedgerUnits == /\ SolPrice \in Nat \ {0}
                      /\ DustDivisor \in Nat \ {0}
                      /\ Scale \in Nat \ {0}

(* Of a fetched transaction: token accounts in a list, amounts in base     *)
(* units.                                                                  *)
ASSUME TransactionShape ==
    \A t \in Txs :
        /\ IsFiniteSet(DOMAIN t.tx.accounts)
        /\ \A i \in DOMAIN t.tx.accounts :
             LET a == t.tx.accounts[i] IN a.mint \in Nat /\ a.pre \in Nat /\ a.post \in Nat
        /\ t.tx.lamports \in Int /\ t.tx.fee \in Nat /\ t.tx.tips \in Nat

TradedTokens == (UNION {{t.tx.accounts[i].mint : i \in DOMAIN t.tx.accounts} : t \in Txs})
                    \ QuoteMints
Pairs == {t.tx.payer : t \in Txs} \X TradedTokens

VARIABLES
    trades,     \* rows of `trades`: [sig, index, pair, side, tokens, sol]
    positions   \* per wallet and token, its positions, the oldest first

(* A trade's value in SOL, if it has one: price is what the enrichment     *)
(* loop has cached, or None.                                               *)
QuoteInSol(event, price) ==
    CASE event.quote = WSOL -> event.paid
      [] event.quote \in StableMints /\ price # None -> event.paid \div price
      [] OTHER -> None

TradeRow(id, index, event, price) ==
    [sig |-> id, index |-> index, pair |-> <<event.wallet, event.token>>,
     side |-> event.side, tokens |-> event.tokens, sol |-> QuoteInSol(event, price)]

(* The rows a transaction may come to: by the order in which the process   *)
(* iterates the stable mints, and the price of SOL known when it is parsed. *)
RowsOf(t, stables, price) ==
    LET events == ParseTransaction(t.tx, stables) IN
    [i \in DOMAIN events |-> TradeRow(t.id, i, events[i], price)]
Outcomes == [t \in Txs |-> {RowsOf(t, o, p) : o \in StableOrders, p \in {None, SolPrice}}]

(* trades' primary key.                                                    *)
SameTrade(a, b) == a.sig = b.sig /\ a.index = b.index
(* Faulty variant: a replayed trade counts as new.                         *)
RecordedNever(row, rows) == FALSE
Recorded(row, rows) == \E r \in rows : SameTrade(r, row)

NewPosition == [status |-> "open", bought |-> 0, sold |-> 0, boughtSol |-> 0,
                soldSol |-> 0, realized |-> 0, count |-> 0]

Counted(p) == [p EXCEPT !.count = @ + 1]
Bought(p, row) == [Counted(p) EXCEPT !.bought = @ + row.tokens, !.boughtSol = @ + row.sol]
(* Cost at the average entry price of everything bought so far.            *)
CostBasis(p, tokens) ==
    IF p.bought = 0 THEN 0 ELSE (Scale * p.boughtSol * tokens) \div p.bought
Sold(p, row) ==
    [Counted(p) EXCEPT !.sold = @ + row.tokens, !.soldSol = @ + row.sol,
                       !.realized = @ + Scale * row.sol - CostBasis(p, row.tokens)]

(* Closed at dust; a sell of tokens never seen bought closes at once.      *)
Remaining(p) == p.bought - p.sold
Exhausted(p) == \/ p.bought > 0 /\ DustDivisor * Remaining(p) <= p.bought
                \/ p.bought = 0 /\ p.sold > 0

Fold(p, row) ==
    LET q == IF row.side = "buy" THEN Bought(p, row) ELSE Sold(p, row)
    IN  IF Exhausted(q) THEN [q EXCEPT !.status = "closed"] ELSE q

(* Faulty variant: the look-up does not ask for the status.                *)
HasAny(episodes) == episodes # <<>>
HasOpen(episodes) == episodes # <<>> /\ Last(episodes).status = "open"

(* update_position: trades without a value in SOL are left out.            *)
UpdatePosition(episodes, row) ==
    CASE row.sol = None -> episodes
      [] row.sol # None /\ HasOpen(episodes) ->
            [episodes EXCEPT ![Len(episodes)] = Fold(Last(episodes), row)]
      [] OTHER -> Append(episodes, Fold(NewPosition, row))

Folded(ps, row) == [ps EXCEPT ![row.pair] = UpdatePosition(ps[row.pair], row)]

Init == /\ trades = {}
        /\ positions = [pair \in Pairs |-> <<>>]

(* A transaction recorded whole: its rows that are new, each folded.       *)
Record(rows) ==
    LET new == {r \in ToSet(rows) : ~Recorded(r, trades)} IN
    /\ new # {}
    /\ trades' = trades \cup new
    /\ positions' = FoldLeft(LAMBDA ps, r : IF r \in new THEN Folded(ps, r) ELSE ps,
                             positions, rows)

Next == /\ trades' # trades
        /\ \E t \in Txs : \E rows \in Outcomes[t] : Record(rows)

Spec == Init /\ [][Next]_<<trades, positions>>
=============================================================================
