------------------------------ MODULE MCLedger ------------------------------
(* A curve buy and an AMM sell of one wallet that leave dust, its buy with *)
(* a stablecoin through an unknown route, a swap of two tokens by each of  *)
(* two wallets, and a buy of one of these tokens through the same pool.    *)
EXTENDS PositionLedger

A(owner, mint, pre, post) == [owner |-> owner, mint |-> mint, pre |-> pre, post |-> post]
Call(program, form, account) ==
    [program |-> program, form |-> form, account |-> account, inner |-> FALSE]
Tx(payer, calls, accounts, lamports) ==
    [failed |-> FALSE, payer |-> payer, calls |-> calls, accounts |-> accounts,
     lamports |-> lamports, fee |-> 1, tips |-> 0]

Buy == Tx("ann", <<Call("pumpfun", "other", "curve")>>,
          <<A("ann", 4, 0, 200), A("curve", 4, 900, 700)>>, -21)
Sell == Tx("ann", <<Call("raydium_amm", "swap", "amm"), Call("orca", "other", None)>>,
           <<A("ann", 4, 200, 1), A("amm", 4, 0, 199), A("ann", WSOL, 0, 30)>>, -1)
StableBuy == Tx("ann", <<Call("jupiter_v6", "other", None)>>,
                <<A("ann", 4, 1, 101), A("ann", USDC, 40, 20)>>, -1)
AnnSwaps == Tx("ann", <<Call("raydium_cpmm", "swap", "cp")>>,
               <<A("ann", 5, 0, 10), A("ann", 4, 50, 0)>>, -1)
BobSwaps == Tx("bob", <<Call("raydium_cpmm", "swap", "cp")>>,
               <<A("bob", 4, 0, 50), A("bob", 5, 10, 0)>>, -1)
BobRoutes == Tx("bob", <<Call("raydium_cpmm", "swap", "cp")>>,
                <<A("bob", 5, 0, 20)>>, -6)

MCTxs == {[id |-> 1, tx |-> Buy], [id |-> 2, tx |-> Sell], [id |-> 3, tx |-> StableBuy],
          [id |-> 4, tx |-> AnnSwaps], [id |-> 5, tx |-> BobSwaps], [id |-> 6, tx |-> BobRoutes]}
\* The curve buy comes twice.
MCDeliveries == [t \in MCTxs |-> IF t.id = 1 THEN 2 ELSE 1]
=============================================================================
