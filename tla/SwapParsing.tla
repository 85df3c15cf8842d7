----------------------------- MODULE SwapParsing -----------------------------
(***************************************************************************)
(* From a fetched transaction to normalized swap events: the venue parsers *)
(* of backend/app/ingestion/parsers.  Amounts come from balance changes of *)
(* the fee payer, whatever the venue; a venue adds who executed the swap   *)
(* and, when it is certain, in which pool.  Decoding of instruction data   *)
(* is abstracted to what an instruction turns out to be.                   *)
(***************************************************************************)
EXTENDS Basics

CONSTANT MinSolFlow   \* MIN_SOL_FLOW, in the model's unit of SOL
ASSUME ParsingUnits == MinSolFlow \in Nat

(* Mints are numbers, so that they have the order that sorted() gives      *)
(* them; everything above the quote mints is a token.                      *)
WSOL == 1
USDC == 2
USDT == 3
StableMints == {USDC, USDT}
QuoteMints == {WSOL} \cup StableMints
StableOrders == {<<USDC, USDT>>, <<USDT, USDC>>}   \* a frozenset has no order of its own

PumpPrograms == {"pumpfun", "pumpswap"}
RaydiumPrograms == {"raydium_amm", "raydium_cpmm", "raydium_clmm"}
JupiterPrograms == {"jupiter_v6", "jupiter_v4"}
DexOf(program) == IF program \in JupiterPrograms THEN "jupiter" ELSE program

(* The instructions in execution order, each with the inner ones it calls  *)
(* right after it: the program, what its data decodes to ("swap", "twoHop" *)
(* or anything else) and the account at the place where that program keeps *)
(* the pool, or None.                                                      *)
Calls(tx, programs) == {i \in DOMAIN tx.calls : tx.calls[i].program \in programs}
ProgramIds(tx) == {tx.calls[i].program : i \in DOMAIN tx.calls}

(* pre- and postTokenBalances, netted per owner and mint: one owner may    *)
(* have several token accounts.                                            *)
TokenDelta(tx, owner, mint) ==
    SumOver([i \in DOMAIN tx.accounts |->
               LET a == tx.accounts[i] IN
               IF a.owner = owner /\ a.mint = mint THEN a.post - a.pre ELSE 0],
            DOMAIN tx.accounts)
TokenOwners(tx) == {tx.accounts[i].owner : i \in DOMAIN tx.accounts}
MovedTokens(tx, owner) ==
    {mint \in {tx.accounts[i].mint : i \in DOMAIN tx.accounts} \ QuoteMints :
        TokenDelta(tx, owner, mint) # 0}

(* The payer's lamports with the fee and the tips put back.                *)
NativeSolDelta(tx) == tx.lamports + tx.fee + tx.tips

Opposite(flow, delta) == flow # 0 /\ (flow > 0) # (delta > 0)

(* Faulty variant: amounts keep their sign.                                *)
SignedEvent(tx, venue, token, delta, quote, amount) ==
    [wallet |-> tx.payer, venue |-> venue, side |-> IF delta > 0 THEN "buy" ELSE "sell",
     token |-> token, quote |-> quote, tokens |-> delta, paid |-> amount, aggregator |-> None]

(* A swap event, of a venue [dex, program, pool].                          *)
Event(tx, venue, token, delta, quote, amount) ==
    [wallet |-> tx.payer, venue |-> venue, side |-> IF delta > 0 THEN "buy" ELSE "sell",
     token |-> token, quote |-> quote, tokens |-> Abs(delta), paid |-> Abs(amount),
     aggregator |-> None]

(* The SOL legs that flow against the token: WSOL, and native SOL unless   *)
(* it is too little to mean anything.                                      *)
SolLegs(tx, delta) ==
    LET native == IF Abs(NativeSolDelta(tx)) >= MinSolFlow THEN NativeSolDelta(tx) ELSE 0
    IN  {flow \in {TokenDelta(tx, tx.payer, WSOL), native} : Opposite(flow, delta)}

(* Which leg of several is the trade: the largest.                         *)
TradeLeg(legs) == CHOOSE leg \in legs : \A other \in legs : Abs(other) <= Abs(leg)

(* One token: the larger SOL leg, else the first stable leg in the order   *)
(* in which the process iterates the set of stable mints.                  *)
TokenSwap(tx, venue, token, stables) ==
    LET delta == TokenDelta(tx, tx.payer, token)
        legs == SolLegs(tx, delta)
        counter == {i \in DOMAIN stables :
                      Opposite(TokenDelta(tx, tx.payer, stables[i]), delta)}
        stable == stables[Min(counter)]
    IN  CASE legs # {} -> <<Event(tx, venue, token, delta, WSOL, TradeLeg(legs))>>
          [] legs = {} /\ counter # {} ->
                <<Event(tx, venue, token, delta, stable, TokenDelta(tx, tx.payer, stable))>>
          [] OTHER -> <<>>

(* Faulty variant: the token that was bought first.                        *)
BoughtFirst(tx, venue, a, b) ==
    LET da == TokenDelta(tx, tx.payer, a)  db == TokenDelta(tx, tx.payer, b) IN
    IF ~Opposite(da, db) THEN <<>>
    ELSE IF da > 0 THEN <<Event(tx, venue, a, da, b, db), Event(tx, venue, b, db, a, da)>>
         ELSE <<Event(tx, venue, b, db, a, da), Event(tx, venue, a, da, b, db)>>

(* Two tokens against each other: an event for each, lower mint first.     *)
TokenToToken(tx, venue, a, b) ==
    LET da == TokenDelta(tx, tx.payer, a)  db == TokenDelta(tx, tx.payer, b) IN
    IF Opposite(da, db)
      THEN <<Event(tx, venue, a, da, b, db), Event(tx, venue, b, db, a, da)>> ELSE <<>>

InferSwapEvents(tx, program, pool, stables) ==
    LET moved == MovedTokens(tx, tx.payer)
        venue == [dex |-> DexOf(program), program |-> program, pool |-> pool]
    IN  CASE Cardinality(moved) = 1 ->
                TokenSwap(tx, venue, CHOOSE t \in moved : TRUE, stables)
          [] Cardinality(moved) = 2 -> TokenToToken(tx, venue, Min(moved), Max(moved))
          [] OTHER -> <<>>

-----------------------------------------------------------------------------
(* pump.fun: bonding curve before AMM; the first account at the pool's     *)
(* place that owns a token account and is not the trader, looked for in    *)
(* all top-level instructions before any inner one.                        *)
PumpProgram(tx) == IF "pumpfun" \in ProgramIds(tx) THEN "pumpfun" ELSE "pumpswap"
PumpPool(tx, program) ==
    LET found == {i \in Calls(tx, {program}) :
                    tx.calls[i].account \in TokenOwners(tx) \ {tx.payer}}
        outer == {i \in found : ~tx.calls[i].inner}
    IN  IF found = {} THEN None
        ELSE tx.calls[Min(IF outer # {} THEN outer ELSE found)].account
ParsePump(tx, stables) ==
    IF Calls(tx, PumpPrograms) = {} THEN <<>>
    ELSE InferSwapEvents(tx, PumpProgram(tx), PumpPool(tx, PumpProgram(tx)), stables)

(* Raydium: the pool only when all decoded swaps agree on program and pool. *)
RaydiumPool(tx, swaps) ==
    LET used == {<<tx.calls[i].program, tx.calls[i].account>> : i \in swaps}
    IN  IF Cardinality(used) = 1 THEN tx.calls[Min(swaps)].account ELSE None
ParseRaydium(tx, stables) ==
    LET ours == Calls(tx, RaydiumPrograms)
        swaps == {i \in ours : tx.calls[i].form = "swap"}
        first == Min(IF swaps # {} THEN swaps ELSE ours)
    IN  IF ours = {} THEN <<>>
        ELSE InferSwapEvents(tx, tx.calls[first].program, RaydiumPool(tx, swaps), stables)

(* Orca: one pool, no two-hop swap, and a token account of the pool's own, *)
(* whatever the order.                                                     *)
OrcaPool(tx) ==
    LET ours == Calls(tx, {"orca"})
        swaps == {i \in ours : tx.calls[i].form = "swap"}
        pools == {tx.calls[i].account : i \in swaps} \ {None}
    IN  IF /\ \A i \in ours : tx.calls[i].form # "twoHop"
           /\ Cardinality(pools) = 1
           /\ pools \subseteq TokenOwners(tx) \ {tx.payer}
          THEN CHOOSE p \in pools : TRUE ELSE None
ParseOrca(tx, stables) ==
    IF Calls(tx, {"orca"}) = {} THEN <<>>
    ELSE InferSwapEvents(tx, "orca", OrcaPool(tx), stables)

(* Jupiter: its newer program before the older one, and no pool.           *)
JupiterProgram(tx) == IF "jupiter_v6" \in ProgramIds(tx) THEN "jupiter_v6" ELSE "jupiter_v4"
ParseJupiter(tx, stables) ==
    IF Calls(tx, JupiterPrograms) = {} THEN <<>>
    ELSE InferSwapEvents(tx, JupiterProgram(tx), None, stables)

(* Faulty variant: every venue's event is kept.                            *)
NotDeduped(events) == events

(* Events of one wallet, token, side and quote are one swap, seen by       *)
(* several venues: the first venue's.                                      *)
SwapKey(e) == <<e.wallet, e.token, e.side, e.quote>>
FirstSeen(events) ==
    {i \in DOMAIN events : \A j \in 1..(i - 1) : SwapKey(events[j]) # SwapKey(events[i])}
Deduped(events) == At(events, FirstSeen(events))

(* The aggregator parses only what no venue recognised, but it is named    *)
(* whenever it took part.                                                  *)
VenueEvents(tx, stables) ==
    LET venues == ParsePump(tx, stables) \o ParseRaydium(tx, stables) \o ParseOrca(tx, stables)
    IN  IF venues # <<>> THEN venues ELSE ParseJupiter(tx, stables)
Aggregator(tx) == IF Calls(tx, JupiterPrograms) # {} THEN "jupiter" ELSE None
Tagged(events, tag) == [i \in DOMAIN events |-> [events[i] EXCEPT !.aggregator = tag]]

(* An event's index is its place.                                          *)
ParseTransaction(tx, stables) ==
    IF tx.failed \/ tx.payer = None THEN <<>>
    ELSE Tagged(Deduped(VenueEvents(tx, stables)), Aggregator(tx))
=============================================================================
