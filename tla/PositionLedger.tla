---------------------------- MODULE PositionLedger ----------------------------
(***************************************************************************)
(* Several ingest writers persist transactions concurrently, one database  *)
(* session per transaction (fetcher.py _persist, writer.py).  Sessions run *)
(* at READ COMMITTED: what one has written is seen by others when it       *)
(* commits, and a row it has written or locked makes others wait.          *)
(* Transactions come in any order, some more than once.                    *)
(***************************************************************************)
EXTENDS TradeLedger

CONSTANTS Writers,        \* ingest writers
          PoolAddresses,  \* the pools that the transactions trade in
          MaxDeliveries,  \* bound, per transaction: times it is delivered
          MaxRollbacks    \* bound: sessions that die

ASSUME LedgerBounds == MaxDeliveries \in [Txs -> Nat \ {0}] /\ MaxRollbacks \in Nat
ASSUME NobodyIsNone == None \notin Writers

VARIABLES
    deliveries, \* per transaction, how often it may yet be delivered
    seen,       \* transactions with a row in transactions or failed_transactions
    pools,      \* pools with a row in dex_pools
    rowLock,    \* wallet, token and pool rows, by the session that has written them
    pc,         \* "idle", "wallet", "token", "pool", "addPool", "insert", "select",
                \* "write", "commit"
    job,        \* a session: its transaction, rows, pool, place in them, and its writes
    rollbacks

sessionVars == <<rowLock, pc, job>>
ledgerVars == <<trades, positions, deliveries, seen, pools, sessionVars, rollbacks>>

Payers == {t.tx.payer : t \in Txs} \ {None}
(* The pool of a transaction's events, if it is known: they all come from  *)
(* one venue, and the order of the stable mints makes no difference to it. *)
PoolOf(t) ==
    LET events == ParseTransaction(t.tx, <<USDC, USDT>>)
    IN  IF events = <<>> THEN None ELSE events[1].venue.pool
ASSUME KnownPools ==
    None \notin PoolAddresses /\ \A t \in Txs : PoolOf(t) \in PoolAddresses \cup {None}

(* A wallet, token or pool row.                                            *)
Entities == {<<"wallet", w>> : w \in Payers} \cup {<<"token", m>> : m \in TradedTokens}
                \cup {<<"pool", p>> : p \in PoolAddresses}

NewJob(t, rows, pool) ==
    [t |-> t, rows |-> rows, pool |-> pool, at |-> 1, inserted |-> {}, held |-> <<>>,
     episodes |-> [pair \in Pairs |-> <<>>]]
NoJob == NewJob(None, <<>>, None)

Positioned(w) == {pair \in Pairs : job[w].episodes[pair] # <<>>}   \* it has written these

(* What a session reads: its own writes over the committed ones.           *)
EpisodesSeen(w, pair) ==
    IF pair \in Positioned(w) THEN job[w].episodes[pair] ELSE positions[pair]

LedgerInit ==
    /\ Init
    /\ deliveries = MaxDeliveries
    /\ seen = {}
    /\ pools = {}
    /\ rowLock = [e \in Entities |-> None]
    /\ pc = [w \in Writers |-> "idle"]
    /\ job = [w \in Writers |-> NoJob]
    /\ rollbacks = 0

Row(w) == job[w].rows[job[w].at]
Pool(w) == job[w].pool
Goto(w, label) == pc' = [pc EXCEPT ![w] = label]

(* Faulty variant: ON CONFLICT DO NOTHING.                                 *)
UpsertNothing(w, entity) == UNCHANGED rowLock

(* ON CONFLICT DO UPDATE takes the row's lock until the session ends; the  *)
(* update itself (first seen, last seen) converges whatever the order.     *)
Upsert(w, entity) ==
    /\ rowLock[entity] \in {None, w}
    /\ rowLock' = [rowLock EXCEPT ![entity] = w]

(* A delivery: fetched, parsed, and a session begun.                       *)
Deliver(w, t, rows) ==
    /\ pc[w] = "idle"
    /\ deliveries[t] > 0
    /\ deliveries' = [deliveries EXCEPT ![t] = @ - 1]
    /\ job' = [job EXCEPT ![w] = NewJob(t, rows, PoolOf(t))]
    /\ Goto(w, IF t.tx.payer = None THEN "commit" ELSE "wallet")
    /\ UNCHANGED <<trades, positions, seen, pools, rowLock, rollbacks>>

(* The next event, or the end.                                             *)
ToRow(w, i) == Goto(w, IF i > Len(job[w].rows) THEN "commit" ELSE "token")

(* upsert_wallet of the payer, then the transaction's own row.             *)
UpsertWallet(w) ==
    /\ pc[w] = "wallet"
    /\ Upsert(w, <<"wallet", job[w].t.tx.payer>>)
    /\ ToRow(w, 1)
    /\ UNCHANGED <<trades, positions, deliveries, seen, pools, job, rollbacks>>

UpsertToken(w) ==
    /\ pc[w] = "token"
    /\ Upsert(w, <<"token", Row(w).pair[2]>>)
    /\ Goto(w, "pool")
    /\ UNCHANGED <<trades, positions, deliveries, seen, pools, job, rollbacks>>

(* get_or_create_pool: a SELECT, and an INSERT of what it does not find.   *)
SelectPool(w) ==
    /\ pc[w] = "pool"
    /\ Goto(w, IF Pool(w) = None \/ Pool(w) \in pools \/ rowLock[<<"pool", Pool(w)>>] = w
                 THEN "insert" ELSE "addPool")
    /\ UNCHANGED <<trades, positions, deliveries, seen, pools, rowLock, job, rollbacks>>

(* It waits for another session's undecided row of this address.           *)
InsertPool(w) ==
    /\ pc[w] = "addPool"
    /\ Pool(w) \notin pools
    /\ Upsert(w, <<"pool", Pool(w)>>)
    /\ Goto(w, "insert")
    /\ UNCHANGED <<trades, positions, deliveries, seen, pools, job, rollbacks>>

Skipped(w) == [job EXCEPT ![w].at = job[w].at + 1]

(* insert_trade: waits for another session's undecided row of this key; a  *)
(* row that is there already is left alone, and nothing is folded.         *)
InsertTrade(w) ==
    /\ pc[w] = "insert"
    /\ \A other \in Writers \ {w} : ~Recorded(Row(w), job[other].inserted)
    /\ IF Recorded(Row(w), trades \cup job[w].inserted)
         THEN job' = Skipped(w) /\ ToRow(w, job[w].at + 1)
         ELSE IF Row(w).sol = None
           THEN /\ job' = [Skipped(w) EXCEPT ![w].inserted = job[w].inserted \cup {Row(w)}]
                /\ ToRow(w, job[w].at + 1)
           ELSE /\ job' = [job EXCEPT ![w].inserted = job[w].inserted \cup {Row(w)}]
                /\ Goto(w, "select")
    /\ UNCHANGED <<trades, positions, deliveries, seen, pools, rowLock, rollbacks>>

(* SELECT ... FOR UPDATE of the open position: waits for a session that    *)
(* has changed it, and then reads what that session committed.  A position *)
(* another session has inserted and not committed is not there to be read. *)
SelectPosition(w) ==
    LET pair == Row(w).pair IN
    /\ pc[w] = "select"
    /\ HasOpen(positions[pair]) => \A other \in Writers \ {w} : pair \notin Positioned(other)
    /\ job' = [job EXCEPT ![w].held = EpisodesSeen(w, pair)]
    /\ Goto(w, "write")
    /\ UNCHANGED <<trades, positions, deliveries, seen, pools, rowLock, rollbacks>>

(* The fold, and its flush.                                                *)
WritePosition(w) ==
    LET pair == Row(w).pair IN
    /\ pc[w] = "write"
    /\ LET written == [job[w].episodes EXCEPT ![pair] = UpdatePosition(job[w].held, Row(w))]
       IN  job' = [Skipped(w) EXCEPT ![w].episodes = written, ![w].held = <<>>]
    /\ ToRow(w, job[w].at + 1)
    /\ UNCHANGED <<trades, positions, deliveries, seen, pools, rowLock, rollbacks>>

Unlocked(w) == [e \in Entities |-> IF rowLock[e] = w THEN None ELSE rowLock[e]]

Commit(w) ==
    /\ pc[w] = "commit"
    /\ trades' = trades \cup job[w].inserted
    /\ positions' = [pair \in Pairs |-> EpisodesSeen(w, pair)]
    /\ seen' = seen \cup {job[w].t}
    /\ pools' = pools \cup {p \in PoolAddresses : rowLock[<<"pool", p>>] = w}
    /\ rowLock' = Unlocked(w)
    /\ job' = [job EXCEPT ![w] = NoJob]
    /\ Goto(w, "idle")
    /\ UNCHANGED <<deliveries, rollbacks>>

(* The session is rolled back; the entry is requeued or dropped.           *)
Abort(w) ==
    /\ pc[w] # "idle"
    /\ rowLock' = Unlocked(w)
    /\ job' = [job EXCEPT ![w] = NoJob]
    /\ Goto(w, "idle")
    /\ UNCHANGED <<trades, positions, deliveries, seen, pools>>

(* At any point, for a reason of its own.                                  *)
RollBack(w) ==
    /\ rollbacks < MaxRollbacks
    /\ rollbacks' = rollbacks + 1
    /\ Abort(w)

(* The pool's row has been committed since the SELECT: the unique address  *)
(* refuses this one.                                                       *)
PoolTaken(w) ==
    /\ pc[w] = "addPool"
    /\ Pool(w) \in pools
    /\ Abort(w)
    /\ UNCHANGED rollbacks

(* The row that keeps a statement of w waiting is other's.                 *)
WaitsFor(w, other) ==
    /\ w # other
    /\ \/ pc[w] = "wallet" /\ rowLock[<<"wallet", job[w].t.tx.payer>>] = other
       \/ pc[w] = "token" /\ rowLock[<<"token", Row(w).pair[2]>>] = other
       \/ pc[w] = "addPool" /\ rowLock[<<"pool", Pool(w)>>] = other
       \/ pc[w] = "insert" /\ Recorded(Row(w), job[other].inserted)
       \/ /\ pc[w] = "select"
          /\ HasOpen(positions[Row(w).pair]) /\ Row(w).pair \in Positioned(other)

(* Sessions of which each waits for another of them, and no fewer do.      *)
AllWait(S) == S # {} /\ \A w \in S : \E other \in S : WaitsFor(w, other)
Circle(S) == AllWait(S) /\ \A T \in SUBSET S : AllWait(T) => T = S

(* Postgres finds them, and ends one.                                      *)
Deadlock(w) ==
    /\ \E S \in SUBSET Writers : w \in S /\ Circle(S)
    /\ Abort(w)
    /\ UNCHANGED rollbacks

Persist(w) == \/ UpsertWallet(w)
              \/ UpsertToken(w)
              \/ SelectPool(w) \/ InsertPool(w)
              \/ InsertTrade(w)
              \/ SelectPosition(w)
              \/ WritePosition(w)
              \/ Commit(w)
Refused(w) == PoolTaken(w) \/ Deadlock(w)

LedgerNext ==
    \E w \in Writers :
        \/ \E t \in Txs : \E rows \in Outcomes[t] : Deliver(w, t, rows)
        \/ Persist(w)
        \/ Refused(w) \/ RollBack(w)

(* A session's statements end, one way or the other; nothing obliges a     *)
(* transaction to be delivered.                                            *)
LedgerSpec == /\ LedgerInit
              /\ [][LedgerNext]_ledgerVars
              /\ \A w \in Writers : WF_ledgerVars(Persist(w) \/ Refused(w))

-----------------------------------------------------------------------------
Rows == [sig : {t.id : t \in Txs}, index : Nat, pair : Pairs, side : {"buy", "sell"},
         tokens : Nat, sol : Nat \cup {None}]
Positions == [status : {"open", "closed"}, bought : Nat, sold : Nat, boughtSol : Nat,
              soldSol : Nat, realized : Int, count : Nat]
Jobs == [t : Txs \cup {None}, rows : Seq(Rows), pool : PoolAddresses \cup {None},
         at : Nat \ {0}, inserted : SUBSET Rows, held : Seq(Positions),
         episodes : [Pairs -> Seq(Positions)]]

LedgerTypeOK ==
    /\ trades \subseteq Rows
    /\ positions \in [Pairs -> Seq(Positions)]
    /\ deliveries \in [Txs -> Nat] /\ \A t \in Txs : deliveries[t] <= MaxDeliveries[t]
    /\ seen \subseteq Txs
    /\ pools \subseteq PoolAddresses
    /\ rowLock \in [Entities -> Writers \cup {None}]
    /\ pc \in [Writers -> {"idle", "wallet", "token", "pool", "addPool", "insert", "select",
                          "write", "commit"}]
    /\ job \in [Writers -> Jobs]
    /\ rollbacks \in 0..MaxRollbacks

(* Concurrent sessions add up to transactions recorded one after the       *)
(* other: no update is lost, no trade is folded twice (writer.py: "All     *)
(* writes are safe to replay", "position updates are driven only by trades *)
(* that were actually inserted").                                          *)
ImplementsTradeLedger == Spec

(* Whatever the order, the replays and the rollbacks: over all positions   *)
(* of a wallet and token, tokens bought less tokens sold are those of its  *)
(* recorded trades that have a value in SOL.                               *)
Holding(episodes) ==
    SumOver([i \in DOMAIN episodes |-> Remaining(episodes[i])], DOMAIN episodes)
Net(rows) ==
    SumOver([r \in rows |-> IF r.side = "buy" THEN r.tokens ELSE -r.tokens], rows)
TokensConserved ==
    \A pair \in Pairs :
        Holding(positions[pair])
        = Net({r \in trades : r.pair = pair /\ r.sol # None})

(* An episode that is over is never reopened or changed, and a wallet has  *)
(* at most one open position per token (models.py, Position: "A wallet     *)
(* that fully exits and later re-enters gets a new position row").         *)
EpisodesFinal ==
    [][\A pair \in Pairs :
         /\ Len(positions[pair]) <= Len(positions'[pair])
         /\ \A i \in DOMAIN positions[pair] :
              positions[pair][i].status = "closed" => positions'[pair][i] = positions[pair][i]
         /\ \A i \in DOMAIN positions'[pair] :
              i < Len(positions'[pair]) => positions'[pair][i].status = "closed"
      ]_ledgerVars

(* Two sessions never get as far as both inserting an open position: the   *)
(* unique index of open positions refuses nobody, because the payer's      *)
(* wallet row is locked first.                                             *)
IndexNeverRefuses ==
    \A w \in Writers : pc[w] = "write" /\ ~HasOpen(job[w].held) =>
        /\ ~HasOpen(positions[Row(w).pair])
           \/ Row(w).pair \in Positioned(w)
        /\ \A other \in Writers \ {w} : Row(w).pair \in Positioned(other) =>
                ~HasOpen(job[other].episodes[Row(w).pair])

(* Every session ends.  Sessions stand still until Postgres ends one of    *)
(* them only over a pool no session has committed yet: wallets before      *)
(* tokens, tokens in mint order (util.py sorts) and a position last keep   *)
(* them apart otherwise.                                                   *)
SessionsFinish ==
    /\ [](\A S \in SUBSET Writers : Circle(S) => \E w \in S : pc[w] = "addPool")
    /\ \A w \in Writers : []<>(pc[w] = "idle")
=============================================================================
