--------------------------- MODULE CopyExecution ---------------------------
(***************************************************************************)
(* Copy-trade execution: the copytrader worker (one leader message at a    *)
(* time) and the approval endpoint of the API, both running                *)
(* CopyExecutor.run_approved, over one database, one Redis and one chain.  *)
(*                                                                         *)
(* A process is one asyncio task with one database session.  Its program   *)
(* counter stops at each await after which another process, the chain, the *)
(* operator or the clock may have moved.  What it wrote to the database    *)
(* and has not committed lives in its job; what it wrote to Redis or sent  *)
(* to the chain stays, whatever becomes of the session.                    *)
(***************************************************************************)
EXTENDS SafetyGuard, Sums, Functions

CONSTANTS Leaders,        \* wallets whose trades reach the worker
          Trades,         \* ids of copy_trades rows (bound on executed buys)
          Approvers,      \* concurrent requests to /approvals/{trade_id}
          Worker,         \* the copytrader worker
          None,
          Live,           \* copy_mode = "live", otherwise paper
          ApprovalMode,   \* copy_approval_mode
          MaxAttempts,    \* copy_execution_attempts
          Wants,          \* copy size before the exposure clamp
          Proceeds,       \* values an exit can be booked at
          MaxTx,          \* bound: transactions per trade and side
          MaxSells,       \* bound: of these, sells
          Faults,         \* which of FaultKinds happen
          MaxAborts       \* bound: sessions rolled back

(* What can go wrong inside a step.  "unreadable": Redis fails under the    *)
(* gate.  "unusable": a quote without a usable fill.  "lost": a send that  *)
(* raises though the node took the transaction.  "void": a send answered   *)
(* None because RPC is frozen.                                             *)
FaultKinds == {"unreadable", "unusable", "lost", "void"}

ASSUME Parameters == /\ Live \in BOOLEAN
                     /\ ApprovalMode \in BOOLEAN
                     /\ MaxAttempts \in Nat \ {0}
                     /\ MaxTx \in Nat \ {0}
                     /\ MaxSells \in 1..MaxTx
                     /\ MaxAborts \in Nat
                     /\ Faults \subseteq FaultKinds
                     /\ Wants \subseteq Nat \ {0}
                     /\ Proceeds \subseteq Nat
                     /\ Worker \notin Approvers
                     /\ IsFiniteSet(Trades)
                     /\ None \notin Trades \cup Tokens \cup Leaders

Procs == {Worker} \cup Approvers
Sides == {"buy", "sell"}
TxIds == 1..MaxTx
Sizes == 1..MaxExposure

BuyLabels == {"evaluating", "evaluated", "claim", "approving", "gate", "prepare", "send",
              "confirm", "insert", "reward", "cool", "exhausted", "strike", "trip", "commit"}
SellLabels == {"lockedOut", "sellQuote", "sellSend", "sellConfirm", "abandon",
               "closing", "sellTrip", "sellCommit"}
TradeStatus == {"none", "uncommitted", "gone", "pending_approval", "approved",
                "rejected", "failed", "submitted", "confirmed"}

Row == [status : TradeStatus, token : Tokens \cup {None},
        leader : Leaders \cup {None}, size : Sizes \cup {0}]
NoRow == [status |-> "none", token |-> None, leader |-> None, size |-> 0]

(* The locals of a running session.  `status` and `opened` are its         *)
(* uncommitted trade.status and copy_positions row, `read` the next read of *)
(* a gate it is in.                                                        *)
Job == [trade : Trades \cup {None}, token : Tokens \cup {None},
        leader : Leaders \cup {None}, size : Sizes \cup {0},
        attempt : 0..MaxAttempts, usable : BOOLEAN, tx : TxIds \cup {0},
        status : TradeStatus, opened : BOOLEAN, proceeds : Nat,
        onChain : BOOLEAN, read : 1..BooksRead]
NoJob == [trade |-> None, token |-> None, leader |-> None, size |-> 0,
          attempt |-> 0, usable |-> FALSE, tx |-> 0, status |-> "none",
          opened |-> FALSE, proceeds |-> 0, onChain |-> FALSE, read |-> 1]

VARIABLES
    trades,      \* copy_trades, the buys: committed, or reserved by a session
    book,        \* copy_positions, by entry_trade_id
    exitStatus,  \* status of the position's exit trade row
    realized,    \* realized_pnl_sol of the positions closed today
    locks,       \* copy:lock:{mint}:{side} keys set, and not seen expired
    chain,       \* our transactions: per trade, side and number
    pc, job,     \* the processes
    aborts       \* sessions rolled back so far

dbVars == <<trades, book, exitStatus, realized>>
vars == <<railVars, dbVars, locks, chain, pc, job, aborts>>

TypeOK ==
    /\ RailsType
    /\ trades \in [Trades -> Row]
    /\ book \in [Trades -> {"none", "open", "closed"}]
    /\ exitStatus \in [Trades -> {"none", "approved", "confirmed"}]
    /\ realized \in [Trades -> Int]
    /\ locks \subseteq Tokens \X Sides
    /\ chain \in [Trades \X Sides \X TxIds -> {"none", "pending", "landed"}]
    /\ pc \in [Procs -> {"idle"} \cup BuyLabels \cup SellLabels]
    /\ job \in [Procs -> Job]
    /\ aborts \in 0..MaxAborts

Init ==
    /\ RailsInit
    /\ trades = [t \in Trades |-> NoRow]
    /\ book = [t \in Trades |-> "none"]
    /\ exitStatus = [t \in Trades |-> "none"]
    /\ realized = [t \in Trades |-> 0]
    /\ locks = {}
    /\ chain = [x \in Trades \X Sides \X TxIds |-> "none"]
    /\ pc = [p \in Procs |-> "idle"]
    /\ job = [p \in Procs |-> NoJob]
    /\ aborts = 0

-----------------------------------------------------------------------------
(* Reading the committed books. *)
OpenTrades == {t \in Trades : book[t] = "open"}
OpenOn(token) == {t \in OpenTrades : trades[t].token = token}
Exposure == SumOver([t \in Trades |-> trades[t].size], OpenTrades)

(* Faulty variant: no clamp. *)
CopySizeUnclamped(want, exposure) == want

(* copy_size_sol: the wanted size, clamped to the exposure headroom. *)
CopySize(want, exposure) ==
    IF want > MaxExposure - exposure THEN MaxExposure - exposure ELSE want

(* The chain. *)
Landed(t, side) == {n \in TxIds : chain[<<t, side, n>>] = "landed"}
Sent(t, side) == {n \in TxIds : chain[<<t, side, n>>] # "none"}
Net(t) == Cardinality(Landed(t, "buy")) - Cardinality(Landed(t, "sell"))
Holding(token) ==
    MapThenSumSet(LAMBDA t : IF trades[t].token = token THEN Net(t) ELSE 0, Trades) > 0
NextTx(t, side, n) == /\ n \in IF side = "sell" THEN 1..MaxSells ELSE TxIds
                      /\ \A m \in TxIds : (m < n) <=> (m \in Sent(t, side))

(* Faulty variant: the SELECT without FOR UPDATE. *)
RowAlwaysFree(t) == TRUE

(* The processes.  An approval holds its row's lock until its session ends. *)
Executing(p, t) == pc[p] # "idle" /\ job[p].trade = t
RowFree(t) == \A q \in Approvers : ~Executing(q, t)
Goto(p, label) == pc' = [pc EXCEPT ![p] = label]
Finish(p) == /\ Goto(p, "idle")
             /\ job' = [job EXCEPT ![p] = NoJob]

(* Faulty variant: no unique index. *)
IndexMissing(p) == TRUE

(* The partial unique index on the open positions of a token: an insert    *)
(* waits for another session's uncommitted row, and fails on a committed   *)
(* one.                                                                    *)
IndexUndecided(p) == \E q \in Procs \ {p} : job[q].opened /\ job[q].token = job[p].token
IndexFree(p) == OpenOn(job[p].token) = {}

-----------------------------------------------------------------------------
(* A leader's buy: CopyTrader.handle_message, Evaluator.evaluate_buy.      *)

(* gate_reasons, run by a session: a read that gives no reason, all five of *)
(* them, and one that gives a reason (the reads after it change nothing).  *)
ReadClear(p) ==
    /\ job[p].read # BooksRead
    /\ RailClear(job[p].read, job[p].token)
    /\ job' = [job EXCEPT ![p].read = @ + 1]
    /\ UNCHANGED <<dbVars, locks, chain, pc, aborts>>

AllClear(p) == /\ job[p].read = BooksRead
               /\ BooksClear(Cardinality(OpenTrades), Exposure)

NotClear(p) == IF job[p].read = BooksRead
                 THEN ~BooksClear(Cardinality(OpenTrades), Exposure)
                 ELSE RailBlocks(job[p].read, job[p].token) \/ "unreadable" \in Faults

(* The evaluation sizes the trade, then reads the rails; every gate that   *)
(* is not modelled passes.  (A skip changes no state of this module.)      *)
EvaluateBuy(leader, token, want) ==
    /\ pc[Worker] = "idle"
    /\ \E t \in Trades : trades[t].status = "none"
    /\ \E size \in Sizes :
        /\ size = CopySize(want, Exposure)
        /\ job' = [job EXCEPT ![Worker] =
                     [NoJob EXCEPT !.token = token, !.leader = leader, !.size = size]]
    /\ Goto(Worker, "evaluating")
    /\ UNCHANGED <<railVars, dbVars, locks, chain, aborts>>

EvaluationReads == pc[Worker] = "evaluating" /\ ReadClear(Worker)

EvaluationPasses ==
    /\ pc[Worker] = "evaluating"
    /\ AllClear(Worker)
    /\ job' = [job EXCEPT ![Worker].read = 1]
    /\ Goto(Worker, "evaluated")
    /\ UNCHANGED <<railVars, dbVars, locks, chain, aborts>>

EvaluationBlocks ==
    /\ pc[Worker] = "evaluating"
    /\ NotClear(Worker)
    /\ Finish(Worker)
    /\ UNCHANGED <<railVars, dbVars, locks, chain, aborts>>

(* After the rug assessment: the no_duplicate_position gate, then the      *)
(* decision is committed.                                                  *)
DecideBuy ==
    /\ pc[Worker] = "evaluated"
    /\ IF OpenOn(job[Worker].token) = {}
         THEN Goto(Worker, "claim") /\ UNCHANGED job
         ELSE Finish(Worker)
    /\ UNCHANGED <<railVars, dbVars, locks, chain, aborts>>

(* execute_buy in a transaction of its own: try_dedup on the Redis lock,   *)
(* which is absent, expired or (the locked-out case) alive; then the row.  *)
ExecuteBuyLockedOut ==
    /\ pc[Worker] = "claim"
    /\ <<job[Worker].token, "buy">> \in locks
    /\ Finish(Worker)
    /\ UNCHANGED <<railVars, dbVars, locks, chain, aborts>>

ExecuteBuy(t) ==
    LET status == IF ApprovalMode THEN "pending_approval" ELSE "approved" IN
    /\ pc[Worker] = "claim"
    /\ trades[t].status = "none"
    /\ locks' = locks \cup {<<job[Worker].token, "buy">>}
    /\ trades' = [trades EXCEPT ![t] =
                    [status |-> "uncommitted", token |-> job[Worker].token,
                     leader |-> job[Worker].leader, size |-> job[Worker].size]]
    /\ job' = [job EXCEPT ![Worker] = [@ EXCEPT !.trade = t, !.status = status]]
    /\ Goto(Worker, IF ApprovalMode THEN "commit" ELSE "gate")
    /\ UNCHANGED <<railVars, book, exitStatus, realized, chain, aborts>>

-----------------------------------------------------------------------------
(* The operator approves a pending trade: approve_trade.                   *)

ApproveTrade(p, t) ==
    /\ pc[p] = "idle"
    /\ RowFree(t)
    /\ trades[t].status = "pending_approval"
    /\ job' = [job EXCEPT ![p] =
                 [NoJob EXCEPT !.trade = t, !.token = trades[t].token,
                               !.leader = trades[t].leader, !.size = trades[t].size,
                               !.status = "pending_approval"]]
    /\ Goto(p, "approving")
    /\ UNCHANGED <<railVars, dbVars, locks, chain, aborts>>

(* Its own look at the rails: the trade is approved, or rejected. *)
ApprovalPasses(p) ==
    /\ pc[p] = "approving"
    /\ AllClear(p)
    /\ job' = [job EXCEPT ![p] = [@ EXCEPT !.read = 1, !.status = "approved"]]
    /\ Goto(p, "gate")
    /\ UNCHANGED <<railVars, dbVars, locks, chain, aborts>>

ApprovalBlocks(p) ==
    /\ pc[p] = "approving"
    /\ NotClear(p)
    /\ job' = [job EXCEPT ![p].status = "rejected"]
    /\ Goto(p, "commit")
    /\ UNCHANGED <<railVars, dbVars, locks, chain, aborts>>

-----------------------------------------------------------------------------
(* run_approved and _live_fill for a buy, in the worker or in an approval. *)

(* Faulty variant: the evaluation's look at the rails is trusted. *)
GateTrustsEvaluation(p) ==
    /\ pc[p] = "gate"
    /\ job' = [job EXCEPT ![p].attempt = 1]
    /\ Goto(p, "prepare")
    /\ UNCHANGED <<railVars, dbVars, locks, chain, aborts>>

(* The last look, before anything irreversible. *)
GateReads(p) == pc[p] \in {"approving", "gate"} /\ ReadClear(p)

GatePasses(p) ==
    /\ pc[p] = "gate"
    /\ AllClear(p)
    /\ job' = [job EXCEPT ![p] = [@ EXCEPT !.read = 1, !.attempt = 1]]
    /\ Goto(p, "prepare")
    /\ UNCHANGED <<railVars, dbVars, locks, chain, aborts>>

GateBlocks(p) ==
    /\ pc[p] = "gate"
    /\ NotClear(p)
    /\ job' = [job EXCEPT ![p].status = "failed"]
    /\ Goto(p, "commit")
    /\ UNCHANGED <<railVars, dbVars, locks, chain, aborts>>

(* Faulty variants: one attempt too many; the count starts over. *)
RetryOnceMore(p) ==
    IF job[p].attempt <= MaxAttempts
      THEN job' = [job EXCEPT ![p].attempt = @ + 1] /\ Goto(p, "prepare")
      ELSE UNCHANGED job /\ Goto(p, "exhausted")
RetryForever(p) ==
    /\ job' = [job EXCEPT ![p].attempt = IF @ < MaxAttempts THEN @ + 1 ELSE 1]
    /\ Goto(p, "prepare")

(* Nothing was broadcast, as far as the code can tell: back off and start  *)
(* the next attempt, or give up.                                           *)
Retry(p) ==
    IF job[p].attempt < MaxAttempts
      THEN /\ job' = [job EXCEPT ![p].attempt = @ + 1]
           /\ Goto(p, "prepare")
      ELSE UNCHANGED job /\ Goto(p, "exhausted")

(* A quote; in live mode also the swap transaction, its signature and its  *)
(* simulation.  No quote, no swap transaction and a failed simulation are  *)
(* retriable.                                                              *)
PrepareFails(p) ==
    /\ pc[p] = "prepare"
    /\ Retry(p)
    /\ UNCHANGED <<railVars, dbVars, locks, chain, aborts>>

(* No loadable keypair, or the transaction cannot be signed. *)
PrepareHardFails(p) ==
    /\ pc[p] = "prepare"
    /\ Live
    /\ job' = [job EXCEPT ![p].status = "failed"]
    /\ Goto(p, "strike")
    /\ UNCHANGED <<railVars, dbVars, locks, chain, aborts>>

PrepareSwap(p) ==
    /\ pc[p] = "prepare"
    /\ Live
    /\ \E usable \in BOOLEAN :
        /\ ~usable => "unusable" \in Faults
        /\ job' = [job EXCEPT ![p].usable = usable]
    /\ Goto(p, "send")
    /\ UNCHANGED <<railVars, dbVars, locks, chain, aborts>>

(* _paper_fill: the quote is the fill. *)
PaperFill(p) ==
    /\ pc[p] = "prepare"
    /\ ~Live
    /\ \/ /\ job' = [job EXCEPT ![p].status = "confirmed"]
          /\ Goto(p, "insert")
       \/ /\ "unusable" \in Faults
          /\ job' = [job EXCEPT ![p].status = "failed"]
          /\ Goto(p, "commit")
    /\ UNCHANGED <<railVars, dbVars, locks, chain, aborts>>

Broadcast(t, side, n) ==
    /\ NextTx(t, side, n)
    /\ chain' = [chain EXCEPT ![<<t, side, n>>] = "pending"]

SendAccepted(p) ==
    /\ pc[p] = "send"
    /\ \E n \in TxIds :
        /\ Broadcast(job[p].trade, "buy", n)
        /\ job' = [job EXCEPT ![p] = [@ EXCEPT !.tx = n, !.status = "submitted"]]
    /\ Goto(p, "confirm")
    /\ UNCHANGED <<railVars, dbVars, locks, aborts>>

(* send_transaction raises; with "lost" only its answer was lost. *)
SendRaises(p) ==
    /\ pc[p] = "send"
    /\ Retry(p)
    /\ \/ UNCHANGED chain
       \/ /\ "lost" \in Faults
          /\ \E n \in TxIds : Broadcast(job[p].trade, "buy", n)
    /\ UNCHANGED <<railVars, dbVars, locks, aborts>>

(* A frozen client answers None, which is stored as the signature. *)
SendVoid(p) ==
    /\ pc[p] = "send"
    /\ "void" \in Faults
    /\ job' = [job EXCEPT ![p] = [@ EXCEPT !.tx = 0, !.status = "submitted"]]
    /\ Goto(p, "confirm")
    /\ UNCHANGED <<railVars, dbVars, locks, chain, aborts>>

(* Faulty variant: any status counts as confirmed. *)
TxStateOptimistic(p, side) == IF job[p].tx = 0 THEN "none" ELSE "landed"

TxState(p, side) ==
    IF job[p].tx = 0 THEN "none" ELSE chain[<<job[p].trade, side, job[p].tx>>]

ConfirmLanded(p) ==
    /\ pc[p] = "confirm"
    /\ TxState(p, "buy") = "landed"
    /\ job' = [job EXCEPT ![p].status = IF job[p].usable THEN "confirmed" ELSE "failed"]
    /\ Goto(p, IF job[p].usable THEN "insert" ELSE "cool")
    /\ UNCHANGED <<railVars, dbVars, locks, chain, aborts>>

(* Faulty variants: an unconfirmed buy is tried again; it opens no          *)
(* position.                                                               *)
ConfirmTimeoutRetries(p) ==
    /\ pc[p] = "confirm"
    /\ Retry(p)
    /\ UNCHANGED <<railVars, dbVars, locks, chain, aborts>>
ConfirmTimeoutForgets(p) ==
    /\ pc[p] = "confirm"
    /\ Goto(p, "cool")
    /\ UNCHANGED <<railVars, dbVars, locks, chain, job, aborts>>

(* _confirm is False: an error status, or the deadline, whatever happened  *)
(* to the transaction.  The position is opened from the quote's estimate.  *)
ConfirmGivesUp(p) ==
    /\ pc[p] = "confirm"
    /\ Goto(p, IF job[p].usable THEN "insert" ELSE "cool")
    /\ UNCHANGED <<railVars, dbVars, locks, chain, job, aborts>>

(* _open_position: the flush sends the INSERT. *)
OpenPosition(p) ==
    /\ pc[p] = "insert"
    /\ ~IndexUndecided(p)
    /\ IndexFree(p)
    /\ job' = [job EXCEPT ![p].opened = TRUE]
    /\ Goto(p, IF Live /\ job[p].status = "confirmed" THEN "reward" ELSE "cool")
    /\ UNCHANGED <<railVars, dbVars, locks, chain, aborts>>

(* A session that ends without a commit.  The worker's row was never       *)
(* visible; an approval's row is what it was before.                       *)
RollBack(p) ==
    /\ trades' = IF p = Worker /\ job[p].trade # None
                      /\ trades[job[p].trade].status = "uncommitted"
                   THEN [trades EXCEPT ![job[p].trade].status = "gone"]
                   ELSE trades
    /\ realized' = IF pc[p] \in {"sellTrip", "sellCommit"}
                     THEN [realized EXCEPT ![job[p].trade] = 0]
                     ELSE realized
    /\ Finish(p)

(* IntegrityError out of the flush. *)
OpenPositionRefused(p) ==
    /\ pc[p] = "insert"
    /\ ~IndexUndecided(p)
    /\ ~IndexFree(p)
    /\ RollBack(p)
    /\ UNCHANGED <<railVars, book, exitStatus, locks, chain, aborts>>

RecordSuccess(p) ==
    /\ pc[p] = "reward"
    /\ ClearStreak
    /\ Goto(p, "cool")
    /\ UNCHANGED <<dbVars, locks, chain, job, aborts>>

CoolDown(p) ==
    /\ pc[p] = "cool"
    /\ StartCooldown(job[p].token)
    /\ Goto(p, "commit")
    /\ UNCHANGED <<dbVars, locks, chain, job, aborts>>

GiveUp(p) ==
    /\ pc[p] = "exhausted"
    /\ StartCooldown(job[p].token)
    /\ job' = [job EXCEPT ![p].status = "failed"]
    /\ Goto(p, "strike")
    /\ UNCHANGED <<dbVars, locks, chain, aborts>>

RecordFailure(p) ==
    /\ pc[p] = "strike"
    /\ CountFailure
    /\ Goto(p, IF StreakTrips(streak') THEN "trip" ELSE "commit")
    /\ UNCHANGED <<dbVars, locks, chain, job, aborts>>

TripAfterFailures(p) ==
    /\ pc[p] = "trip"
    /\ TripStop
    /\ Goto(p, "commit")
    /\ UNCHANGED <<dbVars, locks, chain, job, aborts>>

CommitBuy(p) ==
    /\ pc[p] = "commit"
    /\ trades' = [trades EXCEPT ![job[p].trade].status = job[p].status]
    /\ book' = IF job[p].opened THEN [book EXCEPT ![job[p].trade] = "open"] ELSE book
    /\ Finish(p)
    /\ UNCHANGED <<railVars, exitStatus, realized, locks, chain, aborts>>

-----------------------------------------------------------------------------
(* A leader's sell: mirror_sell, in one transaction of the worker.         *)

MirrorSell(leader, token) ==
    \E b \in OpenOn(token) :
        /\ pc[Worker] = "idle"
        /\ trades[b].leader = leader
        /\ \/ Goto(Worker, "sellQuote") /\ locks' = locks \cup {<<token, "sell">>}
           \/ /\ <<token, "sell">> \in locks
              /\ Goto(Worker, "lockedOut") /\ UNCHANGED locks
        /\ job' = [job EXCEPT ![Worker] =
                     [NoJob EXCEPT !.trade = b, !.token = token, !.leader = leader,
                                   !.size = trades[b].size]]
        /\ UNCHANGED <<railVars, dbVars, chain, aborts>>

(* The lock is taken: return None. *)
SellLockedOut ==
    /\ pc[Worker] = "lockedOut"
    /\ Finish(Worker)
    /\ UNCHANGED <<railVars, dbVars, locks, chain, aborts>>

(* Faulty variant: without a price the exit is put off. *)
BookExitLater ==
    /\ pc[Worker] = "sellQuote"
    /\ Goto(Worker, "abandon")
    /\ UNCHANGED <<railVars, dbVars, locks, chain, job, aborts>>

(* In paper mode the exit is booked at the quote or, without one, at the   *)
(* last snapshot price or at nothing; in live mode only without a quote.   *)
BookExit ==
    /\ pc[Worker] = "sellQuote"
    /\ \E value \in Proceeds : job' = [job EXCEPT ![Worker].proceeds = value]
    /\ Goto(Worker, "closing")
    /\ UNCHANGED <<railVars, dbVars, locks, chain, aborts>>

(* Live, with a quote: no attempt, or a simulation of selling tokens that  *)
(* the wallet must hold.                                                   *)
SellNotReady ==
    /\ pc[Worker] = "sellQuote"
    /\ Live
    /\ Goto(Worker, "abandon")
    /\ UNCHANGED <<railVars, dbVars, locks, chain, job, aborts>>

SellReady ==
    /\ pc[Worker] = "sellQuote"
    /\ Live
    /\ Holding(job[Worker].token)
    /\ Goto(Worker, "sellSend")
    /\ UNCHANGED <<railVars, dbVars, locks, chain, job, aborts>>

SellSendAccepted ==
    /\ pc[Worker] = "sellSend"
    /\ \E n \in TxIds :
        /\ Broadcast(job[Worker].trade, "sell", n)
        /\ job' = [job EXCEPT ![Worker].tx = n]
    /\ Goto(Worker, "sellConfirm")
    /\ UNCHANGED <<railVars, dbVars, locks, aborts>>

SellSendRaises ==
    /\ pc[Worker] = "sellSend"
    /\ \/ UNCHANGED chain
       \/ /\ "lost" \in Faults
          /\ \E n \in TxIds : Broadcast(job[Worker].trade, "sell", n)
    /\ Goto(Worker, "abandon")
    /\ UNCHANGED <<railVars, dbVars, locks, job, aborts>>

SellSendVoid ==
    /\ pc[Worker] = "sellSend"
    /\ "void" \in Faults
    /\ Goto(Worker, "sellConfirm")
    /\ UNCHANGED <<railVars, dbVars, locks, chain, job, aborts>>

SellLanded ==
    /\ pc[Worker] = "sellConfirm"
    /\ TxState(Worker, "sell") = "landed"
    /\ \E value \in Proceeds :
        job' = [job EXCEPT ![Worker] = [@ EXCEPT !.proceeds = value, !.onChain = TRUE]]
    /\ Goto(Worker, "closing")
    /\ UNCHANGED <<railVars, dbVars, locks, chain, aborts>>

SellGivesUp ==
    /\ pc[Worker] = "sellConfirm"
    /\ Goto(Worker, "abandon")
    /\ UNCHANGED <<railVars, dbVars, locks, chain, job, aborts>>

(* Not confirmed: release the lock and leave the position open. *)
AbandonSell ==
    /\ pc[Worker] = "abandon"
    /\ locks' = locks \ {<<job[Worker].token, "sell">>}
    /\ Finish(Worker)
    /\ UNCHANGED <<railVars, dbVars, chain, aborts>>

(* The position is closed in the session and record_realized_pnl counts    *)
(* the result in Redis.                                                    *)
ClosePosition ==
    LET result == job[Worker].proceeds - job[Worker].size IN
    /\ pc[Worker] = "closing"
    /\ AddPnl(result)
    /\ realized' = [realized EXCEPT ![job[Worker].trade] = result]
    /\ Goto(Worker, IF LossTrips(pnl') THEN "sellTrip" ELSE "sellCommit")
    /\ UNCHANGED <<trades, book, exitStatus, locks, chain, job, aborts>>

TripAfterLoss ==
    /\ pc[Worker] = "sellTrip"
    /\ TripStop
    /\ Goto(Worker, "sellCommit")
    /\ UNCHANGED <<dbVars, locks, chain, job, aborts>>

CommitSell ==
    LET b == job[Worker].trade IN
    /\ pc[Worker] = "sellCommit"
    /\ book' = [book EXCEPT ![b] = "closed"]
    /\ exitStatus' = [exitStatus EXCEPT ![b] =
                        IF Live /\ ~job[Worker].onChain THEN "approved" ELSE "confirmed"]
    /\ Finish(Worker)
    /\ UNCHANGED <<railVars, trades, realized, locks, chain, aborts>>

-----------------------------------------------------------------------------
(* Everything else: a session that dies, the chain, the clock, the         *)
(* operator.                                                               *)

(* The process crashes, or an await raises (a failed RPC, Redis or         *)
(* database call; a cancelled request) and the session is rolled back.     *)
Abort(p) ==
    /\ pc[p] # "idle"
    /\ aborts < MaxAborts
    /\ aborts' = aborts + 1
    /\ RollBack(p)
    /\ UNCHANGED <<railVars, book, exitStatus, locks, chain>>

(* A transaction lands, a sell only with tokens to sell.  One that errors  *)
(* or expires stays pending: to _confirm both are a False.                 *)
Land(t, side, n) ==
    /\ chain[<<t, side, n>>] = "pending"
    /\ side = "sell" => Holding(trades[t].token)
    /\ chain' = [chain EXCEPT ![<<t, side, n>>] = "landed"]
    /\ UNCHANGED <<railVars, dbVars, locks, pc, job, aborts>>

RailsMove == /\ OperatorMovesRails
             /\ UNCHANGED <<dbVars, locks, chain, pc, job, aborts>>

DayChanges == /\ NextDay
              /\ realized' = [t \in Trades |-> 0]
              /\ UNCHANGED <<trades, book, exitStatus, locks, chain, pc, job, aborts>>

-----------------------------------------------------------------------------
(* The steps of a running buy session. *)
BuyStep(p) ==
    \/ GateReads(p) \/ ApprovalPasses(p) \/ ApprovalBlocks(p)
    \/ GatePasses(p) \/ GateBlocks(p)
    \/ PrepareFails(p) \/ PrepareHardFails(p) \/ PrepareSwap(p) \/ PaperFill(p)
    \/ SendAccepted(p) \/ SendRaises(p) \/ SendVoid(p)
    \/ ConfirmLanded(p) \/ ConfirmGivesUp(p)
    \/ OpenPosition(p) \/ OpenPositionRefused(p)
    \/ RecordSuccess(p) \/ CoolDown(p)
    \/ GiveUp(p) \/ RecordFailure(p) \/ TripAfterFailures(p)
    \/ CommitBuy(p)

(* The steps of a running sell session. *)
SellStep ==
    \/ SellLockedOut
    \/ BookExit \/ SellNotReady \/ SellReady
    \/ SellSendAccepted \/ SellSendRaises \/ SellSendVoid
    \/ SellLanded \/ SellGivesUp \/ AbandonSell
    \/ ClosePosition \/ TripAfterLoss \/ CommitSell

EvaluationLooks == EvaluationReads \/ EvaluationPasses \/ EvaluationBlocks
EntryStep == \/ EvaluationLooks
             \/ DecideBuy \/ ExecuteBuyLockedOut \/ (\E t \in Trades : ExecuteBuy(t))

WorkerStep == EntryStep \/ BuyStep(Worker) \/ SellStep

LeaderTrades == \E leader \in Leaders, token \in Tokens :
    \/ \E want \in Wants : EvaluateBuy(leader, token, want)
    \/ MirrorSell(leader, token)

OperatorDecides == \E p \in Approvers, t \in Trades : ApproveTrade(p, t)

ChainMoves == \E t \in Trades, side \in Sides, n \in TxIds :
    Land(t, side, n)

Next ==
    \/ LeaderTrades
    \/ WorkerStep
    \/ OperatorDecides
    \/ \E p \in Approvers : BuyStep(p)
    \/ \E p \in Procs : Abort(p)
    \/ ChainMoves
    \/ RailsMove \/ DayChanges

Spec == Init /\ [][Next]_vars

(* Every call of a session returns: each has a timeout and a bounded       *)
(* number of retries.  Nothing is assumed of the leaders, the operator,    *)
(* the chain or the expiry of a key.                                       *)
SessionFairness == /\ WF_vars(WorkerStep)
                   /\ \A p \in Approvers : WF_vars(BuyStep(p))

FairSpec == Spec /\ SessionFairness
=============================================================================
