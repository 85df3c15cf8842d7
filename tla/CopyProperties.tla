--------------------------- MODULE CopyProperties ---------------------------
(***************************************************************************)
(* What copy-trade execution must guarantee.  A property whose hypothesis  *)
(* is about Faults, ApprovalMode or aborts says under which conditions the *)
(* code keeps it; the violation runs and the README say what happens       *)
(* without them.                                                           *)
(***************************************************************************)
EXTENDS CopyExecution

Running(p) == pc[p] # "idle"
Buying(p) == pc[p] \in BuyLabels

(* Past the last look at the safety rails, with money still to be spent. *)
PastGate(p) == pc[p] \in {"prepare", "send", "confirm", "insert"}

(* A position row, committed or about to be, or a session that will write  *)
(* one or decide not to.                                                   *)
Accounted(t) == book[t] # "none" \/ \E p \in Procs : Buying(p) /\ job[p].trade = t

ClosedTrades == {t \in Trades : book[t] = "closed"}

-----------------------------------------------------------------------------
(* At any moment a token has at most one open copy position, sessions that *)
(* have inserted and not committed included, so that a leader's sell       *)
(* closes an unambiguous position (uq_copy_positions_open_token,           *)
(* models.py:580; mirror_sell reads one row or none).                      *)
OneOpenPosition ==
    /\ \A t, u \in OpenTrades : t # u => trades[t].token # trades[u].token
    /\ \A p \in Procs : job[p].opened => OpenOn(job[p].token) = {}
    /\ \A p, q \in Procs : p # q /\ job[p].opened /\ job[q].opened
                              => job[p].token # job[q].token

(* Two sessions never execute the same copy_trades row: the row lock and   *)
(* the status check of approve_trade serialise approvals, and the worker   *)
(* never touches a row once it is visible (copytrading.py:199).            *)
OneSessionPerTrade ==
    \A p, q \in Procs : p # q /\ Buying(p) /\ Buying(q) /\ job[p].trade # None
                           => job[p].trade # job[q].trade

(* The gate reads its rails one after the other, so it may pass although   *)
(* some rail blocked at every moment of the look (the stop read before it  *)
(* is set, the streak after it is cleared).  Each rail alone holds: while  *)
(* the stop, the streak or the day's loss blocks, the SOL in open          *)
(* positions and in sessions that have read past that rail does not grow,  *)
(* whatever is approved, retried, committed, closed or rolled back         *)
(* meanwhile (safety.py:57-82, executor.py:128).                           *)
PastRail(rail) == {p \in Procs : \/ PastGate(p) \/ job[p].opened
                                 \/ pc[p] = "gate" /\ job[p].read > rail}
AtRisk(rail) == Exposure + SumOver([p \in Procs |-> job[p].size], PastRail(rail))
NoNewRisk ==
    [][\A rail \in HaltRails :
         Blocks(rail) /\ Blocks(rail)' => AtRisk(rail)' <= AtRisk(rail)]_vars

(* A streak that reaches the limit leaves the emergency stop set, or about *)
(* to be set by the session that counted the last failure, unless a        *)
(* session died between the two writes (record_execution_result).          *)
StreakTripsStop ==
    aborts = 0 /\ streak >= MaxStreak => stop \/ \E p \in Procs : pc[p] = "trip"

(* Without approvals the worker is the only one that opens positions, one  *)
(* at a time: what it opens stays within copy_max_exposure_sol, although   *)
(* the size was fixed before the rug assessment and the execution, and a   *)
(* leader's sell is handled in between (sizing.py:38, safety.py:80).       *)
ExposureWithinLimit ==
    ~ApprovalMode =>
        Exposure + SumOver([p \in Procs |-> job[p].size], {p \in Procs : job[p].opened})
            <= MaxExposure

(* With approvals several sessions pass the gate on the same exposure, and *)
(* the gate does not ask for the size that is about to be added: what is   *)
(* open and what is on its way exceed the limit by less than one trade per *)
(* approval that runs, and never by more (safety.py:80, api/copytrading.py *)
(* approve_trade; the size is the one fixed at the evaluation).            *)
OnItsWay == {p \in Procs : PastGate(p) \/ job[p].opened}
ExposureOvershoot ==
    ApprovalMode =>
        Exposure + SumOver([p \in Procs |-> job[p].size], OnItsWay)
            < MaxExposure + Cardinality(Approvers) * Max(Wants)

(* The day's counter in Redis is the sum of what the positions closed      *)
(* today realized: no exit is counted twice or missed, as long as no       *)
(* session died between the INCRBY and its commit (executor.py:270).       *)
LossCounterExact ==
    aborts = 0 => pnl = SumOver(realized, Trades)

(* "Once a transaction has been broadcast we MUST NOT retry"               *)
(* (executor.py:161): a trade has at most one buy on the chain.  It holds  *)
(* for the worker on its own, retries, frozen clients and dying sessions   *)
(* included, when the answer to a send is never lost.                      *)
OneBroadcastPerTrade == \A t \in Trades : Cardinality(Sent(t, "buy")) <= 1
WorkerBroadcastsOnce ==
    "lost" \notin Faults /\ ~ApprovalMode => OneBroadcastPerTrade

(* When answers are lost, a trade is bought more than once, but never more *)
(* often than there are attempts: what was broadcast is not repeated once  *)
(* an attempt knows of it, and neither a death of the session nor another  *)
(* message starts the attempts again (executor.py:134, 347).               *)
BroadcastsWithinAttempts ==
    ~ApprovalMode => \A t \in Trades : Cardinality(Sent(t, "buy")) <= MaxAttempts

(* A buy that is on the chain, landed or not, has a position or a session  *)
(* still working on it, so the spent SOL can be sold again                 *)
(* (executor.py:354: "an untracked position can never be mirror-sold").    *)
(* It holds for the worker on its own, with usable quotes, answers that    *)
(* are not lost and sessions that do not die.                              *)
BroadcastIsAccounted ==
    \A t \in Trades : Sent(t, "buy") # {} => Accounted(t)
WorkerAccountsForBroadcasts ==
    Faults \cap {"lost", "unusable"} = {} /\ aborts = 0 /\ ~ApprovalMode
        => BroadcastIsAccounted

(* A trade or an exit recorded as confirmed in live mode did land, whatever *)
(* was lost, retried or frozen in between (executor.py:378, 447).           *)
ConfirmedHasLanded ==
    Live => \A t \in Trades :
        /\ trades[t].status = "confirmed" => Landed(t, "buy") # {}
        /\ exitStatus[t] = "confirmed" => Landed(t, "sell") # {}

(* The books implement CopyBook: per token, flat or held by one entry      *)
(* trade, and no trade's position is opened twice, although an approval    *)
(* that fails late leaves its trade to be approved again.                  *)
Only(S) == IF S = {} THEN None ELSE CHOOSE t \in S : TRUE
Books == INSTANCE CopyBook WITH
    Entries <- Trades,
    holder <- [token \in Tokens |-> Only(OpenOn(token))],
    done <- ClosedTrades
ImplementsCopyBook == Books!Spec

-----------------------------------------------------------------------------
(* Every session ends, whatever its calls answer and however sessions wait *)
(* for each other's rows: the worker always comes back to the feed.        *)
SessionsEnd == \A p \in Procs : Running(p) ~> ~Running(p)

(* In paper mode the leader's sell, once it has the lock, closes the       *)
(* position, unless the session dies (mirror_sell never leaves a paper     *)
(* position open).                                                         *)
PaperSellCloses ==
    ~Live => \A t \in Trades :
        (pc[Worker] = "sellQuote" /\ job[Worker].trade = t)
            ~> (book[t] = "closed" \/ aborts > 0)
=============================================================================
