--------------------------- MODULE CopyInvariant ---------------------------
(***************************************************************************)
(* The inductive invariants behind the safety properties of copy-trade     *)
(* execution: what a session's program counter says about its row, and a   *)
(* row's status about its position.                                        *)
(***************************************************************************)
EXTENDS CopyProperties

(* Sessions that own a copy_trades row, and those that may still send. *)
EntryLabels == {"evaluating", "evaluated", "claim"}
RowLabels == BuyLabels \ EntryLabels
HasRow(p) == pc[p] \in RowLabels
BeforeSend(p) == pc[p] \in {"approving", "gate", "prepare", "send"}
Selling(p) == pc[p] \in SellLabels

(* The status a session's row has for everyone else. *)
OutsideStatus(p) == IF p = Worker THEN "uncommitted" ELSE "pending_approval"

-----------------------------------------------------------------------------
(* A row that exists has a token; a position belongs to a committed buy.   *)
RowsShape == \A t \in Trades :
    /\ trades[t].status # "none" => trades[t].token \in Tokens
    /\ book[t] # "none" => trades[t].status \in {"submitted", "confirmed"}

(* What a session works on. *)
SessionToken(p) == /\ Running(p) => job[p].token \in Tokens
                   /\ p # Worker => ~Running(p) \/ HasRow(p)
                   /\ pc[p] = "approving" => p # Worker
                   /\ ~Running(p) => job[p] = NoJob
SessionEntry(p) ==
    pc[p] \in EntryLabels => job[p].trade = None /\ ~job[p].opened
SessionRow(p) ==
    HasRow(p) => /\ job[p].trade \in Trades
                 /\ trades[job[p].trade].token = job[p].token
                 /\ trades[job[p].trade].status = OutsideStatus(p)
SessionPosition(p) ==
    /\ pc[p] = "confirm" => job[p].status = "submitted"
    /\ pc[p] = "insert" => job[p].status \in {"submitted", "confirmed"}
    /\ job[p].opened => /\ pc[p] \in {"reward", "cool", "commit"}
                        /\ job[p].status \in {"submitted", "confirmed"}
SessionExit(p) ==
    Selling(p) => /\ job[p].trade \in Trades
                  /\ book[job[p].trade] = "open"
                  /\ trades[job[p].trade].token = job[p].token
                  /\ ~job[p].opened

SessionsShape == \A p \in Procs :
    /\ SessionToken(p) /\ SessionEntry(p) /\ SessionRow(p)
    /\ SessionPosition(p) /\ SessionExit(p)

(* The inductive invariant behind OneOpenPosition and OneSessionPerTrade:  *)
(* a row is visible to others in the one status its session expects (the   *)
(* worker's row is invisible, an approval's is locked while pending), and  *)
(* a committed position belongs to a bought row.                           *)
ShapeInv == TypeOK /\ RowsShape /\ SessionsShape
BooksInv == ShapeInv /\ OneOpenPosition /\ OneSessionPerTrade

(* Behind ConfirmedHasLanded: a session about to record a confirmation has *)
(* seen it.                                                                *)
SeenLanded(p) ==
    /\ HasRow(p) /\ job[p].status = "confirmed" => Landed(job[p].trade, "buy") # {}
    /\ Selling(p) /\ job[p].onChain => Landed(job[p].trade, "sell") # {}
LandedInv == /\ ConfirmedHasLanded
             /\ Live => \A p \in Procs : SeenLanded(p)

(* Behind WorkerBroadcastsOnce and WorkerAccountsForBroadcasts: a session  *)
(* that may still send has sent nothing.                                   *)
SingleSend ==
    "lost" \notin Faults /\ ~ApprovalMode =>
        /\ \A t \in Trades : /\ trades[t].status # "pending_approval"
                             /\ trades[t].status = "none" => Sent(t, "buy") = {}
                             /\ \A m, n \in Sent(t, "buy") : m = n
        /\ \A p \in Procs : /\ Running(p) => p = Worker
                            /\ BeforeSend(p) => Sent(job[p].trade, "buy") = {}
                            /\ HasRow(p) => job[p].status \notin {"none", "pending_approval"}

(* Without approvals the worker is alone, and no row waits for one.        *)
WorkerAlone ==
    ~ApprovalMode =>
        /\ \A t \in Trades : trades[t].status # "pending_approval"
        /\ \A p \in Procs : /\ Running(p) => p = Worker
                            /\ HasRow(p) => job[p].status \notin {"none", "pending_approval"}

(* Behind BroadcastsWithinAttempts: a session that may still send has sent *)
(* less often than it has begun an attempt, and a row not yet taken never. *)
AttemptsCounted ==
    ~ApprovalMode =>
        /\ \A t \in Trades : trades[t].status = "none" => Sent(t, "buy") = {}
        /\ \A p \in Procs :
            /\ pc[p] \in {"approving", "gate"} => Sent(job[p].trade, "buy") = {}
            /\ pc[p] \in {"prepare", "send"} =>
                 Cardinality(Sent(job[p].trade, "buy")) < job[p].attempt
        /\ BroadcastsWithinAttempts

(* Behind LossCounterExact: what is counted belongs to a closed position,  *)
(* or to the one whose closing is about to be committed.                   *)
Recording(p) == pc[p] \in {"sellTrip", "sellCommit"}
ResultsBooked ==
    /\ \A t \in Trades : realized[t] # 0 =>
         book[t] = "closed" \/ (Recording(Worker) /\ job[Worker].trade = t)
    /\ LossCounterExact

(* Behind ExposureWithinLimit: the size fixed at the evaluation still fits *)
(* however long the session takes, and it is the size of the row.          *)
ExposureInv ==
    ~ApprovalMode =>
        /\ Exposure <= MaxExposure
        /\ Buying(Worker) => Exposure + job[Worker].size <= MaxExposure
        /\ HasRow(Worker) => trades[job[Worker].trade].size = job[Worker].size

(* Behind ExposureOvershoot: the worker, which only asks for approvals,    *)
(* spends nothing; every size is one that was wanted, and a session works  *)
(* with the size of its row.                                               *)
RowSizes(p) ==
    /\ job[p].size <= Max(Wants)
    /\ HasRow(p) => trades[job[p].trade].size = job[p].size
OvershootInv ==
    ApprovalMode =>
        /\ HasRow(Worker) => pc[Worker] = "commit" /\ ~job[Worker].opened
        /\ \A t \in Trades : trades[t].size <= Max(Wants)
        /\ \A p \in Procs : RowSizes(p)
        /\ ExposureOvershoot

(* Behind NoNewRisk: a session works with the size of its row, and begins  *)
(* the last look at the rails with the first read.                         *)
GateSized(p) ==
    /\ HasRow(p) => trades[job[p].trade].size = job[p].size
    /\ pc[p] \in {"evaluated", "claim"} => job[p].read = 1
RiskInv == \A p \in Procs : GateSized(p)

(* Behind WorkerAccountsForBroadcasts: a session that has sent is waiting  *)
(* for the confirmation, about to insert the position or has inserted it,  *)
(* and the unique index cannot refuse the insert.                          *)
AccountInv ==
    Faults \cap {"lost", "unusable"} = {} /\ aborts = 0 /\ ~ApprovalMode =>
        /\ \A t \in Trades : Sent(t, "buy") # {} =>
             book[t] # "none" \/ (Buying(Worker) /\ job[Worker].trade = t)
        /\ HasRow(Worker) /\ pc[Worker] \notin {"confirm", "insert"} =>
             job[Worker].opened \/ Sent(job[Worker].trade, "buy") = {}
        /\ pc[Worker] \in {"send", "confirm"} => job[Worker].usable
        /\ Buying(Worker) /\ pc[Worker] \notin {"evaluating", "evaluated"} =>
             OpenOn(job[Worker].token) = {}
=============================================================================
