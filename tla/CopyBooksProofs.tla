-------------------------- MODULE CopyBooksProofs ---------------------------
(*****************************************************************************)
(* The books of copy-trade execution: types, one open position per token,   *)
(* one session per row, and the refinement of CopyBook; for any number of   *)
(* tokens, rows and approval requests, in paper and live mode, under every  *)
(* fault. The steps in the middle of a session are proved together          *)
(* (MidStep); the ones that touch a row, a position or the set of running   *)
(* sessions have a lemma each.                                              *)
(*****************************************************************************)
EXTENDS CopyInvariant, TLAPS

-----------------------------------------------------------------------------
(* Types.                                                                   *)

Labels == {"idle"} \cup BuyLabels \cup SellLabels

(* The locals of an idle process are locals.                               *)
LEMMA NoJobType == NoJob \in Job
  BY Parameters DEF Parameters, NoJob, Job, TradeStatus, BooksRead

(* The initial state is well typed.                                        *)
LEMMA TypeInit == Init => TypeOK
<1> SUFFICES ASSUME Init PROVE TypeOK
  OBVIOUS
<1>1. NoRow \in Row
  BY DEF NoRow, Row, TradeStatus
<1>2. RailsType
  <2>1. streak \in Nat /\ pnl \in Int
    BY DEF Init, RailsInit
  <2>2. stop \in BOOLEAN /\ cooldown \subseteq Tokens
    BY Zenon DEF Init, RailsInit
  <2>. QED BY <2>1, <2>2 DEF RailsType
<1>3. trades \in [Trades -> Row] /\ job \in [Procs -> Job]
  BY <1>1, NoJobType DEF Init
<1>4. aborts \in 0..MaxAborts
  BY Parameters DEF Init, Parameters
<1>5. realized \in [Trades -> Int] /\ locks \subseteq Tokens \X Sides
  BY DEF Init
<1>6. book \in [Trades -> {"none", "open", "closed"}]
  BY DEF Init
<1>7. exitStatus \in [Trades -> {"none", "approved", "confirmed"}]
  BY DEF Init
<1>8. chain \in [Trades \X Sides \X TxIds -> {"none", "pending", "landed"}]
  BY DEF Init
<1>9. pc \in [Procs -> {"idle"} \cup BuyLabels \cup SellLabels]
  BY DEF Init
<1>. QED BY <1>2, <1>3, <1>4, <1>5, <1>6, <1>7, <1>8, <1>9 DEF TypeOK

(* The gate has a first read.                                              *)
LEMMA FirstRead == 1 \in 1..BooksRead
  BY DEF BooksRead

(* Every assignment of a session keeps its locals well typed.              *)
LEMMA JobUpdate ==
  ASSUME NEW j \in Job
  PROVE  /\ \A a \in 0..MaxAttempts : [j EXCEPT !.attempt = a] \in Job
         /\ \A s \in TradeStatus : [j EXCEPT !.status = s] \in Job
         /\ \A u \in BOOLEAN : [j EXCEPT !.usable = u] \in Job
         /\ \A n \in TxIds \cup {0} : [j EXCEPT !.tx = n] \in Job
         /\ \A n \in TxIds \cup {0}, s \in TradeStatus : [j EXCEPT !.tx = n, !.status = s] \in Job
         /\ \A o \in BOOLEAN : [j EXCEPT !.opened = o] \in Job
         /\ \A v \in Nat : [j EXCEPT !.proceeds = v] \in Job
         /\ \A v \in Nat, o \in BOOLEAN : [j EXCEPT !.proceeds = v, !.onChain = o] \in Job
         /\ \A t \in Trades, s \in TradeStatus : [j EXCEPT !.trade = t, !.status = s] \in Job
         /\ \A token \in Tokens, leader \in Leaders, size \in Sizes :
              [j EXCEPT !.token = token, !.leader = leader, !.size = size] \in Job
         /\ \A r \in 1..BooksRead : [j EXCEPT !.read = r] \in Job
         /\ \A r \in 1..BooksRead, a \in 0..MaxAttempts :
              [j EXCEPT !.read = r, !.attempt = a] \in Job
         /\ \A r \in 1..BooksRead, s \in TradeStatus :
              [j EXCEPT !.read = r, !.status = s] \in Job
<1>1. \A a \in 0..MaxAttempts : [j EXCEPT !.attempt = a] \in Job
  BY DEF Job
<1>2. \A s \in TradeStatus : [j EXCEPT !.status = s] \in Job
  BY DEF Job
<1>3. \A u \in BOOLEAN : [j EXCEPT !.usable = u] \in Job
  BY DEF Job
<1>4. \A n \in TxIds \cup {0} : [j EXCEPT !.tx = n] \in Job
  BY DEF Job
<1>5. \A n \in TxIds \cup {0}, s \in TradeStatus : [j EXCEPT !.tx = n, !.status = s] \in Job
  BY DEF Job
<1>6. \A o \in BOOLEAN : [j EXCEPT !.opened = o] \in Job
  BY DEF Job
<1>7. \A v \in Nat : [j EXCEPT !.proceeds = v] \in Job
  BY DEF Job
<1>8. \A v \in Nat, o \in BOOLEAN : [j EXCEPT !.proceeds = v, !.onChain = o] \in Job
  BY DEF Job
<1>9. \A t \in Trades, s \in TradeStatus : [j EXCEPT !.trade = t, !.status = s] \in Job
  BY DEF Job
<1>10. \A token \in Tokens, leader \in Leaders, size \in Sizes :
         [j EXCEPT !.token = token, !.leader = leader, !.size = size] \in Job
  BY DEF Job
<1>11. \A r \in 1..BooksRead : [j EXCEPT !.read = r] \in Job
  BY DEF Job
<1>12. \A r \in 1..BooksRead, a \in 0..MaxAttempts : [j EXCEPT !.read = r, !.attempt = a] \in Job
  BY DEF Job
<1>13. \A r \in 1..BooksRead, s \in TradeStatus : [j EXCEPT !.read = r, !.status = s] \in Job
  BY DEF Job
<1>. QED BY <1>1, <1>2, <1>3, <1>4, <1>5, <1>6, <1>7, <1>8, <1>9, <1>10, <1>11, <1>12, <1>13

(* A session that ends leaves well typed processes.                        *)
LEMMA TypeFinish ==
  ASSUME TypeOK, NEW p \in Procs, Finish(p)
  PROVE  /\ pc' \in [Procs -> Labels]
         /\ job' \in [Procs -> Job]
  BY NoJobType DEF TypeOK, Finish, Goto, Labels

(* The next attempt, or the end of the attempts, is well typed.            *)
LEMMA TypeRetry ==
  ASSUME TypeOK, NEW p \in Procs, Retry(p)
  PROVE  /\ pc' \in [Procs -> Labels]
         /\ job' \in [Procs -> Job]
<1>1. pc' \in [Procs -> Labels]
  BY DEF TypeOK, Retry, Goto, Labels, BuyLabels
<1>2. CASE job[p].attempt < MaxAttempts
  <2>1. job[p] \in Job /\ job \in [Procs -> Job]
    BY DEF TypeOK
  <2>2. job[p].attempt + 1 \in 0..MaxAttempts
    BY <1>2, <2>1, Parameters DEF Job, Parameters
  <2>3. [job[p] EXCEPT !.attempt = @ + 1] \in Job
    BY <2>1, <2>2, JobUpdate
  <2> QED BY <1>1, <1>2, <2>1, <2>3 DEF Retry
<1>3. CASE ~ (job[p].attempt < MaxAttempts)
  BY <1>1, <1>3 DEF Retry, TypeOK
<1> QED BY <1>2, <1>3

(* A rollback is well typed.                                               *)
LEMMA TypeRollBack ==
  ASSUME TypeOK, NEW p \in Procs, RollBack(p)
  PROVE  /\ pc' \in [Procs -> Labels]
         /\ job' \in [Procs -> Job]
         /\ trades' \in [Trades -> Row]
         /\ realized' \in [Trades -> Int]
<1>1. trades' \in [Trades -> Row]
  <2>1. \A r \in Row : [r EXCEPT !.status = "gone"] \in Row
    BY DEF Row, TradeStatus
  <2>2. trades \in [Trades -> Row] /\ job[p].trade \in Trades \cup {None}
    BY DEF TypeOK, Job
  <2>. QED BY <2>1, <2>2 DEF RollBack
<1>2. realized' \in [Trades -> Int]
  <2>1. \A t \in Trades : [realized EXCEPT ![t] = 0] \in [Trades -> Int]
    BY DEF TypeOK
  <2>2. realized' = realized \/ \E t : realized' = [realized EXCEPT ![t] = 0]
    BY DEF RollBack
  <2>. QED BY <2>1, <2>2 DEF TypeOK
<1>. QED BY <1>1, <1>2, TypeFinish DEF RollBack

(* Every method of the safety rails keeps them well typed.                 *)
LEMMA TypeRails ==
  ASSUME RailsType
  PROVE  /\ \A t \in Tokens : StartCooldown(t) => RailsType'
         /\ \A r, t : RailClear(r, t) => RailsType'
         /\ \A a \in Int : AddPnl(a) => RailsType'
         /\ ClearStreak => RailsType'
         /\ CountFailure => RailsType'
         /\ TripStop => RailsType'
         /\ ClearStop => RailsType'
         /\ NextDay => RailsType'
         /\ UNCHANGED railVars => RailsType'
<1>1. \A t \in Tokens : StartCooldown(t) => RailsType'
  BY DEF RailsType, StartCooldown
<1>2. \A r, t : RailClear(r, t) => RailsType'
  BY DEF RailsType, RailClear, CooldownOver, railVars
<1>3. \A a \in Int : AddPnl(a) => RailsType'
  BY DEF RailsType, AddPnl
<1>4. ClearStreak => RailsType'
  <2>1. ClearStreak => streak' \in Nat /\ pnl' \in Int
    BY DEF RailsType, ClearStreak
  <2>. QED BY <2>1, Zenon DEF RailsType, ClearStreak
<1>5. CountFailure => RailsType'
  BY DEF RailsType, CountFailure
<1>6. TripStop => RailsType'
  BY DEF RailsType, TripStop
<1>7. ClearStop => RailsType'
  <2>1. ClearStop => streak' \in Nat /\ pnl' \in Int
    BY DEF RailsType, ClearStop
  <2>. QED BY <2>1, Zenon DEF RailsType, ClearStop
<1>8. NextDay => RailsType'
  BY DEF RailsType, NextDay
<1>9. UNCHANGED railVars => RailsType'
  BY DEF RailsType, railVars
<1>. QED BY <1>1, <1>2, <1>3, <1>4, <1>5, <1>6, <1>7, <1>8, <1>9


(* A read of the gate changes nothing but the session's place in the gate,  *)
(* and a cooldown that is over.                                            *)
LEMMA ReadOnly ==
  ASSUME TypeOK, NEW p \in Procs, ReadClear(p)
  PROVE  /\ \A q \in Procs \ {p} : job'[q] = job[q]
         /\ job'[p] = [job[p] EXCEPT !.read = job[p].read + 1]
         /\ job' \in [Procs -> Job] /\ pc' = pc
         /\ job'[p].trade = job[p].trade /\ job'[p].token = job[p].token
         /\ job'[p].size = job[p].size /\ job'[p].attempt = job[p].attempt
         /\ job'[p].status = job[p].status /\ job'[p].opened = job[p].opened
         /\ job'[p].usable = job[p].usable /\ job'[p].onChain = job[p].onChain
         /\ job'[p].tx = job[p].tx /\ job'[p].proceeds = job[p].proceeds
         /\ job'[p].read = job[p].read + 1
         /\ stop' = stop /\ streak' = streak /\ pnl' = pnl /\ RailsType'
         /\ dbVars' = dbVars /\ locks' = locks /\ chain' = chain /\ aborts' = aborts
<1>1. job[p] \in Job /\ job \in [Procs -> Job] /\ RailsType
  BY DEF TypeOK
<1>2. job[p].read + 1 \in 1..BooksRead
  BY <1>1 DEF ReadClear, Job, BooksRead
<1>3. job' = [job EXCEPT ![p] = [job[p] EXCEPT !.read = job[p].read + 1]]
  BY DEF ReadClear
<1>4. job' \in [Procs -> Job]
  BY <1>1, <1>2, <1>3, JobUpdate
<1>5. job'[p] = [job[p] EXCEPT !.read = job[p].read + 1] /\ \A q \in Procs \ {p} : job'[q] = job[q]
  BY <1>1, <1>3
<1>6. stop' = stop /\ streak' = streak /\ pnl' = pnl /\ RailsType'
  BY <1>1, TypeRails DEF ReadClear, RailClear, CooldownOver, railVars
<1>7. /\ job'[p].trade = job[p].trade /\ job'[p].token = job[p].token
      /\ job'[p].size = job[p].size /\ job'[p].attempt = job[p].attempt
      /\ job'[p].status = job[p].status /\ job'[p].opened = job[p].opened
      /\ job'[p].usable = job[p].usable /\ job'[p].onChain = job[p].onChain
      /\ job'[p].tx = job[p].tx /\ job'[p].proceeds = job[p].proceeds
      /\ job'[p].read = job[p].read + 1
  BY <1>1, <1>5 DEF Job
<1>. QED BY <1>4, <1>5, <1>6, <1>7 DEF ReadClear, dbVars

(* A running session's token, when it takes a step. *)
LEMMA StepToken ==
  ASSUME SessionsShape, NEW p \in Procs, Running(p)
  PROVE  job[p].token \in Tokens
  BY DEF SessionsShape, SessionToken

(* The worker and every approval request are processes.                    *)
LEMMA WorkerIsProc == Worker \in Procs /\ \A p \in Approvers : p \in Procs
  BY DEF Procs

(* Replacing the locals of one process.                                    *)
LEMMA SingleUpdate ==
  ASSUME TypeOK, NEW p \in Procs, NEW j \in Job
  PROVE  [job EXCEPT ![p] = j] \in [Procs -> Job]
  BY DEF TypeOK

(* What starts a session keeps the types.                                  *)
LEMMA TypeStart ==
  ASSUME TypeOK, LeaderTrades \/ OperatorDecides
  PROVE  TypeOK'
<1>1. ASSUME NEW leader \in Leaders, NEW token \in Tokens, NEW want \in Wants,
             EvaluateBuy(leader, token, want)
      PROVE  TypeOK'
  <2>1. job' \in [Procs -> Job]
    <3>1. PICK size \in Sizes :
            job' = [job EXCEPT ![Worker] =
                      [NoJob EXCEPT !.token = token, !.leader = leader, !.size = size]]
      BY <1>1 DEF EvaluateBuy
    <3>2. [NoJob EXCEPT !.token = token, !.leader = leader, !.size = size] \in Job
      BY NoJobType, JobUpdate
    <3>. QED BY <3>1, <3>2, SingleUpdate, WorkerIsProc
  <2>2. pc' \in [Procs -> Labels]
    BY <1>1 DEF EvaluateBuy, TypeOK, Goto, Labels, BuyLabels
  <2>3. RailsType'
    BY <1>1, TypeRails DEF EvaluateBuy, TypeOK
  <2>. QED BY <1>1, <2>1, <2>2, <2>3 DEF EvaluateBuy, TypeOK, dbVars, Labels
<1>2. ASSUME NEW leader \in Leaders, NEW token \in Tokens, MirrorSell(leader, token)
      PROVE  TypeOK'
  <2>1. PICK b \in Trades :
          job' = [job EXCEPT ![Worker] =
                    [NoJob EXCEPT !.trade = b, !.token = token, !.leader = leader,
                                  !.size = trades[b].size]]
    BY <1>2 DEF MirrorSell, OpenOn, OpenTrades
  <2>2. trades[b].size \in Sizes \cup {0}
    BY DEF TypeOK, Row
  <2>3. [NoJob EXCEPT !.trade = b, !.token = token, !.leader = leader,
                      !.size = trades[b].size] \in Job
    BY <2>2, NoJobType DEF Job
  <2>4. job' \in [Procs -> Job]
    BY <2>1, <2>3, SingleUpdate, WorkerIsProc
  <2>5. pc' \in [Procs -> Labels]
    BY <1>2 DEF MirrorSell, TypeOK, Goto, Labels, SellLabels
  <2>6. locks' \subseteq Tokens \X Sides
    BY <1>2 DEF MirrorSell, TypeOK, Sides
  <2>7. RailsType'
    BY <1>2, TypeRails DEF MirrorSell, TypeOK
  <2>. QED BY <1>2, <2>4, <2>5, <2>6, <2>7 DEF MirrorSell, TypeOK, dbVars, Labels
<1>3. ASSUME NEW p \in Approvers, NEW t \in Trades, ApproveTrade(p, t)
      PROVE  TypeOK'
  <2>1. p \in Procs /\ trades[t].token \in Tokens \cup {None}
        /\ trades[t].leader \in Leaders \cup {None} /\ trades[t].size \in Sizes \cup {0}
    BY WorkerIsProc DEF TypeOK, Row
  <2>2. [NoJob EXCEPT !.trade = t, !.token = trades[t].token, !.leader = trades[t].leader,
                      !.size = trades[t].size, !.status = "pending_approval"] \in Job
    BY <2>1, NoJobType DEF Job, TradeStatus
  <2>3. job' \in [Procs -> Job]
    BY <1>3, <2>1, <2>2, SingleUpdate DEF ApproveTrade
  <2>4. pc' \in [Procs -> Labels]
    BY <1>3, <2>1 DEF ApproveTrade, TypeOK, Goto, Labels, BuyLabels
  <2>5. RailsType'
    BY <1>3, TypeRails DEF ApproveTrade, TypeOK
  <2>. QED BY <1>3, <2>3, <2>4, <2>5 DEF ApproveTrade, TypeOK, dbVars, Labels
<1>. QED BY <1>1, <1>2, <1>3 DEF LeaderTrades, OperatorDecides

(* What the worker does before it has a row keeps the types.               *)
LEMMA TypeEntry ==
  ASSUME TypeOK, SessionsShape, EntryStep
  PROVE  TypeOK'
<1>1. CASE DecideBuy
  BY <1>1, TypeFinish, TypeRails DEF DecideBuy, TypeOK, dbVars, Goto, Labels,
     BuyLabels, Procs
<1>2. CASE ExecuteBuyLockedOut
  BY <1>2, TypeFinish, TypeRails DEF ExecuteBuyLockedOut, TypeOK, dbVars, Labels,
     Procs
<1>3. ASSUME NEW t \in Trades, ExecuteBuy(t) PROVE TypeOK'
  <2>1. job[Worker] \in Job /\ job[Worker].token \in Tokens
    BY <1>3, WorkerIsProc, StepToken DEF ExecuteBuy, TypeOK, Running
  <2>2. trades' \in [Trades -> Row]
    BY <1>3, <2>1 DEF ExecuteBuy, TypeOK, Row, Job, TradeStatus
  <2>3. locks' \subseteq Tokens \X Sides
    BY <1>3, <2>1 DEF ExecuteBuy, TypeOK, Sides
  <2>4. job' \in [Procs -> Job]
    BY <1>3, <2>1, JobUpdate, SingleUpdate, WorkerIsProc DEF ExecuteBuy, TypeOK,
       TradeStatus
  <2>5. pc' \in [Procs -> Labels]
    BY <1>3 DEF ExecuteBuy, TypeOK, Goto, Labels, BuyLabels
  <2>. QED BY <1>3, <2>2, <2>3, <2>4, <2>5, TypeRails DEF ExecuteBuy, TypeOK, Labels
<1>4. CASE EvaluationReads
  <2>1. ReadClear(Worker)
    BY <1>4 DEF EvaluationReads
  <2>2. /\ job' \in [Procs -> Job] /\ pc' = pc /\ RailsType' /\ locks' = locks
        /\ chain' = chain /\ aborts' = aborts /\ trades' = trades /\ book' = book
        /\ exitStatus' = exitStatus /\ realized' = realized
    BY <2>1, WorkerIsProc, ReadOnly DEF dbVars
  <2>. QED BY <2>2 DEF TypeOK
<1>5. CASE EvaluationPasses
  <2>1. job' \in [Procs -> Job]
    <3>1. [job[Worker] EXCEPT !.read = 1] \in Job
      BY WorkerIsProc, FirstRead, JobUpdate DEF TypeOK
    <3>. QED BY <1>5, <3>1, SingleUpdate, WorkerIsProc DEF EvaluationPasses
  <2>2. pc' \in [Procs -> Labels]
    BY <1>5 DEF EvaluationPasses, TypeOK, Goto, Labels, BuyLabels
  <2>. QED BY <1>5, <2>1, <2>2, TypeRails DEF EvaluationPasses, TypeOK, dbVars, Labels
<1>6. CASE EvaluationBlocks
  BY <1>6, TypeFinish, TypeRails, WorkerIsProc DEF EvaluationBlocks, TypeOK, dbVars, Labels
<1>. QED BY <1>1, <1>2, <1>3, <1>4, <1>5, <1>6 DEF EntryStep, EvaluationLooks

(* From the gate to the broadcast, a session keeps the types.              *)
LEMMA TypeSending ==
  ASSUME TypeOK, SessionsShape, NEW p \in Procs,
         \/ GateReads(p) \/ ApprovalPasses(p) \/ ApprovalBlocks(p)
         \/ GatePasses(p) \/ GateBlocks(p) \/ PrepareFails(p) \/ PrepareHardFails(p)
         \/ PrepareSwap(p) \/ PaperFill(p) \/ SendAccepted(p) \/ SendRaises(p) \/ SendVoid(p)
  PROVE  TypeOK'
<1>1. job[p] \in Job
  BY DEF TypeOK
<1>2. CASE GatePasses(p)
  <2>1. 1 \in 0..MaxAttempts
    BY Parameters DEF Parameters
  <2>2. [job[p] EXCEPT !.read = 1, !.attempt = 1] \in Job
    BY <1>1, <2>1, FirstRead, JobUpdate
  <2>3. job' \in [Procs -> Job]
    BY <1>2, <2>2, SingleUpdate DEF GatePasses
  <2>. QED BY <1>2, <2>3, TypeRails DEF GatePasses, TypeOK, dbVars, Goto, BuyLabels
<1>3. CASE GateBlocks(p)
  <2>1. job' \in [Procs -> Job]
    BY <1>1, <1>3, JobUpdate, SingleUpdate DEF GateBlocks, TradeStatus
  <2>. QED BY <1>3, <2>1, TypeRails DEF GateBlocks, TypeOK, dbVars, Goto, BuyLabels
<1>4. CASE PrepareFails(p)
  BY <1>4, TypeRetry, TypeRails DEF PrepareFails, TypeOK, dbVars, Labels
<1>5. CASE PrepareHardFails(p)
  <2>1. job' \in [Procs -> Job]
    BY <1>1, <1>5, JobUpdate, SingleUpdate DEF PrepareHardFails, TradeStatus
  <2>. QED BY <1>5, <2>1, TypeRails DEF PrepareHardFails, TypeOK, dbVars, Goto, BuyLabels
<1>6. CASE PrepareSwap(p)
  <2>1. job' \in [Procs -> Job]
    <3>1. \A u \in BOOLEAN : [job[p] EXCEPT !.usable = u] \in Job
      BY <1>1, JobUpdate
    <3>. QED BY <1>6, <3>1, SingleUpdate DEF PrepareSwap
  <2>. QED BY <1>6, <2>1, TypeRails DEF PrepareSwap, TypeOK, dbVars, Goto, BuyLabels
<1>7. CASE PaperFill(p)
  <2>1. job' \in [Procs -> Job]
    <3>1. \A s \in {"confirmed", "failed"} : [job EXCEPT ![p].status = s] \in [Procs -> Job]
      BY <1>1, JobUpdate, SingleUpdate DEF TradeStatus
    <3>. QED BY <1>7, <3>1 DEF PaperFill
  <2>. QED BY <1>7, <2>1, TypeRails DEF PaperFill, TypeOK, dbVars, Goto, BuyLabels
<1>8. CASE SendAccepted(p)
  <2>1. job' \in [Procs -> Job]
    <3>1. \A n \in TxIds : [job[p] EXCEPT !.tx = n, !.status = "submitted"] \in Job
      BY <1>1, JobUpdate DEF TradeStatus
    <3>. QED BY <1>8, <3>1, SingleUpdate DEF SendAccepted
  <2>. QED BY <1>8, <2>1, TypeRails DEF SendAccepted, Broadcast, TypeOK, dbVars, Goto, BuyLabels
<1>9. CASE SendRaises(p)
  <2>1. chain' = chain \/ \E x : chain' = [chain EXCEPT ![x] = "pending"]
    BY <1>9 DEF SendRaises, Broadcast
  <2>. QED BY <1>9, <2>1, TypeRetry, TypeRails DEF SendRaises, TypeOK, dbVars, Labels
<1>10. CASE SendVoid(p)
  <2>1. job' \in [Procs -> Job]
    <3>1. [job[p] EXCEPT !.tx = 0, !.status = "submitted"] \in Job
      BY <1>1, JobUpdate DEF TradeStatus
    <3>. QED BY <1>10, <3>1, SingleUpdate DEF SendVoid
  <2>. QED BY <1>10, <2>1, TypeRails DEF SendVoid, TypeOK, dbVars, Goto, BuyLabels
<1>11. CASE GateReads(p)
  <2>1. ReadClear(p)
    BY <1>11 DEF GateReads
  <2>2. /\ job' \in [Procs -> Job] /\ pc' = pc /\ RailsType' /\ locks' = locks
        /\ chain' = chain /\ aborts' = aborts /\ trades' = trades /\ book' = book
        /\ exitStatus' = exitStatus /\ realized' = realized
    BY <2>1, ReadOnly DEF dbVars
  <2>. QED BY <2>2 DEF TypeOK
<1>12. CASE ApprovalPasses(p)
  <2>1. [job[p] EXCEPT !.read = 1, !.status = "approved"] \in Job
    BY <1>1, FirstRead, JobUpdate DEF TradeStatus
  <2>2. job' \in [Procs -> Job]
    BY <1>12, <2>1, SingleUpdate DEF ApprovalPasses
  <2>. QED BY <1>12, <2>2, TypeRails DEF ApprovalPasses, TypeOK, dbVars, Goto, BuyLabels
<1>13. CASE ApprovalBlocks(p)
  <2>1. job' \in [Procs -> Job]
    BY <1>1, <1>13, JobUpdate, SingleUpdate DEF ApprovalBlocks, TradeStatus
  <2>. QED BY <1>13, <2>1, TypeRails DEF ApprovalBlocks, TypeOK, dbVars, Goto, BuyLabels
<1>. QED BY <1>2, <1>3, <1>4, <1>5, <1>6, <1>7, <1>8, <1>9, <1>10, <1>11, <1>12, <1>13

(* From the confirmation to the commit, a session keeps the types.         *)
LEMMA TypeSettling ==
  ASSUME TypeOK, SessionsShape, NEW p \in Procs,
         \/ ConfirmLanded(p) \/ ConfirmGivesUp(p) \/ OpenPosition(p) \/ OpenPositionRefused(p)
         \/ RecordSuccess(p) \/ CoolDown(p) \/ GiveUp(p) \/ RecordFailure(p)
         \/ TripAfterFailures(p) \/ CommitBuy(p)
  PROVE  TypeOK'
<1>1. job[p] \in Job
  BY DEF TypeOK
<1>2. CASE ConfirmLanded(p)
  <2>1. job' \in [Procs -> Job]
    BY <1>1, <1>2, JobUpdate, SingleUpdate DEF ConfirmLanded, TradeStatus
  <2>. QED BY <1>2, <2>1, TypeRails DEF ConfirmLanded, TypeOK, dbVars, Goto, BuyLabels
<1>3. CASE ConfirmGivesUp(p)
  BY <1>3, TypeRails DEF ConfirmGivesUp, TypeOK, dbVars, Goto, BuyLabels
<1>4. CASE OpenPosition(p)
  <2>1. job' \in [Procs -> Job]
    BY <1>1, <1>4, JobUpdate, SingleUpdate DEF OpenPosition
  <2>. QED BY <1>4, <2>1, TypeRails DEF OpenPosition, TypeOK, dbVars, Goto, BuyLabels
<1>5. CASE OpenPositionRefused(p)
  BY <1>5, TypeRollBack, TypeRails DEF OpenPositionRefused, TypeOK, Labels
<1>6. CASE RecordSuccess(p)
  BY <1>6, TypeRails DEF RecordSuccess, TypeOK, dbVars, Goto, BuyLabels
<1>7. CASE CoolDown(p)
  <2>1. job[p].token \in Tokens
    BY <1>7, StepToken DEF CoolDown, Running
  <2>. QED BY <1>7, <2>1, TypeRails DEF CoolDown, TypeOK, dbVars, Goto, BuyLabels
<1>8. CASE GiveUp(p)
  <2>1. job[p].token \in Tokens
    BY <1>8, StepToken DEF GiveUp, Running
  <2>2. job' \in [Procs -> Job]
    BY <1>1, <1>8, JobUpdate, SingleUpdate DEF GiveUp, TradeStatus
  <2>. QED BY <1>8, <2>1, <2>2, TypeRails DEF GiveUp, TypeOK, dbVars, Goto, BuyLabels
<1>9. CASE RecordFailure(p)
  BY <1>9, TypeRails DEF RecordFailure, TypeOK, dbVars, Goto, BuyLabels
<1>10. CASE TripAfterFailures(p)
  BY <1>10, TypeRails DEF TripAfterFailures, TypeOK, dbVars, Goto, BuyLabels
<1>11. CASE CommitBuy(p)
  <2>1. job[p].status \in TradeStatus
    BY <1>1 DEF Job
  <2>2. trades' \in [Trades -> Row]
    <3>1. trades \in [Trades -> Row]
      BY DEF TypeOK
    <3>. QED BY <1>11, <2>1, <3>1 DEF CommitBuy, Row
  <2>3. book' \in [Trades -> {"none", "open", "closed"}]
    BY <1>11 DEF CommitBuy, TypeOK
  <2>. QED BY <1>11, <2>2, <2>3, TypeFinish, TypeRails DEF CommitBuy, TypeOK, Labels
<1>. QED BY <1>2, <1>3, <1>4, <1>5, <1>6, <1>7, <1>8, <1>9, <1>10, <1>11

(* A mirrored sell keeps the types.                                        *)
LEMMA TypeSelling ==
  ASSUME TypeOK, SessionsShape, SellStep
  PROVE  TypeOK'
<1>1. Worker \in Procs /\ job[Worker] \in Job
  BY WorkerIsProc DEF TypeOK
<1>2. CASE SellLockedOut
  BY <1>1, <1>2, TypeFinish, TypeRails DEF SellLockedOut, TypeOK, dbVars, Labels
<1>3. CASE BookExit
  <2>1. job' \in [Procs -> Job]
    <3>1. \A v \in Proceeds : [job[Worker] EXCEPT !.proceeds = v] \in Job
      BY <1>1, JobUpdate, Parameters DEF Parameters
    <3>. QED BY <1>1, <1>3, <3>1, SingleUpdate DEF BookExit
  <2>. QED BY <1>3, <2>1, TypeRails DEF BookExit, TypeOK, dbVars, Goto, SellLabels
<1>4. CASE SellNotReady \/ SellReady \/ SellGivesUp \/ SellSendVoid
  BY <1>4, TypeRails
     DEF SellNotReady, SellReady, SellGivesUp, SellSendVoid, TypeOK, dbVars, Goto,
        SellLabels
<1>5. CASE SellSendAccepted
  <2>1. job' \in [Procs -> Job]
    <3>1. \A n \in TxIds : [job[Worker] EXCEPT !.tx = n] \in Job
      BY <1>1, JobUpdate
    <3>. QED BY <1>1, <1>5, <3>1, SingleUpdate DEF SellSendAccepted
  <2>. QED BY <1>5, <2>1, TypeRails DEF SellSendAccepted, Broadcast, TypeOK, dbVars, Goto, SellLabels
<1>6. CASE SellSendRaises
  <2>1. chain' = chain \/ \E x : chain' = [chain EXCEPT ![x] = "pending"]
    BY <1>6 DEF SellSendRaises, Broadcast
  <2>. QED BY <1>6, <2>1, TypeRails DEF SellSendRaises, TypeOK, dbVars, Goto, SellLabels
<1>7. CASE SellLanded
  <2>1. job' \in [Procs -> Job]
    <3>1. \A v \in Proceeds : [job[Worker] EXCEPT !.proceeds = v, !.onChain = TRUE] \in Job
      BY <1>1, JobUpdate, Parameters DEF Parameters
    <3>. QED BY <1>1, <1>7, <3>1, SingleUpdate DEF SellLanded
  <2>. QED BY <1>7, <2>1, TypeRails DEF SellLanded, TypeOK, dbVars, Goto, SellLabels
<1>8. CASE AbandonSell
  BY <1>1, <1>8, TypeFinish, TypeRails DEF AbandonSell, TypeOK, dbVars, Labels
<1>9. CASE ClosePosition
  <2>1. job[Worker].proceeds - job[Worker].size \in Int
    BY <1>1 DEF Job, Sizes
  <2>2. realized' \in [Trades -> Int]
    BY <1>9, <2>1 DEF ClosePosition, TypeOK
  <2>3. RailsType'
    BY <1>9, <2>1, TypeRails DEF ClosePosition, TypeOK
  <2>. QED BY <1>9, <2>2, <2>3 DEF ClosePosition, TypeOK, Goto, SellLabels
<1>10. CASE TripAfterLoss
  BY <1>10, TypeRails DEF TripAfterLoss, TypeOK, dbVars, Goto, SellLabels
<1>11. CASE CommitSell
  <2>1. book' \in [Trades -> {"none", "open", "closed"}]
    BY <1>11 DEF CommitSell, TypeOK
  <2>2. exitStatus' \in [Trades -> {"none", "approved", "confirmed"}]
    BY <1>11 DEF CommitSell, TypeOK
  <2>. QED BY <1>1, <1>11, <2>1, <2>2, TypeFinish, TypeRails DEF CommitSell, TypeOK, Labels
<1>. QED BY <1>2, <1>3, <1>4, <1>5, <1>6, <1>7, <1>8, <1>9, <1>10, <1>11 DEF SellStep

(* Aborts, the chain, the operator and the clock keep the types.           *)
LEMMA TypeEnvironment ==
  ASSUME TypeOK, (\E p \in Procs : Abort(p)) \/ ChainMoves \/ RailsMove \/ DayChanges
  PROVE  TypeOK'
<1>1. ASSUME NEW p \in Procs, Abort(p) PROVE TypeOK'
  <2>1. aborts' \in 0..MaxAborts
    BY <1>1, Parameters DEF Abort, TypeOK, Parameters
  <2>. QED BY <1>1, <2>1, TypeRollBack, TypeRails DEF Abort, TypeOK, Labels
<1>2. CASE ChainMoves
  BY <1>2, TypeRails DEF ChainMoves, Land, TypeOK, dbVars
<1>3. CASE RailsMove
  BY <1>3, TypeRails DEF RailsMove, OperatorMovesRails, TypeOK, dbVars
<1>4. CASE DayChanges
  BY <1>4, TypeRails DEF DayChanges, TypeOK
<1>. QED BY <1>1, <1>2, <1>3, <1>4

-----------------------------------------------------------------------------
(* One open position, one session per row.                                  *)

(* Every process but p stays as it is. *)
OnlyMoves(p) == \A q \in Procs \ {p} : pc'[q] = pc[q] /\ job'[q] = job[q]

(* A step in the middle of a session: same kind of session, same row, same *)
(* books.                                                                  *)
MidStep(p) ==
    /\ OnlyMoves(p)
    /\ \/ HasRow(p) /\ HasRow(p)'
       \/ Selling(p) /\ Selling(p)'
       \/ pc[p] \in EntryLabels /\ pc'[p] \in EntryLabels
    /\ job'[p].trade = job[p].trade
    /\ job'[p].token = job[p].token
    /\ job'[p].opened = job[p].opened
    /\ pc'[p] = "approving" => pc[p] = "approving"
    /\ SessionPosition(p)'
    /\ trades' = trades /\ book' = book

(* The program counter tells a buy with a row, an entry, a sell and        *)
(* idleness apart.                                                         *)
LEMMA Labelled ==
  ASSUME NEW p
  PROVE  /\ HasRow(p) => Running(p) /\ Buying(p) /\ ~Selling(p) /\ pc[p] \notin EntryLabels
         /\ Selling(p) => Running(p) /\ ~Buying(p) /\ ~HasRow(p) /\ pc[p] \notin EntryLabels
         /\ pc[p] \in EntryLabels => Running(p) /\ Buying(p) /\ ~HasRow(p) /\ ~Selling(p)
         /\ pc[p] = "idle" => ~Running(p) /\ ~Buying(p) /\ ~HasRow(p) /\ ~Selling(p)
  BY DEF HasRow, RowLabels, EntryLabels, Running, Buying, Selling, BuyLabels, SellLabels

(* The same, after a step.                                                 *)
LEMMA LabelledNext ==
  ASSUME NEW p
  PROVE  /\ HasRow(p)' => Running(p)' /\ Buying(p)' /\ ~Selling(p)' /\ pc'[p] \notin EntryLabels
         /\ Selling(p)' => Running(p)' /\ ~Buying(p)' /\ ~HasRow(p)' /\ pc'[p] \notin EntryLabels
         /\ pc'[p] \in EntryLabels => Running(p)' /\ Buying(p)' /\ ~HasRow(p)' /\ ~Selling(p)'
         /\ pc'[p] = "idle" => ~Running(p)' /\ ~Buying(p)' /\ ~HasRow(p)' /\ ~Selling(p)'
  BY DEF HasRow, RowLabels, EntryLabels, Running, Buying, Selling, BuyLabels, SellLabels

(* A step of p that touches no row and no position leaves every other      *)
(* session as it should be.                                                *)
LEMMA OthersStay ==
  ASSUME NEW p \in Procs, OnlyMoves(p), SessionsShape, trades' = trades, book' = book,
         NEW q \in Procs, q # p
  PROVE  /\ SessionToken(q)' /\ SessionEntry(q)' /\ SessionRow(q)'
         /\ SessionPosition(q)' /\ SessionExit(q)'
<1>1. pc'[q] = pc[q] /\ job'[q] = job[q]
  BY DEF OnlyMoves
<1>2. /\ SessionToken(q) /\ SessionEntry(q) /\ SessionRow(q)
      /\ SessionPosition(q) /\ SessionExit(q)
  BY DEF SessionsShape
<1>. QED BY <1>1, <1>2 DEF SessionToken, SessionEntry, SessionRow, SessionPosition, SessionExit,
              OutsideStatus, Running, HasRow, Selling

(* A middle step keeps the shape of the sessions and of the rows.          *)
LEMMA MidStepShape ==
  ASSUME ShapeInv, NEW p \in Procs, MidStep(p)
  PROVE  RowsShape' /\ SessionsShape'
<1>1. RowsShape'
  BY DEF ShapeInv, RowsShape, MidStep
<1>2. /\ SessionToken(p) /\ SessionEntry(p) /\ SessionRow(p)
      /\ SessionPosition(p) /\ SessionExit(p)
  BY DEF ShapeInv, SessionsShape
<1>3. SessionToken(p)'
  BY <1>2, Labelled, LabelledNext DEF SessionToken, MidStep
<1>4. SessionEntry(p)'
  BY <1>2, Labelled, LabelledNext DEF SessionEntry, MidStep
<1>5. SessionRow(p)'
  BY <1>2, Labelled, LabelledNext DEF SessionRow, MidStep, OutsideStatus
<1>6. SessionExit(p)'
  BY <1>2, Labelled, LabelledNext DEF SessionExit, MidStep
<1>7. SessionPosition(p)'
  BY DEF MidStep
<1>8. ASSUME NEW q \in Procs
      PROVE  /\ SessionToken(q)' /\ SessionEntry(q)' /\ SessionRow(q)'
             /\ SessionPosition(q)' /\ SessionExit(q)'
  <2>1. CASE q = p
    BY <1>3, <1>4, <1>5, <1>6, <1>7, <2>1
  <2>2. CASE q # p
    BY <2>2, OthersStay DEF ShapeInv, MidStep
  <2>. QED BY <2>1, <2>2
<1>. QED BY <1>1, <1>8 DEF SessionsShape

(* A middle step keeps the two safety properties.                          *)
LEMMA MidStepBooks ==
  ASSUME BooksInv, NEW p \in Procs, MidStep(p)
  PROVE  OneOpenPosition' /\ OneSessionPerTrade'
<1>1. \A q \in Procs : /\ job'[q].trade = job[q].trade
                       /\ job'[q].token = job[q].token
                       /\ job'[q].opened = job[q].opened
                       /\ Buying(q)' => Buying(q)
  BY Labelled, LabelledNext DEF MidStep, OnlyMoves, Buying
<1>2. OpenTrades' = OpenTrades /\ \A token : OpenOn(token)' = OpenOn(token)
  BY DEF MidStep, OpenTrades, OpenOn
<1>3. OneOpenPosition'
  BY <1>1, <1>2 DEF BooksInv, OneOpenPosition, MidStep
<1>4. OneSessionPerTrade'
  BY <1>1 DEF BooksInv, OneSessionPerTrade
<1>. QED BY <1>3, <1>4

(* A middle step keeps the invariant, its types apart.                     *)
LEMMA MidStepInv ==
  ASSUME BooksInv, NEW p \in Procs, MidStep(p)
  PROVE  RowsShape' /\ SessionsShape' /\ OneOpenPosition' /\ OneSessionPerTrade'
  BY MidStepShape, MidStepBooks DEF BooksInv

(* What a retry leaves alone.                                              *)
LEMMA RetryOnly ==
  ASSUME TypeOK, NEW p \in Procs, Retry(p)
  PROVE  /\ OnlyMoves(p)
         /\ pc'[p] \in {"prepare", "exhausted"}
         /\ job'[p].trade = job[p].trade
         /\ job'[p].token = job[p].token
         /\ job'[p].status = job[p].status
         /\ job'[p].opened = job[p].opened
  BY DEF TypeOK, Retry, Goto, OnlyMoves, Job

(* Before the position is inserted there is none.                          *)
LEMMA NotOpened ==
  ASSUME SessionsShape, NEW p \in Procs, pc[p] \notin {"reward", "cool", "commit"}
  PROVE  ~job[p].opened
  BY DEF SessionsShape, SessionPosition

(* The buy steps that are middle steps.                                    *)
LEMMA MidBuy ==
  ASSUME BooksInv, NEW p \in Procs,
         \/ GateReads(p) \/ ApprovalPasses(p) \/ ApprovalBlocks(p)
         \/ GatePasses(p) \/ GateBlocks(p) \/ PrepareFails(p) \/ PrepareHardFails(p)
         \/ PrepareSwap(p) \/ PaperFill(p) \/ SendAccepted(p) \/ SendRaises(p) \/ SendVoid(p)
         \/ ConfirmLanded(p) \/ ConfirmGivesUp(p) \/ RecordSuccess(p) \/ CoolDown(p)
         \/ GiveUp(p) \/ RecordFailure(p) \/ TripAfterFailures(p)
  PROVE  MidStep(p)
<1>1. TypeOK /\ job[p] \in Job /\ SessionsShape /\ SessionPosition(p)
  BY DEF BooksInv, ShapeInv, TypeOK, SessionsShape
<1>2. trades' = trades /\ book' = book
  BY DEF GateReads, ReadClear, ApprovalPasses, ApprovalBlocks, GatePasses, GateBlocks, PrepareFails, PrepareHardFails, PrepareSwap,
     PaperFill,
         SendAccepted, SendRaises, SendVoid, ConfirmLanded, ConfirmGivesUp,
            RecordSuccess,
         CoolDown, GiveUp, RecordFailure, TripAfterFailures, dbVars
<1>17. CASE GateReads(p)
  <2>1. OnlyMoves(p) /\ pc'[p] = pc[p] /\ pc[p] \in {"approving", "gate"}
    BY <1>1, <1>17, ReadOnly DEF GateReads, OnlyMoves
  <2>2. /\ job'[p].trade = job[p].trade /\ job'[p].token = job[p].token
        /\ job'[p].opened = job[p].opened
    BY <1>1, <1>17, ReadOnly DEF GateReads
  <2>. QED BY <1>1, <1>2, <2>1, <2>2, NotOpened DEF MidStep, HasRow, RowLabels, EntryLabels,
       BuyLabels, SessionPosition
<1>18. CASE ApprovalPasses(p)
  <2>1. OnlyMoves(p) /\ pc'[p] = "gate" /\ pc[p] = "approving"
    BY <1>1, <1>18 DEF ApprovalPasses, OnlyMoves, Goto, TypeOK
  <2>2. /\ job'[p].trade = job[p].trade /\ job'[p].token = job[p].token
        /\ job'[p].opened = job[p].opened
    BY <1>1, <1>18 DEF ApprovalPasses, TypeOK, Job
  <2>. QED BY <1>1, <1>2, <2>1, <2>2, NotOpened DEF MidStep, HasRow, RowLabels, EntryLabels,
       BuyLabels, SessionPosition
<1>19. CASE ApprovalBlocks(p)
  BY <1>1, <1>2, <1>19, NotOpened DEF ApprovalBlocks, MidStep, OnlyMoves, HasRow,
     RowLabels, EntryLabels, BuyLabels, Goto, TypeOK, Job, SessionPosition
<1>3. CASE GatePasses(p)
  BY <1>1, <1>2, <1>3, NotOpened DEF GatePasses, MidStep, OnlyMoves, HasRow,
     RowLabels, EntryLabels, BuyLabels, Goto, TypeOK, Job, SessionPosition
<1>4. CASE GateBlocks(p)
  BY <1>1, <1>2, <1>4, NotOpened DEF GateBlocks, MidStep, OnlyMoves, HasRow,
     RowLabels, EntryLabels, BuyLabels, Goto, TypeOK, Job, SessionPosition
<1>5. CASE PrepareFails(p)
  BY <1>1, <1>2, <1>5, NotOpened, RetryOnly DEF PrepareFails, MidStep, HasRow,
     RowLabels, EntryLabels, BuyLabels, SessionPosition
<1>6. CASE PrepareHardFails(p)
  BY <1>1, <1>2, <1>6, NotOpened DEF PrepareHardFails, MidStep, OnlyMoves, HasRow,
     RowLabels, EntryLabels, BuyLabels, Goto, TypeOK, Job, SessionPosition
<1>7. CASE PrepareSwap(p)
  BY <1>1, <1>2, <1>7, NotOpened DEF PrepareSwap, MidStep, OnlyMoves, HasRow,
     RowLabels, EntryLabels, BuyLabels, Goto, TypeOK, Job, SessionPosition
<1>8. CASE PaperFill(p)
  BY <1>1, <1>2, <1>8, NotOpened DEF PaperFill, MidStep, OnlyMoves, HasRow,
     RowLabels, EntryLabels, BuyLabels, Goto, TypeOK, Job, SessionPosition
<1>9. CASE SendAccepted(p)
  <2>1. PICK n \in TxIds : job' = [job EXCEPT ![p] = [@ EXCEPT !.tx = n, !.status = "submitted"]]
    BY <1>9 DEF SendAccepted
  <2>2. OnlyMoves(p) /\ pc[p] = "send" /\ pc'[p] = "confirm"
    BY <1>1, <1>9, <2>1 DEF SendAccepted, OnlyMoves, Goto, TypeOK
  <2>3. /\ job'[p].trade = job[p].trade /\ job'[p].token = job[p].token
        /\ job'[p].opened = job[p].opened /\ job'[p].status = "submitted"
    BY <1>1, <2>1 DEF TypeOK, Job
  <2>. QED BY <1>1, <1>2, <2>2, <2>3, NotOpened DEF MidStep, HasRow, RowLabels, EntryLabels, BuyLabels, SessionPosition
<1>10. CASE SendRaises(p)
  BY <1>1, <1>2, <1>10, NotOpened, RetryOnly DEF SendRaises, MidStep, HasRow,
     RowLabels, EntryLabels, BuyLabels, SessionPosition
<1>11. CASE SendVoid(p)
  BY <1>1, <1>2, <1>11, NotOpened DEF SendVoid, MidStep, OnlyMoves, HasRow,
     RowLabels, EntryLabels, BuyLabels, Goto, TypeOK, Job, SessionPosition
<1>12. CASE ConfirmLanded(p)
  BY <1>1, <1>2, <1>12, NotOpened DEF ConfirmLanded, MidStep, OnlyMoves, HasRow,
     RowLabels, EntryLabels, BuyLabels, Goto, TypeOK, Job, SessionPosition
<1>13. CASE ConfirmGivesUp(p)
  BY <1>1, <1>2, <1>13, NotOpened DEF ConfirmGivesUp, MidStep, OnlyMoves, HasRow,
     RowLabels, EntryLabels, BuyLabels, Goto, TypeOK, Job, SessionPosition
<1>14. CASE RecordSuccess(p) \/ CoolDown(p)
  BY <1>1, <1>2, <1>14 DEF RecordSuccess, CoolDown, MidStep, OnlyMoves, HasRow,
     RowLabels, EntryLabels, BuyLabels, Goto, TypeOK, SessionPosition
<1>15. CASE GiveUp(p)
  BY <1>1, <1>2, <1>15, NotOpened DEF GiveUp, MidStep, OnlyMoves, HasRow, RowLabels, EntryLabels,
     BuyLabels, Goto, TypeOK, Job, SessionPosition
<1>16. CASE RecordFailure(p) \/ TripAfterFailures(p)
  BY <1>1, <1>2, <1>16, NotOpened DEF RecordFailure, TripAfterFailures, MidStep,
     OnlyMoves, HasRow, RowLabels, EntryLabels, BuyLabels, Goto, TypeOK, SessionPosition
<1>. QED BY <1>3, <1>4, <1>5, <1>6, <1>7, <1>8, <1>9, <1>10, <1>11, <1>12, <1>13, <1>14, <1>15, <1>16,
         <1>17, <1>18, <1>19

(* The sell steps that are middle steps.                                   *)
LEMMA MidSell ==
  ASSUME BooksInv,
         \/ BookExit \/ SellNotReady \/ SellReady \/ SellSendAccepted \/ SellSendRaises
         \/ SellSendVoid \/ SellLanded \/ SellGivesUp \/ ClosePosition \/ TripAfterLoss
  PROVE  MidStep(Worker)
<1>1. Worker \in Procs /\ TypeOK /\ job[Worker] \in Job /\ SessionsShape
  BY WorkerIsProc DEF BooksInv, ShapeInv, TypeOK
<1>2. trades' = trades /\ book' = book
  BY DEF BookExit, SellNotReady, SellReady, SellSendAccepted, SellSendRaises,
         SellSendVoid, SellLanded, SellGivesUp, ClosePosition, TripAfterLoss, dbVars
<1>0. pc \in [Procs -> Labels] /\ job \in [Procs -> Job]
  BY <1>1 DEF TypeOK, Labels
<1>3. Selling(Worker) /\ Selling(Worker)'
  <2>1. Selling(Worker)
    BY DEF BookExit, SellNotReady, SellReady, SellSendAccepted, SellSendRaises,
         SellSendVoid, SellLanded, SellGivesUp, ClosePosition, TripAfterLoss,
         Selling, SellLabels
  <2>2. \E l \in SellLabels : Goto(Worker, l) \/ pc' = pc
    BY DEF BookExit, SellNotReady, SellReady, SellSendAccepted, SellSendRaises,
         SellSendVoid, SellLanded, SellGivesUp, ClosePosition, TripAfterLoss, SellLabels
  <2>. QED BY <1>0, <1>1, <2>1, <2>2 DEF Selling, Goto
<1>4. OnlyMoves(Worker) /\ ~job[Worker].opened
  <2>1. OnlyMoves(Worker)
    BY <1>0, <1>1 DEF OnlyMoves, Goto,
         BookExit, SellNotReady, SellReady, SellSendAccepted, SellSendRaises,
         SellSendVoid, SellLanded, SellGivesUp, ClosePosition, TripAfterLoss
  <2>. QED BY <1>1, <1>3, <2>1, NotOpened DEF Selling, SellLabels
<1>5. /\ job'[Worker].trade = job[Worker].trade
      /\ job'[Worker].token = job[Worker].token
      /\ job'[Worker].opened = job[Worker].opened
  <2>1. CASE BookExit \/ SellSendAccepted
    BY <1>1, <2>1 DEF TypeOK, Job, BookExit, SellSendAccepted
  <2>2. CASE SellLanded
    <3>1. PICK v \in Proceeds :
            job' = [job EXCEPT ![Worker] = [@ EXCEPT !.proceeds = v, !.onChain = TRUE]]
      BY <2>2 DEF SellLanded
    <3>. QED BY <1>1, <3>1 DEF TypeOK, Job
  <2>3. CASE UNCHANGED job
    BY <2>3
  <2>. QED BY <2>1, <2>2, <2>3 DEF SellNotReady, SellReady, SellSendRaises,
         SellSendVoid, SellGivesUp, ClosePosition, TripAfterLoss
<1>6. SessionPosition(Worker)'
  BY <1>3, <1>4, <1>5 DEF SessionPosition, Selling, SellLabels
<1>7. pc'[Worker] # "approving"
  BY <1>3 DEF Selling, SellLabels
<1>. QED BY <1>2, <1>3, <1>4, <1>5, <1>6, <1>7 DEF MidStep

(* The session of p ends, and neither a row nor a position changes. *)
LEMMA FinishInv ==
  ASSUME BooksInv, NEW p \in Procs, Finish(p), trades' = trades, book' = book
  PROVE  RowsShape' /\ SessionsShape' /\ OneOpenPosition' /\ OneSessionPerTrade'
<1>1. OnlyMoves(p) /\ pc'[p] = "idle" /\ job'[p] = NoJob
  BY DEF OnlyMoves, Finish, Goto, BooksInv, ShapeInv, TypeOK
<1>2. RowsShape' /\ SessionsShape
  BY DEF BooksInv, ShapeInv, RowsShape
<1>3. /\ SessionToken(p)' /\ SessionEntry(p)' /\ SessionRow(p)'
      /\ SessionPosition(p)' /\ SessionExit(p)'
  BY <1>1, LabelledNext DEF SessionToken, SessionEntry, SessionRow, SessionPosition,
     SessionExit, NoJob
<1>4. SessionsShape'
  BY <1>1, <1>2, <1>3, OthersStay DEF SessionsShape
<1>5. \A q \in Procs : job'[q].opened => q # p /\ job[q].opened /\ job'[q] = job[q]
  BY <1>1 DEF OnlyMoves, NoJob
<1>6. OneOpenPosition'
  BY <1>5 DEF BooksInv, OneOpenPosition, OpenOn, OpenTrades
<1>7. OneSessionPerTrade'
  BY <1>1, LabelledNext DEF BooksInv, OneSessionPerTrade, OnlyMoves, Buying
<1>. QED BY <1>2, <1>4, <1>6, <1>7

(* The evaluation of a leader's buy.                                       *)
LEMMA EvaluateInv ==
  ASSUME BooksInv, NEW leader \in Leaders, NEW token \in Tokens, NEW want \in Wants,
         EvaluateBuy(leader, token, want)
  PROVE  RowsShape' /\ SessionsShape' /\ OneOpenPosition' /\ OneSessionPerTrade'
<1>1. PICK size \in Sizes :
        job' = [job EXCEPT ![Worker] =
                  [NoJob EXCEPT !.token = token, !.leader = leader, !.size = size]]
  BY DEF EvaluateBuy
<1>2. /\ Worker \in Procs /\ TypeOK /\ SessionsShape
      /\ trades' = trades /\ book' = book
  BY WorkerIsProc DEF BooksInv, ShapeInv, EvaluateBuy, dbVars
<1>3. OnlyMoves(Worker) /\ pc'[Worker] = "evaluating"
  BY <1>1, <1>2 DEF EvaluateBuy, OnlyMoves, Goto, TypeOK
<1>4. job'[Worker].token = token /\ job'[Worker].trade = None /\ ~job'[Worker].opened
  BY <1>1, <1>2 DEF NoJob, TypeOK
<1>5. /\ SessionToken(Worker)' /\ SessionEntry(Worker)' /\ SessionRow(Worker)'
      /\ SessionPosition(Worker)' /\ SessionExit(Worker)'
  BY <1>3, <1>4, LabelledNext
     DEF EntryLabels, SessionToken, SessionEntry, SessionRow, SessionPosition, SessionExit
<1>6. RowsShape' /\ SessionsShape'
  BY <1>2, <1>3, <1>5, OthersStay DEF BooksInv, ShapeInv, RowsShape, SessionsShape
<1>7. \A q \in Procs : job'[q].opened => q # Worker /\ job[q].opened /\ job'[q] = job[q]
  BY <1>3, <1>4 DEF OnlyMoves
<1>8. OneOpenPosition'
  BY <1>2, <1>7 DEF BooksInv, OneOpenPosition, OpenOn, OpenTrades
<1>9. OneSessionPerTrade'
  BY <1>3, <1>4 DEF BooksInv, OneSessionPerTrade, OnlyMoves, Buying
<1>. QED BY <1>6, <1>8, <1>9

(* The evaluation's look at the rails.                                     *)
LEMMA LookInv ==
  ASSUME BooksInv, EvaluationReads \/ EvaluationPasses \/ EvaluationBlocks
  PROVE  RowsShape' /\ SessionsShape' /\ OneOpenPosition' /\ OneSessionPerTrade'
<1>1. Worker \in Procs /\ TypeOK /\ SessionsShape
  BY WorkerIsProc DEF BooksInv, ShapeInv
<1>2. pc[Worker] = "evaluating" /\ trades' = trades /\ book' = book
  BY DEF EvaluationReads, EvaluationPasses, EvaluationBlocks, ReadClear, dbVars
<1>3. CASE EvaluationBlocks
  BY <1>1, <1>2, <1>3, FinishInv DEF EvaluationBlocks
<1>4. CASE EvaluationReads \/ EvaluationPasses
  <2>1. OnlyMoves(Worker) /\ pc'[Worker] \in {"evaluating", "evaluated"}
    <3>1. CASE EvaluationReads
      BY <1>1, <1>2, <3>1, ReadOnly DEF EvaluationReads, OnlyMoves
    <3>2. CASE EvaluationPasses
      BY <1>1, <3>2 DEF EvaluationPasses, OnlyMoves, Goto, TypeOK
    <3>. QED BY <1>4, <3>1, <3>2
  <2>2. /\ job'[Worker].trade = job[Worker].trade
        /\ job'[Worker].token = job[Worker].token
        /\ job'[Worker].opened = job[Worker].opened
    <3>1. CASE EvaluationReads
      BY <1>1, <3>1, ReadOnly DEF EvaluationReads
    <3>2. CASE EvaluationPasses
      BY <1>1, <3>2 DEF EvaluationPasses, TypeOK, Job
    <3>. QED BY <1>4, <3>1, <3>2
  <2>3. MidStep(Worker)
    BY <1>1, <1>2, <2>1, <2>2, NotOpened DEF MidStep, EntryLabels, SessionPosition
  <2>. QED BY <1>1, <2>3, MidStepInv
<1>. QED BY <1>3, <1>4

(* The decision, with its look at the open positions.                      *)
LEMMA DecideInv ==
  ASSUME BooksInv, DecideBuy
  PROVE  RowsShape' /\ SessionsShape' /\ OneOpenPosition' /\ OneSessionPerTrade'
<1>1. Worker \in Procs /\ trades' = trades /\ book' = book
  BY WorkerIsProc DEF DecideBuy, dbVars
<1>2. CASE Finish(Worker)
  BY <1>1, <1>2, FinishInv
<1>3. CASE Goto(Worker, "claim") /\ UNCHANGED job
  <2>1. MidStep(Worker)
    BY <1>1, <1>3, NotOpened DEF MidStep, EntryLabels, DecideBuy, Goto, OnlyMoves, BooksInv,
       ShapeInv, TypeOK, SessionPosition
  <2>. QED BY <1>1, <2>1, MidStepInv
<1>. QED BY <1>2, <1>3 DEF DecideBuy

(* The new row: no other session has it, since nobody saw it before.       *)
LEMMA ExecuteInv ==
  ASSUME BooksInv, NEW t \in Trades, ExecuteBuy(t)
  PROVE  RowsShape' /\ SessionsShape' /\ OneOpenPosition' /\ OneSessionPerTrade'
<1>1. Worker \in Procs /\ TypeOK /\ SessionsShape /\ book' = book
  BY WorkerIsProc DEF BooksInv, ShapeInv, ExecuteBuy
<1>2. /\ OnlyMoves(Worker) /\ HasRow(Worker)'
      /\ pc[Worker] = "claim" /\ pc'[Worker] \in {"commit", "gate"}
  BY <1>1 DEF ExecuteBuy, OnlyMoves, HasRow, RowLabels, EntryLabels, BuyLabels, Goto, TypeOK
<1>3. /\ job'[Worker].trade = t /\ job'[Worker].token = job[Worker].token
      /\ job'[Worker].opened = job[Worker].opened
  BY <1>1 DEF ExecuteBuy, TypeOK, Job
<1>4. ~job[Worker].opened /\ job[Worker].token \in Tokens
  BY <1>1, <1>2, StepToken, NotOpened DEF Running
<1>5. /\ trades[t].status = "none" /\ book[t] = "none"
      /\ trades'[t].status = "uncommitted" /\ trades'[t].token = job[Worker].token
      /\ \A u \in Trades \ {t} : trades'[u] = trades[u]
  BY <1>1 DEF ExecuteBuy, TypeOK, BooksInv, ShapeInv, RowsShape
<1>6. RowsShape'
  BY <1>1, <1>4, <1>5 DEF RowsShape, BooksInv, ShapeInv
<1>7. /\ SessionToken(Worker)' /\ SessionEntry(Worker)' /\ SessionRow(Worker)'
      /\ SessionPosition(Worker)' /\ SessionExit(Worker)'
  BY <1>2, <1>3, <1>4, <1>5, LabelledNext
     DEF SessionToken, SessionEntry, SessionRow, SessionPosition, SessionExit,
        OutsideStatus
<1>8. ASSUME NEW q \in Procs, q # Worker
      PROVE  /\ SessionToken(q)' /\ SessionEntry(q)' /\ SessionRow(q)'
             /\ SessionPosition(q)' /\ SessionExit(q)'
  <2>1. pc'[q] = pc[q] /\ job'[q] = job[q]
    BY <1>2, <1>8 DEF OnlyMoves
  <2>2. /\ SessionToken(q) /\ SessionEntry(q) /\ SessionRow(q)
        /\ SessionPosition(q) /\ SessionExit(q)
    BY <1>1 DEF SessionsShape
  <2>3. (HasRow(q) \/ Selling(q)) => job[q].trade # t
    BY <1>5, <1>8, <2>2 DEF SessionRow, SessionExit, OutsideStatus
  <2>. QED BY <1>1, <1>5, <2>1, <2>2, <2>3
       DEF SessionToken, SessionEntry, SessionRow, SessionPosition, SessionExit,
           OutsideStatus, Running, HasRow, Selling
<1>9. SessionsShape'
  BY <1>7, <1>8 DEF SessionsShape
<1>10. \A q \in Procs : job'[q].opened = job[q].opened /\ job'[q].token = job[q].token
  BY <1>2, <1>3 DEF OnlyMoves
<1>11. OpenTrades' = OpenTrades /\ \A token : OpenOn(token)' = OpenOn(token)
  BY <1>1, <1>5 DEF OpenTrades, OpenOn
<1>12. \A u \in OpenTrades : trades'[u] = trades[u]
  BY <1>5 DEF OpenTrades
<1>13. OneOpenPosition'
  BY <1>10, <1>11, <1>12 DEF BooksInv, OneOpenPosition
<1>14. \A q \in Procs \ {Worker} : Buying(q)' => Buying(q) /\ job'[q].trade = job[q].trade /\ job[q].trade # t
  <2>1. ASSUME NEW q \in Procs \ {Worker}, Buying(q)'
        PROVE  Buying(q) /\ job'[q].trade = job[q].trade /\ job[q].trade # t
    <3>1. Buying(q) /\ job'[q] = job[q]
      BY <1>2, <2>1 DEF OnlyMoves, Buying
    <3>2. HasRow(q)
      BY <1>1, <3>1 DEF SessionsShape, SessionToken, Buying, BuyLabels, Running
    <3>3. trades[job[q].trade].status = "pending_approval"
      BY <1>1, <3>2 DEF SessionsShape, SessionRow, OutsideStatus
    <3>. QED BY <1>5, <3>1, <3>3
  <2>. QED BY <2>1
<1>15. OneSessionPerTrade'
  BY <1>3, <1>14 DEF BooksInv, OneSessionPerTrade
<1>. QED BY <1>6, <1>9, <1>13, <1>15

(* An approval: the row lock keeps every other approval away, the status   *)
(* the worker.                                                             *)
LEMMA ApproveInv ==
  ASSUME BooksInv, NEW p \in Approvers, NEW t \in Trades, ApproveTrade(p, t)
  PROVE  RowsShape' /\ SessionsShape' /\ OneOpenPosition' /\ OneSessionPerTrade'
<1>1. /\ p \in Procs /\ p # Worker /\ TypeOK /\ SessionsShape /\ RowsShape
      /\ trades' = trades /\ book' = book
  BY WorkerIsProc, Parameters DEF BooksInv, ShapeInv, ApproveTrade, dbVars, Parameters
<1>2. /\ trades[t].status = "pending_approval" /\ RowFree(t)
      /\ trades[t].token \in Tokens
  BY <1>1 DEF ApproveTrade, RowsShape
<1>3. OnlyMoves(p) /\ pc'[p] = "approving" /\ HasRow(p)'
  BY <1>1 DEF ApproveTrade, OnlyMoves, HasRow, RowLabels, EntryLabels, BuyLabels, Goto, TypeOK
<1>4. /\ job'[p].trade = t /\ job'[p].token = trades[t].token /\ ~job'[p].opened
  BY <1>1 DEF ApproveTrade, NoJob, TypeOK
<1>5. /\ SessionToken(p)' /\ SessionEntry(p)' /\ SessionRow(p)'
      /\ SessionPosition(p)' /\ SessionExit(p)'
  BY <1>1, <1>2, <1>3, <1>4, LabelledNext
     DEF SessionToken, SessionEntry, SessionRow, SessionPosition, SessionExit,
        OutsideStatus
<1>6. RowsShape' /\ SessionsShape'
  BY <1>1, <1>3, <1>5, OthersStay DEF RowsShape, SessionsShape
<1>7. \A q \in Procs : job'[q].opened => q # p /\ job[q].opened /\ job'[q] = job[q]
  BY <1>3, <1>4 DEF OnlyMoves
<1>8. OneOpenPosition'
  BY <1>1, <1>7 DEF BooksInv, OneOpenPosition, OpenOn, OpenTrades
<1>9. \A q \in Procs \ {p} : Buying(q) => job[q].trade # t
  <2>1. ASSUME NEW q \in Procs \ {p}, Buying(q), job[q].trade = t PROVE FALSE
    <3>1. q \notin Approvers
      BY <1>2, <2>1 DEF RowFree, Executing, Buying, BuyLabels
    <3>2. q = Worker
      BY <3>1, <2>1 DEF Procs
    <3>3. CASE HasRow(q)
      BY <1>1, <1>2, <2>1, <3>2, <3>3 DEF SessionsShape, SessionRow, OutsideStatus
    <3>4. CASE pc[q] \in EntryLabels
      BY <1>1, <2>1, <3>4, Parameters DEF SessionsShape, SessionEntry, Parameters
    <3>. QED BY <2>1, <3>3, <3>4 DEF Buying, HasRow, RowLabels, EntryLabels
  <2>. QED BY <2>1
<1>10. OneSessionPerTrade'
  BY <1>3, <1>4, <1>9 DEF BooksInv, OneSessionPerTrade, OnlyMoves, Buying
<1>. QED BY <1>6, <1>8, <1>10

(* Neither a position nor an open position's row changes, and the session  *)
(* that changes a row is the only one that has it.                         *)
LEMMA RowChange ==
  ASSUME BooksInv, NEW p \in Procs, OnlyMoves(p), NEW t \in Trades,
         book' = book, book[t] = "none",
         trades' \in [Trades -> Row], trades'[t].token = trades[t].token,
         trades[t].status # "none",
         \A u \in Trades \ {t} : trades'[u] = trades[u],
         \A q \in Procs \ {p} : HasRow(q) => job[q].trade # t
  PROVE  /\ RowsShape'
         /\ \A token : OpenOn(token)' = OpenOn(token)
         /\ OpenTrades' = OpenTrades
         /\ \A q \in Procs \ {p} : /\ SessionToken(q)' /\ SessionEntry(q)' /\ SessionRow(q)'
                                   /\ SessionPosition(q)' /\ SessionExit(q)'
<1>1. RowsShape'
  BY DEF BooksInv, ShapeInv, RowsShape
<1>2. OpenTrades' = OpenTrades /\ \A token : OpenOn(token)' = OpenOn(token)
  BY DEF OpenTrades, OpenOn
<1>3. ASSUME NEW q \in Procs \ {p}
      PROVE  /\ SessionToken(q)' /\ SessionEntry(q)' /\ SessionRow(q)'
             /\ SessionPosition(q)' /\ SessionExit(q)'
  <2>1. pc'[q] = pc[q] /\ job'[q] = job[q]
    BY DEF OnlyMoves
  <2>2. /\ SessionToken(q) /\ SessionEntry(q) /\ SessionRow(q)
        /\ SessionPosition(q) /\ SessionExit(q)
    BY DEF BooksInv, ShapeInv, SessionsShape
  <2>. QED BY <2>1, <2>2
       DEF SessionToken, SessionEntry, SessionRow, SessionPosition, SessionExit,
           OutsideStatus, Running, HasRow, Selling
<1>. QED BY <1>1, <1>2, <1>3

(* No two sessions have one row. *)
LEMMA RowsApart ==
  ASSUME BooksInv, NEW p \in Procs, NEW q \in Procs, p # q, HasRow(p), HasRow(q)
  PROVE  job[p].trade # job[q].trade
  BY Labelled, Parameters
     DEF BooksInv, ShapeInv, SessionsShape, SessionRow, OneSessionPerTrade, Parameters

(* What a session knows of the row it has.                                 *)
LEMMA OwnRow ==
  ASSUME BooksInv, NEW p \in Procs, HasRow(p)
  PROVE  /\ job[p].trade \in Trades
         /\ book[job[p].trade] = "none"
         /\ trades[job[p].trade].status \in {"uncommitted", "pending_approval"}
         /\ trades[job[p].trade].token = job[p].token
  BY DEF BooksInv, ShapeInv, SessionsShape, SessionRow, OutsideStatus, RowsShape,
     TypeOK

(* A rollback.                                                             *)
LEMMA RollBackInv ==
  ASSUME BooksInv, NEW p \in Procs, RollBack(p), book' = book, Running(p)
  PROVE  RowsShape' /\ SessionsShape' /\ OneOpenPosition' /\ OneSessionPerTrade'
<1>1. Finish(p) /\ TypeOK /\ trades' \in [Trades -> Row]
  BY TypeRollBack DEF RollBack, BooksInv, ShapeInv
<1>2. CASE trades' = trades
  BY <1>1, <1>2, FinishInv
<1>3. CASE trades' # trades
  <2> DEFINE t == job[p].trade
  <2>1. /\ t \in Trades /\ trades[t].status = "uncommitted"
        /\ trades' = [trades EXCEPT ![t].status = "gone"]
        /\ p = Worker
    BY <1>1, <1>3 DEF RollBack, TypeOK, Job
  <2>2. /\ OnlyMoves(p) /\ pc'[p] = "idle" /\ job'[p] = NoJob
    BY <1>1 DEF Finish, Goto, OnlyMoves, TypeOK
  <2>3. book[t] = "none"
    BY <2>1 DEF BooksInv, ShapeInv, RowsShape, TypeOK
  <2>4. trades'[t].token = trades[t].token /\ \A u \in Trades \ {t} : trades'[u] = trades[u]
    BY <1>1, <2>1 DEF TypeOK, Row
  <2>5. \A q \in Procs \ {p} : HasRow(q) => job[q].trade # t
    BY <2>1 DEF BooksInv, ShapeInv, SessionsShape, SessionRow, OutsideStatus
  <2>6. /\ RowsShape' /\ OpenTrades' = OpenTrades
        /\ \A token : OpenOn(token)' = OpenOn(token)
        /\ \A q \in Procs \ {p} : /\ SessionToken(q)' /\ SessionEntry(q)' /\ SessionRow(q)'
                                  /\ SessionPosition(q)' /\ SessionExit(q)'
    BY <1>1, <2>1, <2>2, <2>3, <2>4, <2>5, RowChange
  <2>7. /\ SessionToken(p)' /\ SessionEntry(p)' /\ SessionRow(p)'
        /\ SessionPosition(p)' /\ SessionExit(p)'
    BY <2>2, LabelledNext DEF SessionToken, SessionEntry, SessionRow,
       SessionPosition, SessionExit, NoJob
  <2>8. SessionsShape'
    BY <2>6, <2>7 DEF SessionsShape
  <2>9. \A q \in Procs : job'[q].opened => q # p /\ job[q].opened /\ job'[q] = job[q]
    BY <2>2 DEF OnlyMoves, NoJob
  <2>10. \A u \in OpenTrades : trades'[u] = trades[u]
    BY <2>3, <2>4 DEF OpenTrades
  <2>11. OneOpenPosition'
    BY <2>6, <2>9, <2>10 DEF BooksInv, OneOpenPosition
  <2>12. OneSessionPerTrade'
    BY <2>2, LabelledNext DEF BooksInv, OneSessionPerTrade, OnlyMoves, Buying
  <2>. QED BY <2>6, <2>8, <2>11, <2>12
<1>. QED BY <1>2, <1>3

(* The insert of a position: the unique index lets it pass only on a flat  *)
(* token.                                                                  *)
LEMMA OpenInv ==
  ASSUME BooksInv, NEW p \in Procs, OpenPosition(p)
  PROVE  RowsShape' /\ SessionsShape' /\ OneOpenPosition' /\ OneSessionPerTrade'
<1>1. /\ TypeOK /\ trades' = trades /\ book' = book /\ pc[p] = "insert"
      /\ SessionToken(p) /\ SessionRow(p) /\ SessionPosition(p) /\ SessionsShape
  BY DEF OpenPosition, dbVars, BooksInv, ShapeInv, SessionsShape
<1>2. /\ OnlyMoves(p) /\ pc'[p] \in {"reward", "cool"}
      /\ job'[p].opened /\ job'[p].trade = job[p].trade
      /\ job'[p].token = job[p].token /\ job'[p].status = job[p].status
  BY <1>1 DEF OpenPosition, OnlyMoves, Goto, TypeOK, Job
<1>3. HasRow(p) /\ HasRow(p)'
  BY <1>1, <1>2 DEF HasRow, RowLabels, EntryLabels, BuyLabels
<1>4. /\ SessionToken(p)' /\ SessionEntry(p)' /\ SessionRow(p)'
      /\ SessionPosition(p)' /\ SessionExit(p)'
  BY <1>1, <1>2, <1>3, Labelled, LabelledNext
     DEF SessionToken, SessionEntry, SessionRow, SessionPosition, SessionExit,
        OutsideStatus
<1>5. RowsShape' /\ SessionsShape'
  BY <1>1, <1>2, <1>4, OthersStay DEF BooksInv, ShapeInv, RowsShape, SessionsShape
<1>6. OpenTrades' = OpenTrades /\ \A token : OpenOn(token)' = OpenOn(token)
  BY <1>1 DEF OpenTrades, OpenOn
<1>7. /\ OpenOn(job[p].token) = {}
      /\ \A q \in Procs \ {p} : job[q].opened => job[q].token # job[p].token
  BY DEF OpenPosition, IndexFree, IndexUndecided
<1>8. \A q \in Procs : job'[q].token = job[q].token /\ (q # p => job'[q] = job[q])
  BY <1>2 DEF OnlyMoves
<1>9. OneOpenPosition'
  BY <1>1, <1>6, <1>7, <1>8 DEF BooksInv, OneOpenPosition
<1>10. OneSessionPerTrade'
  BY <1>2, <1>3, Labelled DEF BooksInv, OneSessionPerTrade, OnlyMoves, Buying
<1>. QED BY <1>5, <1>9, <1>10

(* The commit of a buy makes its row and its position visible.             *)
LEMMA CommitBuyInv ==
  ASSUME BooksInv, NEW p \in Procs, CommitBuy(p)
  PROVE  RowsShape' /\ SessionsShape' /\ OneOpenPosition' /\ OneSessionPerTrade'
<1> DEFINE t == job[p].trade
<1>1. /\ TypeOK /\ Finish(p) /\ pc[p] = "commit" /\ HasRow(p) /\ SessionsShape
      /\ SessionPosition(p) /\ RowsShape
  BY DEF CommitBuy, HasRow, RowLabels, EntryLabels, BuyLabels, BooksInv, ShapeInv, SessionsShape
<1>2. /\ OnlyMoves(p) /\ pc'[p] = "idle" /\ job'[p] = NoJob
  BY <1>1 DEF Finish, Goto, OnlyMoves, TypeOK
<1>3. /\ t \in Trades /\ book[t] = "none" /\ trades[t].token = job[p].token
      /\ trades[t].status \in {"uncommitted", "pending_approval"}
  BY <1>1, OwnRow
<1>4. /\ trades'[t].status = job[p].status /\ trades'[t].token = trades[t].token
      /\ \A u \in Trades \ {t} : trades'[u] = trades[u]
      /\ \A u \in Trades : trades'[u].token = trades[u].token
  BY <1>1, <1>3 DEF CommitBuy, TypeOK, Row
<1>5. /\ book'[t] = IF job[p].opened THEN "open" ELSE "none"
      /\ \A u \in Trades \ {t} : book'[u] = book[u]
  BY <1>1, <1>3 DEF CommitBuy, TypeOK
<1>6. RowsShape'
  BY <1>1, <1>3, <1>4, <1>5 DEF RowsShape, SessionPosition
<1>7. \A q \in Procs \ {p} : HasRow(q) \/ Selling(q) => job[q].trade # t
  <2>1. \A q \in Procs \ {p} : HasRow(q) => job[q].trade # t
    BY <1>1, RowsApart
  <2>2. \A q \in Procs : Selling(q) => job[q].trade # t
    BY <1>1, <1>3 DEF SessionsShape, SessionExit
  <2>. QED BY <2>1, <2>2
<1>8. ASSUME NEW q \in Procs \ {p}
      PROVE  /\ SessionToken(q)' /\ SessionEntry(q)' /\ SessionRow(q)'
             /\ SessionPosition(q)' /\ SessionExit(q)'
  <2>1. pc'[q] = pc[q] /\ job'[q] = job[q]
    BY <1>2 DEF OnlyMoves
  <2>2. /\ SessionToken(q) /\ SessionEntry(q) /\ SessionRow(q)
        /\ SessionPosition(q) /\ SessionExit(q)
    BY <1>1 DEF SessionsShape
  <2>. QED BY <1>4, <1>5, <1>7, <2>1, <2>2
       DEF SessionToken, SessionEntry, SessionRow, SessionPosition, SessionExit,
           OutsideStatus, Running, HasRow, Selling
<1>9. /\ SessionToken(p)' /\ SessionEntry(p)' /\ SessionRow(p)'
      /\ SessionPosition(p)' /\ SessionExit(p)'
  BY <1>2, LabelledNext DEF SessionToken, SessionEntry, SessionRow, SessionPosition,
     SessionExit, NoJob
<1>10. SessionsShape'
  BY <1>8, <1>9 DEF SessionsShape
<1>11. \A q \in Procs : job'[q].opened => q # p /\ job[q].opened /\ job'[q] = job[q]
  BY <1>2 DEF OnlyMoves, NoJob
<1>12. OneOpenPosition'
  <2>1. CASE ~job[p].opened
    <3>1. OpenTrades' = OpenTrades /\ \A token : OpenOn(token)' = OpenOn(token)
      BY <1>3, <1>4, <1>5, <2>1 DEF OpenTrades, OpenOn
    <3>. QED BY <1>4, <1>11, <3>1 DEF BooksInv, OneOpenPosition, OpenTrades
  <2>2. CASE job[p].opened
    <3>1. OpenTrades' = OpenTrades \cup {t} /\ t \notin OpenTrades
      BY <1>3, <1>5, <2>2 DEF OpenTrades
    <3>2. /\ OpenOn(job[p].token) = {}
          /\ \A q \in Procs \ {p} : job[q].opened => job[q].token # job[p].token
      BY <2>2 DEF BooksInv, OneOpenPosition
    <3>3. \A u \in OpenTrades : trades[u].token # job[p].token
      BY <3>2 DEF OpenOn
    <3>4. \A u, v \in OpenTrades' : u # v => trades'[u].token # trades'[v].token
      BY <1>3, <1>4, <3>1, <3>3 DEF BooksInv, OneOpenPosition, OpenTrades
    <3>6. ASSUME NEW q \in Procs, job'[q].opened
          PROVE  (OpenOn(job[q].token) = {})'
      <4>1. q # p /\ job[q].opened /\ job'[q] = job[q]
        BY <1>11, <3>6
      <4>2. OpenOn(job[q].token) = {} /\ job[q].token # job[p].token
        BY <3>2, <4>1 DEF BooksInv, OneOpenPosition
      <4>3. \A u \in Trades : book'[u] = "open" => trades'[u].token # job[q].token
        BY <1>3, <1>4, <3>1, <4>2 DEF OpenOn, OpenTrades
      <4>. QED BY <4>1, <4>3 DEF OpenOn, OpenTrades
    <3>7. \A q, r \in Procs : q # r /\ job'[q].opened /\ job'[r].opened
                                 => job'[q].token # job'[r].token
      BY <1>11 DEF BooksInv, OneOpenPosition
    <3>. QED BY <3>4, <3>6, <3>7 DEF OneOpenPosition
  <2>. QED BY <2>1, <2>2
<1>13. OneSessionPerTrade'
  BY <1>2, LabelledNext DEF BooksInv, OneSessionPerTrade, OnlyMoves, Buying
<1>. QED BY <1>6, <1>10, <1>12, <1>13

(* The start of a mirrored sell.                                           *)
LEMMA MirrorInv ==
  ASSUME BooksInv, NEW leader \in Leaders, NEW token \in Tokens, MirrorSell(leader, token)
  PROVE  RowsShape' /\ SessionsShape' /\ OneOpenPosition' /\ OneSessionPerTrade'
<1>1. PICK b \in OpenOn(token) :
        job' = [job EXCEPT ![Worker] =
                  [NoJob EXCEPT !.trade = b, !.token = token, !.leader = leader,
                                !.size = trades[b].size]]
  BY DEF MirrorSell
<1>2. /\ Worker \in Procs /\ TypeOK /\ SessionsShape /\ RowsShape
      /\ trades' = trades /\ book' = book
      /\ b \in Trades /\ book[b] = "open" /\ trades[b].token = token
  BY WorkerIsProc DEF BooksInv, ShapeInv, MirrorSell, dbVars, OpenOn, OpenTrades
<1>3. /\ OnlyMoves(Worker) /\ pc'[Worker] \in {"sellQuote", "lockedOut"} /\ Selling(Worker)'
  BY <1>1, <1>2 DEF MirrorSell, OnlyMoves, Goto, TypeOK, Selling, SellLabels
<1>4. job'[Worker].token = token /\ job'[Worker].trade = b /\ ~job'[Worker].opened
  BY <1>1, <1>2 DEF NoJob, TypeOK
<1>5. /\ SessionToken(Worker)' /\ SessionEntry(Worker)' /\ SessionRow(Worker)'
      /\ SessionPosition(Worker)' /\ SessionExit(Worker)'
  BY <1>2, <1>3, <1>4, LabelledNext
     DEF SessionToken, SessionEntry, SessionRow, SessionPosition, SessionExit
<1>6. RowsShape' /\ SessionsShape'
  BY <1>2, <1>3, <1>5, OthersStay DEF RowsShape, SessionsShape
<1>7. \A q \in Procs : job'[q].opened => q # Worker /\ job[q].opened /\ job'[q] = job[q]
  BY <1>3, <1>4 DEF OnlyMoves
<1>8. OneOpenPosition'
  BY <1>2, <1>7 DEF BooksInv, OneOpenPosition, OpenOn, OpenTrades
<1>9. OneSessionPerTrade'
  BY <1>3, LabelledNext DEF BooksInv, OneSessionPerTrade, OnlyMoves, Buying
<1>. QED BY <1>6, <1>8, <1>9

(* The commit of a sell.                                                   *)
LEMMA CommitSellInv ==
  ASSUME BooksInv, CommitSell
  PROVE  RowsShape' /\ SessionsShape' /\ OneOpenPosition' /\ OneSessionPerTrade'
<1> DEFINE b == job[Worker].trade
<1>1. /\ Worker \in Procs /\ TypeOK /\ SessionsShape /\ RowsShape
      /\ trades' = trades /\ Finish(Worker) /\ Selling(Worker)
  BY WorkerIsProc DEF BooksInv, ShapeInv, CommitSell, Selling, SellLabels
<1>2. OnlyMoves(Worker) /\ pc'[Worker] = "idle" /\ job'[Worker] = NoJob
  BY <1>1 DEF Finish, Goto, OnlyMoves, TypeOK
<1>3. b \in Trades /\ book[b] = "open"
  BY <1>1 DEF SessionsShape, SessionExit
<1>4. book'[b] = "closed" /\ \A u \in Trades \ {b} : book'[u] = book[u]
  BY <1>1, <1>3 DEF CommitSell, TypeOK
<1>5. RowsShape'
  BY <1>1, <1>3, <1>4 DEF RowsShape
<1>6. ASSUME NEW q \in Procs \ {Worker}
      PROVE  /\ SessionToken(q)' /\ SessionEntry(q)' /\ SessionRow(q)'
             /\ SessionPosition(q)' /\ SessionExit(q)'
  <2>1. pc'[q] = pc[q] /\ job'[q] = job[q]
    BY <1>2 DEF OnlyMoves
  <2>2. /\ SessionToken(q) /\ SessionEntry(q) /\ SessionRow(q)
        /\ SessionPosition(q) /\ SessionExit(q)
    BY <1>1 DEF SessionsShape
  <2>3. ~Selling(q)
    BY <2>2, Labelled DEF SessionToken
  <2>. QED BY <1>1, <2>1, <2>2, <2>3
       DEF SessionToken, SessionEntry, SessionRow, SessionPosition, SessionExit,
           OutsideStatus, Running, HasRow, Selling
<1>7. /\ SessionToken(Worker)' /\ SessionEntry(Worker)' /\ SessionRow(Worker)'
      /\ SessionPosition(Worker)' /\ SessionExit(Worker)'
  BY <1>2, LabelledNext DEF SessionToken, SessionEntry, SessionRow, SessionPosition,
     SessionExit, NoJob
<1>8. SessionsShape'
  BY <1>6, <1>7 DEF SessionsShape
<1>9. OpenTrades' \subseteq OpenTrades /\ \A token : OpenOn(token)' \subseteq OpenOn(token)
  BY <1>1, <1>4 DEF OpenTrades, OpenOn
<1>10. \A q \in Procs : job'[q].opened => job[q].opened /\ job'[q] = job[q]
  BY <1>2 DEF OnlyMoves, NoJob
<1>11. OneOpenPosition'
  BY <1>1, <1>9, <1>10 DEF BooksInv, OneOpenPosition
<1>12. OneSessionPerTrade'
  BY <1>2, LabelledNext DEF BooksInv, OneSessionPerTrade, OnlyMoves, Buying
<1>. QED BY <1>5, <1>8, <1>11, <1>12

(* Steps of the chain, the rails and the clock.                            *)
LEMMA NothingMovesInv ==
  ASSUME BooksInv, trades' = trades, book' = book, pc' = pc, job' = job
  PROVE  RowsShape' /\ SessionsShape' /\ OneOpenPosition' /\ OneSessionPerTrade'
<1>1. RowsShape'
  BY DEF BooksInv, ShapeInv, RowsShape
<1>2. SessionsShape'
  BY DEF BooksInv, ShapeInv, SessionsShape, SessionToken, SessionEntry, SessionRow,
     SessionPosition,
         SessionExit, OutsideStatus, Running, HasRow, Selling
<1>3. OneOpenPosition'
  BY DEF BooksInv, OneOpenPosition, OpenOn, OpenTrades
<1>4. OneSessionPerTrade'
  BY DEF BooksInv, OneSessionPerTrade, Buying
<1>. QED BY <1>1, <1>2, <1>3, <1>4

(* The invariant holds initially.                                          *)
LEMMA BooksInit == Init => BooksInv
<1> SUFFICES ASSUME Init PROVE BooksInv
  OBVIOUS
<1>1. TypeOK
  BY TypeInit
<1>2. /\ \A p \in Procs : pc[p] = "idle" /\ job[p] = NoJob
      /\ \A t \in Trades : trades[t].status = "none" /\ book[t] = "none"
  BY DEF Init, NoRow
<1>3. RowsShape
  BY <1>2 DEF RowsShape
<1>4. SessionsShape
  <2>1. ASSUME NEW p \in Procs
        PROVE  /\ SessionToken(p) /\ SessionEntry(p) /\ SessionRow(p)
               /\ SessionPosition(p) /\ SessionExit(p)
    <3>1. pc[p] = "idle" /\ job[p] = NoJob
      BY <1>2
    <3>2. ~NoJob.opened
      BY DEF NoJob
    <3>. QED BY <3>1, <3>2, Labelled DEF SessionToken, SessionEntry, SessionRow, SessionPosition, SessionExit
  <2>. QED BY <2>1 DEF SessionsShape
<1>5. OneOpenPosition
  BY <1>2 DEF OneOpenPosition, OpenTrades, NoJob
<1>6. OneSessionPerTrade
  BY <1>2, Labelled DEF OneSessionPerTrade
<1>. QED BY <1>1, <1>3, <1>4, <1>5, <1>6 DEF BooksInv, ShapeInv

(* Every step keeps the types.                                             *)
LEMMA TypeNext == TypeOK /\ SessionsShape /\ [Next]_vars => TypeOK'
<1> SUFFICES ASSUME TypeOK, SessionsShape, [Next]_vars PROVE TypeOK'
  OBVIOUS
<1>1. CASE LeaderTrades \/ OperatorDecides
  BY <1>1, TypeStart
<1>2. ASSUME NEW p \in Procs, BuyStep(p) PROVE TypeOK'
  BY <1>2, TypeSending, TypeSettling DEF BuyStep
<1>3. CASE WorkerStep
  BY <1>2, <1>3, TypeEntry, TypeSelling, WorkerIsProc DEF WorkerStep
<1>4. CASE (\E p \in Procs : Abort(p)) \/ ChainMoves \/ RailsMove \/ DayChanges
  BY <1>4, TypeEnvironment
<1>5. CASE UNCHANGED vars
  BY <1>5, TypeRails DEF TypeOK, vars, dbVars
<1>. QED BY <1>1, <1>2, <1>3, <1>4, <1>5, WorkerIsProc DEF Next

(* Every step keeps the invariant.                                         *)
LEMMA BooksNext == BooksInv /\ [Next]_vars => BooksInv'
<1> SUFFICES ASSUME BooksInv, [Next]_vars PROVE BooksInv'
  OBVIOUS
<1> DEFINE Goal == RowsShape' /\ SessionsShape' /\ OneOpenPosition' /\ OneSessionPerTrade'
<1>1. SUFFICES Goal
  BY TypeNext DEF BooksInv, ShapeInv
<1>2. CASE LeaderTrades
  BY <1>2, EvaluateInv, MirrorInv DEF LeaderTrades
<1>3. CASE OperatorDecides
  BY <1>3, ApproveInv DEF OperatorDecides
<1>4. CASE EntryStep
  <2>1. CASE ExecuteBuyLockedOut
    BY <2>1, FinishInv, WorkerIsProc DEF ExecuteBuyLockedOut, dbVars
  <2>. QED BY <1>4, <2>1, LookInv, DecideInv, ExecuteInv DEF EntryStep, EvaluationLooks
<1>5. ASSUME NEW p \in Procs, BuyStep(p) PROVE Goal
  <2>1. CASE OpenPositionRefused(p)
    BY <2>1, RollBackInv DEF OpenPositionRefused, Running
  <2>2. CASE OpenPosition(p) \/ CommitBuy(p)
    BY <2>2, OpenInv, CommitBuyInv
  <2>3. CASE ~ (OpenPositionRefused(p) \/ OpenPosition(p) \/ CommitBuy(p))
    BY <1>5, <2>3, MidBuy, MidStepInv DEF BuyStep
  <2>. QED BY <2>1, <2>2, <2>3
<1>6. CASE SellStep
  <2>1. CASE SellLockedOut \/ AbandonSell
    BY <2>1, FinishInv, WorkerIsProc DEF SellLockedOut, AbandonSell, dbVars
  <2>2. CASE CommitSell
    BY <2>2, CommitSellInv
  <2>3. CASE ~ (SellLockedOut \/ AbandonSell \/ CommitSell)
    BY <1>6, <2>3, MidSell, MidStepInv, WorkerIsProc DEF SellStep
  <2>. QED BY <2>1, <2>2, <2>3
<1>7. CASE WorkerStep
  BY <1>4, <1>5, <1>6, <1>7, WorkerIsProc DEF WorkerStep
<1>8. ASSUME NEW p \in Procs, Abort(p) PROVE Goal
  BY <1>8, RollBackInv DEF Abort, Running
<1>9. CASE ChainMoves \/ RailsMove \/ DayChanges \/ UNCHANGED vars
  BY <1>9, NothingMovesInv
     DEF ChainMoves, Land, RailsMove, DayChanges, vars, dbVars
<1>. QED BY <1>2, <1>3, <1>5, <1>7, <1>8, <1>9, WorkerIsProc DEF Next

(* The inductive invariant of the books holds in every reachable state.    *)
THEOREM BooksCorrect == Spec => []BooksInv
<1>. QED BY BooksInit, BooksNext, PTL DEF Spec

(* Every reachable state is well typed: no session ever holds a row, a size*)
(* or a status it cannot have.                                             *)
THEOREM TypeCorrect == Spec => []TypeOK
<1>1. BooksInv => TypeOK
  BY DEF BooksInv, ShapeInv
<1>. QED BY <1>1, BooksCorrect, PTL

(* A token never has two open copy positions, for any number of tokens,    *)
(* rows and concurrent approvals: the partial unique index suffices        *)
(* although approvals take no lock per token (models.py:580).              *)
THEOREM OneOpenPositionHolds == Spec => []OneOpenPosition
<1>1. BooksInv => OneOpenPosition
  BY DEF BooksInv
<1>. QED BY <1>1, BooksCorrect, PTL

(* No two sessions execute the same copy_trades row: the row lock and the  *)
(* status check of approve_trade suffice (copytrading.py:199).             *)
THEOREM OneSessionPerTradeHolds == Spec => []OneSessionPerTrade
<1>1. BooksInv => OneSessionPerTrade
  BY DEF BooksInv
<1>. QED BY <1>1, BooksCorrect, PTL

-----------------------------------------------------------------------------
(* The books implement CopyBook.                                            *)

HolderOf(token) == Only(OpenOn(token))

(* A row keeps its token and its size. *)
RowKept(t) == trades'[t].token = trades[t].token /\ trades'[t].size = trades[t].size

(* Positions appear in the commit of a buy, disappear in the commit of a   *)
(* sell, and change in no other step.                                      *)
LEMMA BookSteps ==
  ASSUME BooksInv, [Next]_vars
  PROVE  \/ /\ book' = book
            /\ \A t \in Trades : book[t] = "open" => RowKept(t)
         \/ \E p \in Procs : CommitBuy(p) /\ job[p].opened
         \/ CommitSell
<1> DEFINE Same == /\ book' = book
                   /\ \A t \in Trades : book[t] = "open" => RowKept(t)
<1>1. TypeOK /\ RowsShape /\ Worker \in Procs
  BY WorkerIsProc DEF BooksInv, ShapeInv
<1>2. ASSUME NEW q \in Procs, RollBack(q), book' = book PROVE Same
  <2>1. trades' = trades \/ trades' = [trades EXCEPT ![job[q].trade].status = "gone"]
    BY <1>2 DEF RollBack
  <2>2. \A t \in Trades : RowKept(t)
    BY <1>1, <2>1 DEF RowKept, TypeOK, Row
  <2>. QED BY <1>2, <2>2
<1>3. ASSUME NEW p \in Procs, BuyStep(p), ~(CommitBuy(p) /\ job[p].opened) PROVE Same
  <2>1. CASE CommitBuy(p)
    <3>1. \A t \in Trades : RowKept(t)
      BY <1>1, <2>1 DEF RowKept, CommitBuy, TypeOK, Row
    <3>2. book' = book
      BY <1>3, <2>1 DEF CommitBuy
    <3>. QED BY <3>1, <3>2
  <2>2. CASE OpenPositionRefused(p)
    BY <1>2, <2>2 DEF OpenPositionRefused
  <2>3. CASE ~CommitBuy(p) /\ ~OpenPositionRefused(p)
    <3>1. trades' = trades /\ book' = book
      BY <1>3, <2>3 DEF BuyStep, GateReads, ReadClear, ApprovalPasses, ApprovalBlocks, GatePasses, GateBlocks, PrepareFails,
         PrepareHardFails, PrepareSwap,
         PaperFill, SendAccepted, SendRaises, SendVoid, ConfirmLanded,
            ConfirmGivesUp, OpenPosition,
         RecordSuccess, CoolDown, GiveUp, RecordFailure, TripAfterFailures, dbVars
    <3>. QED BY <3>1 DEF RowKept
  <2>. QED BY <2>1, <2>2, <2>3
<1>4. ASSUME SellStep, ~CommitSell PROVE Same
  <2>1. trades' = trades /\ book' = book
    BY <1>4 DEF SellStep, SellLockedOut, BookExit, SellNotReady, SellReady,
       SellSendAccepted,
       SellSendRaises, SellSendVoid, SellLanded, SellGivesUp, AbandonSell,
          ClosePosition,
       TripAfterLoss, dbVars
  <2>. QED BY <2>1 DEF RowKept
<1>5. ASSUME NEW u \in Trades, ExecuteBuy(u) PROVE Same
  <2>1. book[u] # "open" /\ book' = book
    BY <1>1, <1>5 DEF ExecuteBuy, RowsShape
  <2>2. \A t \in Trades \ {u} : trades'[t] = trades[t]
    BY <1>1, <1>5 DEF ExecuteBuy, TypeOK
  <2>. QED BY <2>1, <2>2 DEF RowKept
<1>7. ASSUME NEW p \in Procs, Abort(p) PROVE Same
  BY <1>2, <1>7 DEF Abort
<1>6. EvaluationLooks => Same
  BY DEF EvaluationLooks, EvaluationReads, ReadClear, EvaluationPasses, EvaluationBlocks,
     dbVars, RowKept
<1>8. LeaderTrades \/ DecideBuy \/ ExecuteBuyLockedOut \/ ChainMoves \/ RailsMove \/ DayChanges
        \/ (\E p \in Approvers, u \in Trades : ApproveTrade(p, u)) \/ UNCHANGED vars
      => Same
  BY DEF LeaderTrades, EvaluateBuy, MirrorSell, DecideBuy, ExecuteBuyLockedOut,
     ChainMoves, Land,
     RailsMove, DayChanges, ApproveTrade, vars, dbVars, RowKept
<1>9. SUFFICES ASSUME ~CommitSell, \A p \in Procs : ~(CommitBuy(p) /\ job[p].opened) PROVE Same
  OBVIOUS
<1>10. \/ \E p \in Procs : BuyStep(p) \/ Abort(p)
       \/ SellStep
       \/ \E u \in Trades : ExecuteBuy(u)
       \/ Same
  BY <1>1, <1>6, <1>8, WorkerIsProc DEF Next, WorkerStep, EntryStep, OperatorDecides
<1>. QED BY <1>3, <1>4, <1>5, <1>7, <1>9, <1>10

(* A step that leaves the positions and their tokens is a stutter of       *)
(* CopyBook.                                                               *)
LEMMA StutterBooks ==
  ASSUME book' = book,
         \A t \in Trades : book[t] = "open" => RowKept(t)
  PROVE  /\ [token \in Tokens |-> HolderOf(token)]' = [token \in Tokens |-> HolderOf(token)]
         /\ ClosedTrades' = ClosedTrades
<1>1. ASSUME NEW token PROVE HolderOf(token)' = HolderOf(token)
  <2>1. OpenOn(token)' = OpenOn(token)
    BY DEF RowKept, OpenOn, OpenTrades
  <2>. QED BY <2>1 DEF HolderOf
<1>2. ClosedTrades' = ClosedTrades
  BY DEF ClosedTrades
<1>. QED BY <1>1, <1>2

(* The member of a set of at most one.                                     *)
LEMMA OnlyOne == Only({}) = None /\ \A t : Only({t}) = t
  BY DEF Only

(* The holder of an open position's token is its trade.                    *)
LEMMA HolderIs ==
  ASSUME BooksInv, NEW t \in OpenTrades
  PROVE  HolderOf(trades[t].token) = t
<1>1. OpenOn(trades[t].token) = {t}
  BY DEF BooksInv, OneOpenPosition, OpenOn
<1>. QED BY <1>1, OnlyOne DEF HolderOf

(* A holder is open on the token it holds.                                 *)
LEMMA HolderOpen ==
  ASSUME NEW token, NEW t, HolderOf(token) = t, t # None
  PROVE  t \in OpenOn(token)
  BY DEF HolderOf, Only

(* The commit of a buy with its position is CopyBook's Open.               *)
LEMMA BookOpens ==
  ASSUME BooksInv, BooksInv', NEW p \in Procs, CommitBuy(p), job[p].opened
  PROVE  \E token \in Tokens, entry \in Trades :
           /\ HolderOf(token) = None
           /\ entry \notin ClosedTrades
           /\ \A other \in Tokens : HolderOf(other) # entry
           /\ [x \in Tokens |-> HolderOf(x)]' = [[x \in Tokens |-> HolderOf(x)] EXCEPT ![token] = entry]
           /\ ClosedTrades' = ClosedTrades
<1>1. TypeOK /\ HasRow(p) /\ job[p].token \in Tokens /\ job[p].trade \in Trades
  BY StepToken, OwnRow DEF CommitBuy, HasRow, RowLabels, EntryLabels, BuyLabels, BooksInv,
     ShapeInv, Running
<1>. PICK token \in Tokens, entry \in Trades : token = job[p].token /\ entry = job[p].trade
  BY <1>1
<1>2. /\ book[entry] = "none" /\ trades[entry].token = token
      /\ OpenOn(token) = {}
  BY <1>1, OwnRow DEF BooksInv, OneOpenPosition
<1>3. /\ book'[entry] = "open" /\ \A u \in Trades \ {entry} : book'[u] = book[u]
      /\ \A u \in Trades : trades'[u].token = trades[u].token
  BY <1>1, <1>2 DEF CommitBuy, TypeOK, Row
<1>4. ClosedTrades' = ClosedTrades /\ entry \notin ClosedTrades
  BY <1>2, <1>3 DEF ClosedTrades
<1>5. OpenTrades' = OpenTrades \cup {entry} /\ entry \notin OpenTrades
  BY <1>2, <1>3 DEF OpenTrades
<1>6. HolderOf(token) = None
  BY <1>2 DEF HolderOf, Only
<1>7. ASSUME NEW other \in Tokens PROVE HolderOf(other) # entry
  <2>1. entry # None
    BY <1>2, Parameters DEF Parameters
  <2>. QED BY <1>5, <2>1, HolderOpen DEF OpenOn
<1>8. OpenOn(token)' = {entry}
  BY <1>2, <1>3, <1>5 DEF OpenOn, OpenTrades
<1>9. \A x \in Tokens \ {token} : OpenOn(x)' = OpenOn(x)
  BY <1>2, <1>3, <1>5 DEF OpenOn, OpenTrades
<1>10. /\ HolderOf(token)' = entry
       /\ \A x \in Tokens \ {token} : HolderOf(x)' = HolderOf(x)
  BY <1>8, <1>9, OnlyOne DEF HolderOf
<1>11. [x \in Tokens |-> HolderOf(x)]' = [[x \in Tokens |-> HolderOf(x)] EXCEPT ![token] = entry]
  BY <1>1, <1>10
<1>. QED BY <1>1, <1>2, <1>4, <1>6, <1>7, <1>11

(* The commit of a sell is CopyBook's Close.                               *)
LEMMA BookCloses ==
  ASSUME BooksInv, BooksInv', CommitSell
  PROVE  \E token \in Tokens :
           /\ HolderOf(token) # None
           /\ ClosedTrades' = ClosedTrades \cup {HolderOf(token)}
           /\ [x \in Tokens |-> HolderOf(x)]' = [[x \in Tokens |-> HolderOf(x)] EXCEPT ![token] = None]
<1>1. TypeOK /\ Worker \in Procs /\ Selling(Worker) /\ trades' = trades
  BY WorkerIsProc DEF CommitSell, Selling, SellLabels, BooksInv, ShapeInv
<1>. PICK token \in Tokens, b \in Trades : token = job[Worker].token /\ b = job[Worker].trade
  BY <1>1, Labelled DEF BooksInv, ShapeInv, SessionsShape, SessionExit, SessionToken
<1>2. book[b] = "open" /\ trades[b].token = token
  BY <1>1 DEF BooksInv, ShapeInv, SessionsShape, SessionExit
<1>3. book'[b] = "closed" /\ \A u \in Trades \ {b} : book'[u] = book[u]
  BY <1>1, <1>2 DEF CommitSell, TypeOK
<1>4. HolderOf(token) = b /\ b # None
  BY <1>2, HolderIs, Parameters DEF OpenTrades, Parameters
<1>5. ClosedTrades' = ClosedTrades \cup {b}
  BY <1>2, <1>3 DEF ClosedTrades
<1>6. OpenTrades' = OpenTrades \ {b}
  BY <1>2, <1>3 DEF OpenTrades
<1>7. OpenOn(token) = {b}
  BY <1>2 DEF BooksInv, OneOpenPosition, OpenOn, OpenTrades
<1>8. OpenOn(token)' = {} /\ \A x \in Tokens \ {token} : OpenOn(x)' = OpenOn(x)
  BY <1>1, <1>2, <1>6, <1>7 DEF OpenOn
<1>9. HolderOf(token)' = None /\ \A x \in Tokens \ {token} : HolderOf(x)' = HolderOf(x)
  BY <1>8, OnlyOne DEF HolderOf
<1>10. [x \in Tokens |-> HolderOf(x)]' = [[x \in Tokens |-> HolderOf(x)] EXCEPT ![token] = None]
  BY <1>2, <1>9
<1>. QED BY <1>2, <1>4, <1>5, <1>10

(* Execution, with every fault, rollback and concurrent approval,          *)
(* implements the abstract book: the commit of a buy opens, the commit of a*)
(* sell closes, everything else is a stutter.                              *)
THEOREM ImplementsCopyBookHolds == Spec => ImplementsCopyBook
<1> DEFINE Holder == [token \in Tokens |-> HolderOf(token)]
<1>1. Init => Books!Init
  <2> SUFFICES ASSUME Init PROVE Books!Init
    OBVIOUS
  <2>1. \A t \in Trades : book[t] = "none"
    BY DEF Init
  <2>2. \A token \in Tokens : OpenOn(token) = {}
    BY <2>1 DEF OpenOn, OpenTrades
  <2>. QED BY <2>1, <2>2 DEF Books!Init, Only, ClosedTrades
<1>2. BooksInv /\ BooksInv' /\ [Next]_vars => [Books!Next]_<<Holder, ClosedTrades>>
  <2> SUFFICES ASSUME BooksInv, BooksInv', [Next]_vars,
                      ~(UNCHANGED <<Holder, ClosedTrades>>)
               PROVE  Books!Next
    OBVIOUS
  <2>1. CASE CommitSell
    <3>1. PICK token \in Tokens :
           /\ HolderOf(token) # None
           /\ ClosedTrades' = ClosedTrades \cup {HolderOf(token)}
           /\ Holder' = [Holder EXCEPT ![token] = None]
      BY <2>1, BookCloses
    <3>2. Books!Close(token)
      BY <3>1 DEF Books!Close, HolderOf
    <3>. QED BY <3>2 DEF Books!Next
  <2>2. ASSUME NEW p \in Procs, CommitBuy(p), job[p].opened PROVE Books!Next
    <3>1. PICK token \in Tokens, entry \in Trades :
           /\ HolderOf(token) = None
           /\ entry \notin ClosedTrades
           /\ \A other \in Tokens : HolderOf(other) # entry
           /\ Holder' = [Holder EXCEPT ![token] = entry]
           /\ ClosedTrades' = ClosedTrades
      BY <2>2, BookOpens
    <3>2. Books!Open(token, entry)
      BY <3>1 DEF Books!Open, HolderOf
    <3>. QED BY <3>2 DEF Books!Next
  <2>. QED BY <2>1, <2>2, BookSteps, StutterBooks
<1>3. Spec => []BooksInv
  BY BooksCorrect
<1>. QED BY <1>1, <1>2, <1>3, PTL DEF Spec, ImplementsCopyBook, Books!Spec, HolderOf
=============================================================================
