-------------------------- MODULE CopyChainProofs ---------------------------
(*****************************************************************************)
(* The chain: what is recorded as confirmed has landed, the worker          *)
(* broadcasts a trade once and accounts for what it broadcast; and the      *)
(* exposure of its open positions stays within the limit.                   *)
(*****************************************************************************)
EXTENDS CopyBooksProofs, SumProofs

-----------------------------------------------------------------------------
(* The looks at the rails.                                                  *)

Reading(p) == GateReads(p) \/ ApprovalPasses(p) \/ ApprovalBlocks(p)

(* What a look at the rails leaves of a session's locals.                  *)
SameTrade(p) == /\ job'[p].trade = job[p].trade /\ job'[p].token = job[p].token
                /\ job'[p].size = job[p].size /\ job'[p].opened = job[p].opened
                /\ job'[p].usable = job[p].usable /\ job'[p].attempt = job[p].attempt
                /\ job'[p].onChain = job[p].onChain
NothingSent == /\ UNCHANGED <<dbVars, locks, chain, aborts>>
               /\ stop' = stop /\ streak' = streak /\ pnl' = pnl

(* The evaluation's look moves the worker only, on to the next read, past  *)
(* the last one, or to the end of the message.                             *)
LEMMA LookSteps ==
  ASSUME TypeOK, EvaluationLooks
  PROVE  /\ NothingSent /\ OnlyMoves(Worker) /\ pc[Worker] = "evaluating"
         /\ \/ Finish(Worker)
            \/ pc'[Worker] \in {"evaluating", "evaluated"} /\ SameTrade(Worker)
<1>1. Worker \in Procs /\ job[Worker] \in Job
  BY WorkerIsProc DEF TypeOK
<1>2. CASE EvaluationReads
  BY <1>1, <1>2, ReadOnly DEF EvaluationReads, NothingSent, OnlyMoves, SameTrade
<1>3. CASE EvaluationPasses
  <2>1. /\ pc' = [pc EXCEPT ![Worker] = "evaluated"] /\ pc[Worker] = "evaluating"
        /\ job' = [job EXCEPT ![Worker].read = 1]
    BY <1>3 DEF EvaluationPasses, Goto
  <2>2. OnlyMoves(Worker) /\ pc'[Worker] = "evaluated" /\ SameTrade(Worker)
    BY <1>1, <2>1 DEF OnlyMoves, TypeOK, Job, SameTrade
  <2>3. NothingSent
    BY <1>3 DEF EvaluationPasses, NothingSent, railVars
  <2>. QED BY <2>1, <2>2, <2>3
<1>4. CASE EvaluationBlocks
  BY <1>1, <1>4 DEF EvaluationBlocks, NothingSent, railVars, Finish, Goto, OnlyMoves, TypeOK
<1>. QED BY <1>2, <1>3, <1>4 DEF EvaluationLooks

(* An approval's look, and the last one, move their session only, and      *)
(* decide no more than its status.                                         *)
LEMMA GateSteps ==
  ASSUME TypeOK, NEW p \in Procs, Reading(p)
  PROVE  /\ NothingSent /\ OnlyMoves(p) /\ SameTrade(p)
         /\ HasRow(p) /\ HasRow(p)' /\ pc[p] \in {"approving", "gate"}
         /\ pc'[p] \in {"approving", "gate", "commit"}
         /\ job'[p].status \in {job[p].status, "approved", "rejected"}
<1>1. job[p] \in Job
  BY DEF TypeOK
<1>2. CASE GateReads(p)
  BY <1>2, ReadOnly DEF GateReads, NothingSent, OnlyMoves, SameTrade, HasRow, RowLabels,
     EntryLabels, BuyLabels
<1>3. CASE ApprovalPasses(p)
  <2>1. /\ pc' = [pc EXCEPT ![p] = "gate"] /\ pc[p] = "approving"
        /\ job' = [job EXCEPT ![p] = [@ EXCEPT !.read = 1, !.status = "approved"]]
    BY <1>3 DEF ApprovalPasses, Goto
  <2>2. OnlyMoves(p) /\ pc'[p] = "gate" /\ SameTrade(p) /\ job'[p].status = "approved"
    BY <1>1, <2>1 DEF OnlyMoves, TypeOK, Job, SameTrade
  <2>3. NothingSent
    BY <1>3 DEF ApprovalPasses, NothingSent, railVars
  <2>. QED BY <2>1, <2>2, <2>3 DEF HasRow, RowLabels, EntryLabels, BuyLabels
<1>4. CASE ApprovalBlocks(p)
  <2>1. /\ pc' = [pc EXCEPT ![p] = "commit"] /\ pc[p] = "approving"
        /\ job' = [job EXCEPT ![p].status = "rejected"]
    BY <1>4 DEF ApprovalBlocks, Goto
  <2>2. OnlyMoves(p) /\ pc'[p] = "commit" /\ SameTrade(p) /\ job'[p].status = "rejected"
    BY <1>1, <2>1 DEF OnlyMoves, TypeOK, Job, SameTrade
  <2>3. NothingSent
    BY <1>4 DEF ApprovalBlocks, NothingSent, railVars
  <2>. QED BY <2>1, <2>2, <2>3 DEF HasRow, RowLabels, EntryLabels, BuyLabels
<1>. QED BY <1>2, <1>3, <1>4 DEF Reading

(* The last look passed: the first attempt begins.                         *)
LEMMA PassSteps ==
  ASSUME TypeOK, NEW p \in Procs, GatePasses(p)
  PROVE  /\ NothingSent /\ OnlyMoves(p) /\ HasRow(p) /\ HasRow(p)'
         /\ pc[p] = "gate" /\ pc'[p] = "prepare"
         /\ job'[p].trade = job[p].trade /\ job'[p].token = job[p].token
         /\ job'[p].size = job[p].size /\ job'[p].opened = job[p].opened
         /\ job'[p].usable = job[p].usable /\ job'[p].status = job[p].status
         /\ job'[p].onChain = job[p].onChain /\ job'[p].attempt = 1
<1>1. job[p] \in Job
  BY DEF TypeOK
<1>2. /\ pc' = [pc EXCEPT ![p] = "prepare"] /\ pc[p] = "gate"
      /\ job' = [job EXCEPT ![p] = [@ EXCEPT !.read = 1, !.attempt = 1]]
  BY DEF GatePasses, Goto
<1>3. NothingSent
  BY DEF GatePasses, NothingSent, railVars
<1>4. OnlyMoves(p) /\ pc'[p] = "prepare"
  BY <1>2 DEF OnlyMoves, TypeOK
<1>5. job'[p] = [job[p] EXCEPT !.read = 1, !.attempt = 1]
  BY <1>2 DEF TypeOK
<1>6. HasRow(p) /\ HasRow(p)'
  BY <1>2, <1>4 DEF HasRow, RowLabels, EntryLabels, BuyLabels
<1>7. /\ job'[p].trade = job[p].trade /\ job'[p].token = job[p].token
      /\ job'[p].size = job[p].size /\ job'[p].opened = job[p].opened
      /\ job'[p].usable = job[p].usable /\ job'[p].status = job[p].status
      /\ job'[p].onChain = job[p].onChain /\ job'[p].attempt = 1
  BY <1>1, <1>5 DEF Job
<1>. QED BY <1>2, <1>3, <1>4, <1>6, <1>7

-----------------------------------------------------------------------------
(* Confirmations.                                                           *)

(* A broadcast takes an unused number and changes nothing else.            *)
LEMMA BroadcastGrows ==
  ASSUME TypeOK, NEW t \in Trades, NEW side \in Sides, NEW n \in TxIds, Broadcast(t, side, n)
  PROVE  /\ \A x \in Trades \X Sides \X TxIds : x # <<t, side, n>> => chain'[x] = chain[x]
         /\ chain[<<t, side, n>>] = "none"
         /\ chain'[<<t, side, n>>] = "pending"
<1>1. n \notin Sent(t, side)
  <2>1. n \in Int
    BY Parameters DEF TxIds, Parameters
  <2>. QED BY <2>1 DEF Broadcast, NextTx
<1>. QED BY <1>1 DEF Broadcast, Sent, TypeOK

(* The chain changes by a broadcast of the running session, or by a landing. *)
LEMMA ChainSteps ==
  ASSUME BooksInv, [Next]_vars
  PROVE  \/ chain' = chain
         \/ \E p \in Procs, n \in TxIds :
              /\ SendAccepted(p) \/ SendRaises(p)
              /\ job[p].trade \in Trades /\ Broadcast(job[p].trade, "buy", n)
         \/ \E n \in TxIds :
              /\ SellSendAccepted \/ SellSendRaises
              /\ job[Worker].trade \in Trades /\ Broadcast(job[Worker].trade, "sell", n)
         \/ \E t \in Trades, side \in Sides, n \in TxIds : Land(t, side, n)
<1>1. ASSUME NEW p \in Procs, BuyStep(p), ~SendAccepted(p), ~SendRaises(p) PROVE chain' = chain
  BY <1>1 DEF BuyStep, GateReads, ReadClear, ApprovalPasses, ApprovalBlocks, GatePasses, GateBlocks, PrepareFails, PrepareHardFails,
     PrepareSwap,
     PaperFill, SendVoid, ConfirmLanded, ConfirmGivesUp, OpenPosition,
     OpenPositionRefused, RecordSuccess, CoolDown, GiveUp, RecordFailure,
     TripAfterFailures, CommitBuy
<1>2. ASSUME NEW p \in Procs, SendAccepted(p) \/ SendRaises(p)
      PROVE  \/ chain' = chain
             \/ \E n \in TxIds :
                  job[p].trade \in Trades /\ Broadcast(job[p].trade, "buy", n)
  <2>1. HasRow(p)
    BY <1>2 DEF SendAccepted, SendRaises, HasRow, RowLabels, EntryLabels, BuyLabels
  <2>. QED BY <1>2, <2>1, OwnRow DEF SendAccepted, SendRaises
<1>3. ASSUME SellStep, ~SellSendAccepted, ~SellSendRaises PROVE chain' = chain
  BY <1>3 DEF SellStep, SellLockedOut, BookExit, SellNotReady, SellReady,
     SellSendVoid,
     SellLanded, SellGivesUp, AbandonSell, ClosePosition, TripAfterLoss, CommitSell
<1>4. ASSUME SellSendAccepted \/ SellSendRaises
      PROVE  \/ chain' = chain
             \/ \E n \in TxIds :
                  job[Worker].trade \in Trades /\ Broadcast(job[Worker].trade, "sell", n)
  <2>1. Selling(Worker)
    BY <1>4 DEF SellSendAccepted, SellSendRaises, Selling, SellLabels
  <2>2. job[Worker].trade \in Trades
    BY <2>1, WorkerIsProc DEF BooksInv, ShapeInv, SessionsShape, SessionExit
  <2>. QED BY <1>4, <2>2 DEF SellSendAccepted, SellSendRaises
<1>5. EntryStep \/ LeaderTrades \/ OperatorDecides \/ (\E p \in Procs : Abort(p)) \/ RailsMove
        \/ DayChanges \/ UNCHANGED vars => chain' = chain
  BY DEF EntryStep, EvaluationLooks, EvaluationReads, ReadClear, EvaluationPasses, EvaluationBlocks,
     DecideBuy, ExecuteBuyLockedOut, ExecuteBuy, LeaderTrades, EvaluateBuy,
     MirrorSell, OperatorDecides, ApproveTrade, Abort, RailsMove, DayChanges, vars
<1>. QED BY <1>1, <1>2, <1>3, <1>4, <1>5, WorkerIsProc DEF Next, WorkerStep, ChainMoves

(* What is on the chain stays on the chain.                                *)
LEMMA ChainGrows ==
  ASSUME BooksInv, [Next]_vars, NEW t \in Trades, NEW side \in Sides, NEW n \in TxIds
  PROVE  /\ chain[<<t, side, n>>] = "landed" => chain'[<<t, side, n>>] = "landed"
         /\ chain[<<t, side, n>>] # "none" => chain'[<<t, side, n>>] # "none"
<1>1. TypeOK /\ "buy" \in Sides /\ "sell" \in Sides
  BY DEF BooksInv, ShapeInv, Sides
<1>2. ASSUME NEW u \in Trades, NEW s \in Sides, NEW m \in TxIds, Broadcast(u, s, m)
      PROVE  /\ chain[<<t, side, n>>] = "landed" => chain'[<<t, side, n>>] = "landed"
             /\ chain[<<t, side, n>>] # "none" => chain'[<<t, side, n>>] # "none"
  BY <1>1, <1>2, BroadcastGrows
<1>3. ASSUME NEW u \in Trades, NEW s \in Sides, NEW m \in TxIds, Land(u, s, m)
      PROVE  /\ chain[<<t, side, n>>] = "landed" => chain'[<<t, side, n>>] = "landed"
             /\ chain[<<t, side, n>>] # "none" => chain'[<<t, side, n>>] # "none"
  BY <1>1, <1>3 DEF Land, TypeOK
<1>. QED BY <1>1, <1>2, <1>3, ChainSteps

(* What a step may write to a row's or an exit's status. *)
LEMMA ConfirmedFrom ==
  ASSUME BooksInv, [Next]_vars, NEW t \in Trades
  PROVE  /\ trades'[t].status = "confirmed" =>
              \/ trades[t].status = "confirmed"
              \/ \E p \in Procs : HasRow(p) /\ job[p].trade = t /\ job[p].status = "confirmed"
         /\ Live /\ exitStatus'[t] = "confirmed" =>
              \/ exitStatus[t] = "confirmed"
              \/ Selling(Worker) /\ job[Worker].trade = t /\ job[Worker].onChain
<1>1. TypeOK /\ Worker \in Procs
  BY WorkerIsProc DEF BooksInv, ShapeInv
<1> DEFINE Row1 == trades'[t].status = "confirmed" =>
              \/ trades[t].status = "confirmed"
              \/ \E p \in Procs : HasRow(p) /\ job[p].trade = t /\ job[p].status = "confirmed"
           Exit1 == exitStatus'[t] = exitStatus[t]
<1>2. \A q \in Procs : RollBack(q) => Row1
  <2>1. ASSUME NEW q \in Procs, RollBack(q) PROVE Row1
    <3>1. CASE trades' = trades
      BY <3>1
    <3>2. CASE trades' # trades
      <4>1. trades' = [trades EXCEPT ![job[q].trade].status = "gone"]
        BY <2>1, <3>2 DEF RollBack
      <4>. QED BY <1>1, <4>1 DEF TypeOK, Row
    <3>. QED BY <3>1, <3>2
  <2>. QED BY <2>1
<1>3. ASSUME NEW p \in Procs, BuyStep(p) PROVE Row1 /\ Exit1
  <2>1. CASE CommitBuy(p)
    <3>1. HasRow(p) /\ Exit1
      BY <2>1 DEF CommitBuy, HasRow, RowLabels, EntryLabels, BuyLabels
    <3>2. CASE job[p].trade = t
      BY <1>1, <2>1, <3>1, <3>2 DEF CommitBuy, TypeOK, Row
    <3>3. CASE job[p].trade # t
      BY <1>1, <2>1, <3>1, <3>3 DEF CommitBuy, TypeOK, Row
    <3>. QED BY <3>1, <3>2, <3>3
  <2>2. CASE OpenPositionRefused(p)
    BY <1>2, <2>2 DEF OpenPositionRefused
  <2>3. CASE ~CommitBuy(p) /\ ~OpenPositionRefused(p)
    <3>1. trades' = trades /\ exitStatus' = exitStatus
      BY <1>3, <2>3 DEF BuyStep, GateReads, ReadClear, ApprovalPasses, ApprovalBlocks, GatePasses, GateBlocks, PrepareFails,
         PrepareHardFails, PrepareSwap,
         PaperFill, SendAccepted, SendRaises, SendVoid, ConfirmLanded,
            ConfirmGivesUp, OpenPosition,
         RecordSuccess, CoolDown, GiveUp, RecordFailure, TripAfterFailures, dbVars
    <3>. QED BY <3>1
  <2>. QED BY <2>1, <2>2, <2>3
<1>4. ASSUME SellStep
      PROVE  /\ Row1
             /\ Live /\ exitStatus'[t] = "confirmed" =>
                  \/ exitStatus[t] = "confirmed"
                  \/ Selling(Worker) /\ job[Worker].trade = t /\ job[Worker].onChain
  <2>1. CASE CommitSell
    BY <1>1, <2>1 DEF CommitSell, TypeOK, Selling, SellLabels
  <2>2. CASE ~CommitSell
    <3>1. trades' = trades /\ exitStatus' = exitStatus
      BY <1>4, <2>2 DEF SellStep, SellLockedOut, BookExit, SellNotReady, SellReady,
         SellSendAccepted,
         SellSendRaises, SellSendVoid, SellLanded, SellGivesUp, AbandonSell,
            ClosePosition,
         TripAfterLoss, dbVars
    <3>. QED BY <3>1
  <2>. QED BY <2>1, <2>2
<1>5. ASSUME NEW u \in Trades, ExecuteBuy(u) PROVE Row1 /\ Exit1
  BY <1>1, <1>5 DEF ExecuteBuy, TypeOK, Row
<1>7. ASSUME NEW p \in Procs, Abort(p) PROVE Row1 /\ Exit1
  BY <1>2, <1>7 DEF Abort
<1>9. LeaderTrades \/ EvaluationLooks \/ DecideBuy \/ ExecuteBuyLockedOut \/ ChainMoves \/ RailsMove \/ DayChanges
        \/ (\E p \in Approvers, u \in Trades : ApproveTrade(p, u)) \/ UNCHANGED vars
      => UNCHANGED <<trades, exitStatus>>
  BY DEF LeaderTrades, EvaluateBuy, MirrorSell, EvaluationLooks, EvaluationReads, ReadClear, EvaluationPasses, EvaluationBlocks,
     DecideBuy, ExecuteBuyLockedOut, ChainMoves, Land,
     RailsMove, DayChanges, ApproveTrade, vars, dbVars
<1>10. UNCHANGED <<trades, exitStatus>> => Row1 /\ Exit1
  OBVIOUS
<1>11. \/ \E p \in Procs : BuyStep(p) \/ Abort(p)
       \/ SellStep
       \/ \E u \in Trades : ExecuteBuy(u)
       \/ UNCHANGED <<trades, exitStatus>>
  BY <1>1, <1>9, WorkerIsProc DEF Next, WorkerStep, EntryStep, OperatorDecides
<1>12. CASE SellStep
  BY <1>4, <1>12
<1>13. CASE ~SellStep
  <2>1. Row1 /\ Exit1
    BY <1>3, <1>5, <1>7, <1>10, <1>11, <1>13
  <2>. QED BY <2>1
<1>. QED BY <1>12, <1>13

(* A session that is about to record a confirmation was about to do so     *)
(* before the step, or sees the transaction landed in it.                  *)
LEMMA SeenFrom ==
  ASSUME BooksInv, [Next]_vars, Live, NEW p \in Procs
  PROVE  /\ HasRow(p)' /\ job'[p].status = "confirmed" =>
              /\ HasRow(p) /\ job'[p].trade = job[p].trade
              /\ job[p].status = "confirmed" \/ TxState(p, "buy") = "landed"
         /\ Selling(p)' /\ job'[p].onChain =>
              /\ Selling(p) /\ job'[p].trade = job[p].trade
              /\ job[p].onChain \/ TxState(p, "sell") = "landed"
<1> DEFINE Buy1(q) == HasRow(q)' /\ job'[q].status = "confirmed" =>
              /\ HasRow(q) /\ job'[q].trade = job[q].trade
              /\ job[q].status = "confirmed" \/ TxState(q, "buy") = "landed"
           Sell1(q) == Selling(q)' /\ job'[q].onChain =>
              /\ Selling(q) /\ job'[q].trade = job[q].trade
              /\ job[q].onChain \/ TxState(q, "sell") = "landed"
<1>1. TypeOK /\ job[p] \in Job /\ Worker \in Procs
  BY WorkerIsProc DEF BooksInv, ShapeInv, TypeOK
<1>2. CASE pc'[p] = pc[p] /\ job'[p] = job[p]
  BY <1>2 DEF HasRow, Selling
<1>3. CASE pc'[p] = "idle"
  BY <1>3, LabelledNext
<1>4. ASSUME NEW q \in Procs, Finish(q) PROVE Buy1(p) /\ Sell1(p)
  BY <1>1, <1>2, <1>3, <1>4 DEF Finish, Goto, TypeOK
<1>5. ASSUME NEW q \in Procs, BuyStep(q) PROVE Buy1(p) /\ Sell1(p)
  <2>1. HasRow(q)
    BY <1>5 DEF HasRow, RowLabels, EntryLabels, BuyLabels, BuyStep, GateReads, ReadClear, ApprovalPasses, ApprovalBlocks, GatePasses, GateBlocks,
       PrepareFails,
       PrepareHardFails, PrepareSwap, PaperFill, SendAccepted, SendRaises, SendVoid,
       ConfirmLanded, ConfirmGivesUp, OpenPosition, OpenPositionRefused,
          RecordSuccess, CoolDown,
       GiveUp, RecordFailure, TripAfterFailures, CommitBuy
  <2>2. CASE Finish(q)
    BY <1>4, <2>2
  <2>3. CASE ConfirmLanded(q)
    BY <1>1, <1>2, <2>1, <2>3, LabelledNext
       DEF ConfirmLanded, Goto, TypeOK, Job, HasRow, RowLabels, EntryLabels, BuyLabels
  <2>4. CASE SendAccepted(q) \/ SendVoid(q)
    <3>1. PICK n \in TxIds \cup {0} :
            job' = [job EXCEPT ![q] = [@ EXCEPT !.tx = n, !.status = "submitted"]]
      BY <2>4 DEF SendAccepted, SendVoid
    <3>2. pc' = [pc EXCEPT ![q] = "confirm"]
      BY <2>4 DEF SendAccepted, SendVoid, Goto
    <3>3. CASE q = p
      BY <1>1, <3>1, <3>2, <3>3 DEF TypeOK, Job, Selling, SellLabels
    <3>4. CASE q # p
      BY <1>1, <1>2, <3>1, <3>2, <3>4 DEF TypeOK
    <3>. QED BY <3>3, <3>4
  <2>5. CASE PrepareFails(q) \/ SendRaises(q)
    <3>1. /\ OnlyMoves(q) /\ HasRow(q)' /\ job'[q].trade = job[q].trade
          /\ job'[q].status = job[q].status
      BY <1>1, <2>5, RetryOnly DEF PrepareFails, SendRaises, HasRow, RowLabels, EntryLabels,
         BuyLabels
    <3>. QED BY <1>2, <2>1, <3>1, LabelledNext DEF OnlyMoves
  <2>6. CASE GateBlocks(q) \/ PrepareHardFails(q) \/ GiveUp(q) \/ PrepareSwap(q) \/ OpenPosition(q)
    BY <1>1, <1>2, <2>1, <2>6, LabelledNext
       DEF GateBlocks, PrepareHardFails, GiveUp, PrepareSwap, OpenPosition, Goto,
       TypeOK, Job, HasRow, RowLabels, EntryLabels, BuyLabels
  <2>7. CASE ConfirmGivesUp(q) \/ RecordSuccess(q) \/ CoolDown(q) \/ RecordFailure(q)
             \/ TripAfterFailures(q)
    BY <1>1, <1>2, <2>1, <2>7, LabelledNext
       DEF ConfirmGivesUp, RecordSuccess, CoolDown, RecordFailure, TripAfterFailures,
          Goto,
       TypeOK, HasRow, RowLabels, EntryLabels, BuyLabels
  <2>8. CASE Reading(q)
    BY <1>1, <1>2, <2>1, <2>8, GateSteps, LabelledNext DEF OnlyMoves, SameTrade
  <2>9. CASE GatePasses(q)
    BY <1>1, <1>2, <2>1, <2>9, PassSteps, LabelledNext DEF OnlyMoves
  <2>. QED BY <1>5, <2>2, <2>3, <2>4, <2>5, <2>6, <2>7, <2>8, <2>9
       DEF BuyStep, Reading, PaperFill, OpenPositionRefused, RollBack, CommitBuy
<1>6. ASSUME SellStep PROVE Buy1(p) /\ Sell1(p)
  <2>1. Selling(Worker)
    BY <1>6 DEF Selling, SellLabels, SellStep, SellLockedOut, BookExit, SellNotReady,
       SellReady,
       SellSendAccepted, SellSendRaises, SellSendVoid, SellLanded, SellGivesUp,
          AbandonSell,
       ClosePosition, TripAfterLoss, CommitSell
  <2>2. CASE Finish(Worker)
    BY <1>1, <1>4, <2>2
  <2>3. CASE SellLanded
    <3>1. PICK v \in Proceeds :
            job' = [job EXCEPT ![Worker] = [@ EXCEPT !.proceeds = v, !.onChain = TRUE]]
      BY <2>3 DEF SellLanded
    <3>2. pc' = [pc EXCEPT ![Worker] = "closing"]
      BY <2>3 DEF SellLanded, Goto
    <3>3. CASE Worker = p
      BY <1>1, <2>1, <2>3, <3>1, <3>2, <3>3
         DEF SellLanded, TypeOK, Job, HasRow, RowLabels, EntryLabels, BuyLabels
    <3>4. CASE Worker # p
      BY <1>1, <1>2, <3>1, <3>2, <3>4 DEF TypeOK
    <3>. QED BY <3>3, <3>4
  <2>4. CASE BookExit \/ SellSendAccepted
    BY SMTT(30), <1>1, <1>2, <2>1, <2>4, LabelledNext
       DEF BookExit, SellSendAccepted, Goto, TypeOK, Job, Selling, SellLabels
  <2>5. CASE SellNotReady \/ SellReady \/ SellSendRaises \/ SellSendVoid \/ SellGivesUp
             \/ ClosePosition \/ TripAfterLoss
    BY <1>1, <1>2, <2>1, <2>5, LabelledNext
       DEF SellNotReady, SellReady, SellSendRaises, SellSendVoid, SellGivesUp,
          ClosePosition,
       TripAfterLoss, Goto, TypeOK, Selling, SellLabels
  <2>. QED BY <1>6, <2>2, <2>3, <2>4, <2>5
       DEF SellStep, SellLockedOut, AbandonSell, CommitSell
<1>7. ASSUME EntryStep \/ LeaderTrades \/ OperatorDecides PROVE Buy1(p) /\ Sell1(p)
  <2>1. ASSUME NEW t \in Trades, ExecuteBuy(t) PROVE Buy1(p) /\ Sell1(p)
    <3>1. job'[Worker].status # "confirmed"
      BY <1>1, <2>1 DEF ExecuteBuy, TypeOK, Job
    <3>2. pc'[Worker] \in {"commit", "gate"}
      BY <1>1, <2>1 DEF ExecuteBuy, Goto, TypeOK
    <3>3. Worker # p => pc'[p] = pc[p] /\ job'[p] = job[p]
      BY <1>1, <2>1 DEF ExecuteBuy, Goto, TypeOK
    <3>. QED BY <1>2, <3>1, <3>2, <3>3 DEF Selling, SellLabels
  <2>2. CASE DecideBuy \/ ExecuteBuyLockedOut
    <3>1. CASE Finish(Worker)
      BY <1>1, <1>4, <3>1
    <3>2. CASE Goto(Worker, "claim") /\ UNCHANGED job
      BY <1>1, <1>2, <3>2, LabelledNext DEF Goto, TypeOK, EntryLabels
    <3>. QED BY <2>2, <3>1, <3>2 DEF DecideBuy, ExecuteBuyLockedOut
  <2>3. ASSUME NEW leader \in Leaders, NEW token \in Tokens, NEW want \in Wants,
               EvaluateBuy(leader, token, want)
        PROVE  Buy1(p) /\ Sell1(p)
    <3>1. pc'[Worker] \in EntryLabels /\ (Worker # p => pc'[p] = pc[p] /\ job'[p] = job[p])
      BY <1>1, <2>3 DEF EvaluateBuy, Goto, TypeOK, EntryLabels
    <3>. QED BY <1>2, <3>1, LabelledNext
  <2>4. ASSUME NEW leader \in Leaders, NEW token \in Tokens, MirrorSell(leader, token)
        PROVE  Buy1(p) /\ Sell1(p)
    <3>1. /\ pc'[Worker] \in {"sellQuote", "lockedOut"} /\ ~job'[Worker].onChain
          /\ Worker # p => pc'[p] = pc[p] /\ job'[p] = job[p]
      BY <1>1, <2>4 DEF MirrorSell, Goto, TypeOK, NoJob
    <3>. QED BY <1>2, <3>1 DEF HasRow, RowLabels, EntryLabels, BuyLabels
  <2>5. ASSUME NEW q \in Approvers, NEW t \in Trades, ApproveTrade(q, t)
        PROVE  Buy1(p) /\ Sell1(p)
    <3>1. q \in Procs
      BY WorkerIsProc
    <3>2. /\ pc'[q] = "approving" /\ job'[q].status = "pending_approval"
          /\ q # p => pc'[p] = pc[p] /\ job'[p] = job[p]
      BY <1>1, <2>5, <3>1 DEF ApproveTrade, Goto, TypeOK, NoJob
    <3>. QED BY <1>2, <3>2 DEF Selling, SellLabels
  <2>6. CASE EvaluationLooks
    <3>1. CASE Finish(Worker)
      BY <1>1, <1>4, <3>1
    <3>2. CASE pc'[Worker] \in {"evaluating", "evaluated"} /\ OnlyMoves(Worker)
      BY <1>2, <3>2, LabelledNext DEF EntryLabels, OnlyMoves
    <3>. QED BY <1>1, <2>6, <3>1, <3>2, LookSteps
  <2>. QED BY <1>7, <2>1, <2>2, <2>3, <2>4, <2>5, <2>6 DEF EntryStep, LeaderTrades, OperatorDecides
<1>8. ASSUME NEW q \in Procs, Abort(q) PROVE Buy1(p) /\ Sell1(p)
  BY <1>4, <1>8 DEF Abort, RollBack
<1>9. CASE ChainMoves \/ RailsMove \/ DayChanges \/ UNCHANGED vars
  BY <1>2, <1>9 DEF ChainMoves, Land, RailsMove, DayChanges, vars
<1>. QED BY <1>5, <1>6, <1>7, <1>8, <1>9, WorkerIsProc DEF Next, WorkerStep

(* A transaction seen landed has landed.                                   *)
LEMMA SeenIsLanded ==
  ASSUME BooksInv, NEW p \in Procs, NEW side \in Sides, TxState(p, side) = "landed"
  PROVE  Landed(job[p].trade, side) # {}
  BY DEF BooksInv, ShapeInv, TypeOK, Job, TxState, Landed

(* Every step keeps the invariant of confirmations.                        *)
LEMMA LandedNext ==
  ASSUME BooksInv, LandedInv, [Next]_vars
  PROVE  LandedInv'
<1> SUFFICES ASSUME Live PROVE LandedInv'
  BY DEF LandedInv, ConfirmedHasLanded
<1>1. \A t \in Trades, side \in Sides : Landed(t, side) # {} => Landed(t, side)' # {}
  BY ChainGrows DEF Landed
<1>2. ConfirmedHasLanded /\ \A p \in Procs : SeenLanded(p)
  BY DEF LandedInv
<1>3. "buy" \in Sides /\ "sell" \in Sides /\ Worker \in Procs
  BY WorkerIsProc DEF Sides
<1>4. ASSUME NEW t \in Trades
      PROVE  /\ trades'[t].status = "confirmed" => Landed(t, "buy")' # {}
             /\ exitStatus'[t] = "confirmed" => Landed(t, "sell")' # {}
  BY <1>1, <1>2, <1>3, ConfirmedFrom DEF ConfirmedHasLanded, SeenLanded
<1>5. ASSUME NEW p \in Procs, HasRow(p)', job'[p].status = "confirmed"
      PROVE  (Landed(job[p].trade, "buy") # {})'
  <2>1. HasRow(p) /\ job'[p].trade = job[p].trade /\ job[p].trade \in Trades
    BY <1>5, SeenFrom, OwnRow
  <2>2. Landed(job[p].trade, "buy") # {}
    BY <1>2, <1>3, <1>5, SeenFrom, SeenIsLanded DEF SeenLanded
  <2>3. \E n \in TxIds : chain'[<<job[p].trade, "buy", n>>] = "landed"
    BY <1>3, <2>1, <2>2, ChainGrows DEF Landed
  <2>. QED BY <2>1, <2>3 DEF Landed
<1>6. ASSUME NEW p \in Procs, Selling(p)', job'[p].onChain
      PROVE  (Landed(job[p].trade, "sell") # {})'
  <2>1. Selling(p) /\ job'[p].trade = job[p].trade /\ job[p].trade \in Trades
    BY <1>6, SeenFrom DEF BooksInv, ShapeInv, SessionsShape, SessionExit
  <2>2. Landed(job[p].trade, "sell") # {}
    BY <1>2, <1>3, <1>6, SeenFrom, SeenIsLanded DEF SeenLanded
  <2>3. \E n \in TxIds : chain'[<<job[p].trade, "sell", n>>] = "landed"
    BY <1>3, <2>1, <2>2, ChainGrows DEF Landed
  <2>. QED BY <2>1, <2>3 DEF Landed
<1>. QED BY <1>4, <1>5, <1>6 DEF LandedInv, ConfirmedHasLanded, SeenLanded

(* A live trade or exit recorded as confirmed has landed, whatever was     *)
(* lost, retried, frozen or rolled back (executor.py:378, 447).            *)
THEOREM ConfirmedHasLandedHolds == Spec => []ConfirmedHasLanded
<1>1. Init => LandedInv
  BY Labelled DEF Init, NoRow, LandedInv, ConfirmedHasLanded, SeenLanded
<1>2. BooksInv /\ LandedInv /\ [Next]_vars => LandedInv'
  BY LandedNext
<1>3. LandedInv => ConfirmedHasLanded
  BY DEF LandedInv
<1>. QED BY <1>1, <1>2, <1>3, BooksCorrect, PTL DEF Spec

-----------------------------------------------------------------------------
(* Broadcasts.                                                              *)

(* What a session that may still send did before. *)
LEMMA BeforeSendFrom ==
  ASSUME BooksInv, [Next]_vars, NEW p \in Procs, BeforeSend(p)'
  PROVE  \/ /\ BeforeSend(p) /\ job'[p].trade = job[p].trade
            /\ ~SendAccepted(p)
            /\ BuyStep(p) \/ (pc'[p] = pc[p] /\ job'[p] = job[p])
         \/ \E t \in Trades : /\ trades[t].status \in {"none", "pending_approval"}
                              /\ job'[p].trade = t /\ pc'[p] \in {"approving", "gate"}
                              /\ chain' = chain
<1>1. TypeOK /\ Worker \in Procs /\ job[p] \in Job
  BY WorkerIsProc DEF BooksInv, ShapeInv, TypeOK
<1> DEFINE Kept == /\ BeforeSend(p) /\ job'[p].trade = job[p].trade /\ ~SendAccepted(p)
                   /\ BuyStep(p) \/ (pc'[p] = pc[p] /\ job'[p] = job[p])
           New == \E t \in Trades : /\ trades[t].status \in {"none", "pending_approval"}
                                    /\ job'[p].trade = t /\ pc'[p] \in {"approving", "gate"}
                                    /\ chain' = chain
<1>2. ASSUME pc'[p] = pc[p], job'[p] = job[p] PROVE Kept
  <2>1. BeforeSend(p)
    BY <1>2 DEF BeforeSend
  <2>2. ~SendAccepted(p)
    BY <1>1, <1>2 DEF SendAccepted, Goto, TypeOK
  <2>. QED BY <1>2, <2>1, <2>2
<1>3. ASSUME NEW q \in Procs, Finish(q) PROVE Kept
  <2>1. q # p
    BY <1>1, <1>3 DEF Finish, Goto, TypeOK, BeforeSend
  <2>. QED BY <1>1, <1>2, <1>3, <2>1 DEF Finish, Goto, TypeOK
<1>4. ASSUME NEW q \in Procs, BuyStep(q) PROVE Kept
  <2>1. CASE Finish(q)
    BY <1>3, <2>1
  <2>2. CASE PrepareFails(q) \/ SendRaises(q)
    <3>1. OnlyMoves(q) /\ job'[q].trade = job[q].trade /\ BeforeSend(q)
      BY <1>1, <2>2, RetryOnly DEF PrepareFails, SendRaises, BeforeSend
    <3>2. pc'[q] # "confirm"
      BY <1>1, <2>2, RetryOnly DEF PrepareFails, SendRaises
    <3>3. ~SendAccepted(q)
      BY <1>1, <3>2 DEF SendAccepted, Goto, TypeOK
    <3>. QED BY <1>2, <1>4, <3>1, <3>3 DEF OnlyMoves
  <2>3. CASE GatePasses(q) \/ PrepareSwap(q)
    <3>1. /\ OnlyMoves(q) /\ job'[q].trade = job[q].trade /\ BeforeSend(q)
          /\ pc[q] # "send"
      <4>1. CASE GatePasses(q)
        BY <1>1, <4>1, PassSteps DEF BeforeSend
      <4>2. CASE PrepareSwap(q)
        BY <1>1, <4>2 DEF PrepareSwap, Goto, TypeOK, Job, OnlyMoves, BeforeSend
      <4>. QED BY <2>3, <4>1, <4>2
    <3>. QED BY <1>2, <1>4, <3>1 DEF OnlyMoves, SendAccepted
  <2>5. CASE Reading(q)
    <3>1. /\ OnlyMoves(q) /\ job'[q].trade = job[q].trade /\ BeforeSend(q)
          /\ pc[q] # "send"
      BY <1>1, <2>5, GateSteps DEF SameTrade, BeforeSend
    <3>. QED BY <1>2, <1>4, <3>1 DEF OnlyMoves, SendAccepted
  <2>4. CASE ~ (Finish(q) \/ PrepareFails(q) \/ SendRaises(q) \/ GatePasses(q) \/ PrepareSwap(q)
                  \/ Reading(q))
    <3>1. q # p
      <4>1. pc \in [Procs -> {"idle"} \cup BuyLabels \cup SellLabels]
        BY <1>1 DEF TypeOK
      <4>2. CASE OpenPosition(q) \/ RecordSuccess(q) \/ CoolDown(q)
                 \/ GiveUp(q) \/ RecordFailure(q) \/ TripAfterFailures(q)
        BY <4>1, <4>2 DEF OpenPosition, RecordSuccess, CoolDown, GiveUp, RecordFailure,
           TripAfterFailures, Goto, BeforeSend
      <4>3. CASE GateBlocks(q) \/ PrepareHardFails(q) \/ PaperFill(q) \/ SendAccepted(q)
                 \/ SendVoid(q) \/ ConfirmLanded(q) \/ ConfirmGivesUp(q)
        BY <4>1, <4>3 DEF GateBlocks, PrepareHardFails, PaperFill, SendAccepted, SendVoid,
           ConfirmLanded, ConfirmGivesUp, Goto, BeforeSend
      <4>. QED BY <1>4, <2>4, <4>2, <4>3 DEF BuyStep, Reading, OpenPositionRefused, RollBack,
           CommitBuy
    <3>2. OnlyMoves(q)
      <4>1. pc \in [Procs -> {"idle"} \cup BuyLabels \cup SellLabels] /\ job \in [Procs -> Job]
        BY <1>1 DEF TypeOK
      <4>2. \/ GateBlocks(q) \/ PrepareHardFails(q) \/ PaperFill(q) \/ SendAccepted(q) \/ SendVoid(q)
            \/ ConfirmLanded(q) \/ ConfirmGivesUp(q) \/ OpenPosition(q) \/ RecordSuccess(q)
            \/ CoolDown(q) \/ GiveUp(q) \/ RecordFailure(q) \/ TripAfterFailures(q)
        BY <1>4, <2>4 DEF BuyStep, Reading, OpenPositionRefused, RollBack, CommitBuy
      <4>. QED BY <4>1, <4>2 DEF GateBlocks, PrepareHardFails, PaperFill, SendAccepted,
         SendVoid, ConfirmLanded, ConfirmGivesUp, OpenPosition, RecordSuccess, CoolDown, GiveUp,
         RecordFailure, TripAfterFailures, Goto, OnlyMoves
    <3>. QED BY <1>2, <3>1, <3>2 DEF OnlyMoves
  <2>. QED BY <2>1, <2>2, <2>3, <2>4, <2>5
<1>5. ASSUME SellStep PROVE Kept
  <2>1. CASE Finish(Worker)
    BY <1>1, <1>3, <2>1
  <2>2. CASE ~Finish(Worker)
    <3>. pc \in [Procs -> {"idle"} \cup BuyLabels \cup SellLabels] /\ job \in [Procs -> Job]
      BY <1>1 DEF TypeOK
    <3>1. OnlyMoves(Worker) /\ pc'[Worker] \in SellLabels
      BY <1>1, <1>5, <2>2 DEF SellStep, SellLockedOut, BookExit, SellNotReady,
         SellReady,
         SellSendAccepted, SellSendRaises, SellSendVoid, SellLanded, SellGivesUp,
            AbandonSell,
         ClosePosition, TripAfterLoss, CommitSell, Goto, OnlyMoves, SellLabels
    <3>. QED BY <1>2, <3>1 DEF OnlyMoves, BeforeSend, SellLabels
  <2>. QED BY <2>1, <2>2
<1>6. ASSUME EntryStep PROVE Kept \/ New
  <2>1. ASSUME NEW t \in Trades, ExecuteBuy(t) PROVE Kept \/ New
    <3>1. OnlyMoves(Worker) /\ job'[Worker].trade = t /\ trades[t].status = "none" /\ chain' = chain
      BY <1>1, <2>1 DEF ExecuteBuy, Goto, TypeOK, Job, OnlyMoves
    <3>2. pc'[Worker] \in {"gate", "commit"}
      BY <1>1, <2>1 DEF ExecuteBuy, Goto, TypeOK
    <3>. QED BY <1>2, <3>1, <3>2 DEF OnlyMoves, BeforeSend
  <2>2. CASE Finish(Worker)
    BY <1>1, <1>3, <2>2
  <2>3. CASE Goto(Worker, "claim") /\ UNCHANGED job
    BY <1>1, <1>2, <2>3 DEF Goto, TypeOK, BeforeSend
  <2>4. CASE EvaluationLooks /\ ~Finish(Worker)
    <3>1. OnlyMoves(Worker) /\ ~BeforeSend(Worker)'
      BY <1>1, <2>4, LookSteps DEF BeforeSend
    <3>. QED BY <1>1, <1>2, <3>1 DEF OnlyMoves
  <2>. QED BY <1>6, <2>1, <2>2, <2>3, <2>4 DEF EntryStep, DecideBuy, ExecuteBuyLockedOut
<1>7. ASSUME LeaderTrades PROVE Kept
  <2>1. /\ \E l \in {"evaluating", "sellQuote", "lockedOut"} : Goto(Worker, l)
        /\ \E j : job' = [job EXCEPT ![Worker] = j]
        /\ chain' = chain
    BY <1>7 DEF LeaderTrades, EvaluateBuy, MirrorSell
  <2>2. OnlyMoves(Worker) /\ ~BeforeSend(Worker)'
    BY <1>1, <2>1 DEF OnlyMoves, Goto, TypeOK, BeforeSend
  <2>. QED BY <1>1, <1>2, <2>1, <2>2 DEF OnlyMoves
<1>8. ASSUME OperatorDecides PROVE Kept \/ New
  <2>1. ASSUME NEW q \in Approvers, NEW t \in Trades, ApproveTrade(q, t) PROVE Kept \/ New
    <3>1. /\ q \in Procs /\ OnlyMoves(q) /\ job'[q].trade = t
          /\ trades[t].status = "pending_approval" /\ chain' = chain
          /\ pc'[q] = "approving"
      BY <1>1, <2>1, WorkerIsProc
         DEF ApproveTrade, Goto, TypeOK, NoJob, OnlyMoves
    <3>. QED BY <1>2, <3>1 DEF OnlyMoves
  <2>. QED BY <1>8, <2>1 DEF OperatorDecides
<1>9. ASSUME NEW q \in Procs, Abort(q) PROVE Kept
  BY <1>3, <1>9 DEF Abort, RollBack
<1>10. CASE ChainMoves \/ RailsMove \/ DayChanges \/ UNCHANGED vars
  BY <1>2, <1>10 DEF ChainMoves, Land, RailsMove, DayChanges, vars
<1>. QED BY <1>4, <1>5, <1>6, <1>7, <1>8, <1>9, <1>10, WorkerIsProc DEF Next, WorkerStep

(* Only a send adds a buy, accepted or with its answer lost. *)
LEMMA SentBy ==
  ASSUME BooksInv, [Next]_vars, NEW t \in Trades
  PROVE  \/ Sent(t, "buy")' = Sent(t, "buy")
         \/ \E p \in Procs, n \in TxIds : /\ SendAccepted(p) \/ SendRaises(p)
                                          /\ job[p].trade = t
                                          /\ Sent(t, "buy")' = Sent(t, "buy") \cup {n}
<1>1. TypeOK /\ "buy" \in Sides /\ "sell" \in Sides
  BY DEF BooksInv, ShapeInv, Sides
<1>2. CASE chain' = chain
  BY <1>2 DEF Sent
<1>3. ASSUME NEW u \in Trades, NEW side \in Sides, NEW n \in TxIds, Land(u, side, n)
      PROVE  Sent(t, "buy")' = Sent(t, "buy")
  <2>1. /\ \A x \in Trades \X Sides \X TxIds : x # <<u, side, n>> => chain'[x] = chain[x]
        /\ chain[<<u, side, n>>] # "none" /\ chain'[<<u, side, n>>] # "none"
    BY <1>1, <1>3 DEF Land, TypeOK
  <2>2. \A m \in TxIds : <<t, "buy", m>> \in Trades \X Sides \X TxIds
    BY <1>1
  <2>3. \A m \in TxIds : chain'[<<t, "buy", m>>] # "none" <=> chain[<<t, "buy", m>>] # "none"
    BY <2>1, <2>2
  <2>. QED BY <2>3 DEF Sent
<1>4. ASSUME NEW n \in TxIds, NEW u \in Trades, Broadcast(u, "sell", n)
      PROVE  Sent(t, "buy")' = Sent(t, "buy")
  <2>1. \A x \in Trades \X Sides \X TxIds : x # <<u, "sell", n>> => chain'[x] = chain[x]
    BY <1>1, <1>4 DEF Broadcast, TypeOK
  <2>2. \A m \in TxIds : chain'[<<t, "buy", m>>] = chain[<<t, "buy", m>>]
    BY <1>1, <2>1
  <2>. QED BY <2>2 DEF Sent
<1>5. ASSUME NEW p \in Procs, NEW n \in TxIds, job[p].trade \in Trades,
             Broadcast(job[p].trade, "buy", n)
      PROVE  IF job[p].trade = t THEN Sent(t, "buy")' = Sent(t, "buy") \cup {n}
                                 ELSE Sent(t, "buy")' = Sent(t, "buy")
  <2>. PICK u \in Trades : u = job[p].trade
    BY <1>5
  <2>1. /\ \A x \in Trades \X Sides \X TxIds : x # <<u, "buy", n>> => chain'[x] = chain[x]
        /\ chain'[<<u, "buy", n>>] = "pending"
    BY <1>1, <1>5, BroadcastGrows
  <2>. QED BY <1>1, <2>1 DEF Sent
<1>. QED BY <1>2, <1>3, <1>4, <1>5, ChainSteps

(* Only an accepted send adds a buy, when no answer is lost. *)
LEMMA SentSteps ==
  ASSUME BooksInv, [Next]_vars, "lost" \notin Faults, NEW t \in Trades
  PROVE  \/ Sent(t, "buy")' = Sent(t, "buy")
         \/ \E p \in Procs, n \in TxIds : /\ SendAccepted(p) /\ job[p].trade = t
                                          /\ Sent(t, "buy")' = Sent(t, "buy") \cup {n}
<1>1. ASSUME NEW p \in Procs, SendRaises(p) PROVE Sent(t, "buy")' = Sent(t, "buy")
  BY <1>1 DEF SendRaises, Sent
<1>. QED BY <1>1, SentBy

(* What a step does to the statuses, without approvals. *)
LEMMA NoApprovals ==
  ASSUME BooksInv, [Next]_vars, ~ApprovalMode,
         \A t \in Trades : trades[t].status # "pending_approval",
         \A p \in Procs : /\ Running(p) => p = Worker
                          /\ HasRow(p) => job[p].status \notin {"none", "pending_approval"}
  PROVE  /\ \A t \in Trades : /\ trades'[t].status # "pending_approval"
                              /\ trades'[t].status = "none" => trades[t].status = "none"
         /\ \A p \in Procs : Running(p)' => p = Worker
         /\ HasRow(Worker)' => job'[Worker].status \notin {"none", "pending_approval"}
<1> DEFINE RowsKept == \A t \in Trades : /\ trades'[t].status # "pending_approval"
                                         /\ trades'[t].status = "none" => trades[t].status = "none"
           Alone == \A p \in Procs : Running(p)' => p = Worker
           Status == HasRow(Worker)' => job'[Worker].status \notin {"none", "pending_approval"}
<1>1. TypeOK /\ Worker \in Procs /\ job[Worker] \in Job
  BY WorkerIsProc DEF BooksInv, ShapeInv, TypeOK
<1>2. ASSUME OnlyMoves(Worker) PROVE Alone
  BY <1>2 DEF OnlyMoves, Running
<1>3. ASSUME trades' = trades PROVE RowsKept
  BY <1>3
<1>4. ASSUME Finish(Worker) PROVE Alone /\ Status
  <2>1. OnlyMoves(Worker) /\ pc'[Worker] = "idle"
    BY <1>1, <1>4 DEF Finish, Goto, OnlyMoves, TypeOK
  <2>. QED BY <1>2, <2>1, LabelledNext
<1>5. ASSUME RollBack(Worker) PROVE RowsKept /\ Alone /\ Status
  <2>1. trades' = trades \/ trades' = [trades EXCEPT ![job[Worker].trade].status = "gone"]
    BY <1>5 DEF RollBack
  <2>2. RowsKept
    BY <1>1, <2>1 DEF TypeOK, Row
  <2>. QED BY <1>4, <1>5, <2>2 DEF RollBack
<1>6. ASSUME BuyStep(Worker) PROVE RowsKept /\ Alone /\ Status
  <2>1. HasRow(Worker)
    BY <1>6 DEF HasRow, RowLabels, EntryLabels, BuyLabels, BuyStep, GateReads, ReadClear, ApprovalPasses, ApprovalBlocks, GatePasses, GateBlocks,
       PrepareFails,
       PrepareHardFails, PrepareSwap, PaperFill, SendAccepted, SendRaises, SendVoid,
       ConfirmLanded, ConfirmGivesUp, OpenPosition, OpenPositionRefused,
          RecordSuccess, CoolDown,
       GiveUp, RecordFailure, TripAfterFailures, CommitBuy
  <2>2. CASE OpenPositionRefused(Worker)
    BY <1>5, <2>2 DEF OpenPositionRefused
  <2>3. CASE CommitBuy(Worker)
    <3>1. RowsKept
      BY <1>1, <2>1, <2>3 DEF CommitBuy, TypeOK, Row
    <3>. QED BY <1>4, <2>3, <3>1 DEF CommitBuy
  <2>4. CASE OpenPosition(Worker)
    <3>1. OnlyMoves(Worker) /\ job'[Worker].status = job[Worker].status /\ trades' = trades
      BY <1>1, <2>4 DEF OpenPosition, Goto, OnlyMoves, TypeOK, Job, dbVars
    <3>. QED BY <1>1, <1>2, <1>3, <2>1, <3>1
  <2>5. CASE ~ (OpenPositionRefused(Worker) \/ CommitBuy(Worker) \/ OpenPosition(Worker))
    <3>1. MidStep(Worker)
      BY <1>1, <1>6, <2>5, MidBuy DEF BuyStep
    <3>2. Status
      <4>1. CASE PrepareFails(Worker) \/ SendRaises(Worker)
        BY <1>1, <2>1, <4>1, RetryOnly DEF PrepareFails, SendRaises
      <4>2. CASE SendAccepted(Worker) \/ SendVoid(Worker)
        <5>1. PICK n \in TxIds \cup {0} :
                job' = [job EXCEPT ![Worker] = [@ EXCEPT !.tx = n, !.status = "submitted"]]
          BY <4>2 DEF SendAccepted, SendVoid
        <5>. QED BY <1>1, <5>1 DEF TypeOK, Job
      <4>4. CASE Reading(Worker)
        BY <1>1, <2>1, <4>4, GateSteps
      <4>5. CASE GatePasses(Worker)
        BY <1>1, <2>1, <4>5, PassSteps
      <4>3. CASE ~ (PrepareFails(Worker) \/ SendRaises(Worker) \/ SendAccepted(Worker)
                      \/ SendVoid(Worker) \/ Reading(Worker) \/ GatePasses(Worker))
        BY <1>1, <1>6, <2>1, <2>5, <4>3 DEF BuyStep, Reading, GateBlocks,
           PrepareHardFails,
           PrepareSwap, PaperFill, ConfirmLanded, ConfirmGivesUp, RecordSuccess,
              CoolDown, GiveUp,
           RecordFailure, TripAfterFailures, TypeOK, Job
      <4>. QED BY <4>1, <4>2, <4>3, <4>4, <4>5
    <3>. QED BY <1>2, <1>3, <3>1, <3>2 DEF MidStep
  <2>. QED BY <2>2, <2>3, <2>4, <2>5
<1>7. ASSUME SellStep PROVE RowsKept /\ Alone /\ Status
  <2>1. trades' = trades
    BY <1>7 DEF SellStep, SellLockedOut, BookExit, SellNotReady, SellReady,
       SellSendAccepted,
       SellSendRaises, SellSendVoid, SellLanded, SellGivesUp, AbandonSell,
          ClosePosition,
       TripAfterLoss, CommitSell, dbVars
  <2>2. CASE Finish(Worker)
    BY <1>3, <1>4, <2>1, <2>2
  <2>3. CASE ~Finish(Worker)
    <3>1. MidStep(Worker)
      BY <1>7, <2>3, MidSell DEF SellStep, SellLockedOut, AbandonSell, CommitSell
    <3>2. Selling(Worker)
      BY <1>7 DEF Selling, SellLabels, SellStep, SellLockedOut, BookExit,
         SellNotReady, SellReady,
         SellSendAccepted, SellSendRaises, SellSendVoid, SellLanded, SellGivesUp,
            AbandonSell,
         ClosePosition, TripAfterLoss, CommitSell
    <3>. QED BY <1>2, <1>3, <2>1, <3>1, <3>2, Labelled, LabelledNext DEF MidStep
  <2>. QED BY <2>2, <2>3
<1>8. ASSUME EntryStep PROVE RowsKept /\ Alone /\ Status
  <2>1. ASSUME NEW t \in Trades, ExecuteBuy(t) PROVE RowsKept /\ Alone /\ Status
    <3>1. OnlyMoves(Worker) /\ job'[Worker].status = "approved"
      BY <1>1, <2>1 DEF ExecuteBuy, Goto, OnlyMoves, TypeOK, Job
    <3>2. RowsKept
      <4>1. trades \in [Trades -> Row]
        BY <1>1 DEF TypeOK
      <4>. QED BY <2>1, <4>1 DEF ExecuteBuy, Row
    <3>. QED BY <1>2, <3>1, <3>2
  <2>2. CASE DecideBuy \/ ExecuteBuyLockedOut
    <3>1. trades' = trades
      BY <2>2 DEF DecideBuy, ExecuteBuyLockedOut, dbVars
    <3>2. CASE Finish(Worker)
      BY <1>3, <1>4, <3>1, <3>2
    <3>3. CASE Goto(Worker, "claim") /\ UNCHANGED job
      <4>1. OnlyMoves(Worker) /\ pc'[Worker] = "claim"
        BY <1>1, <3>3 DEF Goto, OnlyMoves, TypeOK
      <4>. QED BY <1>2, <1>3, <3>1, <4>1, LabelledNext DEF EntryLabels
    <3>. QED BY <2>2, <3>2, <3>3 DEF DecideBuy, ExecuteBuyLockedOut
  <2>3. CASE EvaluationLooks
    <3>1. trades' = trades
      BY <1>1, <2>3, LookSteps DEF NothingSent, dbVars
    <3>2. CASE Finish(Worker)
      BY <1>3, <1>4, <3>1, <3>2
    <3>3. CASE OnlyMoves(Worker) /\ pc'[Worker] \in {"evaluating", "evaluated"}
      BY <1>2, <1>3, <3>1, <3>3, LabelledNext DEF EntryLabels
    <3>. QED BY <1>1, <2>3, <3>2, <3>3, LookSteps
  <2>. QED BY <1>8, <2>1, <2>2, <2>3 DEF EntryStep
<1>9. ASSUME LeaderTrades PROVE RowsKept /\ Alone /\ Status
  <2>1. OnlyMoves(Worker) /\ trades' = trades /\ pc'[Worker] \in {"evaluating", "sellQuote", "lockedOut"}
    <3>1. pc \in [Procs -> {"idle"} \cup BuyLabels \cup SellLabels] /\ job \in [Procs -> Job]
      BY <1>1 DEF TypeOK
    <3>2. /\ \/ pc' = [pc EXCEPT ![Worker] = "evaluating"]
             \/ pc' = [pc EXCEPT ![Worker] = "sellQuote"]
             \/ pc' = [pc EXCEPT ![Worker] = "lockedOut"]
          /\ \E j : job' = [job EXCEPT ![Worker] = j]
          /\ trades' = trades
      BY <1>9 DEF LeaderTrades, EvaluateBuy, MirrorSell, Goto, dbVars
    <3>. QED BY <1>1, <3>1, <3>2 DEF OnlyMoves
  <2>2. ~HasRow(Worker)'
    BY <2>1 DEF HasRow, RowLabels, EntryLabels, BuyLabels
  <2>. QED BY <1>2, <1>3, <2>1, <2>2
<1>10. ~OperatorDecides
  BY DEF OperatorDecides, ApproveTrade
<1>11. ASSUME NEW p \in Procs, Abort(p) PROVE RowsKept /\ Alone /\ Status
  BY <1>5, <1>11 DEF Abort, Running
<1>12. CASE ChainMoves \/ RailsMove \/ DayChanges \/ UNCHANGED vars
  <2>1. trades' = trades /\ pc' = pc /\ job' = job
    BY <1>12 DEF ChainMoves, Land, RailsMove, DayChanges, vars, dbVars
  <2>. QED BY <1>1, <2>1 DEF Running, HasRow
<1>13. ASSUME NEW p \in Procs, BuyStep(p) PROVE p = Worker
  <2>1. HasRow(p)
    BY <1>13 DEF HasRow, RowLabels, EntryLabels, BuyLabels, BuyStep, GateReads, ReadClear, ApprovalPasses, ApprovalBlocks, GatePasses, GateBlocks,
       PrepareFails,
       PrepareHardFails, PrepareSwap, PaperFill, SendAccepted, SendRaises, SendVoid,
       ConfirmLanded, ConfirmGivesUp, OpenPosition, OpenPositionRefused,
          RecordSuccess, CoolDown,
       GiveUp, RecordFailure, TripAfterFailures, CommitBuy
  <2>. QED BY <2>1, Labelled
<1>14. RowsKept /\ Alone /\ Status
  BY <1>6, <1>7, <1>8, <1>9, <1>10, <1>11, <1>12, <1>13, WorkerIsProc DEF Next,
     WorkerStep
<1>. QED BY <1>14

(* Every step keeps the invariant of broadcasts.                           *)
LEMMA SingleSendNext ==
  ASSUME BooksInv, SingleSend, [Next]_vars
  PROVE  SingleSend'
<1> SUFFICES ASSUME "lost" \notin Faults, ~ApprovalMode PROVE SingleSend'
  BY DEF SingleSend
<1>1. /\ \A t \in Trades : /\ trades[t].status # "pending_approval"
                           /\ trades[t].status = "none" => Sent(t, "buy") = {}
                           /\ \A m, n \in Sent(t, "buy") : m = n
      /\ \A p \in Procs : /\ Running(p) => p = Worker
                          /\ BeforeSend(p) => Sent(job[p].trade, "buy") = {}
                          /\ HasRow(p) => job[p].status \notin {"none", "pending_approval"}
  BY DEF SingleSend
<1>2. /\ \A t \in Trades : /\ trades'[t].status # "pending_approval"
                           /\ trades'[t].status = "none" => trades[t].status = "none"
      /\ \A p \in Procs : Running(p)' => p = Worker
      /\ HasRow(Worker)' => job'[Worker].status \notin {"none", "pending_approval"}
  BY <1>1, NoApprovals
<1>3. \A p \in Procs : HasRow(p)' => job'[p].status \notin {"none", "pending_approval"}
  BY <1>2, LabelledNext
<1>4. \A p \in Procs : SendAccepted(p) =>
        /\ HasRow(p) /\ BeforeSend(p) /\ p = Worker
        /\ trades[job[p].trade].status # "none"
        /\ Sent(job[p].trade, "buy") = {}
  <2>1. ASSUME NEW p \in Procs, SendAccepted(p)
        PROVE  HasRow(p) /\ BeforeSend(p)
    BY <2>1 DEF SendAccepted, HasRow, RowLabels, EntryLabels, BuyLabels, BeforeSend
  <2>. QED BY <1>1, <2>1, OwnRow, Labelled
<1>5. ASSUME NEW t \in Trades
      PROVE  /\ trades'[t].status = "none" => Sent(t, "buy")' = {}
             /\ \A m, n \in Sent(t, "buy")' : m = n
  BY <1>1, <1>2, <1>4, SentSteps
<1>6. ASSUME NEW p \in Procs, BeforeSend(p)'
      PROVE  (Sent(job[p].trade, "buy") = {})'
  <2>1. ASSUME NEW t \in Trades, job'[p].trade = t, Sent(t, "buy")' = {}
        PROVE  (Sent(job[p].trade, "buy") = {})'
    BY <2>1 DEF Sent
  <2>2. CASE BeforeSend(p) /\ job'[p].trade = job[p].trade /\ ~SendAccepted(p)
    <3>1. HasRow(p)
      BY <2>2 DEF BeforeSend, HasRow, RowLabels, EntryLabels, BuyLabels
    <3>. PICK t \in Trades : t = job[p].trade
      BY <3>1, OwnRow
    <3>2. Sent(t, "buy") = {} /\ p = Worker
      BY <1>1, <2>2, <3>1, Labelled
    <3>3. Sent(t, "buy")' = {}
      BY <1>4, <2>2, <3>2, SentSteps
    <3>. QED BY <2>1, <2>2, <3>3
  <2>3. ASSUME NEW t \in Trades, trades[t].status \in {"none", "pending_approval"},
               job'[p].trade = t, chain' = chain
        PROVE  (Sent(job[p].trade, "buy") = {})'
    <3>1. Sent(t, "buy")' = {}
      BY <1>1, <2>3 DEF Sent
    <3>. QED BY <2>1, <2>3, <3>1
  <2>. QED BY <1>6, <2>2, <2>3, BeforeSendFrom
<1>7. \A p \in Procs : BeforeSend(p)' => (Sent(job[p].trade, "buy") = {})'
  BY <1>6
<1>. QED BY <1>2, <1>3, <1>5, <1>7 DEF SingleSend

(* The worker on its own broadcasts a trade's swap at most once, with any  *)
(* number of attempts, as long as no answer to a send is lost              *)
(* (executor.py:161).                                                      *)
THEOREM WorkerBroadcastsOnceHolds == Spec => []WorkerBroadcastsOnce
<1>1. Init => SingleSend
  <2> SUFFICES ASSUME Init PROVE SingleSend
    OBVIOUS
  <2>1. /\ \A t \in Trades : trades[t].status = "none"
        /\ \A p \in Procs : pc[p] = "idle"
    BY DEF Init, NoRow
  <2>2. \A t \in Trades : Sent(t, "buy") = {}
    BY DEF Init, Sent, Sides
  <2>3. \A p \in Procs : ~Running(p) /\ ~HasRow(p) /\ ~BeforeSend(p)
    BY <2>1, Labelled DEF BeforeSend
  <2>. QED BY <2>1, <2>2, <2>3 DEF SingleSend
<1>2. BooksInv /\ SingleSend /\ [Next]_vars => SingleSend'
  BY SingleSendNext
<1>3. SingleSend => WorkerBroadcastsOnce
  <2> SUFFICES ASSUME SingleSend, "lost" \notin Faults, ~ApprovalMode, NEW t \in Trades
               PROVE  Cardinality(Sent(t, "buy")) <= 1
    BY DEF WorkerBroadcastsOnce, OneBroadcastPerTrade
  <2>1. \A m, n \in Sent(t, "buy") : m = n
    BY DEF SingleSend
  <2>2. Sent(t, "buy") = {} \/ \E n : Sent(t, "buy") = {n}
    BY <2>1
  <2>3. CASE Sent(t, "buy") = {}
    BY <2>3, FS_EmptySet
  <2>4. ASSUME NEW n, Sent(t, "buy") = {n} PROVE Cardinality(Sent(t, "buy")) <= 1
    <3>1. Cardinality({n}) = 1
      BY FS_Singleton
    <3>. QED BY <2>4, <3>1
  <2>. QED BY <2>2, <2>3, <2>4
<1>. QED BY <1>1, <1>2, <1>3, BooksCorrect, PTL DEF Spec

-----------------------------------------------------------------------------
(* The worker on its own.                                                   *)

(* Without approvals the worker stays alone.                               *)
LEMMA AloneNext ==
  ASSUME BooksInv, WorkerAlone, [Next]_vars
  PROVE  WorkerAlone'
  BY NoApprovals, LabelledNext DEF WorkerAlone

(* What happens while the worker is alone.                                 *)
LEMMA AloneSteps ==
  ASSUME BooksInv, WorkerAlone, ~ApprovalMode, [Next]_vars
  PROVE  \/ BuyStep(Worker) \/ SellStep \/ EntryStep \/ LeaderTrades \/ Abort(Worker)
         \/ trades' = trades /\ book' = book /\ pc' = pc /\ job' = job
<1>1. ASSUME NEW p \in Procs, BuyStep(p) PROVE p = Worker
  <2>1. Running(p)
    BY <1>1 DEF Running, BuyStep, GateReads, ReadClear, ApprovalPasses, ApprovalBlocks, GatePasses, GateBlocks, PrepareFails,
       PrepareHardFails, PrepareSwap, PaperFill, SendAccepted, SendRaises, SendVoid,
       ConfirmLanded, ConfirmGivesUp, OpenPosition, OpenPositionRefused, RecordSuccess,
       CoolDown, GiveUp, RecordFailure, TripAfterFailures, CommitBuy
  <2>. QED BY <2>1 DEF WorkerAlone
<1>2. ASSUME NEW p \in Procs, Abort(p) PROVE p = Worker
  BY <1>2 DEF Abort, Running, WorkerAlone
<1>3. ~OperatorDecides
  BY DEF OperatorDecides, ApproveTrade, WorkerAlone
<1>4. ChainMoves \/ RailsMove \/ DayChanges \/ UNCHANGED vars
        => trades' = trades /\ book' = book /\ pc' = pc /\ job' = job
  BY DEF ChainMoves, Land, RailsMove, DayChanges, vars, dbVars
<1>. QED BY <1>1, <1>2, <1>3, <1>4, WorkerIsProc DEF Next, WorkerStep

(* A buy that goes on keeps its size.                                      *)
LEMMA SizeKept ==
  ASSUME BooksInv, NEW p \in Procs, BuyStep(p), ~CommitBuy(p), ~OpenPositionRefused(p)
  PROVE  /\ HasRow(p) /\ HasRow(p)'
         /\ job'[p].size = job[p].size /\ job'[p].trade = job[p].trade
         /\ job'[p].token = job[p].token
         /\ trades' = trades /\ book' = book
<1>1. TypeOK /\ job[p] \in Job
  BY DEF BooksInv, ShapeInv, TypeOK
<1>2. HasRow(p)
  BY DEF HasRow, RowLabels, EntryLabels, BuyLabels, BuyStep, GateReads, ReadClear, ApprovalPasses, ApprovalBlocks, GatePasses, GateBlocks, PrepareFails,
     PrepareHardFails, PrepareSwap, PaperFill, SendAccepted, SendRaises, SendVoid,
     ConfirmLanded, ConfirmGivesUp, OpenPosition, OpenPositionRefused, RecordSuccess,
     CoolDown, GiveUp, RecordFailure, TripAfterFailures, CommitBuy
<1>3. CASE OpenPosition(p)
  BY <1>1, <1>2, <1>3
     DEF OpenPosition, Goto, TypeOK, Job, dbVars, HasRow, RowLabels, EntryLabels, BuyLabels
<1>4. CASE ~OpenPosition(p)
  <2>1. MidStep(p)
    BY <1>4, MidBuy DEF BuyStep
  <2>2. HasRow(p)'
    BY <1>2, <2>1, Labelled DEF MidStep
  <2>3. job'[p].size = job[p].size
    <3>1. CASE PrepareFails(p) \/ SendRaises(p)
      BY <1>1, <3>1 DEF PrepareFails, SendRaises, Retry, TypeOK, Job
    <3>2. CASE SendAccepted(p) \/ SendVoid(p)
      <4>1. PICK n \in TxIds \cup {0} :
              job' = [job EXCEPT ![p] = [@ EXCEPT !.tx = n, !.status = "submitted"]]
        BY <3>2 DEF SendAccepted, SendVoid
      <4>. QED BY <1>1, <4>1 DEF TypeOK, Job
    <3>4. CASE Reading(p)
      BY <1>1, <3>4, GateSteps DEF SameTrade
    <3>5. CASE GatePasses(p)
      BY <1>1, <3>5, PassSteps
    <3>3. CASE ~ (PrepareFails(p) \/ SendRaises(p) \/ SendAccepted(p) \/ SendVoid(p) \/ Reading(p)
                    \/ GatePasses(p))
      BY <1>1, <1>4, <3>3 DEF BuyStep, Reading, GateBlocks, PrepareHardFails,
         PrepareSwap, PaperFill, ConfirmLanded, ConfirmGivesUp, RecordSuccess, CoolDown,
         GiveUp, RecordFailure, TripAfterFailures, TypeOK, Job
    <3>. QED BY <3>1, <3>2, <3>3, <3>4, <3>5
  <2>. QED BY <1>2, <2>1, <2>2, <2>3 DEF MidStep
<1>. QED BY <1>3, <1>4

(* A step of a sell, its commit apart, moves no book.                      *)
LEMMA SellKeeps ==
  ASSUME BooksInv, SellStep
  PROVE  /\ ~Buying(Worker) /\ ~Buying(Worker)' /\ ~HasRow(Worker)'
         /\ Selling(Worker) /\ trades' = trades
         /\ CommitSell \/ book' = book
<1>1. TypeOK /\ Worker \in Procs
  BY WorkerIsProc DEF BooksInv, ShapeInv
<1>2. Selling(Worker)
  BY DEF Selling, SellLabels, SellStep, SellLockedOut, BookExit, SellNotReady, SellReady,
     SellSendAccepted, SellSendRaises, SellSendVoid, SellLanded, SellGivesUp,
     AbandonSell, ClosePosition, TripAfterLoss, CommitSell
<1>3. CASE Finish(Worker)
  <2>1. pc'[Worker] = "idle"
    BY <1>1, <1>3 DEF Finish, Goto, TypeOK
  <2>2. trades' = trades /\ (CommitSell \/ book' = book)
    BY <1>3, MidSell DEF SellStep, SellLockedOut, AbandonSell, CommitSell, MidStep, dbVars
  <2>. QED BY <1>2, <2>1, <2>2, Labelled, LabelledNext
<1>4. CASE ~Finish(Worker)
  <2>1. MidStep(Worker)
    BY <1>4, MidSell DEF SellStep, SellLockedOut, AbandonSell, CommitSell
  <2>. QED BY <1>2, <2>1, Labelled, LabelledNext DEF MidStep
<1>. QED BY <1>3, <1>4

-----------------------------------------------------------------------------
(* Exposure.                                                                *)

SizeOf == [t \in Trades |-> trades[t].size]

(* Exposure adds up natural numbers.                                       *)
LEMMA ExposureType ==
  ASSUME TypeOK
  PROVE  /\ IsFiniteSet(OpenTrades) /\ \A t \in Trades : SizeOf[t] \in Nat
         /\ Exposure = SumOver(SizeOf, OpenTrades) /\ Exposure \in Nat
<1>1. IsFiniteSet(OpenTrades)
  BY FS_Subset, Parameters DEF OpenTrades, Parameters
<1>2. \A t \in Trades : SizeOf[t] \in Nat
  BY RailLimits DEF TypeOK, Row, Sizes, SizeOf, RailLimits
<1>3. Exposure = SumOver(SizeOf, OpenTrades)
  BY DEF Exposure, SizeOf
<1>4. \A t \in OpenTrades : SizeOf[t] \in Nat
  BY <1>2 DEF OpenTrades
<1>. QED BY <1>1, <1>2, <1>3, <1>4, SumNat

(* The same positions at the same sizes are the same exposure.             *)
LEMMA ExposureSame ==
  ASSUME TypeOK, \A t \in Trades : /\ book'[t] = "open" <=> book[t] = "open"
                                   /\ book[t] = "open" => trades'[t].size = trades[t].size
  PROVE  Exposure' = Exposure
<1>. PICK open, f, g : open = OpenTrades /\ f = SizeOf /\ g = SizeOf'
  OBVIOUS
<1>1. OpenTrades' = open
  BY DEF OpenTrades
<1>2. IsFiniteSet(open) /\ Exposure = SumOver(f, open)
  BY ExposureType
<1>3. Exposure' = SumOver(g, open)
  BY <1>1 DEF Exposure, SizeOf
<1>4. \A t \in open : f[t] = g[t]
  BY DEF OpenTrades, SizeOf
<1>. QED BY <1>2, <1>3, <1>4, SumSame

(* A rolled back session leaves every row's size.                          *)
LEMMA RollBackSizes ==
  ASSUME TypeOK, NEW p, RollBack(p), NEW t \in Trades
  PROVE  trades'[t].size = trades[t].size
<1>1. trades' = trades \/ trades' = [trades EXCEPT ![job[p].trade].status = "gone"]
  BY DEF RollBack
<1>. QED BY <1>1 DEF TypeOK, Row

(* An idle process has no buy.                                             *)
LEMMA FinishIdle ==
  ASSUME TypeOK, NEW p \in Procs, Finish(p)
  PROVE  ~Buying(p)' /\ ~HasRow(p)' /\ pc'[p] = "idle"
<1>1. pc'[p] = "idle"
  BY DEF Finish, Goto, TypeOK
<1>. QED BY <1>1, LabelledNext

(* Every step keeps the exposure invariant.                                *)
LEMMA ExposureNext ==
  ASSUME BooksInv, WorkerAlone, ExposureInv, [Next]_vars
  PROVE  ExposureInv'
<1> SUFFICES ASSUME ~ApprovalMode PROVE ExposureInv'
  BY DEF ExposureInv
<1>1. /\ TypeOK /\ Worker \in Procs /\ job[Worker] \in Job /\ RowsShape
      /\ Exposure \in Nat /\ MaxExposure \in Nat
  BY WorkerIsProc, ExposureType, RailLimits DEF BooksInv, ShapeInv, TypeOK, RailLimits
<1>2. /\ Exposure <= MaxExposure
      /\ Buying(Worker) => Exposure + job[Worker].size <= MaxExposure
      /\ HasRow(Worker) => trades[job[Worker].trade].size = job[Worker].size
  BY DEF ExposureInv
<1>3. ASSUME RollBack(Worker), book' = book PROVE ExposureInv'
  <2>1. Exposure' = Exposure
    BY <1>1, <1>3, RollBackSizes, ExposureSame
  <2>. QED BY <1>1, <1>2, <1>3, <2>1, FinishIdle DEF RollBack, ExposureInv
<1>4. CASE CommitBuy(Worker)
  <2>1. HasRow(Worker) /\ Buying(Worker)
    BY <1>4, Labelled DEF CommitBuy, HasRow, RowLabels, EntryLabels, BuyLabels
  <2>. PICK b \in Trades : b = job[Worker].trade /\ book[b] = "none"
    BY <1>1, <2>1, OwnRow
  <2>2. \A t \in Trades : trades'[t].size = trades[t].size
    BY <1>1, <1>4 DEF CommitBuy, TypeOK, Row
  <2>3. CASE ~job[Worker].opened
    <3>1. Exposure' = Exposure
      BY <1>1, <1>4, <2>2, <2>3, ExposureSame DEF CommitBuy
    <3>. QED BY <1>1, <1>2, <1>4, <3>1, FinishIdle DEF CommitBuy, ExposureInv
  <2>4. CASE job[Worker].opened
    <3>. PICK open, f : open = OpenTrades /\ f = SizeOf
      OBVIOUS
    <3>1. OpenTrades' = open \cup {b} /\ b \notin open
      BY <1>1, <1>4, <2>4 DEF CommitBuy, OpenTrades, TypeOK
    <3>2. SizeOf' = f
      BY <2>2 DEF SizeOf
    <3>3. Exposure' = SumOver(f, open \cup {b})
      BY <3>1, <3>2 DEF Exposure, SizeOf
    <3>4. /\ IsFiniteSet(open) /\ Exposure = SumOver(f, open)
          /\ \A t \in open \cup {b} : f[t] \in Int
      BY <1>1, ExposureType DEF OpenTrades
    <3>5. Exposure' = f[b] + Exposure
      BY <3>1, <3>3, <3>4, SumAdd
    <3>6. f[b] = job[Worker].size
      BY <1>2, <2>1 DEF SizeOf
    <3>7. job[Worker].size \in Nat
      BY <1>1, RailLimits DEF Job, Sizes, RailLimits
    <3>8. Exposure' <= MaxExposure
      BY <1>1, <1>2, <2>1, <3>5, <3>6, <3>7
    <3>. QED BY <1>1, <1>4, <3>8, FinishIdle DEF CommitBuy, ExposureInv
  <2>. QED BY <2>3, <2>4
<1>5. CASE BuyStep(Worker) /\ ~CommitBuy(Worker)
  <2>1. CASE OpenPositionRefused(Worker)
    BY <1>3, <2>1 DEF OpenPositionRefused
  <2>2. CASE ~OpenPositionRefused(Worker)
    <3>1. /\ HasRow(Worker) /\ HasRow(Worker)'
          /\ job'[Worker].size = job[Worker].size /\ job'[Worker].trade = job[Worker].trade
          /\ trades' = trades /\ book' = book
      BY <1>1, <1>5, <2>2, SizeKept
    <3>2. Exposure' = Exposure
      BY <1>1, <3>1, ExposureSame
    <3>. QED BY <1>2, <3>1, <3>2, Labelled DEF ExposureInv
  <2>. QED BY <2>1, <2>2
<1>6. CASE SellStep
  <2>1. ~Buying(Worker)' /\ ~HasRow(Worker)' /\ trades' = trades /\ (CommitSell \/ book' = book)
        /\ Selling(Worker)
    BY <1>6, SellKeeps
  <2>2. CASE book' = book
    <3>1. Exposure' = Exposure
      BY <1>1, <2>1, <2>2, ExposureSame
    <3>. QED BY <1>2, <2>1, <3>1 DEF ExposureInv
  <2>3. CASE CommitSell
    <3>. PICK b \in Trades : b = job[Worker].trade /\ book[b] = "open"
      BY <1>1, <2>1 DEF BooksInv, ShapeInv, SessionsShape, SessionExit
    <3>. PICK open, f : open = OpenTrades /\ f = SizeOf
      OBVIOUS
    <3>1. OpenTrades' = open \ {b} /\ b \in open /\ SizeOf' = f
      BY <1>1, <2>1, <2>3 DEF CommitSell, OpenTrades, TypeOK, SizeOf
    <3>2. Exposure' = SumOver(f, open \ {b})
      BY <3>1 DEF Exposure, SizeOf
    <3>3. /\ IsFiniteSet(open) /\ Exposure = SumOver(f, open)
          /\ \A t \in open : f[t] \in Nat
      BY <1>1, ExposureType DEF OpenTrades
    <3>4. IsFiniteSet(open \ {b}) /\ SumOver(f, open \ {b}) \in Nat
      BY <3>3, FS_Subset, SumNat
    <3>5. Exposure = f[b] + SumOver(f, open \ {b})
      BY <3>1, <3>3, SumRemove
    <3>6. Exposure' <= MaxExposure
      BY <1>1, <1>2, <3>1, <3>2, <3>3, <3>4, <3>5
    <3>. QED BY <2>1, <3>6 DEF ExposureInv
  <2>. QED BY <2>1, <2>2, <2>3
<1>7. ASSUME NEW t \in Trades, ExecuteBuy(t) PROVE ExposureInv'
  <2>1. /\ book' = book /\ book[t] = "none" /\ Buying(Worker)
        /\ \A u \in Trades \ {t} : trades'[u] = trades[u]
    BY <1>1, <1>7 DEF ExecuteBuy, RowsShape, TypeOK, Buying, BuyLabels
  <2>2. Exposure' = Exposure
    BY <1>1, <2>1, ExposureSame
  <2>3. trades'[t].size = job[Worker].size /\ job'[Worker].trade = t
        /\ job'[Worker].size = job[Worker].size
    BY <1>1, <1>7 DEF ExecuteBuy, TypeOK, Job
  <2>. QED BY <1>2, <2>1, <2>2, <2>3 DEF ExposureInv
<1>8. CASE DecideBuy \/ ExecuteBuyLockedOut
  <2>1. Exposure' = Exposure
    BY <1>1, <1>8, ExposureSame DEF DecideBuy, ExecuteBuyLockedOut, dbVars
  <2>2. CASE Finish(Worker)
    BY <1>1, <1>2, <2>1, <2>2, FinishIdle DEF ExposureInv
  <2>3. CASE DecideBuy /\ Goto(Worker, "claim") /\ UNCHANGED job
    <3>1. Buying(Worker) /\ pc'[Worker] = "claim" /\ job' = job
      BY <1>1, <2>3, Labelled DEF DecideBuy, Goto, TypeOK, EntryLabels
    <3>. QED BY <1>2, <2>1, <3>1, LabelledNext DEF ExposureInv, EntryLabels
  <2>. QED BY <1>8, <2>2, <2>3 DEF DecideBuy, ExecuteBuyLockedOut
<1>9. ASSUME NEW leader \in Leaders, NEW token \in Tokens, NEW want \in Wants,
             EvaluateBuy(leader, token, want)
      PROVE  ExposureInv'
  <2>1. PICK size \in Sizes :
          /\ size = CopySize(want, Exposure)
          /\ job' = [job EXCEPT ![Worker] =
                       [NoJob EXCEPT !.token = token, !.leader = leader, !.size = size]]
    BY <1>9 DEF EvaluateBuy
  <2>2. job'[Worker].size = size /\ pc'[Worker] = "evaluating"
    BY <1>1, <1>9, <2>1 DEF EvaluateBuy, Goto, TypeOK, NoJob
  <2>3. Exposure' = Exposure
    BY <1>1, <1>9, ExposureSame DEF EvaluateBuy, dbVars
  <2>4. want \in Nat
    BY Parameters DEF Parameters
  <2>5. Exposure + size <= MaxExposure
    BY <1>1, <2>1, <2>4 DEF CopySize
  <2>. QED BY <1>2, <2>2, <2>3, <2>5, LabelledNext DEF ExposureInv, EntryLabels
<1>10. ASSUME NEW leader \in Leaders, NEW token \in Tokens, MirrorSell(leader, token)
       PROVE  ExposureInv'
  <2>1. pc'[Worker] \in {"sellQuote", "lockedOut"}
    BY <1>1, <1>10 DEF MirrorSell, Goto, TypeOK
  <2>2. ~Buying(Worker)' /\ ~HasRow(Worker)'
    BY <2>1 DEF Buying, HasRow, RowLabels, EntryLabels, BuyLabels
  <2>3. Exposure' = Exposure
    BY <1>1, <1>10, ExposureSame DEF MirrorSell, dbVars
  <2>. QED BY <1>2, <2>2, <2>3 DEF ExposureInv
<1>11. CASE Abort(Worker)
  BY <1>3, <1>11 DEF Abort
<1>12. CASE trades' = trades /\ book' = book /\ pc' = pc /\ job' = job
  <2>1. Exposure' = Exposure
    BY <1>1, <1>12, ExposureSame
  <2>. QED BY <1>2, <1>12, <2>1 DEF ExposureInv, Buying, HasRow
<1>13. CASE EvaluationLooks
  <2>1. trades' = trades /\ book' = book
    BY <1>1, <1>13, LookSteps DEF NothingSent, dbVars
  <2>2. Exposure' = Exposure
    BY <1>1, <2>1, ExposureSame
  <2>3. CASE Finish(Worker)
    BY <1>1, <1>2, <2>2, <2>3, FinishIdle DEF ExposureInv
  <2>4. CASE pc'[Worker] \in {"evaluating", "evaluated"} /\ SameTrade(Worker)
    <3>1. Buying(Worker)
      BY <1>1, <1>13, LookSteps DEF Buying, BuyLabels
    <3>. QED BY <1>2, <2>2, <2>4, <3>1, LabelledNext DEF ExposureInv, SameTrade, EntryLabels
  <2>. QED BY <1>1, <1>13, <2>3, <2>4, LookSteps
<1>. QED BY <1>4, <1>5, <1>6, <1>7, <1>8, <1>9, <1>10, <1>11, <1>12, <1>13, AloneSteps
     DEF EntryStep, LeaderTrades

(* The worker on its own never has more open, the position it is inserting *)
(* included, than copy_max_exposure_sol, however long the execution takes  *)
(* that a size was fixed for (sizing.py:38, safety.py:80).                 *)
THEOREM ExposureWithinLimitHolds == Spec => []ExposureWithinLimit
<1> DEFINE Sized == [p \in Procs |-> job[p].size]
           Inserted == {p \in Procs : job[p].opened}
<1>1. Init => WorkerAlone /\ ExposureInv
  <2> SUFFICES ASSUME Init PROVE WorkerAlone /\ ExposureInv
    OBVIOUS
  <2>1. TypeOK /\ Worker \in Procs
    BY BooksInit, WorkerIsProc DEF BooksInv, ShapeInv
  <2>2. /\ \A t \in Trades : trades[t].status = "none"
        /\ \A p \in Procs : ~Running(p) /\ ~HasRow(p) /\ ~Buying(p)
    BY Labelled DEF Init, NoRow
  <2>3. OpenTrades = {}
    BY DEF Init, OpenTrades
  <2>4. Exposure = 0
    BY <2>1, <2>3, ExposureType, SumEmpty
  <2>. QED BY <2>1, <2>2, <2>4, RailLimits DEF WorkerAlone, ExposureInv, RailLimits
<1>2. BooksInv /\ WorkerAlone /\ ExposureInv /\ [Next]_vars => WorkerAlone' /\ ExposureInv'
  BY AloneNext, ExposureNext
<1>3. BooksInv /\ WorkerAlone /\ ExposureInv => ExposureWithinLimit
  <2> SUFFICES ASSUME BooksInv, WorkerAlone, ExposureInv, ~ApprovalMode
               PROVE  Exposure + SumOver(Sized, Inserted) <= MaxExposure
    BY DEF ExposureWithinLimit
  <2>1. TypeOK /\ Worker \in Procs /\ Exposure \in Nat
    BY ExposureType, WorkerIsProc DEF BooksInv, ShapeInv
  <2>2. \A p \in Procs : job[p].opened => p = Worker /\ Buying(p)
    BY DEF BooksInv, ShapeInv, SessionsShape, SessionPosition, WorkerAlone, Running, Buying,
       BuyLabels
  <2>3. CASE job[Worker].opened
    <3>1. Inserted = {Worker} /\ Buying(Worker)
      BY <2>1, <2>2, <2>3
    <3>2. Sized[Worker] = job[Worker].size /\ job[Worker].size \in Int
      BY <2>1, RailLimits DEF TypeOK, Job, Sizes, RailLimits
    <3>3. SumOver(Sized, Inserted) = job[Worker].size
      <4>. HIDE DEF Sized
      <4>. QED BY <3>1, <3>2, SumSingle
    <3>. QED BY <3>1, <3>3 DEF ExposureInv
  <2>4. CASE ~job[Worker].opened
    <3>1. Inserted = {}
      BY <2>2, <2>4
    <3>. QED BY <2>1, <3>1, SumEmpty DEF ExposureInv
  <2>. QED BY <2>3, <2>4
<1>. QED BY <1>1, <1>2, <1>3, BooksCorrect, PTL DEF Spec

-----------------------------------------------------------------------------
(* Attempts.                                                                *)

(* A session that goes on to send has passed the gate, which is its first  *)
(* attempt, has prepared a swap, or begins the next attempt.               *)
LEMMA AttemptSteps ==
  ASSUME BooksInv, NEW p \in Procs, BuyStep(p), BeforeSend(p)'
  PROVE  \/ /\ pc[p] \in {"approving", "gate"} /\ pc'[p] \in {"approving", "gate"}
            /\ chain' = chain
         \/ /\ pc[p] = "gate" /\ pc'[p] = "prepare" /\ chain' = chain
            /\ job'[p].attempt = 1
         \/ /\ pc[p] = "prepare" /\ pc'[p] = "send" /\ chain' = chain
            /\ job'[p].attempt = job[p].attempt
         \/ /\ pc[p] \in {"prepare", "send"} /\ pc'[p] = "prepare"
            /\ job'[p].attempt = job[p].attempt + 1
            /\ pc[p] = "prepare" => chain' = chain
<1>1. TypeOK /\ job[p] \in Job
  BY DEF BooksInv, ShapeInv, TypeOK
<1>2. CASE GatePasses(p)
  BY <1>1, <1>2, PassSteps DEF NothingSent
<1>3. CASE PrepareSwap(p)
  BY <1>1, <1>3 DEF PrepareSwap, Goto, TypeOK, Job
<1>4. CASE PrepareFails(p) \/ SendRaises(p)
  <2>1. Retry(p) /\ pc[p] \in {"prepare", "send"} /\ (pc[p] = "prepare" => chain' = chain)
    BY <1>4 DEF PrepareFails, SendRaises
  <2>2. pc'[p] = "prepare"
    BY <1>1, <2>1, RetryOnly DEF BeforeSend
  <2>3. job' = [job EXCEPT ![p].attempt = @ + 1]
    BY <1>1, <2>1, <2>2 DEF Retry, Goto, TypeOK
  <2>. QED BY <1>1, <2>1, <2>2, <2>3 DEF TypeOK, Job
<1>6. CASE Reading(p)
  BY <1>1, <1>6, GateSteps DEF NothingSent, BeforeSend
<1>5. CASE ~ (GatePasses(p) \/ PrepareSwap(p) \/ PrepareFails(p) \/ SendRaises(p) \/ Reading(p))
  <2>1. pc'[p] \notin {"approving", "gate", "prepare", "send"}
    <3>1. pc \in [Procs -> {"idle"} \cup BuyLabels \cup SellLabels]
      BY <1>1 DEF TypeOK
    <3>2. CASE OpenPosition(p) \/ OpenPositionRefused(p) \/ RecordSuccess(p) \/ CoolDown(p)
               \/ GiveUp(p) \/ RecordFailure(p) \/ TripAfterFailures(p) \/ CommitBuy(p)
      BY <3>1, <3>2 DEF OpenPosition, OpenPositionRefused, RollBack, Finish, RecordSuccess,
         CoolDown, GiveUp, RecordFailure, TripAfterFailures, CommitBuy, Goto
    <3>3. CASE GateBlocks(p) \/ PrepareHardFails(p) \/ PaperFill(p) \/ SendAccepted(p)
               \/ SendVoid(p) \/ ConfirmLanded(p) \/ ConfirmGivesUp(p)
      BY <3>1, <3>3 DEF GateBlocks, PrepareHardFails, PaperFill, SendAccepted, SendVoid,
         ConfirmLanded, ConfirmGivesUp, Goto
    <3>. QED BY <1>5, <3>2, <3>3 DEF BuyStep, Reading
  <2>. QED BY <2>1 DEF BeforeSend
<1>. QED BY <1>2, <1>3, <1>4, <1>5, <1>6

(* Buys on the chain are finitely many, and one more send adds one.        *)
LEMMA SentCounts ==
  ASSUME NEW t \in Trades
  PROVE  /\ IsFiniteSet(Sent(t, "buy")) /\ Cardinality(Sent(t, "buy")) \in Nat
         /\ \A n : /\ Cardinality(Sent(t, "buy") \cup {n}) \in Nat
                   /\ Cardinality(Sent(t, "buy") \cup {n}) <= Cardinality(Sent(t, "buy")) + 1
<1>1. IsFiniteSet(TxIds)
  BY FS_Interval, Parameters DEF TxIds, Parameters
<1>2. IsFiniteSet(Sent(t, "buy"))
  BY <1>1, FS_Subset DEF Sent
<1>3. Cardinality(Sent(t, "buy")) \in Nat
  BY <1>2, FS_CardinalityType
<1>4. \A n : Cardinality(Sent(t, "buy") \cup {n})
               = IF n \in Sent(t, "buy") THEN Cardinality(Sent(t, "buy"))
                                         ELSE Cardinality(Sent(t, "buy")) + 1
  BY <1>2, FS_AddElement
<1>. QED BY <1>2, <1>3, <1>4

(* Every step keeps the count of attempts.                                 *)
LEMMA AttemptsNext ==
  ASSUME BooksInv, WorkerAlone, AttemptsCounted, [Next]_vars
  PROVE  AttemptsCounted'
<1> SUFFICES ASSUME ~ApprovalMode PROVE AttemptsCounted'
  BY DEF AttemptsCounted
<1>1. /\ \A t \in Trades :
            /\ trades[t].status # "pending_approval"
            /\ trades[t].status = "none" => Sent(t, "buy") = {}
            /\ Cardinality(Sent(t, "buy")) <= MaxAttempts
      /\ \A p \in Procs :
            /\ Running(p) => p = Worker
            /\ HasRow(p) => job[p].status \notin {"none", "pending_approval"}
            /\ pc[p] \in {"approving", "gate"} => Sent(job[p].trade, "buy") = {}
            /\ pc[p] \in {"prepare", "send"} =>
                 Cardinality(Sent(job[p].trade, "buy")) < job[p].attempt
  BY DEF WorkerAlone, AttemptsCounted, BroadcastsWithinAttempts
<1>2. \A t \in Trades : trades'[t].status = "none" => trades[t].status = "none"
  BY <1>1, NoApprovals
<1>3. TypeOK /\ \A p \in Procs : job[p].attempt \in 0..MaxAttempts
  BY DEF BooksInv, ShapeInv, TypeOK, Job
<1>4. MaxAttempts \in Nat
  BY Parameters DEF Parameters
<1>5. ASSUME NEW p \in Procs, SendAccepted(p) \/ SendRaises(p)
      PROVE  /\ p = Worker /\ BuyStep(p) /\ pc[p] = "send"
             /\ job[p].trade \in Trades /\ trades[job[p].trade].status # "none"
  <2>1. HasRow(p) /\ BuyStep(p) /\ pc[p] = "send"
    BY <1>5 DEF SendAccepted, SendRaises, BuyStep, HasRow, RowLabels, EntryLabels, BuyLabels
  <2>. QED BY <1>1, <2>1, OwnRow, Labelled
<1>6. ASSUME NEW t \in Trades
      PROVE  /\ trades'[t].status = "none" => Sent(t, "buy")' = {}
             /\ Cardinality(Sent(t, "buy")') <= MaxAttempts
  <2>1. CASE Sent(t, "buy")' = Sent(t, "buy")
    BY <1>1, <1>2, <2>1
  <2>2. ASSUME NEW p \in Procs, NEW n \in TxIds, SendAccepted(p) \/ SendRaises(p),
               job[p].trade = t, Sent(t, "buy")' = Sent(t, "buy") \cup {n}
        PROVE  /\ trades'[t].status = "none" => Sent(t, "buy")' = {}
               /\ Cardinality(Sent(t, "buy")') <= MaxAttempts
    <3>1. trades'[t].status # "none"
      BY <1>2, <1>5, <2>2
    <3>2. Cardinality(Sent(t, "buy")) < job[p].attempt
      BY <1>1, <1>5, <2>2
    <3>3. Cardinality(Sent(t, "buy")') <= Cardinality(Sent(t, "buy")) + 1
      BY <2>2, SentCounts
    <3>4. Cardinality(Sent(t, "buy")') \in Nat /\ Cardinality(Sent(t, "buy")) \in Nat
      BY <2>2, SentCounts
    <3>. QED BY <1>3, <1>4, <3>1, <3>2, <3>3, <3>4
  <2>. QED BY <2>1, <2>2, SentBy
<1>7. ASSUME NEW p \in Procs, BeforeSend(p)'
      PROVE  /\ pc'[p] \in {"approving", "gate"} => (Sent(job[p].trade, "buy") = {})'
             /\ pc'[p] \in {"prepare", "send"} =>
                  (Cardinality(Sent(job[p].trade, "buy")) < job[p].attempt)'
  <2>1. ASSUME NEW t \in Trades, job'[p].trade = t,
               pc'[p] \in {"approving", "gate"} => Sent(t, "buy")' = {},
               pc'[p] \in {"prepare", "send"} =>
                 Cardinality(Sent(t, "buy")') < job'[p].attempt
        PROVE  /\ pc'[p] \in {"approving", "gate"} => (Sent(job[p].trade, "buy") = {})'
               /\ pc'[p] \in {"prepare", "send"} =>
                    (Cardinality(Sent(job[p].trade, "buy")) < job[p].attempt)'
    BY <2>1 DEF Sent
  <2>2. ASSUME NEW t \in Trades, trades[t].status \in {"none", "pending_approval"},
               job'[p].trade = t, pc'[p] \in {"approving", "gate"}, chain' = chain
        PROVE  /\ pc'[p] \in {"approving", "gate"} => (Sent(job[p].trade, "buy") = {})'
               /\ pc'[p] \in {"prepare", "send"} =>
                    (Cardinality(Sent(job[p].trade, "buy")) < job[p].attempt)'
    <3>1. Sent(t, "buy")' = {}
      BY <1>1, <2>2 DEF Sent
    <3>. QED BY <2>1, <2>2, <3>1
  <2>3. ASSUME BeforeSend(p), job'[p].trade = job[p].trade, ~SendAccepted(p),
               BuyStep(p) \/ (pc'[p] = pc[p] /\ job'[p] = job[p])
        PROVE  /\ pc'[p] \in {"approving", "gate"} => (Sent(job[p].trade, "buy") = {})'
               /\ pc'[p] \in {"prepare", "send"} =>
                    (Cardinality(Sent(job[p].trade, "buy")) < job[p].attempt)'
    <3>1. HasRow(p)
      BY <2>3 DEF BeforeSend, HasRow, RowLabels, EntryLabels, BuyLabels
    <3>. PICK t \in Trades : t = job[p].trade
      BY <3>1, OwnRow
    <3>2. p = Worker
      BY <1>1, <3>1, Labelled
    <3>3. /\ pc[p] \in {"approving", "gate"} => Cardinality(Sent(t, "buy")) = 0
          /\ pc[p] \in {"prepare", "send"} => Cardinality(Sent(t, "buy")) < job[p].attempt
      BY <1>1, FS_EmptySet
    <3>4. /\ Cardinality(Sent(t, "buy")) \in Nat
          /\ Cardinality(Sent(t, "buy")') \in Nat
          /\ Cardinality(Sent(t, "buy")') <= Cardinality(Sent(t, "buy")) + 1
      <4>1. Cardinality(Sent(t, "buy")) \in Nat
        BY SentCounts
      <4>2. CASE Sent(t, "buy")' = Sent(t, "buy")
        BY <4>1, <4>2
      <4>3. ASSUME NEW n, Sent(t, "buy")' = Sent(t, "buy") \cup {n}
            PROVE  /\ Cardinality(Sent(t, "buy")') \in Nat
                   /\ Cardinality(Sent(t, "buy")') <= Cardinality(Sent(t, "buy")) + 1
        BY <4>3, SentCounts
      <4>. QED BY <4>1, <4>2, <4>3, SentBy
    <3>5. chain' = chain => Sent(t, "buy")' = Sent(t, "buy")
      BY DEF Sent
    <3>8. pc[p] \in {"approving", "gate"} => Sent(t, "buy") = {}
      BY <1>1
    <3>6. CASE BuyStep(p)
      <4>1. CASE pc'[p] \in {"approving", "gate"}
        BY <1>7, <2>1, <2>3, <3>5, <3>6, <3>8, <4>1, AttemptSteps
      <4>2. CASE pc'[p] \notin {"approving", "gate"}
        <5>1. Cardinality(Sent(t, "buy")') < job'[p].attempt
          BY <1>3, <1>7, <3>3, <3>4, <3>5, <3>6, <4>2, AttemptSteps
        <5>. QED BY <2>1, <2>3, <4>2, <5>1
      <4>. QED BY <4>1, <4>2
    <3>7. CASE ~BuyStep(p)
      <4>1. Sent(t, "buy")' = Sent(t, "buy")
        BY <1>5, <3>2, <3>7, SentBy
      <4>. QED BY <1>1, <2>1, <2>3, <3>3, <3>7, <4>1
    <3>. QED BY <3>6, <3>7
  <2>. QED BY <1>7, <2>2, <2>3, BeforeSendFrom
<1>8. \A p \in Procs :
        /\ pc'[p] \in {"approving", "gate"} => (Sent(job[p].trade, "buy") = {})'
        /\ pc'[p] \in {"prepare", "send"} =>
             (Cardinality(Sent(job[p].trade, "buy")) < job[p].attempt)'
  BY <1>7 DEF BeforeSend
<1>. QED BY <1>6, <1>8 DEF AttemptsCounted, BroadcastsWithinAttempts

(* However many answers are lost, the worker on its own buys a trade at    *)
(* most as often as copy_execution_attempts says: every broadcast it may   *)
(* repeat has cost an attempt (executor.py:134, 347).                      *)
THEOREM BroadcastsWithinAttemptsHolds == Spec => []BroadcastsWithinAttempts
<1>1. Init => WorkerAlone /\ AttemptsCounted
  <2> SUFFICES ASSUME Init PROVE WorkerAlone /\ AttemptsCounted
    OBVIOUS
  <2>1. /\ \A t \in Trades : trades[t].status = "none"
        /\ \A p \in Procs : pc[p] = "idle"
    BY DEF Init, NoRow
  <2>2. \A t \in Trades : Sent(t, "buy") = {} /\ Cardinality(Sent(t, "buy")) = 0
    BY FS_EmptySet DEF Init, Sent, Sides
  <2>3. WorkerAlone
    BY <2>1, Labelled DEF WorkerAlone
  <2>4. 0 <= MaxAttempts
    BY Parameters DEF Parameters
  <2>. QED BY <2>1, <2>2, <2>3, <2>4 DEF AttemptsCounted, BroadcastsWithinAttempts
<1>2. BooksInv /\ WorkerAlone /\ AttemptsCounted /\ [Next]_vars
        => WorkerAlone' /\ AttemptsCounted'
  BY AloneNext, AttemptsNext
<1>3. AttemptsCounted => BroadcastsWithinAttempts
  BY DEF AttemptsCounted, BroadcastsWithinAttempts
<1>. QED BY <1>1, <1>2, <1>3, BooksCorrect, PTL DEF Spec

-----------------------------------------------------------------------------
(* Accounting for what was broadcast.                                       *)

(* What an accounted buy says of the books and of the worker. *)
Covered(t) == book[t] # "none" \/ (Buying(Worker) /\ job[Worker].trade = t)
Untouched == job[Worker].opened \/ Sent(job[Worker].trade, "buy") = {}
Clean == Faults \cap {"lost", "unusable"} = {} /\ ~ApprovalMode

(* A session that dies is counted, so that without one no session does.    *)
LEMMA NoAborts ==
  ASSUME [Next]_vars, aborts' = 0, aborts \in Nat
  PROVE  aborts = 0 /\ \A p \in Procs : ~Abort(p)
<1>1. \A p \in Procs : ~Abort(p)
  BY DEF Abort
<1>2. ASSUME NEW p \in Procs, BuyStep(p) PROVE aborts' = aborts
  BY <1>2 DEF BuyStep, GateReads, ReadClear, ApprovalPasses, ApprovalBlocks, GatePasses, GateBlocks, PrepareFails, PrepareHardFails,
     PrepareSwap, PaperFill, SendAccepted, SendRaises, SendVoid, ConfirmLanded,
     ConfirmGivesUp, OpenPosition, OpenPositionRefused, RecordSuccess, CoolDown, GiveUp,
     RecordFailure, TripAfterFailures, CommitBuy
<1>3. SellStep => aborts' = aborts
  BY DEF SellStep, SellLockedOut, BookExit, SellNotReady, SellReady, SellSendAccepted,
     SellSendRaises, SellSendVoid, SellLanded, SellGivesUp, AbandonSell, ClosePosition,
     TripAfterLoss, CommitSell
<1>4. EntryStep \/ LeaderTrades \/ OperatorDecides => aborts' = aborts
  BY DEF EntryStep, EvaluationLooks, EvaluationReads, ReadClear, EvaluationPasses, EvaluationBlocks,
     DecideBuy, ExecuteBuyLockedOut, ExecuteBuy, LeaderTrades, EvaluateBuy,
     MirrorSell, OperatorDecides, ApproveTrade
<1>5. ChainMoves \/ RailsMove \/ DayChanges \/ UNCHANGED vars => aborts' = aborts
  BY DEF ChainMoves, Land, RailsMove, DayChanges, vars
<1>. QED BY <1>1, <1>2, <1>3, <1>4, <1>5, WorkerIsProc DEF Next, WorkerStep

(* A buy that goes on, its send apart, sends nothing, and what it knows of *)
(* the quote and of its row carries over.                                  *)
LEMMA BuyGoesOn ==
  ASSUME BooksInv, NEW p \in Procs, BuyStep(p), ~CommitBuy(p), ~OpenPositionRefused(p),
         Faults \cap {"lost", "unusable"} = {},
         pc[p] \in {"send", "confirm"} => job[p].usable
  PROVE  /\ pc'[p] \in {"send", "confirm"} => job'[p].usable
         /\ pc'[p] \notin {"confirm", "insert"} =>
              \/ pc[p] \notin {"confirm", "insert"} /\ job'[p].opened = job[p].opened
              \/ job'[p].opened
<1>1. TypeOK /\ job[p] \in Job /\ "unusable" \notin Faults
  BY DEF BooksInv, ShapeInv, TypeOK
<1>2. CASE SendAccepted(p) \/ SendVoid(p)
  <2>1. PICK n \in TxIds \cup {0} :
          job' = [job EXCEPT ![p] = [@ EXCEPT !.tx = n, !.status = "submitted"]]
    BY <1>2 DEF SendAccepted, SendVoid
  <2>2. pc[p] = "send" /\ pc'[p] = "confirm"
    BY <1>1, <1>2 DEF SendAccepted, SendVoid, Goto, TypeOK
  <2>. QED BY <1>1, <2>1, <2>2 DEF TypeOK, Job
<1>3. CASE PrepareFails(p) \/ SendRaises(p)
  BY <1>1, <1>3, RetryOnly DEF PrepareFails, SendRaises
<1>4. CASE PrepareSwap(p)
  BY <1>1, <1>4 DEF PrepareSwap, Goto, TypeOK, Job
<1>5. CASE ConfirmLanded(p) \/ ConfirmGivesUp(p)
  <2>1. pc'[p] = "insert"
    BY <1>1, <1>5 DEF ConfirmLanded, ConfirmGivesUp, Goto, TypeOK
  <2>2. pc[p] = "confirm"
    BY <1>5 DEF ConfirmLanded, ConfirmGivesUp
  <2>. QED BY <2>1, <2>2
<1>6. CASE OpenPosition(p)
  BY <1>1, <1>6 DEF OpenPosition, Goto, TypeOK, Job
<1>11. CASE GatePasses(p)
  BY <1>1, <1>11, PassSteps
<1>7. CASE GateBlocks(p) \/ PrepareHardFails(p) \/ PaperFill(p)
  BY <1>1, <1>7 DEF GateBlocks, PrepareHardFails, PaperFill, Goto, TypeOK, Job
<1>8. CASE RecordSuccess(p) \/ CoolDown(p) \/ GiveUp(p) \/ RecordFailure(p)
             \/ TripAfterFailures(p)
  BY <1>1, <1>8 DEF RecordSuccess, CoolDown, GiveUp, RecordFailure, TripAfterFailures,
     Goto, TypeOK, Job
<1>9. CASE Reading(p)
  BY <1>1, <1>9, GateSteps DEF SameTrade
<1>. QED BY <1>2, <1>3, <1>4, <1>5, <1>6, <1>7, <1>8, <1>9, <1>11 DEF BuyStep, Reading

(* Every step keeps the accounting.                                        *)
LEMMA AccountNext ==
  ASSUME BooksInv, WorkerAlone, AccountInv, [Next]_vars
  PROVE  AccountInv'
<1> SUFFICES ASSUME Clean, aborts' = 0 PROVE AccountInv'
  BY DEF AccountInv, Clean
<1>1. /\ TypeOK /\ Worker \in Procs /\ job[Worker] \in Job /\ RowsShape /\ SessionsShape
      /\ aborts = 0 /\ ~Abort(Worker) /\ "lost" \notin Faults
  BY WorkerIsProc, NoAborts, Parameters
     DEF BooksInv, ShapeInv, TypeOK, Clean, Parameters
<1>2. /\ \A t \in Trades : Sent(t, "buy") # {} => Covered(t)
      /\ HasRow(Worker) /\ pc[Worker] \notin {"confirm", "insert"} => Untouched
      /\ pc[Worker] \in {"send", "confirm"} => job[Worker].usable
      /\ Buying(Worker) /\ pc[Worker] \notin {"evaluating", "evaluated"} =>
           OpenOn(job[Worker].token) = {}
  BY <1>1 DEF AccountInv, Clean, Covered, Untouched
<1> DEFINE Goal == /\ \A t \in Trades : Sent(t, "buy")' # {} => Covered(t)'
                   /\ HasRow(Worker)' /\ pc'[Worker] \notin {"confirm", "insert"} => Untouched'
                   /\ pc'[Worker] \in {"send", "confirm"} => job'[Worker].usable
                   /\ Buying(Worker)' /\ pc'[Worker] \notin {"evaluating", "evaluated"} =>
                        (OpenOn(job[Worker].token) = {})'
<1>3. SUFFICES Goal
  BY DEF AccountInv, Covered, Untouched, OpenOn, OpenTrades
<1>4. ASSUME NEW p \in Procs, SendAccepted(p) PROVE p = Worker /\ HasRow(Worker) /\ BuyStep(Worker)
  BY <1>4 DEF SendAccepted, HasRow, RowLabels, EntryLabels, BuyLabels, WorkerAlone, Running, Clean, BuyStep
<1>5. \A t \in Trades : \/ Sent(t, "buy")' = Sent(t, "buy")
                        \/ SendAccepted(Worker) /\ job[Worker].trade = t
  BY <1>1, <1>4, SentSteps
<1>6. CASE BuyStep(Worker) /\ ~CommitBuy(Worker)
  <2>1. ~OpenPositionRefused(Worker)
    <3>1. Buying(Worker)' = Buying(Worker)' /\ (pc[Worker] = "insert" => Buying(Worker))
      BY DEF Buying, BuyLabels
    <3>. QED BY <1>2, <3>1 DEF OpenPositionRefused, IndexFree
  <2>2. /\ HasRow(Worker) /\ HasRow(Worker)' /\ Buying(Worker) /\ Buying(Worker)'
        /\ job'[Worker].trade = job[Worker].trade /\ job'[Worker].token = job[Worker].token
        /\ trades' = trades /\ book' = book
    BY <1>1, <1>6, <2>1, SizeKept, Labelled, LabelledNext
  <2>3. /\ pc'[Worker] \in {"send", "confirm"} => job'[Worker].usable
        /\ pc'[Worker] \notin {"confirm", "insert"} =>
              \/ pc[Worker] \notin {"confirm", "insert"} /\ job'[Worker].opened = job[Worker].opened
              \/ job'[Worker].opened
        /\ pc[Worker] \notin EntryLabels
    BY <1>1, <1>2, <1>6, <2>1, <2>2, BuyGoesOn, Labelled DEF Clean
  <2>4. \A t \in Trades : Sent(t, "buy")' # {} => Covered(t)'
    BY <1>2, <1>5, <2>2 DEF Covered
  <2>5. HasRow(Worker)' /\ pc'[Worker] \notin {"confirm", "insert"} => Untouched'
    <3>1. SUFFICES ASSUME pc'[Worker] \notin {"confirm", "insert"}, ~job'[Worker].opened
                   PROVE  (Sent(job[Worker].trade, "buy") = {})'
      BY DEF Untouched
    <3>. PICK t \in Trades : t = job[Worker].trade
      BY <1>1, <2>2, OwnRow
    <3>2. Sent(t, "buy") = {}
      BY <1>2, <2>2, <2>3, <3>1 DEF Untouched
    <3>3. ~SendAccepted(Worker)
      BY <1>1, <3>1 DEF SendAccepted, Goto, TypeOK
    <3>4. Sent(t, "buy")' = {}
      BY <1>5, <3>2, <3>3
    <3>. QED BY <2>2, <3>4 DEF Sent
  <2>6. (OpenOn(job[Worker].token) = {})'
    BY <1>2, <2>2, <2>3 DEF OpenOn, OpenTrades, EntryLabels
  <2>. QED BY <2>3, <2>4, <2>5, <2>6
<1>7. ASSUME pc'[Worker] = "idle", ~SendAccepted(Worker),
             \A t \in Trades : Sent(t, "buy") # {} => book'[t] # "none"
      PROVE  Goal
  <2>1. ~Buying(Worker)' /\ ~HasRow(Worker)'
    BY <1>7, LabelledNext
  <2>. QED BY <1>5, <1>7, <2>1 DEF Covered
<1>8. CASE CommitBuy(Worker)
  <2>1. /\ HasRow(Worker) /\ Finish(Worker) /\ pc[Worker] = "commit"
        /\ ~SendAccepted(Worker)
    BY <1>8 DEF CommitBuy, HasRow, RowLabels, EntryLabels, BuyLabels, SendAccepted
  <2>. PICK b \in Trades : b = job[Worker].trade /\ book[b] = "none"
    BY <1>1, <2>1, OwnRow
  <2>2. ASSUME NEW t \in Trades, Sent(t, "buy") # {} PROVE book'[t] # "none"
    <3>1. CASE t = b
      <4>1. job[Worker].opened
        BY <1>2, <2>1, <2>2, <3>1 DEF Untouched
      <4>. QED BY <1>1, <1>8, <3>1, <4>1 DEF CommitBuy, TypeOK
    <3>2. CASE t # b
      BY <1>1, <1>2, <1>8, <2>2, <3>2 DEF CommitBuy, TypeOK, Covered
    <3>. QED BY <3>1, <3>2
  <2>. QED BY <1>1, <1>7, <2>1, <2>2, FinishIdle
<1>9. CASE SellStep
  <2>1. /\ ~Buying(Worker) /\ ~Buying(Worker)' /\ ~HasRow(Worker)' /\ Selling(Worker)
        /\ trades' = trades /\ (CommitSell \/ book' = book)
    BY <1>1, <1>9, SellKeeps
  <2>2. ~SendAccepted(Worker)
    BY <1>1, <1>4, <2>1, Labelled
  <2>3. \A t \in Trades : book[t] # "none" => book'[t] # "none"
    BY <1>1, <2>1 DEF CommitSell, TypeOK
  <2>4. pc'[Worker] \notin {"send", "confirm"}
    BY <2>1 DEF Buying, BuyLabels
  <2>. QED BY <1>2, <1>5, <2>1, <2>2, <2>3, <2>4 DEF Covered
<1>10. ASSUME pc[Worker] \in {"idle"} \cup EntryLabels
       PROVE  /\ \A t \in Trades : Sent(t, "buy") # {} => book[t] # "none"
              /\ \A t \in Trades : Sent(t, "buy")' = Sent(t, "buy")
  <2>1. Buying(Worker) => job[Worker].trade = None
    BY <1>1, <1>10 DEF Buying, BuyLabels, SessionsShape, SessionEntry
  <2>2. ~SendAccepted(Worker)
    BY <1>10 DEF SendAccepted, EntryLabels
  <2>. QED BY <1>2, <1>5, <2>1, <2>2, Parameters DEF Covered, Parameters
<1>11. ASSUME NEW t \in Trades, ExecuteBuy(t) PROVE Goal
  <2>1. /\ pc[Worker] = "claim" /\ pc'[Worker] \in {"commit", "gate"} /\ book' = book
        /\ book[t] = "none" /\ trades[t].status = "none"
        /\ \A u \in Trades \ {t} : trades'[u] = trades[u]
        /\ job'[Worker].trade = t /\ job'[Worker].token = job[Worker].token
    BY <1>1, <1>11 DEF ExecuteBuy, RowsShape, TypeOK, Goto, Job
  <2>2. Sent(t, "buy")' = {}
    BY <1>10, <2>1 DEF EntryLabels
  <2>3. Untouched'
    BY <2>1, <2>2 DEF Untouched, Sent
  <2>4. OpenOn(job[Worker].token) = {}
    BY <1>2, <2>1, Labelled DEF EntryLabels
  <2>5. (OpenOn(job[Worker].token) = {})'
    BY <2>1, <2>4 DEF OpenOn, OpenTrades
  <2>. QED BY <1>10, <2>1, <2>3, <2>5 DEF Covered, EntryLabels
<1>12. CASE DecideBuy \/ ExecuteBuyLockedOut
  <2>1. pc[Worker] \in EntryLabels /\ trades' = trades /\ book' = book
    BY <1>12 DEF DecideBuy, ExecuteBuyLockedOut, dbVars, EntryLabels
  <2>2. CASE Finish(Worker)
    BY <1>1, <1>7, <1>10, <2>1, <2>2, FinishIdle DEF SendAccepted, EntryLabels
  <2>3. CASE DecideBuy /\ ~Finish(Worker)
    <3>1. pc'[Worker] = "claim" /\ job' = job /\ OpenOn(job[Worker].token) = {}
      BY <1>1, <2>3 DEF DecideBuy, Goto, TypeOK
    <3>2. (OpenOn(job[Worker].token) = {})'
      BY <2>1, <3>1 DEF OpenOn, OpenTrades
    <3>. QED BY <1>10, <2>1, <3>1, <3>2, LabelledNext DEF Covered, EntryLabels
  <2>. QED BY <1>12, <2>2, <2>3 DEF DecideBuy, ExecuteBuyLockedOut
<1>13. CASE LeaderTrades
  <2>1. /\ pc[Worker] = "idle" /\ pc'[Worker] \in {"evaluating", "sellQuote", "lockedOut"}
        /\ book' = book
    BY <1>1, <1>13 DEF LeaderTrades, EvaluateBuy, MirrorSell, Goto, TypeOK, dbVars
  <2>2. ~HasRow(Worker)' /\ (Buying(Worker)' => pc'[Worker] = "evaluating")
    BY <2>1 DEF HasRow, RowLabels, EntryLabels, Buying, BuyLabels
  <2>. QED BY <1>10, <2>1, <2>2 DEF Covered
<1>14. CASE trades' = trades /\ book' = book /\ pc' = pc /\ job' = job
  <2>1. ~SendAccepted(Worker)
    BY <1>1, <1>14 DEF SendAccepted, Goto, TypeOK
  <2>2. \A t \in Trades : Sent(t, "buy")' = Sent(t, "buy")
    BY <1>5, <2>1
  <2>3. Untouched /\ HasRow(Worker) => Untouched'
    <3>1. SUFFICES ASSUME HasRow(Worker), Sent(job[Worker].trade, "buy") = {}
                   PROVE  (Sent(job[Worker].trade, "buy") = {})'
      BY <1>14 DEF Untouched
    <3>. PICK t \in Trades : t = job[Worker].trade
      BY <1>1, <3>1, OwnRow
    <3>2. Sent(t, "buy")' = {}
      BY <2>2, <3>1
    <3>. QED BY <1>14, <3>2 DEF Sent
  <2>4. OpenOn(job[Worker].token) = {} => (OpenOn(job[Worker].token) = {})'
    BY <1>14 DEF OpenOn, OpenTrades
  <2>. QED BY <1>2, <1>14, <2>2, <2>3, <2>4 DEF Covered, Buying, HasRow
<1>15. CASE EvaluationLooks
  <2>1. pc[Worker] \in EntryLabels /\ trades' = trades /\ book' = book
    BY <1>1, <1>15, LookSteps DEF EntryLabels, NothingSent, dbVars
  <2>2. CASE Finish(Worker)
    BY <1>1, <1>7, <1>10, <2>1, <2>2, FinishIdle DEF SendAccepted, EntryLabels
  <2>3. CASE pc'[Worker] \in {"evaluating", "evaluated"}
    BY <1>10, <2>1, <2>3, LabelledNext DEF Covered, EntryLabels
  <2>. QED BY <1>1, <1>15, <2>2, <2>3, LookSteps
<1>. QED BY <1>1, <1>6, <1>8, <1>9, <1>11, <1>12, <1>13, <1>14, <1>15, AloneSteps
     DEF EntryStep, Clean

(* What the worker on its own broadcast has a position, or the session     *)
(* that will open it, with usable quotes, answers that are not lost and    *)
(* sessions that do not die (executor.py:354).                             *)
THEOREM WorkerAccountsForBroadcastsHolds == Spec => []WorkerAccountsForBroadcasts
<1>1. Init => WorkerAlone /\ AccountInv
  <2> SUFFICES ASSUME Init PROVE WorkerAlone /\ AccountInv
    OBVIOUS
  <2>1. /\ \A t \in Trades : trades[t].status = "none" /\ Sent(t, "buy") = {}
        /\ \A p \in Procs : pc[p] = "idle" /\ ~Running(p) /\ ~HasRow(p) /\ ~Buying(p)
    BY Labelled DEF Init, NoRow, Sent, Sides
  <2>. QED BY <2>1, WorkerIsProc DEF WorkerAlone, AccountInv
<1>2. BooksInv /\ WorkerAlone /\ AccountInv /\ [Next]_vars => WorkerAlone' /\ AccountInv'
  BY AloneNext, AccountNext
<1>3. AccountInv => WorkerAccountsForBroadcasts
  BY WorkerIsProc DEF AccountInv, WorkerAccountsForBroadcasts, BroadcastIsAccounted, Accounted
<1>. QED BY <1>1, <1>2, <1>3, BooksCorrect, PTL DEF Spec
=============================================================================
