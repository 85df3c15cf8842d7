-------------------------- MODULE CopyRailsProofs ---------------------------
(*****************************************************************************)
(* The safety rails: while one of them blocks no session gets past it, a    *)
(* failure streak trips the emergency stop, the day's counter is the sum of *)
(* what the closed positions realized, and approvals overshoot the exposure *)
(* limit by less than a trade each.                                         *)
(*****************************************************************************)
EXTENDS CopyChainProofs

-----------------------------------------------------------------------------
(* The gate and the streak.                                                 *)

(* Only the gate starts a session's execution. *)
LEMMA StartsAtGate ==
  ASSUME TypeOK, [Next]_vars, NEW p \in Procs, PastGate(p)', ~PastGate(p)
  PROVE  GatePasses(p)
<1>0. pc \in [Procs -> {"idle"} \cup BuyLabels \cup SellLabels]
  BY DEF TypeOK
<1>1. \A q \in Procs : Finish(q) => \A r \in Procs : PastGate(r)' => PastGate(r)
  BY <1>0 DEF Finish, Goto, PastGate
<1>2. ASSUME NEW q \in Procs, BuyStep(q) PROVE GatePasses(p)
  <2>1. CASE Finish(q)
    BY <1>1, <2>1
  <2>2. CASE Retry(q) /\ PastGate(q)
    BY <1>0, <2>2 DEF Retry, Goto, PastGate
  <2>3. CASE GatePasses(q)
    BY <1>0, <2>3 DEF GatePasses, Goto, PastGate
  <2>4. CASE PrepareFails(q) \/ PrepareHardFails(q) \/ PrepareSwap(q) \/ PaperFill(q)
    BY <1>0, <2>1, <2>2, <2>4 DEF PrepareFails, PrepareHardFails, PrepareSwap, PaperFill, Goto,
       PastGate
  <2>5. CASE SendAccepted(q) \/ SendRaises(q) \/ SendVoid(q) \/ ConfirmLanded(q) \/ ConfirmGivesUp(q)
    BY <1>0, <2>1, <2>2, <2>5 DEF SendAccepted, SendRaises, SendVoid, ConfirmLanded,
       ConfirmGivesUp, Goto, PastGate
  <2>6. CASE \/ GateBlocks(q) \/ OpenPosition(q) \/ OpenPositionRefused(q) \/ RecordSuccess(q)
             \/ CoolDown(q) \/ GiveUp(q) \/ RecordFailure(q) \/ TripAfterFailures(q) \/ CommitBuy(q)
    BY <1>0, <2>1, <2>6 DEF GateBlocks, OpenPosition, OpenPositionRefused, RollBack, RecordSuccess,
       CoolDown, GiveUp, RecordFailure, TripAfterFailures, CommitBuy, Goto, PastGate
  <2>7. CASE Reading(q)
    BY <2>7, GateSteps DEF OnlyMoves, PastGate
  <2>. QED BY <1>2, <2>3, <2>4, <2>5, <2>6, <2>7 DEF BuyStep, Reading
<1>3. CASE SellStep
  BY <1>0, <1>1, <1>3, WorkerIsProc DEF SellStep, SellLockedOut, BookExit, SellNotReady,
     SellReady,
     SellSendAccepted, SellSendRaises, SellSendVoid, SellLanded, SellGivesUp,
        AbandonSell,
     ClosePosition, TripAfterLoss, CommitSell, Goto, PastGate
<1>4. CASE EntryStep
  <2>1. CASE EvaluationLooks
    BY <1>1, <2>1, LookSteps, WorkerIsProc DEF OnlyMoves, PastGate
  <2>. QED BY <1>0, <1>1, <1>4, <2>1, WorkerIsProc DEF EntryStep, DecideBuy,
       ExecuteBuyLockedOut, ExecuteBuy, Goto, PastGate
<1>5. CASE LeaderTrades
  BY <1>0, <1>5, WorkerIsProc DEF LeaderTrades, EvaluateBuy, MirrorSell, Goto, PastGate
<1>6. CASE OperatorDecides
  BY <1>0, <1>6, WorkerIsProc DEF OperatorDecides, ApproveTrade, Goto, PastGate
<1>7. ASSUME NEW q \in Procs, Abort(q) PROVE GatePasses(p)
  BY <1>1, <1>7 DEF Abort, RollBack
<1>8. CASE ChainMoves \/ RailsMove \/ DayChanges \/ UNCHANGED vars
  BY <1>8 DEF ChainMoves, Land, RailsMove, DayChanges, vars, PastGate
<1>. QED BY <1>2, <1>3, <1>4, <1>5, <1>6, <1>7, <1>8, WorkerIsProc DEF Next, WorkerStep

(* A step that leaves the streak, the stop and every trip in progress. *)
LEMMA StreakKept ==
  ASSUME StreakTripsStop, streak' = streak, stop' = stop, aborts' = aborts,
         \A p \in Procs : pc[p] = "trip" => pc'[p] = "trip"
  PROVE  StreakTripsStop'
  BY DEF StreakTripsStop

(* Every step keeps StreakTripsStop.                                       *)
LEMMA StreakNext ==
  ASSUME TypeOK, StreakTripsStop, [Next]_vars
  PROVE  StreakTripsStop'
<1>0. pc \in [Procs -> {"idle"} \cup BuyLabels \cup SellLabels]
  BY DEF TypeOK
<1>1. /\ streak \in Nat /\ MaxStreak \in Nat \ {0} /\ aborts \in Nat
      /\ \A q \in Procs : Finish(q) => \A r \in Procs : r = q \/ pc'[r] = pc[r]
      /\ \A q \in Procs : Retry(q) => \A r \in Procs : r = q \/ pc'[r] = pc[r]
  BY RailLimits, Parameters DEF RailLimits, TypeOK, RailsType, Finish, Retry, Goto,
     Parameters
<1>2. ASSUME NEW p \in Procs, BuyStep(p) PROVE StreakTripsStop'
  <2>1. CASE RecordSuccess(p)
    BY <1>1, <2>1 DEF RecordSuccess, ClearStreak, StreakTripsStop
  <2>2. CASE RecordFailure(p)
    BY <1>0, <1>1, <2>2 DEF RecordFailure, CountFailure, StreakTrips, Goto, StreakTripsStop
  <2>3. CASE TripAfterFailures(p)
    BY <2>3 DEF TripAfterFailures, TripStop, StreakTripsStop
  <2>5. CASE Reading(p)
    BY <2>5, GateSteps, StreakKept DEF NothingSent, OnlyMoves
  <2>4. CASE ~ (RecordSuccess(p) \/ RecordFailure(p) \/ TripAfterFailures(p) \/ Reading(p))
    <3>1. streak' = streak /\ stop' = stop /\ aborts' = aborts
      BY <1>2, <2>4 DEF BuyStep, Reading, GatePasses, GateBlocks, PrepareFails,
         PrepareHardFails,
         PrepareSwap, PaperFill, SendAccepted, SendRaises, SendVoid, ConfirmLanded,
         ConfirmGivesUp, OpenPosition, OpenPositionRefused, CoolDown, GiveUp,
            CommitBuy, StartCooldown, railVars
    <3>2. \A q \in Procs : pc[q] = "trip" => pc'[q] = "trip"
      BY <1>0, <1>1, <1>2, <2>4 DEF BuyStep, Reading, GatePasses, GateBlocks, PrepareFails,
         PrepareHardFails,
         PrepareSwap, PaperFill, SendAccepted, SendRaises, SendVoid, ConfirmLanded,
         ConfirmGivesUp, OpenPosition, OpenPositionRefused, RollBack, CoolDown,
            GiveUp,
         CommitBuy, Goto
    <3>. QED BY <3>1, <3>2, StreakKept
  <2>. QED BY <2>1, <2>2, <2>3, <2>4, <2>5
<1>3. CASE SellStep
  <2>1. CASE TripAfterLoss
    BY <2>1 DEF TripAfterLoss, TripStop, StreakTripsStop
  <2>2. CASE ~TripAfterLoss
    <3>1. streak' = streak /\ stop' = stop /\ aborts' = aborts
      BY <1>3, <2>2 DEF SellStep, SellLockedOut, BookExit, SellNotReady, SellReady,
         SellSendAccepted, SellSendRaises, SellSendVoid, SellLanded, SellGivesUp,
            AbandonSell,
         ClosePosition, CommitSell, AddPnl, railVars
    <3>2. pc[Worker] # "trip"
      BY <1>3 DEF SellStep, SellLockedOut, BookExit, SellNotReady, SellReady,
         SellSendAccepted,
         SellSendRaises, SellSendVoid, SellLanded, SellGivesUp, AbandonSell,
            ClosePosition,
         TripAfterLoss, CommitSell
    <3>3. \A q \in Procs \ {Worker} : pc'[q] = pc[q]
      BY <1>0, <1>1, <1>3, WorkerIsProc DEF SellStep, SellLockedOut, BookExit, SellNotReady,
         SellReady, SellSendAccepted, SellSendRaises, SellSendVoid, SellLanded,
            SellGivesUp,
         AbandonSell, ClosePosition, TripAfterLoss, CommitSell, Goto
    <3>. QED BY <3>1, <3>2, <3>3, StreakKept
  <2>. QED BY <2>1, <2>2
<1>4. CASE EntryStep \/ LeaderTrades \/ OperatorDecides
  <2>1. streak' = streak /\ stop' = stop /\ aborts' = aborts
    <3>1. CASE EntryStep
      BY <3>1, LookSteps DEF EntryStep, DecideBuy, ExecuteBuyLockedOut, ExecuteBuy, railVars,
         NothingSent
    <3>2. CASE LeaderTrades
      BY <3>2 DEF LeaderTrades, EvaluateBuy, MirrorSell, railVars
    <3>3. CASE OperatorDecides
      BY <3>3 DEF OperatorDecides, ApproveTrade, railVars
    <3>. QED BY <1>4, <3>1, <3>2, <3>3
  <2>2. \A q \in Procs : pc[q] = "trip" => pc'[q] = "trip"
    <3>4. CASE EvaluationLooks
      BY <3>4, LookSteps DEF OnlyMoves
    <3>1. CASE EntryStep /\ ~EvaluationLooks
      <4>1. pc[Worker] # "trip" /\ \E l \in {"claim", "commit", "gate", "idle"} : Goto(Worker, l)
        BY <3>1 DEF EntryStep, DecideBuy, ExecuteBuyLockedOut, ExecuteBuy, Finish
      <4>. QED BY <4>1 DEF Goto
    <3>2. CASE LeaderTrades
      <4>1. pc[Worker] # "trip"
            /\ \E l \in {"evaluating", "sellQuote", "lockedOut"} : Goto(Worker, l)
        BY <3>2 DEF LeaderTrades, EvaluateBuy, MirrorSell
      <4>. QED BY <4>1 DEF Goto
    <3>3. CASE OperatorDecides
      BY <3>3, WorkerIsProc
         DEF OperatorDecides, ApproveTrade, Goto, TypeOK
    <3>. QED BY <1>4, <3>1, <3>2, <3>3, <3>4
  <2>. QED BY <2>1, <2>2, StreakKept
<1>5. ASSUME NEW p \in Procs, Abort(p) PROVE StreakTripsStop'
  BY <1>1, <1>5 DEF Abort, StreakTripsStop
<1>6. CASE ChainMoves \/ DayChanges \/ UNCHANGED vars
  BY <1>6, StreakKept DEF ChainMoves, Land, DayChanges, NextDay, vars, railVars
<1>7. CASE RailsMove
  BY <1>1, <1>7 DEF RailsMove, OperatorMovesRails, TripStop, ClearStop,
     StreakTripsStop
<1>. QED BY <1>2, <1>3, <1>4, <1>5, <1>6, <1>7, WorkerIsProc DEF Next, WorkerStep

(* A failure streak at its limit has set the emergency stop, or the session*)
(* that counted the last failure is about to (record_execution_result).    *)
THEOREM StreakTripsStopHolds == Spec => []StreakTripsStop
<1>1. Init => StreakTripsStop
  BY RailLimits DEF RailLimits, Init, RailsInit, StreakTripsStop
<1>2. TypeOK /\ StreakTripsStop /\ [Next]_vars => StreakTripsStop'
  BY StreakNext
<1>. QED BY <1>1, <1>2, TypeCorrect, PTL DEF Spec
-----------------------------------------------------------------------------
(* The day's loss counter.                                                  *)

(* A step counts a result, commits or rolls back the sell that did, starts *)
(* a new day, or leaves the results, the closed positions and the sell     *)
(* whose result is counted as they are.                                    *)
LEMMA ResultSteps ==
  ASSUME BooksInv, [Next]_vars
  PROVE  \/ ClosePosition \/ CommitSell \/ DayChanges
         \/ \E p \in Procs : RollBack(p) /\ Running(p) /\ book' = book
         \/ /\ realized' = realized
            /\ \A t \in Trades : book[t] = "closed" => book'[t] = "closed"
            /\ Recording(Worker) =>
                 Recording(Worker)' /\ job'[Worker].trade = job[Worker].trade
<1> DEFINE Kept == /\ realized' = realized
                   /\ \A t \in Trades : book[t] = "closed" => book'[t] = "closed"
                   /\ Recording(Worker) =>
                        Recording(Worker)' /\ job'[Worker].trade = job[Worker].trade
<1>1. TypeOK /\ Worker \in Procs
  BY WorkerIsProc DEF BooksInv, ShapeInv
<1>2. ASSUME NEW p \in Procs, BuyStep(p), ~OpenPositionRefused(p) PROVE Kept
  <2>1. HasRow(p) /\ ~Recording(p)
    BY <1>2 DEF HasRow, RowLabels, EntryLabels, BuyLabels, Recording, BuyStep, GateReads, ReadClear, ApprovalPasses, ApprovalBlocks, GatePasses, GateBlocks,
       PrepareFails, PrepareHardFails, PrepareSwap, PaperFill, SendAccepted, SendRaises,
       SendVoid, ConfirmLanded, ConfirmGivesUp, OpenPosition, RecordSuccess, CoolDown,
       GiveUp, RecordFailure, TripAfterFailures, CommitBuy
  <2>2. CASE CommitBuy(p)
    <3>1. OnlyMoves(p) /\ realized' = realized
      BY <1>1, <2>2 DEF CommitBuy, Finish, Goto, OnlyMoves, TypeOK
    <3>2. \A t \in Trades : book[t] = "closed" => book'[t] = "closed"
      BY <1>1, <2>1, <2>2, OwnRow DEF CommitBuy, TypeOK
    <3>. QED BY <1>1, <2>1, <3>1, <3>2 DEF OnlyMoves, Recording
  <2>3. CASE OpenPosition(p)
    <3>1. OnlyMoves(p) /\ realized' = realized /\ book' = book
      BY <1>1, <2>3 DEF OpenPosition, Goto, OnlyMoves, TypeOK, dbVars
    <3>. QED BY <1>1, <2>1, <3>1 DEF OnlyMoves, Recording
  <2>4. CASE ~CommitBuy(p) /\ ~OpenPosition(p)
    <3>1. OnlyMoves(p) /\ book' = book
      BY <1>2, <2>4, MidBuy DEF BuyStep, MidStep
    <3>2. realized' = realized
      BY <1>2, <2>4 DEF BuyStep, GateReads, ReadClear, ApprovalPasses, ApprovalBlocks, GatePasses, GateBlocks, PrepareFails, PrepareHardFails,
         PrepareSwap, PaperFill, SendAccepted, SendRaises, SendVoid, ConfirmLanded,
         ConfirmGivesUp, RecordSuccess, CoolDown, GiveUp, RecordFailure,
         TripAfterFailures, dbVars
    <3>. QED BY <1>1, <2>1, <3>1, <3>2 DEF OnlyMoves, Recording
  <2>. QED BY <2>2, <2>3, <2>4
<1>3. ASSUME NEW p \in Procs, OpenPositionRefused(p)
      PROVE  RollBack(p) /\ Running(p) /\ book' = book
  BY <1>3 DEF OpenPositionRefused, Running
<1>4. ASSUME SellStep, ~ClosePosition, ~CommitSell PROVE Kept
  <2>1. CASE TripAfterLoss
    BY <1>1, <2>1 DEF TripAfterLoss, Goto, Recording, TypeOK, dbVars
  <2>2. CASE ~TripAfterLoss
    <3>1. ~Recording(Worker)
      BY <1>4, <2>2 DEF SellStep, SellLockedOut, BookExit, SellNotReady, SellReady,
         SellSendAccepted, SellSendRaises, SellSendVoid, SellLanded, SellGivesUp,
         AbandonSell, Recording
    <3>2. realized' = realized /\ book' = book
      BY <1>4, <2>2 DEF SellStep, SellLockedOut, BookExit, SellNotReady, SellReady,
         SellSendAccepted, SellSendRaises, SellSendVoid, SellLanded, SellGivesUp,
         AbandonSell, dbVars
    <3>. QED BY <3>1, <3>2
  <2>. QED BY <2>1, <2>2
<1>5. ASSUME EntryStep \/ LeaderTrades PROVE Kept
  <2>1. ~Recording(Worker)
    BY <1>1, <1>5, LookSteps DEF EntryStep, DecideBuy, ExecuteBuyLockedOut, ExecuteBuy, LeaderTrades,
       EvaluateBuy, MirrorSell, Recording
  <2>2. realized' = realized /\ book' = book
    BY <1>1, <1>5, LookSteps DEF EntryStep, DecideBuy, ExecuteBuyLockedOut, ExecuteBuy,
       LeaderTrades, EvaluateBuy, MirrorSell, dbVars, NothingSent
  <2>. QED BY <2>1, <2>2
<1>6. ASSUME OperatorDecides PROVE Kept
  <2>1. realized' = realized /\ book' = book
    BY <1>6 DEF OperatorDecides, ApproveTrade, dbVars
  <2>2. pc'[Worker] = pc[Worker] /\ job'[Worker] = job[Worker]
    BY <1>1, <1>6, Parameters
       DEF OperatorDecides, ApproveTrade, Goto, TypeOK, Parameters, Procs
  <2>. QED BY <2>1, <2>2 DEF Recording
<1>7. ASSUME NEW p \in Procs, Abort(p) PROVE RollBack(p) /\ Running(p) /\ book' = book
  BY <1>7 DEF Abort, Running
<1>8. CASE ChainMoves \/ RailsMove \/ UNCHANGED vars
  BY <1>8 DEF ChainMoves, Land, RailsMove, vars, dbVars, Recording
<1>. QED BY <1>2, <1>3, <1>4, <1>5, <1>6, <1>7, <1>8, WorkerIsProc DEF Next, WorkerStep

(* What is counted belongs to a closed position, or to the one whose sell  *)
(* is about to be committed, after a step too.                             *)
LEMMA ResultsNext ==
  ASSUME BooksInv, ResultsBooked, [Next]_vars, NEW t \in Trades, realized'[t] # 0
  PROVE  book'[t] = "closed" \/ (Recording(Worker)' /\ job'[Worker].trade = t)
<1>1. /\ TypeOK /\ Worker \in Procs
      /\ \A p \in Procs : Recording(p) => p = Worker /\ Selling(p)
      /\ \A u \in Trades : realized[u] # 0 =>
           book[u] = "closed" \/ (Recording(Worker) /\ job[Worker].trade = u)
  BY WorkerIsProc DEF BooksInv, ShapeInv, SessionsShape, SessionToken, Recording, Selling,
     SellLabels, HasRow, RowLabels, EntryLabels, BuyLabels, Running, ResultsBooked
<1>2. CASE ClosePosition
  BY <1>1, <1>2 DEF ClosePosition, Goto, Recording, TypeOK
<1>3. CASE CommitSell
  BY <1>1, <1>3 DEF CommitSell, TypeOK
<1>4. CASE DayChanges
  BY <1>4 DEF DayChanges
<1>5. ASSUME NEW p \in Procs, RollBack(p), Running(p), book' = book
      PROVE  book'[t] = "closed" \/ (Recording(Worker)' /\ job'[Worker].trade = t)
  <2>1. CASE Recording(p)
    <3>1. realized'[t] = realized[t] /\ job[p].trade # t
      BY <1>1, <1>5, <2>1 DEF RollBack, Recording, TypeOK
    <3>. QED BY <1>1, <1>5, <2>1, <3>1
  <2>2. CASE ~Recording(p)
    <3>1. realized' = realized
      BY <1>5, <2>2 DEF RollBack, Recording
    <3>2. p # Worker => pc'[Worker] = pc[Worker] /\ job'[Worker] = job[Worker]
      BY <1>1, <1>5 DEF RollBack, Finish, Goto, TypeOK
    <3>. QED BY <1>1, <1>5, <2>2, <3>1, <3>2 DEF Recording
  <2>. QED BY <2>1, <2>2
<1>. QED BY <1>1, <1>2, <1>3, <1>4, <1>5, ResultSteps

(* The counter and the results change in the same steps. *)
LEMMA CounterSteps ==
  ASSUME TypeOK, [Next]_vars, aborts' = 0, aborts \in Nat
  PROVE  /\ aborts = 0
         /\ ClosePosition \/ DayChanges \/ (pnl' = pnl /\ realized' = realized)
<1>1. ASSUME NEW p \in Procs PROVE ~Abort(p)
  BY DEF Abort
<1>2. ASSUME NEW p \in Procs, BuyStep(p) PROVE pnl' = pnl /\ realized' = realized /\ aborts' = aborts
  <2>1. CASE OpenPositionRefused(p)
    BY <2>1 DEF OpenPositionRefused, RollBack, railVars
  <2>3. CASE Reading(p)
    BY <2>3, GateSteps DEF NothingSent, dbVars
  <2>2. CASE ~OpenPositionRefused(p) /\ ~Reading(p)
    <3>1. realized' = realized /\ aborts' = aborts
      BY <1>2, <2>2 DEF BuyStep, Reading, GatePasses, GateBlocks, PrepareFails, PrepareHardFails,
         PrepareSwap, PaperFill, SendAccepted, SendRaises, SendVoid, ConfirmLanded,
         ConfirmGivesUp, OpenPosition, RecordSuccess, CoolDown, GiveUp, RecordFailure,
         TripAfterFailures, CommitBuy, dbVars
    <3>2. pnl' = pnl
      BY <1>2, <2>2 DEF BuyStep, Reading, GatePasses, GateBlocks, PrepareFails, PrepareHardFails,
         PrepareSwap, PaperFill, SendAccepted, SendRaises, SendVoid, ConfirmLanded,
         ConfirmGivesUp, OpenPosition, RecordSuccess, CoolDown, GiveUp, RecordFailure,
         TripAfterFailures, CommitBuy, railVars, ClearStreak, StartCooldown, CountFailure, TripStop
    <3>. QED BY <3>1, <3>2
  <2>. QED BY <2>1, <2>2, <2>3
<1>3. ASSUME SellStep, ~ClosePosition PROVE pnl' = pnl /\ realized' = realized /\ aborts' = aborts
  BY <1>3 DEF SellStep, SellLockedOut, BookExit, SellNotReady, SellReady,
     SellSendAccepted, SellSendRaises, SellSendVoid, SellLanded, SellGivesUp,
     AbandonSell, TripAfterLoss, CommitSell, TripStop, railVars, dbVars
<1>4. ASSUME EntryStep \/ LeaderTrades PROVE pnl' = pnl /\ realized' = realized /\ aborts' = aborts
  BY <1>4, LookSteps DEF EntryStep, DecideBuy, ExecuteBuyLockedOut, ExecuteBuy, LeaderTrades,
     EvaluateBuy, MirrorSell, NothingSent, railVars, dbVars
<1>5. ASSUME OperatorDecides PROVE pnl' = pnl /\ realized' = realized /\ aborts' = aborts
  BY <1>5 DEF OperatorDecides, ApproveTrade, railVars, dbVars
<1>6. CASE ChainMoves \/ RailsMove \/ UNCHANGED vars
  BY <1>6 DEF ChainMoves, Land, RailsMove, OperatorMovesRails, TripStop, ClearStop, vars,
     railVars, dbVars
<1>7. ClosePosition \/ DayChanges => aborts' = aborts
  BY DEF ClosePosition, DayChanges
<1>. QED BY <1>1, <1>2, <1>3, <1>4, <1>5, <1>6, <1>7, WorkerIsProc DEF Next, WorkerStep

(* Every step keeps the counter equal to the sum.                          *)
LEMMA CounterNext ==
  ASSUME BooksInv, ResultsBooked, [Next]_vars
  PROVE  LossCounterExact'
<1> SUFFICES ASSUME aborts' = 0 PROVE pnl' = SumOver(realized', Trades)
  BY DEF LossCounterExact
<1>1. /\ TypeOK /\ Worker \in Procs /\ IsFiniteSet(Trades) /\ aborts \in Nat
      /\ realized \in [Trades -> Int]
  BY WorkerIsProc, Parameters DEF BooksInv, ShapeInv, TypeOK, Parameters
<1>2. aborts = 0 /\ (ClosePosition \/ DayChanges \/ (pnl' = pnl /\ realized' = realized))
  BY <1>1, CounterSteps
<1>3. pnl = SumOver(realized, Trades)
  BY <1>2 DEF ResultsBooked, LossCounterExact
<1>4. CASE ClosePosition
  <2>1. PICK result : result = job[Worker].proceeds - job[Worker].size
    OBVIOUS
  <2>2. result \in Int
    BY <1>1, <2>1, RailLimits DEF TypeOK, Job, Sizes, RailLimits
  <2>3. Selling(Worker) /\ ~Recording(Worker)
    BY <1>4 DEF ClosePosition, Selling, SellLabels, Recording
  <2>. PICK b \in Trades : b = job[Worker].trade /\ book[b] = "open"
    BY <1>1, <2>3 DEF BooksInv, ShapeInv, SessionsShape, SessionExit
  <2>4. realized[b] = 0
    BY <2>3 DEF ResultsBooked
  <2>5. pnl' = pnl + result /\ realized' = [realized EXCEPT ![b] = result]
    BY <1>4, <2>1 DEF ClosePosition, AddPnl
  <2>6. realized'[b] = result /\ \A t \in Trades \ {b} : realized'[t] = realized[t]
    BY <1>1, <2>5
  <2>7. SumOver(realized', Trades) = SumOver(realized, Trades) - realized[b] + realized'[b]
    <3>1. PICK after : after = realized'
      OBVIOUS
    <3>2. \A t \in Trades : realized[t] \in Int /\ after[t] \in Int
      BY <1>1, <2>2, <2>6, <3>1
    <3>3. SumOver(after, Trades) = SumOver(realized, Trades) - realized[b] + after[b]
      BY <1>1, <2>6, <3>1, <3>2, SumChange
    <3>. QED BY <3>1, <3>3
  <2>. QED BY <1>1, <1>3, <2>2, <2>4, <2>5, <2>6, <2>7, SumType
<1>5. CASE DayChanges
  BY <1>1, <1>5, SumZero DEF DayChanges, NextDay
<1>. QED BY <1>2, <1>3, <1>4, <1>5

(* The counter in Redis is the sum of what today's closed positions        *)
(* realized, as long as no session died between the INCRBY and its commit  *)
(* (executor.py:270).                                                      *)
THEOREM LossCounterExactHolds == Spec => []LossCounterExact
<1>1. Init => ResultsBooked
  BY Parameters, SumZero DEF Init, RailsInit, ResultsBooked, LossCounterExact, Parameters
<1>2. BooksInv /\ ResultsBooked /\ [Next]_vars => ResultsBooked'
  BY ResultsNext, CounterNext DEF ResultsBooked
<1>3. ResultsBooked => LossCounterExact
  BY DEF ResultsBooked
<1>. QED BY <1>1, <1>2, <1>3, BooksCorrect, PTL DEF Spec

-----------------------------------------------------------------------------
(* Exposure under approvals.                                                *)

(* The size each session works with. *)
Sized == [p \in Procs |-> job[p].size]

(* A step of a buy is a step of its session only.                          *)
LEMMA BuyMovesOne ==
  ASSUME BooksInv, NEW p \in Procs, BuyStep(p)
  PROVE  OnlyMoves(p)
<1>1. CASE Finish(p)
  BY <1>1 DEF Finish, Goto, OnlyMoves, BooksInv, ShapeInv, TypeOK
<1>2. CASE OpenPosition(p)
  BY <1>2 DEF OpenPosition, Goto, OnlyMoves, BooksInv, ShapeInv, TypeOK
<1>3. CASE ~Finish(p) /\ ~OpenPosition(p)
  BY <1>3, MidBuy DEF BuyStep, MidStep, OpenPositionRefused, RollBack, CommitBuy
<1>. QED BY <1>1, <1>2, <1>3

(* A step of the sell is a step of the worker only, at the size it had.    *)
LEMMA SellMovesOne ==
  ASSUME BooksInv, SellStep
  PROVE  /\ OnlyMoves(Worker)
         /\ job'[Worker].size = job[Worker].size \/ job'[Worker] = NoJob
<1>1. /\ TypeOK /\ Worker \in Procs /\ job \in [Procs -> Job]
      /\ pc \in [Procs -> {"idle"} \cup BuyLabels \cup SellLabels]
  BY WorkerIsProc DEF BooksInv, ShapeInv, TypeOK
<1>2. CASE Finish(Worker)
  BY <1>1, <1>2 DEF Finish, Goto, OnlyMoves
<1>3. CASE ~Finish(Worker)
  <2>1. OnlyMoves(Worker)
    BY <1>3, MidSell DEF SellStep, SellLockedOut, AbandonSell, CommitSell, MidStep
  <2>2. CASE BookExit \/ SellSendAccepted
    BY <1>1, <2>1, <2>2 DEF BookExit, SellSendAccepted, Job
  <2>3. CASE SellLanded
    <3>1. PICK v \in Proceeds :
            job' = [job EXCEPT ![Worker] = [@ EXCEPT !.proceeds = v, !.onChain = TRUE]]
      BY <2>3 DEF SellLanded
    <3>. QED BY <1>1, <2>1, <3>1 DEF Job
  <2>4. CASE job' = job
    BY <2>1, <2>4
  <2>. QED BY <1>3, <2>2, <2>3, <2>4 DEF SellStep, SellLockedOut, AbandonSell, CommitSell,
       SellNotReady, SellReady, SellSendRaises, SellSendVoid, SellGivesUp, ClosePosition,
       TripAfterLoss
<1>. QED BY <1>2, <1>3

(* A step of one session that leaves the size of every row keeps what      *)
(* OvershootInv says of rows and sessions, if the session does.            *)
LEMMA SizesKept ==
  ASSUME BooksInv, OvershootInv, ApprovalMode, NEW p \in Procs, OnlyMoves(p),
         \A t \in Trades : trades'[t].size = trades[t].size,
         RowSizes(p)',
         p = Worker /\ HasRow(Worker)' => pc'[Worker] = "commit" /\ ~job'[Worker].opened
  PROVE  /\ HasRow(Worker)' => pc'[Worker] = "commit" /\ ~job'[Worker].opened
         /\ \A t \in Trades : trades'[t].size <= Max(Wants)
         /\ \A q \in Procs : RowSizes(q)'
<1>1. ASSUME NEW q \in Procs, q # p
      PROVE  /\ pc'[q] = pc[q] /\ job'[q] = job[q] /\ (HasRow(q)' <=> HasRow(q))
             /\ RowSizes(q)'
  <2>1. pc'[q] = pc[q] /\ job'[q] = job[q]
    BY <1>1 DEF OnlyMoves
  <2>2. HasRow(q)' <=> HasRow(q)
    BY <2>1 DEF HasRow
  <2>3. HasRow(q) => job[q].trade \in Trades
    BY OwnRow
  <2>. QED BY <2>1, <2>2, <2>3 DEF OvershootInv, RowSizes
<1>2. HasRow(Worker)' => pc'[Worker] = "commit" /\ ~job'[Worker].opened
  BY <1>1, WorkerIsProc DEF OvershootInv
<1>3. \A t \in Trades : trades'[t].size <= Max(Wants)
  BY DEF OvershootInv
<1>. QED BY <1>1, <1>2, <1>3

(* A session that ends has no row and no size.                             *)
LEMMA NoSize ==
  ASSUME TypeOK, NEW p \in Procs, Finish(p), Max(Wants) \in Nat
  PROVE  OnlyMoves(p) /\ RowSizes(p)' /\ ~HasRow(p)'
<1>1. OnlyMoves(p) /\ job'[p] = NoJob
  BY DEF Finish, Goto, OnlyMoves, TypeOK
<1>2. job'[p].size = 0
  BY <1>1 DEF NoJob
<1>. QED BY <1>1, <1>2, FinishIdle DEF RowSizes

(* The largest wanted size.                                                *)
LEMMA LargestWant ==
  ASSUME IsFiniteSet(Wants), Wants # {}
  PROVE  Max(Wants) \in Nat /\ \A want \in Wants : want <= Max(Wants)
<1>1. Wants \subseteq Nat \ {0} /\ Wants \subseteq Int
  BY Parameters DEF Parameters
<1>2. Max(Wants) \in Wants /\ \A want \in Wants : want <= Max(Wants)
  BY <1>1, MaxIn
<1>. QED BY <1>1, <1>2

(* What a step that starts or ends a session, or decides, does to sizes.   *)
LEMMA SizesOfEntry ==
  ASSUME BooksInv, OvershootInv, ApprovalMode, IsFiniteSet(Wants), Wants # {},
         LeaderTrades \/ EntryStep \/ OperatorDecides
  PROVE  /\ HasRow(Worker)' => pc'[Worker] = "commit" /\ ~job'[Worker].opened
         /\ \A t \in Trades : trades'[t].size <= Max(Wants)
         /\ \A p \in Procs : RowSizes(p)'
<1>. DEFINE SizesHold == /\ HasRow(Worker)' => pc'[Worker] = "commit" /\ ~job'[Worker].opened
                         /\ \A t \in Trades : trades'[t].size <= Max(Wants)
                         /\ \A p \in Procs : RowSizes(p)'
<1>1. /\ TypeOK /\ Worker \in Procs /\ Max(Wants) \in Nat /\ job[Worker] \in Job
      /\ trades \in [Trades -> Row] /\ pc \in [Procs -> {"idle"} \cup BuyLabels \cup SellLabels]
      /\ job \in [Procs -> Job] /\ \A q \in Approvers : q \in Procs
  BY WorkerIsProc, LargestWant DEF BooksInv, ShapeInv, TypeOK
<1>2. \A t \in Trades : trades[t].size <= Max(Wants)
  BY DEF OvershootInv
<1>3. ASSUME NEW leader \in Leaders, NEW token \in Tokens, NEW want \in Wants,
             EvaluateBuy(leader, token, want)
      PROVE  SizesHold
  <2>1. PICK size \in Sizes :
          /\ size = CopySize(want, Exposure)
          /\ job' = [job EXCEPT ![Worker] =
                       [NoJob EXCEPT !.token = token, !.leader = leader, !.size = size]]
    BY <1>3 DEF EvaluateBuy
  <2>2. /\ OnlyMoves(Worker) /\ job'[Worker].size = size /\ pc'[Worker] = "evaluating"
        /\ trades' = trades
    BY <1>1, <1>3, <2>1 DEF EvaluateBuy, Goto, OnlyMoves, NoJob, dbVars
  <2>3. size <= Max(Wants)
    <3>1. want \in Nat /\ want <= Max(Wants) /\ Exposure \in Nat /\ MaxExposure \in Nat
      BY <1>1, LargestWant, ExposureType, Parameters, RailLimits DEF Parameters, RailLimits
    <3>. QED BY <1>1, <2>1, <3>1 DEF CopySize
  <2>4. ~HasRow(Worker)' /\ RowSizes(Worker)'
    BY <2>2, <2>3, LabelledNext DEF RowSizes, EntryLabels
  <2>. QED BY <1>1, <2>2, <2>4, SizesKept
<1>4. ASSUME NEW leader \in Leaders, NEW token \in Tokens, MirrorSell(leader, token)
      PROVE  SizesHold
  <2>1. PICK b \in OpenOn(token) :
          /\ pc' = [pc EXCEPT ![Worker] = "sellQuote"] \/ pc' = [pc EXCEPT ![Worker] = "lockedOut"]
          /\ job' = [job EXCEPT ![Worker] =
                       [NoJob EXCEPT !.trade = b, !.token = token, !.leader = leader,
                                     !.size = trades[b].size]]
          /\ trades' = trades
    BY <1>4 DEF MirrorSell, Goto, dbVars
  <2>2. /\ OnlyMoves(Worker) /\ job'[Worker].size = trades[b].size
        /\ pc'[Worker] \in {"sellQuote", "lockedOut"} /\ b \in Trades
    BY <1>1, <2>1 DEF OnlyMoves, NoJob, OpenOn, OpenTrades
  <2>3. ~HasRow(Worker)'
    BY <2>2 DEF HasRow, RowLabels, EntryLabels, BuyLabels
  <2>4. RowSizes(Worker)'
    BY <1>2, <2>2, <2>3 DEF RowSizes
  <2>. QED BY <1>1, <2>1, <2>2, <2>3, <2>4, SizesKept
<1>5. CASE DecideBuy \/ ExecuteBuyLockedOut
  <2>1. trades' = trades
    BY <1>5 DEF DecideBuy, ExecuteBuyLockedOut, dbVars
  <2>2. CASE Finish(Worker)
    BY <1>1, <2>1, <2>2, NoSize, SizesKept
  <2>3. CASE DecideBuy /\ Goto(Worker, "claim") /\ UNCHANGED job
    <3>1. OnlyMoves(Worker) /\ pc'[Worker] = "claim" /\ job' = job
      BY <1>1, <2>3 DEF Goto, OnlyMoves
    <3>2. ~HasRow(Worker)'
      BY <3>1, LabelledNext DEF EntryLabels
    <3>3. RowSizes(Worker)'
      BY <1>1, <3>1, <3>2 DEF OvershootInv, RowSizes
    <3>. QED BY <1>1, <2>1, <3>1, <3>2, <3>3, SizesKept
  <2>. QED BY <1>5, <2>2, <2>3 DEF DecideBuy, ExecuteBuyLockedOut
<1>6. ASSUME NEW t \in Trades, ExecuteBuy(t) PROVE SizesHold
  <2>1. /\ pc[Worker] = "claim" /\ trades[t].status = "none"
        /\ trades' = [trades EXCEPT ![t] =
                        [status |-> "uncommitted", token |-> job[Worker].token,
                         leader |-> job[Worker].leader, size |-> job[Worker].size]]
        /\ job' = [job EXCEPT ![Worker] = [@ EXCEPT !.trade = t, !.status = "pending_approval"]]
        /\ pc' = [pc EXCEPT ![Worker] = "commit"]
    BY <1>6 DEF ExecuteBuy, Goto
  <2>2. /\ OnlyMoves(Worker) /\ job'[Worker].size = job[Worker].size /\ job'[Worker].trade = t
        /\ job'[Worker].opened = job[Worker].opened /\ pc'[Worker] = "commit"
    BY <1>1, <2>1 DEF OnlyMoves, Job
  <2>3. /\ trades'[t].size = job[Worker].size
        /\ \A u \in Trades \ {t} : trades'[u] = trades[u]
    BY <1>1, <2>1
  <2>4. ~job[Worker].opened
    BY <1>1, <2>1, NotOpened DEF BooksInv, ShapeInv
  <2>5. job[Worker].size <= Max(Wants)
    BY <1>1 DEF OvershootInv, RowSizes
  <2>6. ASSUME NEW q \in Procs PROVE RowSizes(q)'
    <3>1. CASE q = Worker
      BY <2>2, <2>3, <2>5, <3>1 DEF RowSizes
    <3>2. CASE q # Worker
      <4>1. pc'[q] = pc[q] /\ job'[q] = job[q] /\ (HasRow(q)' <=> HasRow(q))
        BY <2>2, <3>2 DEF OnlyMoves, HasRow
      <4>2. HasRow(q) => job[q].trade \in Trades /\ job[q].trade # t
        BY <2>1, OwnRow
      <4>. QED BY <2>3, <4>1, <4>2 DEF OvershootInv, RowSizes
    <3>. QED BY <3>1, <3>2
  <2>7. \A u \in Trades : trades'[u].size <= Max(Wants)
    BY <1>2, <2>3, <2>5
  <2>. QED BY <2>2, <2>4, <2>6, <2>7
<1>7. ASSUME NEW p \in Approvers, NEW t \in Trades, ApproveTrade(p, t) PROVE SizesHold
  <2>1. /\ job' = [job EXCEPT ![p] =
                     [NoJob EXCEPT !.trade = t, !.token = trades[t].token,
                                   !.leader = trades[t].leader, !.size = trades[t].size,
                                   !.status = "pending_approval"]]
        /\ pc' = [pc EXCEPT ![p] = "approving"] /\ trades' = trades
    BY <1>7 DEF ApproveTrade, Goto, dbVars
  <2>2. OnlyMoves(p) /\ job'[p].size = trades[t].size /\ job'[p].trade = t /\ p # Worker
    BY <1>1, <2>1, Parameters DEF OnlyMoves, NoJob, Parameters
  <2>3. RowSizes(p)'
    BY <1>2, <2>1, <2>2 DEF RowSizes
  <2>. QED BY <1>1, <2>1, <2>2, <2>3, SizesKept
<1>8. CASE EvaluationLooks
  <2>1. trades' = trades /\ OnlyMoves(Worker)
    BY <1>1, <1>8, LookSteps DEF NothingSent, dbVars
  <2>2. CASE Finish(Worker)
    BY <1>1, <2>1, <2>2, NoSize, SizesKept
  <2>3. CASE pc'[Worker] \in {"evaluating", "evaluated"} /\ SameTrade(Worker)
    <3>1. ~HasRow(Worker)'
      BY <2>3, LabelledNext DEF EntryLabels
    <3>2. RowSizes(Worker)'
      BY <1>1, <2>3, <3>1 DEF OvershootInv, RowSizes, SameTrade
    <3>. QED BY <1>1, <2>1, <3>1, <3>2, SizesKept
  <2>. QED BY <1>1, <1>8, <2>2, <2>3, LookSteps
<1>. QED BY <1>3, <1>4, <1>5, <1>6, <1>7, <1>8 DEF LeaderTrades, EntryStep, OperatorDecides

(* What OvershootInv says of rows and sessions holds after every step.     *)
LEMMA SizesNext ==
  ASSUME BooksInv, OvershootInv, ApprovalMode, IsFiniteSet(Wants), Wants # {}, [Next]_vars
  PROVE  /\ HasRow(Worker)' => pc'[Worker] = "commit" /\ ~job'[Worker].opened
         /\ \A t \in Trades : trades'[t].size <= Max(Wants)
         /\ \A p \in Procs : RowSizes(p)'
<1>. DEFINE SizesHold == /\ HasRow(Worker)' => pc'[Worker] = "commit" /\ ~job'[Worker].opened
                         /\ \A t \in Trades : trades'[t].size <= Max(Wants)
                         /\ \A p \in Procs : RowSizes(p)'
<1>1. TypeOK /\ Worker \in Procs /\ Max(Wants) \in Nat
  BY WorkerIsProc, LargestWant DEF BooksInv, ShapeInv
<1>2. ASSUME NEW p \in Procs, RollBack(p) PROVE SizesHold
  <2>1. OnlyMoves(p) /\ RowSizes(p)' /\ ~HasRow(p)'
    BY <1>1, <1>2, NoSize DEF RollBack
  <2>2. \A t \in Trades : trades'[t].size = trades[t].size
    BY <1>1, <1>2, RollBackSizes
  <2>. QED BY <2>1, <2>2, SizesKept
<1>3. ASSUME NEW p \in Procs, BuyStep(p) PROVE SizesHold
  <2>1. CASE OpenPositionRefused(p)
    BY <1>2, <2>1 DEF OpenPositionRefused
  <2>2. CASE CommitBuy(p)
    <3>1. \A t \in Trades : trades'[t].size = trades[t].size
      BY <1>1, <2>2 DEF CommitBuy, TypeOK, Row
    <3>. QED BY <1>1, <2>2, <3>1, NoSize, SizesKept DEF CommitBuy
  <2>3. CASE ~CommitBuy(p) /\ ~OpenPositionRefused(p)
    <3>1. /\ HasRow(p) /\ HasRow(p)' /\ job'[p].size = job[p].size
          /\ job'[p].trade = job[p].trade /\ trades' = trades
      BY <1>3, <2>3, SizeKept
    <3>2. p # Worker
      BY <1>1, <1>3, <2>3, <3>1, GateSteps DEF OvershootInv, BuyStep, Reading, GatePasses, GateBlocks, PrepareFails,
         PrepareHardFails, PrepareSwap, PaperFill, SendAccepted, SendRaises, SendVoid,
         ConfirmLanded, ConfirmGivesUp, OpenPosition, RecordSuccess, CoolDown, GiveUp,
         RecordFailure, TripAfterFailures
    <3>3. RowSizes(p)'
      BY <3>1 DEF OvershootInv, RowSizes
    <3>. QED BY <1>3, <3>1, <3>2, <3>3, BuyMovesOne, SizesKept
  <2>. QED BY <2>1, <2>2, <2>3
<1>4. CASE SellStep
  <2>1. OnlyMoves(Worker) /\ trades' = trades /\ ~HasRow(Worker)'
    BY <1>4, SellMovesOne, SellKeeps
  <2>2. job'[Worker].size <= Max(Wants)
    BY <1>1, <1>4, SellMovesOne DEF NoJob, OvershootInv, RowSizes
  <2>3. RowSizes(Worker)'
    BY <2>1, <2>2 DEF RowSizes
  <2>. QED BY <1>1, <2>1, <2>3, SizesKept
<1>5. ASSUME NEW p \in Procs, Abort(p) PROVE SizesHold
  BY <1>2, <1>5 DEF Abort
<1>6. CASE trades' = trades /\ pc' = pc /\ job' = job
  BY <1>6 DEF OvershootInv, RowSizes, HasRow
<1>7. CASE ChainMoves \/ RailsMove \/ DayChanges \/ UNCHANGED vars
  BY <1>6, <1>7 DEF ChainMoves, Land, RailsMove, DayChanges, vars, dbVars
<1>8. CASE LeaderTrades \/ EntryStep \/ OperatorDecides
  BY <1>8, SizesOfEntry
<1>. QED BY <1>1, <1>3, <1>4, <1>5, <1>7, <1>8, WorkerIsProc DEF Next, WorkerStep

(* A buy that goes on keeps its size, whoever moves.                       *)
LEMMA SizeStays ==
  ASSUME BooksInv, [Next]_vars, NEW q \in Procs, HasRow(q), HasRow(q)'
  PROVE  job'[q].size = job[q].size
<1>. DEFINE Same == job'[q].size = job[q].size
<1>1. /\ TypeOK /\ Worker \in Procs /\ \A p \in Approvers : p \in Procs
      /\ pc \in [Procs -> {"idle"} \cup BuyLabels \cup SellLabels] /\ job \in [Procs -> Job]
  BY WorkerIsProc DEF BooksInv, ShapeInv, TypeOK
<1>2. pc[q] \notin {"idle"} \cup EntryLabels /\ ~Selling(q)
  BY Labelled
<1>3. ASSUME NEW p \in Procs, OnlyMoves(p), p # q PROVE Same
  BY <1>3 DEF OnlyMoves
<1>4. ASSUME NEW p \in Procs, Finish(p) PROVE Same
  <2>1. ~HasRow(p)' /\ OnlyMoves(p)
    BY <1>1, <1>4, FinishIdle DEF Finish, Goto, OnlyMoves
  <2>. QED BY <1>3, <2>1
<1>5. ASSUME NEW p \in Procs, BuyStep(p) PROVE Same
  <2>1. CASE CommitBuy(p) \/ OpenPositionRefused(p)
    BY <1>4, <2>1 DEF CommitBuy, OpenPositionRefused, RollBack
  <2>2. CASE ~CommitBuy(p) /\ ~OpenPositionRefused(p)
    BY <1>3, <1>5, <2>2, BuyMovesOne, SizeKept
  <2>. QED BY <2>1, <2>2
<1>6. ASSUME NEW p \in Procs, Abort(p) PROVE Same
  BY <1>4, <1>6 DEF Abort, RollBack
<1>7. CASE SellStep
  BY <1>1, <1>2, <1>3, <1>7, SellMovesOne, SellKeeps
<1>8. ASSUME q # Worker \/ pc[Worker] \notin {"idle"} \cup EntryLabels,
             EntryStep \/ LeaderTrades
      PROVE  Same
  <2>3. CASE EvaluationLooks
    BY <1>1, <1>3, <1>8, <2>3, LookSteps DEF EntryLabels
  <2>4. SUFFICES ASSUME ~EvaluationLooks PROVE Same
    BY <2>3
  <2>1. pc[Worker] \in {"idle"} \cup EntryLabels
    BY <1>8, <2>4 DEF EntryStep, LeaderTrades, DecideBuy, ExecuteBuyLockedOut, ExecuteBuy,
       EvaluateBuy, MirrorSell, EntryLabels
  <2>2. job' = job \/ \E j : job' = [job EXCEPT ![Worker] = j]
    BY <1>8, <2>4 DEF EntryStep, LeaderTrades, DecideBuy, ExecuteBuyLockedOut, ExecuteBuy,
       EvaluateBuy, MirrorSell, Finish
  <2>. QED BY <1>1, <1>8, <2>1, <2>2
<1>9. CASE OperatorDecides
  <2>1. PICK p \in Approvers, t \in Trades : ApproveTrade(p, t)
    BY <1>9 DEF OperatorDecides
  <2>2. pc[p] = "idle" /\ \E j : job' = [job EXCEPT ![p] = j]
    BY <2>1 DEF ApproveTrade
  <2>. QED BY <1>1, <1>2, <2>2
<1>10. CASE ChainMoves \/ RailsMove \/ DayChanges \/ UNCHANGED vars
  BY <1>10 DEF ChainMoves, Land, RailsMove, DayChanges, vars
<1>. QED BY <1>1, <1>2, <1>5, <1>6, <1>7, <1>8, <1>9, <1>10 DEF Next, WorkerStep

(* A position that a session has inserted, it has inserted in this step or *)
(* before.                                                                 *)
LEMMA OpenedFrom ==
  ASSUME BooksInv, [Next]_vars, NEW q \in Procs, job'[q].opened, ~job[q].opened
  PROVE  OpenPosition(q)
<1>1. /\ TypeOK /\ Worker \in Procs /\ \A p \in Approvers : p \in Procs
      /\ job \in [Procs -> Job]
  BY WorkerIsProc DEF BooksInv, ShapeInv, TypeOK
<1>2. ASSUME NEW p \in Procs, Finish(p) PROVE FALSE
  BY <1>1, <1>2 DEF Finish, NoJob
<1>3. ASSUME NEW p \in Procs, MidStep(p) PROVE FALSE
  <2>1. job'[p].opened = job[p].opened /\ (q # p => job'[q] = job[q])
    BY <1>3 DEF MidStep, OnlyMoves
  <2>. QED BY <2>1
<1>4. ASSUME NEW p \in Procs, BuyStep(p) PROVE OpenPosition(q)
  <2>1. CASE OpenPosition(p)
    <3>1. p # q => job'[q] = job[q]
      BY <1>1, <2>1 DEF OpenPosition
    <3>. QED BY <2>1, <3>1
  <2>2. CASE CommitBuy(p) \/ OpenPositionRefused(p)
    BY <1>2, <2>2 DEF CommitBuy, OpenPositionRefused, RollBack
  <2>3. CASE ~OpenPosition(p) /\ ~CommitBuy(p) /\ ~OpenPositionRefused(p)
    BY <1>3, <1>4, <2>3, MidBuy DEF BuyStep
  <2>. QED BY <2>1, <2>2, <2>3
<1>5. ASSUME SellStep PROVE FALSE
  BY <1>1, <1>2, <1>3, <1>5, MidSell DEF SellStep, SellLockedOut, AbandonSell, CommitSell
<1>6. ASSUME NEW p \in Procs, Abort(p) PROVE FALSE
  BY <1>2, <1>6 DEF Abort, RollBack
<1>7. ASSUME EntryStep PROVE FALSE
  <2>1. CASE DecideBuy \/ ExecuteBuyLockedOut
    BY <1>1, <1>2, <2>1 DEF DecideBuy, ExecuteBuyLockedOut
  <2>2. ASSUME NEW t \in Trades, ExecuteBuy(t) PROVE FALSE
    <3>1. PICK status \in TradeStatus :
            job' = [job EXCEPT ![Worker] = [@ EXCEPT !.trade = t, !.status = status]]
      BY <2>2 DEF ExecuteBuy, TradeStatus
    <3>. QED BY <1>1, <3>1 DEF Job
  <2>3. CASE EvaluationLooks
    BY <1>1, <1>2, <2>3, LookSteps DEF OnlyMoves, SameTrade
  <2>. QED BY <1>7, <2>1, <2>2, <2>3 DEF EntryStep
<1>8. ASSUME LeaderTrades PROVE FALSE
  <2>1. PICK j : job' = [job EXCEPT ![Worker] = j] /\ ~j.opened
    <3>1. ASSUME NEW leader \in Leaders, NEW token \in Tokens, NEW want \in Wants,
                 EvaluateBuy(leader, token, want)
          PROVE  \E j : job' = [job EXCEPT ![Worker] = j] /\ ~j.opened
      <4>1. PICK size \in Sizes :
              job' = [job EXCEPT ![Worker] =
                       [NoJob EXCEPT !.token = token, !.leader = leader, !.size = size]]
        BY <3>1 DEF EvaluateBuy
      <4>2. ~[NoJob EXCEPT !.token = token, !.leader = leader, !.size = size].opened
        BY DEF NoJob
      <4>. QED BY <4>1, <4>2
    <3>2. ASSUME NEW leader \in Leaders, NEW token \in Tokens, MirrorSell(leader, token)
          PROVE  \E j : job' = [job EXCEPT ![Worker] = j] /\ ~j.opened
      <4>1. PICK b \in OpenOn(token) :
              job' = [job EXCEPT ![Worker] =
                       [NoJob EXCEPT !.trade = b, !.token = token, !.leader = leader,
                                     !.size = trades[b].size]]
        BY <3>2 DEF MirrorSell
      <4>2. ~[NoJob EXCEPT !.trade = b, !.token = token, !.leader = leader,
                           !.size = trades[b].size].opened
        BY DEF NoJob
      <4>. QED BY <4>1, <4>2
    <3>. QED BY <1>8, <3>1, <3>2 DEF LeaderTrades
  <2>. QED BY <1>1, <2>1
<1>9. ASSUME OperatorDecides PROVE FALSE
  <2>1. PICK p \in Approvers, t \in Trades : ApproveTrade(p, t)
    BY <1>9 DEF OperatorDecides
  <2>2. ~[NoJob EXCEPT !.trade = t, !.token = trades[t].token, !.leader = trades[t].leader,
                       !.size = trades[t].size, !.status = "pending_approval"].opened
    BY DEF NoJob
  <2>. QED BY <1>1, <2>1, <2>2 DEF ApproveTrade
<1>10. ASSUME ChainMoves \/ RailsMove \/ DayChanges \/ UNCHANGED vars PROVE FALSE
  BY <1>10 DEF ChainMoves, Land, RailsMove, DayChanges, vars
<1>. QED BY <1>1, <1>4, <1>5, <1>6, <1>7, <1>8, <1>9, <1>10 DEF Next, WorkerStep

(* The exposure grows by the commit of a buy that opened a position, by    *)
(* the size of its row, and in no other step.                              *)
LEMMA ExposureSteps ==
  ASSUME BooksInv, [Next]_vars
  PROVE  /\ Exposure \in Nat
         /\ \/ Exposure' \in Nat /\ Exposure' <= Exposure
            \/ \E p \in Procs : /\ CommitBuy(p) /\ job[p].opened
                                /\ Exposure' = Exposure + trades[job[p].trade].size
<1>1. TypeOK /\ Worker \in Procs /\ Exposure \in Nat
  BY WorkerIsProc, ExposureType DEF BooksInv, ShapeInv
<1>2. ASSUME book' = book, \A t \in Trades : book[t] = "open" => RowKept(t)
      PROVE  Exposure' = Exposure
  BY <1>1, <1>2, ExposureSame DEF RowKept
<1>3. ASSUME NEW p \in Procs, CommitBuy(p), job[p].opened
      PROVE  Exposure' = Exposure + trades[job[p].trade].size
  <2>1. HasRow(p)
    BY <1>3 DEF CommitBuy, HasRow, RowLabels, EntryLabels, BuyLabels
  <2>. PICK b \in Trades : b = job[p].trade /\ book[b] = "none"
    BY <2>1, OwnRow
  <2>2. \A t \in Trades : trades'[t].size = trades[t].size
    BY <1>1, <1>3 DEF CommitBuy, TypeOK, Row
  <2>. PICK open, f : open = OpenTrades /\ f = SizeOf
    OBVIOUS
  <2>3. OpenTrades' = open \cup {b} /\ b \notin open
    BY <1>1, <1>3 DEF CommitBuy, OpenTrades, TypeOK
  <2>4. SizeOf' = f
    BY <2>2 DEF SizeOf
  <2>5. Exposure' = SumOver(f, open \cup {b})
    BY <2>3, <2>4 DEF Exposure, SizeOf
  <2>6. /\ IsFiniteSet(open) /\ Exposure = SumOver(f, open)
        /\ \A t \in open \cup {b} : f[t] \in Int
    BY <1>1, ExposureType DEF OpenTrades
  <2>7. Exposure' = f[b] + Exposure
    BY <2>3, <2>5, <2>6, SumAdd
  <2>8. f[b] = trades[b].size /\ f[b] \in Nat
    BY <1>1, ExposureType DEF SizeOf
  <2>. QED BY <1>1, <2>7, <2>8
<1>4. CASE CommitSell
  <2>. PICK b \in Trades : b = job[Worker].trade /\ book[b] = "open"
    BY <1>1, <1>4 DEF CommitSell, Selling, SellLabels, BooksInv, ShapeInv, SessionsShape,
       SessionExit
  <2>. PICK open, f : open = OpenTrades /\ f = SizeOf
    OBVIOUS
  <2>1. OpenTrades' = open \ {b} /\ b \in open /\ SizeOf' = f
    BY <1>1, <1>4 DEF CommitSell, OpenTrades, TypeOK, SizeOf
  <2>2. Exposure' = SumOver(f, open \ {b})
    BY <2>1 DEF Exposure, SizeOf
  <2>3. IsFiniteSet(open) /\ Exposure = SumOver(f, open) /\ \A t \in open : f[t] \in Nat
    BY <1>1, ExposureType DEF OpenTrades
  <2>4. Exposure' \in Nat /\ Exposure' <= Exposure
    BY <2>2, <2>3, SumSubset
  <2>. QED BY <1>1, <2>4
<1>. QED BY <1>1, <1>2, <1>3, <1>4, BookSteps

(* What is on its way belongs to approvals, each with its row.             *)
LEMMA Approved ==
  ASSUME BooksInv, ApprovalMode, OvershootInv, NEW p \in OnItsWay
  PROVE  p \in Approvers /\ HasRow(p)
<1>1. p \in Procs /\ HasRow(p)
  <2>1. job[p].opened => pc[p] \in {"reward", "cool", "commit"}
    BY DEF OnItsWay, BooksInv, ShapeInv, SessionsShape, SessionPosition
  <2>. QED BY <2>1 DEF OnItsWay, PastGate, HasRow, RowLabels, EntryLabels, BuyLabels
<1>2. p # Worker
  BY <1>1 DEF OvershootInv, OnItsWay, PastGate
<1>. QED BY <1>1, <1>2 DEF Procs

(* OvershootInv holds after every step: a session that passes the gate     *)
(* finds an exposure below the limit, and with it at most one trade per    *)
(* approval is on its way; every other step moves a size from what is on   *)
(* its way to the exposure, or lets go of it.                              *)
LEMMA OvershootNext ==
  ASSUME BooksInv, BooksInv', OvershootInv, [Next]_vars,
         IsFiniteSet(Approvers), IsFiniteSet(Wants), Wants # {}
  PROVE  OvershootInv'
<1>. SUFFICES ASSUME ApprovalMode PROVE OvershootInv'
  BY DEF OvershootInv
<1>1. /\ HasRow(Worker)' => pc'[Worker] = "commit" /\ ~job'[Worker].opened
      /\ \A t \in Trades : trades'[t].size <= Max(Wants)
      /\ \A p \in Procs : RowSizes(p)'
  BY SizesNext
<1>. PICK on, later, f, g, bound :
       /\ on = OnItsWay /\ later = OnItsWay' /\ f = Sized /\ g = Sized'
       /\ bound = Cardinality(Approvers) * Max(Wants)
  OBVIOUS
<1>2. /\ MaxExposure \in Nat /\ Max(Wants) \in Nat /\ bound \in Int
      /\ \A p \in Approvers : p \in Procs
  <2>1. MaxExposure \in Nat /\ Max(Wants) \in Nat /\ Cardinality(Approvers) \in Nat
    BY LargestWant, RailLimits, FS_CardinalityType DEF RailLimits
  <2>2. \A n, m \in Nat : n * m \in Int
    OBVIOUS
  <2>. QED BY <2>1, <2>2, WorkerIsProc
<1>3. \A p \in Procs : /\ f[p] = job[p].size /\ g[p] = job'[p].size
                       /\ f[p] \in Nat /\ g[p] \in Nat
  BY RailLimits DEF Sized, BooksInv, ShapeInv, TypeOK, Job, Sizes, RailLimits
<1>4. Exposure + SumOver(f, on) < MaxExposure + bound
  BY DEF OvershootInv, ExposureOvershoot, Sized
<1>5. SUFFICES Exposure' + SumOver(g, later) < MaxExposure + bound
  BY <1>1 DEF OvershootInv, ExposureOvershoot, Sized
<1>6. \A p \in on : p \in Approvers /\ HasRow(p)
  BY Approved
<1>7. \A p \in later : /\ p \in Procs /\ p \in Approvers /\ HasRow(p)'
                       /\ PastGate(p)' \/ job'[p].opened
  <2>1. SUFFICES ASSUME NEW p \in later
                 PROVE  /\ p \in Procs /\ p \in Approvers /\ HasRow(p)'
                        /\ PastGate(p)' \/ job'[p].opened
    OBVIOUS
  <2>2. p \in Procs /\ (PastGate(p)' \/ job'[p].opened)
    BY <2>1 DEF OnItsWay
  <2>3. job'[p].opened => pc'[p] \in {"reward", "cool", "commit"}
    BY <2>2 DEF BooksInv, ShapeInv, SessionsShape, SessionPosition
  <2>4. HasRow(p)'
    BY <2>2, <2>3 DEF PastGate, HasRow, RowLabels, EntryLabels, BuyLabels
  <2>5. p # Worker
    BY <1>1, <2>2, <2>4 DEF PastGate
  <2>. QED BY <2>2, <2>4, <2>5 DEF Procs
<1>8. IsFiniteSet(on) /\ IsFiniteSet(later) /\ later \in SUBSET Approvers
  BY <1>6, <1>7, FS_Subset
<1>9. Exposure \in Nat
  BY ExposureType DEF BooksInv, ShapeInv
<1>10. ASSUME NEW q \in Procs, GatePasses(q)
       PROVE  Exposure' + SumOver(g, later) < MaxExposure + bound
  <2>1. Exposure' = Exposure /\ Exposure < MaxExposure
    <3>1. trades' = trades /\ book' = book /\ Exposure < MaxExposure
      BY <1>10 DEF GatePasses, AllClear, BooksClear, dbVars
    <3>2. Exposure' = Exposure
      BY <3>1, ExposureSame DEF BooksInv, ShapeInv
    <3>. QED BY <3>1, <3>2
  <2>2. \A p \in Approvers : g[p] \in Nat /\ g[p] <= Max(Wants)
    BY <1>1, <1>2, <1>3 DEF RowSizes
  <2>3. SumOver(g, Approvers) <= bound
    BY <1>2, <2>2, SumBound
  <2>4. SumOver(g, later) \in Nat /\ SumOver(g, later) <= SumOver(g, Approvers)
    BY <1>8, <2>2, SumSubset
  <2>5. SumOver(g, Approvers) \in Nat
    BY <2>2, SumNat
  <2>. QED BY <1>2, <1>9, <2>1, <2>3, <2>4, <2>5
<1>11. ASSUME \A q \in Procs : ~GatePasses(q)
       PROVE  Exposure' + SumOver(g, later) < MaxExposure + bound
  <2>1. ASSUME NEW p \in later PROVE p \in on /\ g[p] = f[p]
    <3>1. PastGate(p) \/ job[p].opened
      <4>1. PastGate(p)' => PastGate(p)
        BY <1>7, <1>11, <2>1, StartsAtGate DEF BooksInv, ShapeInv
      <4>2. job'[p].opened => job[p].opened \/ PastGate(p)
        BY <1>7, <2>1, OpenedFrom DEF OpenPosition, PastGate
      <4>. QED BY <1>7, <2>1, <4>1, <4>2
    <3>2. p \in on
      BY <1>7, <2>1, <3>1 DEF OnItsWay
    <3>. QED BY <1>3, <1>6, <1>7, <2>1, <3>2, SizeStays
  <2>2. later \in SUBSET on /\ \A p \in on : f[p] \in Nat
    BY <1>2, <1>3, <1>6, <2>1
  <2>3. SumOver(g, later) = SumOver(f, later)
    BY <1>8, <2>1, SumSame
  <2>4. SumOver(f, on) \in Nat /\ SumOver(f, later) \in Nat
    BY <1>8, <2>2, SumNat, SumSubset
  <2>5. CASE Exposure' \in Nat /\ Exposure' <= Exposure
    <3>1. SumOver(f, later) <= SumOver(f, on)
      BY <1>8, <2>2, SumSubset
    <3>. QED BY <1>2, <1>4, <1>9, <2>3, <2>4, <2>5, <3>1
  <2>6. ASSUME NEW p \in Procs, CommitBuy(p), job[p].opened,
               Exposure' = Exposure + trades[job[p].trade].size
        PROVE  Exposure' + SumOver(g, later) < MaxExposure + bound
    <3>1. p \in on /\ p \notin later
      <4>1. ~HasRow(p)'
        BY <2>6, FinishIdle DEF CommitBuy, BooksInv, ShapeInv
      <4>. QED BY <1>7, <2>6, <4>1 DEF OnItsWay
    <3>2. f[p] = trades[job[p].trade].size /\ f[p] \in Nat
      BY <1>3, <1>6, <3>1 DEF OvershootInv, RowSizes
    <3>3. SumOver(f, on) = f[p] + SumOver(f, on \ {p})
      BY <1>8, <2>2, <3>1, SumRemove
    <3>4. IsFiniteSet(on \ {p}) /\ later \in SUBSET (on \ {p})
      BY <1>8, <2>2, <3>1, FS_Subset
    <3>5. SumOver(f, later) <= SumOver(f, on \ {p}) /\ SumOver(f, on \ {p}) \in Nat
      BY <2>2, <3>4, SumSubset, SumNat
    <3>. QED BY <1>2, <1>4, <1>9, <2>3, <2>4, <2>6, <3>2, <3>3, <3>5
  <2>. QED BY <2>5, <2>6, ExposureSteps
<1>. QED BY <1>10, <1>11

(* With approvals, what is open and what is on its way exceed              *)
(* copy_max_exposure_sol by less than one wanted size per approval that    *)
(* can run at once, for any number of them: the gate looks at what is      *)
(* committed only (safety.py:80), and nothing but the number of requests   *)
(* bounds how often it can be wrong at the same time.                      *)
THEOREM ExposureOvershootHolds ==
  ASSUME IsFiniteSet(Approvers), IsFiniteSet(Wants), Wants # {}
  PROVE  Spec => []ExposureOvershoot
<1>1. Init => OvershootInv
  <2> SUFFICES ASSUME Init, ApprovalMode PROVE OvershootInv
    BY DEF OvershootInv
  <2>1. TypeOK /\ Worker \in Procs /\ MaxExposure \in Nat \ {0} /\ Max(Wants) \in Nat
    BY BooksInit, WorkerIsProc, LargestWant, RailLimits DEF BooksInv, ShapeInv, RailLimits
  <2>2. \A p \in Procs : pc[p] = "idle" /\ job[p].size = 0 /\ ~job[p].opened
    BY DEF Init, NoJob
  <2>3. \A p \in Procs : ~HasRow(p) /\ RowSizes(p) /\ ~PastGate(p)
    BY <2>1, <2>2, Labelled DEF RowSizes, PastGate
  <2>4. \A t \in Trades : trades[t].size <= Max(Wants)
    BY <2>1 DEF Init, NoRow
  <2>5. OnItsWay = {} /\ OpenTrades = {}
    BY <2>2, <2>3 DEF OnItsWay, OpenTrades, Init
  <2>6. Exposure = 0 /\ SumOver(Sized, OnItsWay) = 0
    BY <2>1, <2>5, ExposureType, SumEmpty
  <2>7. \A n, m \in Nat : n * m \in Nat
    OBVIOUS
  <2>8. 0 < MaxExposure + Cardinality(Approvers) * Max(Wants)
    BY <2>1, <2>7, FS_CardinalityType
  <2>. QED BY <2>1, <2>3, <2>4, <2>6, <2>8 DEF OvershootInv, ExposureOvershoot, Sized
<1>2. BooksInv /\ BooksInv' /\ OvershootInv /\ [Next]_vars => OvershootInv'
  BY OvershootNext
<1>3. OvershootInv => ExposureOvershoot
  BY DEF OvershootInv, ExposureOvershoot
<1>. QED BY <1>1, <1>2, <1>3, BooksCorrect, PTL DEF Spec
-----------------------------------------------------------------------------
(* While a rail blocks, nothing new is risked.                              *)

(* A step of one session that leaves the size of every row keeps RiskInv,  *)
(* if the session is as it should be.                                      *)
LEMMA RiskKept ==
  ASSUME BooksInv, RiskInv, NEW p \in Procs, OnlyMoves(p),
         \A t \in Trades : trades'[t].size = trades[t].size, GateSized(p)'
  PROVE  RiskInv'
<1>1. ASSUME NEW q \in Procs, q # p PROVE GateSized(q)'
  <2>1. pc'[q] = pc[q] /\ job'[q] = job[q]
    BY <1>1 DEF OnlyMoves
  <2>2. HasRow(q)' <=> HasRow(q)
    BY <2>1 DEF HasRow
  <2>3. HasRow(q) => job[q].trade \in Trades
    BY OwnRow
  <2>. QED BY <2>1, <2>2, <2>3 DEF RiskInv, GateSized
<1>. QED BY <1>1 DEF RiskInv

(* A session that is over, or selling, is as it should be.                 *)
LEMMA NotSized ==
  ASSUME NEW p, ~HasRow(p)', pc'[p] \notin {"evaluated", "claim"}
  PROVE  GateSized(p)'
BY DEF GateSized

(* RiskInv after a step that starts or ends a message, or decides.         *)
LEMMA RiskOfEntry ==
  ASSUME BooksInv, RiskInv, LeaderTrades \/ EntryStep \/ OperatorDecides
  PROVE  RiskInv'
<1>1. /\ TypeOK /\ Worker \in Procs /\ job[Worker] \in Job /\ job \in [Procs -> Job]
      /\ trades \in [Trades -> Row] /\ pc \in [Procs -> {"idle"} \cup BuyLabels \cup SellLabels]
      /\ \A q \in Approvers : q \in Procs
  BY WorkerIsProc DEF BooksInv, ShapeInv, TypeOK
<1>2. CASE LeaderTrades
  <2>1. /\ \/ pc' = [pc EXCEPT ![Worker] = "evaluating"]
           \/ pc' = [pc EXCEPT ![Worker] = "sellQuote"]
           \/ pc' = [pc EXCEPT ![Worker] = "lockedOut"]
        /\ \E j : job' = [job EXCEPT ![Worker] = j]
        /\ trades' = trades
    BY <1>2 DEF LeaderTrades, EvaluateBuy, MirrorSell, Goto, dbVars
  <2>2. OnlyMoves(Worker) /\ pc'[Worker] \in {"evaluating", "sellQuote", "lockedOut"}
    BY <1>1, <2>1 DEF OnlyMoves
  <2>3. ~HasRow(Worker)'
    BY <2>2 DEF HasRow, RowLabels, EntryLabels, BuyLabels
  <2>. QED BY <1>1, <2>1, <2>2, <2>3, NotSized, RiskKept
<1>3. ASSUME Finish(Worker), trades' = trades PROVE RiskInv'
  <2>1. OnlyMoves(Worker)
    BY <1>1, <1>3 DEF Finish, Goto, OnlyMoves
  <2>. QED BY <1>1, <1>3, <2>1, FinishIdle, NotSized, RiskKept
<1>4. CASE EvaluationLooks
  <2>1. trades' = trades /\ OnlyMoves(Worker)
    BY <1>1, <1>4, LookSteps DEF NothingSent, dbVars
  <2>2. CASE EvaluationPasses
    <3>1. /\ pc' = [pc EXCEPT ![Worker] = "evaluated"]
          /\ job' = [job EXCEPT ![Worker] = [job[Worker] EXCEPT !.read = 1]]
      BY <2>2 DEF EvaluationPasses, Goto
    <3>2. job'[Worker] = [job[Worker] EXCEPT !.read = 1] /\ pc'[Worker] = "evaluated"
      BY <1>1, <3>1
    <3>3. job'[Worker].read = 1
      BY <1>1, <3>2 DEF Job
    <3>4. ~HasRow(Worker)'
      BY <3>2, LabelledNext DEF EntryLabels
    <3>. QED BY <1>1, <2>1, <3>3, <3>4, RiskKept DEF GateSized
  <2>3. CASE EvaluationReads
    <3>1. pc'[Worker] = "evaluating"
      BY <1>1, <2>3, ReadOnly DEF EvaluationReads
    <3>2. ~HasRow(Worker)'
      BY <3>1, LabelledNext DEF EntryLabels
    <3>. QED BY <1>1, <2>1, <3>1, <3>2, NotSized, RiskKept
  <2>. QED BY <1>3, <1>4, <2>1, <2>2, <2>3 DEF EvaluationLooks, EvaluationBlocks
<1>5. CASE DecideBuy \/ ExecuteBuyLockedOut
  <2>1. trades' = trades
    BY <1>5 DEF DecideBuy, ExecuteBuyLockedOut, dbVars
  <2>2. CASE DecideBuy /\ Goto(Worker, "claim") /\ UNCHANGED job
    <3>1. OnlyMoves(Worker) /\ pc'[Worker] = "claim" /\ job' = job /\ pc[Worker] = "evaluated"
      BY <1>1, <2>2 DEF Goto, OnlyMoves, DecideBuy
    <3>2. ~HasRow(Worker)'
      BY <3>1, LabelledNext DEF EntryLabels
    <3>3. GateSized(Worker)'
      BY <1>1, <3>1, <3>2 DEF RiskInv, GateSized
    <3>. QED BY <1>1, <2>1, <3>1, <3>3, RiskKept
  <2>. QED BY <1>3, <1>5, <2>1, <2>2 DEF DecideBuy, ExecuteBuyLockedOut
<1>6. ASSUME NEW t \in Trades, ExecuteBuy(t) PROVE RiskInv'
  <2>1. /\ trades[t].status = "none"
        /\ trades' = [trades EXCEPT ![t] =
                        [status |-> "uncommitted", token |-> job[Worker].token,
                         leader |-> job[Worker].leader, size |-> job[Worker].size]]
        /\ pc' = [pc EXCEPT ![Worker] = "commit"] \/ pc' = [pc EXCEPT ![Worker] = "gate"]
    BY <1>6 DEF ExecuteBuy, Goto
  <2>2. PICK status \in TradeStatus :
          job' = [job EXCEPT ![Worker] = [@ EXCEPT !.trade = t, !.status = status]]
    BY <1>6 DEF ExecuteBuy, TradeStatus
  <2>3. /\ job'[Worker].size = job[Worker].size /\ job'[Worker].trade = t
        /\ OnlyMoves(Worker) /\ pc'[Worker] \in {"commit", "gate"}
    BY <1>1, <2>1, <2>2 DEF OnlyMoves, Job
  <2>4. /\ trades'[t].size = job[Worker].size
        /\ \A u \in Trades \ {t} : trades'[u] = trades[u]
    BY <1>1, <2>1
  <2>5. ASSUME NEW q \in Procs PROVE GateSized(q)'
    <3>1. CASE q = Worker
      BY <2>3, <2>4, <3>1 DEF GateSized
    <3>2. CASE q # Worker
      <4>1. pc'[q] = pc[q] /\ job'[q] = job[q] /\ (HasRow(q)' <=> HasRow(q))
        BY <2>3, <3>2 DEF OnlyMoves, HasRow
      <4>2. HasRow(q) => job[q].trade \in Trades /\ job[q].trade # t
        BY <2>1, OwnRow
      <4>. QED BY <2>4, <4>1, <4>2 DEF RiskInv, GateSized
    <3>. QED BY <3>1, <3>2
  <2>. QED BY <2>5 DEF RiskInv
<1>7. ASSUME NEW p \in Approvers, NEW t \in Trades, ApproveTrade(p, t) PROVE RiskInv'
  <2>1. /\ job' = [job EXCEPT ![p] =
                     [NoJob EXCEPT !.trade = t, !.token = trades[t].token,
                                   !.leader = trades[t].leader, !.size = trades[t].size,
                                   !.status = "pending_approval"]]
        /\ pc' = [pc EXCEPT ![p] = "approving"] /\ trades' = trades
    BY <1>7 DEF ApproveTrade, Goto, dbVars
  <2>2. /\ OnlyMoves(p) /\ job'[p].size = trades[t].size /\ job'[p].trade = t
        /\ pc'[p] = "approving"
    BY <1>1, <2>1 DEF OnlyMoves, NoJob
  <2>. QED BY <1>1, <2>1, <2>2, RiskKept DEF GateSized
<1>. QED BY <1>2, <1>4, <1>5, <1>6, <1>7 DEF LeaderTrades, EntryStep, OperatorDecides

(* RiskInv holds after every step.                                         *)
LEMMA RiskNext ==
  ASSUME BooksInv, RiskInv, [Next]_vars
  PROVE  RiskInv'
<1>1. TypeOK /\ Worker \in Procs
  BY WorkerIsProc DEF BooksInv, ShapeInv
<1>2. ASSUME NEW p \in Procs, Finish(p), \A t \in Trades : trades'[t].size = trades[t].size
      PROVE  RiskInv'
  <2>1. OnlyMoves(p)
    BY <1>1, <1>2 DEF Finish, Goto, OnlyMoves, TypeOK
  <2>. QED BY <1>1, <1>2, <2>1, FinishIdle, NotSized, RiskKept
<1>3. ASSUME NEW p \in Procs, RollBack(p) PROVE RiskInv'
  BY <1>1, <1>2, <1>3, RollBackSizes DEF RollBack
<1>4. ASSUME NEW p \in Procs, BuyStep(p) PROVE RiskInv'
  <2>1. CASE OpenPositionRefused(p)
    BY <1>3, <2>1 DEF OpenPositionRefused
  <2>2. CASE CommitBuy(p)
    <3>1. \A t \in Trades : trades'[t].size = trades[t].size
      BY <1>1, <2>2 DEF CommitBuy, TypeOK, Row
    <3>. QED BY <1>2, <2>2, <3>1 DEF CommitBuy
  <2>3. CASE ~CommitBuy(p) /\ ~OpenPositionRefused(p)
    <3>1. /\ HasRow(p) /\ HasRow(p)' /\ job'[p].size = job[p].size
          /\ job'[p].trade = job[p].trade /\ trades' = trades
      BY <1>4, <2>3, SizeKept
    <3>2. GateSized(p)'
      BY <3>1, LabelledNext DEF RiskInv, GateSized, EntryLabels
    <3>. QED BY <1>4, <3>1, <3>2, BuyMovesOne, RiskKept
  <2>. QED BY <2>1, <2>2, <2>3
<1>5. CASE SellStep
  <2>1. OnlyMoves(Worker) /\ trades' = trades /\ ~Buying(Worker)' /\ ~HasRow(Worker)'
    BY <1>5, SellMovesOne, SellKeeps
  <2>2. GateSized(Worker)'
    BY <2>1 DEF GateSized, Buying, BuyLabels
  <2>. QED BY <1>1, <2>1, <2>2, RiskKept
<1>6. ASSUME NEW p \in Procs, Abort(p) PROVE RiskInv'
  BY <1>3, <1>6 DEF Abort
<1>7. CASE ChainMoves \/ RailsMove \/ DayChanges \/ UNCHANGED vars
  <2>1. trades' = trades /\ pc' = pc /\ job' = job
    BY <1>7 DEF ChainMoves, Land, RailsMove, DayChanges, vars, dbVars
  <2>. QED BY <2>1 DEF RiskInv, GateSized, HasRow
<1>8. CASE LeaderTrades \/ EntryStep \/ OperatorDecides
  BY <1>8, RiskOfEntry
<1>. QED BY <1>1, <1>4, <1>5, <1>6, <1>7, <1>8, WorkerIsProc DEF Next, WorkerStep
(* The halting rails are numbered like the reads that look at them.        *)
LEMMA HaltReads == HaltRails \in SUBSET (1..BooksRead \ {BooksRead, CooldownRead})
BY DEF HaltRails, StopRead, StreakRead, LossRead, BooksRead, CooldownRead

(* A session that has read past a blocking rail had done so before: it     *)
(* cannot read the rail itself, and a look begins with the first.          *)
LEMMA ReadFrom ==
  ASSUME BooksInv, RiskInv, [Next]_vars, NEW p \in Procs,
         NEW rail \in HaltRails, Blocks(rail), pc'[p] = "gate", job'[p].read > rail
  PROVE  pc[p] = "gate" /\ job[p].read > rail
<1>. DEFINE Was == pc[p] = "gate" /\ job[p].read > rail
<1>1. /\ TypeOK /\ Worker \in Procs /\ rail \in Nat /\ rail >= 1 /\ rail # BooksRead
      /\ rail # CooldownRead /\ \A q \in Approvers : q \in Procs
      /\ \A q \in Procs : job[q] \in Job /\ job[q].read \in Nat
      /\ pc \in [Procs -> {"idle"} \cup BuyLabels \cup SellLabels] /\ job \in [Procs -> Job]
  BY HaltReads, WorkerIsProc DEF BooksInv, ShapeInv, TypeOK, Job
<1>2. ASSUME NEW q \in Procs, OnlyMoves(q), q # p PROVE Was
  BY <1>2 DEF OnlyMoves
<1>3. ASSUME NEW q \in Procs, Finish(q) PROVE Was
  <2>1. OnlyMoves(q) /\ pc'[q] = "idle"
    BY <1>1, <1>3, FinishIdle DEF Finish, Goto, OnlyMoves
  <2>. QED BY <1>2, <2>1
<1>4. ASSUME job'[p].read = 1 PROVE FALSE
  BY <1>1, <1>4
<1>5. ASSUME BuyStep(p) PROVE Was
  <2>1. CASE GateReads(p)
    <3>1. job'[p].read = job[p].read + 1 /\ pc' = pc
      BY <2>1, <1>1, ReadOnly DEF GateReads
    <3>2. RailClear(job[p].read, job[p].token)
      BY <2>1 DEF GateReads, ReadClear
    <3>3. job[p].read # rail
      BY <1>1, <3>2 DEF RailClear
    <3>. QED BY <1>1, <3>1, <3>3
  <2>2. CASE ApprovalPasses(p)
    <3>1. job' = [job EXCEPT ![p] = [job[p] EXCEPT !.read = 1, !.status = "approved"]]
      BY <2>2 DEF ApprovalPasses
    <3>2. job'[p] = [job[p] EXCEPT !.read = 1, !.status = "approved"]
      BY <1>1, <3>1
    <3>3. job'[p].read = 1
      BY <1>1, <3>2 DEF Job
    <3>. QED BY <1>4, <3>3
  <2>3. CASE ~ (GateReads(p) \/ ApprovalPasses(p))
    <3>1. pc'[p] # "gate"
      BY <1>1, <1>5, <2>3 DEF BuyStep, ApprovalBlocks, GatePasses, GateBlocks,
         PrepareFails, PrepareHardFails, PrepareSwap, PaperFill, SendAccepted, SendRaises,
         SendVoid, ConfirmLanded, ConfirmGivesUp, OpenPosition, OpenPositionRefused, RollBack,
         RecordSuccess, CoolDown, GiveUp, RecordFailure, TripAfterFailures, CommitBuy, Retry,
         Finish, Goto
    <3>. QED BY <3>1
  <2>. QED BY <2>1, <2>2, <2>3
<1>6. ASSUME NEW q \in Procs, BuyStep(q), q # p PROVE Was
  BY <1>2, <1>6, BuyMovesOne
<1>7. CASE SellStep
  <2>1. OnlyMoves(Worker) /\ ~HasRow(Worker)'
    BY <1>7, SellMovesOne, SellKeeps
  <2>2. p # Worker
    BY <2>1 DEF HasRow, RowLabels, EntryLabels, BuyLabels
  <2>. QED BY <1>1, <1>2, <2>1, <2>2
<1>8. ASSUME NEW q \in Procs, Abort(q) PROVE Was
  BY <1>3, <1>8 DEF Abort, RollBack
<1>9. CASE LeaderTrades
  <2>1. /\ \/ pc' = [pc EXCEPT ![Worker] = "evaluating"]
           \/ pc' = [pc EXCEPT ![Worker] = "sellQuote"]
           \/ pc' = [pc EXCEPT ![Worker] = "lockedOut"]
        /\ \E j : job' = [job EXCEPT ![Worker] = j]
    BY <1>9 DEF LeaderTrades, EvaluateBuy, MirrorSell, Goto
  <2>. QED BY <1>1, <2>1
<1>10. CASE EntryStep
  <2>1. CASE EvaluationLooks
    <3>1. OnlyMoves(Worker) /\ (Finish(Worker) \/ pc'[Worker] # "gate")
      BY <1>1, <2>1, LookSteps
    <3>. QED BY <1>1, <1>2, <1>3, <3>1
  <2>2. CASE DecideBuy \/ ExecuteBuyLockedOut
    <3>1. CASE Goto(Worker, "claim") /\ UNCHANGED job
      BY <1>1, <3>1 DEF Goto
    <3>. QED BY <1>1, <1>3, <2>2, <3>1 DEF DecideBuy, ExecuteBuyLockedOut
  <2>3. ASSUME NEW t \in Trades, ExecuteBuy(t) PROVE Was
    <3>1. /\ pc[Worker] = "claim"
          /\ pc' = [pc EXCEPT ![Worker] = "commit"] \/ pc' = [pc EXCEPT ![Worker] = "gate"]
      BY <2>3 DEF ExecuteBuy, Goto
    <3>2. PICK status \in TradeStatus :
            job' = [job EXCEPT ![Worker] = [job[Worker] EXCEPT !.trade = t, !.status = status]]
      BY <2>3 DEF ExecuteBuy, TradeStatus
    <3>3. OnlyMoves(Worker) /\ job'[Worker] = [job[Worker] EXCEPT !.trade = t, !.status = status]
      BY <1>1, <3>1, <3>2 DEF OnlyMoves
    <3>4. job'[Worker].read = 1
      BY <1>1, <3>1, <3>3 DEF Job, RiskInv, GateSized
    <3>. QED BY <1>1, <1>2, <1>4, <3>3, <3>4
  <2>. QED BY <1>10, <2>1, <2>2, <2>3 DEF EntryStep
<1>11. CASE OperatorDecides
  <2>1. PICK q \in Approvers, t \in Trades : ApproveTrade(q, t)
    BY <1>11 DEF OperatorDecides
  <2>2. pc' = [pc EXCEPT ![q] = "approving"] /\ \E j : job' = [job EXCEPT ![q] = j]
    BY <2>1 DEF ApproveTrade, Goto
  <2>. QED BY <1>1, <2>2
<1>12. CASE ChainMoves \/ RailsMove \/ DayChanges \/ UNCHANGED vars
  BY <1>12 DEF ChainMoves, Land, RailsMove, DayChanges, vars
<1>. QED BY <1>1, <1>5, <1>6, <1>7, <1>8, <1>9, <1>10, <1>11, <1>12 DEF Next, WorkerStep

(* What has money at risk past a rail has a row of its own.                *)
LEMMA PastHasRow ==
  ASSUME BooksInv, NEW rail, NEW p \in PastRail(rail)
  PROVE  p \in Procs /\ HasRow(p)
<1>1. job[p].opened => pc[p] \in {"reward", "cool", "commit"}
  BY DEF PastRail, BooksInv, ShapeInv, SessionsShape, SessionPosition
<1>. QED BY <1>1 DEF PastRail, PastGate, HasRow, RowLabels, EntryLabels, BuyLabels

(* The same, after a step.                                                 *)
LEMMA PastHasRowNext ==
  ASSUME BooksInv', NEW rail, NEW p \in PastRail(rail)'
  PROVE  p \in Procs /\ HasRow(p)'
<1>0. p \in Procs
  BY DEF PastRail
<1>1. job'[p].opened => pc'[p] \in {"reward", "cool", "commit"}
  BY <1>0 DEF BooksInv, ShapeInv, SessionsShape, SessionPosition
<1>. QED BY <1>0, <1>1 DEF PastRail, PastGate, HasRow, RowLabels, EntryLabels, BuyLabels

(* While a rail blocks, no session gets past it.                           *)
LEMMA PastFrom ==
  ASSUME BooksInv, BooksInv', RiskInv, [Next]_vars,
         NEW rail \in HaltRails, Blocks(rail), NEW p \in PastRail(rail)'
  PROVE  p \in PastRail(rail) /\ HasRow(p) /\ HasRow(p)'
<1>1. p \in Procs /\ HasRow(p)' /\ TypeOK /\ rail \in 1..BooksRead /\ rail # BooksRead
  BY PastHasRowNext, HaltReads DEF BooksInv, ShapeInv
<1>2. p \in PastRail(rail)
  <2>1. CASE PastGate(p)' /\ ~PastGate(p)
    <3>1. GatePasses(p)
      BY <1>1, <2>1, StartsAtGate
    <3>2. pc[p] = "gate" /\ job[p].read = BooksRead
      BY <3>1 DEF GatePasses, AllClear
    <3>. QED BY <1>1, <3>2 DEF PastRail, BooksRead
  <2>2. CASE job'[p].opened /\ ~job[p].opened
    BY <1>1, <2>2, OpenedFrom DEF OpenPosition, PastRail, PastGate
  <2>3. CASE pc'[p] = "gate" /\ job'[p].read > rail
    BY <1>1, <2>3, ReadFrom DEF PastRail
  <2>. QED BY <1>1, <2>1, <2>2, <2>3 DEF PastRail
<1>. QED BY <1>1, <1>2, PastHasRow

(* Every step while a rail blocks moves a size from what is past the rail  *)
(* to the exposure, or lets go of it.                                      *)
LEMMA RiskMoves ==
  ASSUME BooksInv, BooksInv', RiskInv, [Next]_vars, IsFiniteSet(Procs),
         NEW rail \in HaltRails, Blocks(rail)
  PROVE  AtRisk(rail)' <= AtRisk(rail)
<1>. PICK on, later, f, g :
       on = PastRail(rail) /\ later = PastRail(rail)' /\ f = Sized /\ g = Sized'
  OBVIOUS
<1>1. AtRisk(rail) = Exposure + SumOver(f, on) /\ AtRisk(rail)' = Exposure' + SumOver(g, later)
  BY DEF AtRisk, Sized
<1>2. \A p \in Procs : /\ f[p] = job[p].size /\ g[p] = job'[p].size
                       /\ f[p] \in Nat /\ g[p] \in Nat
  BY RailLimits DEF Sized, BooksInv, ShapeInv, TypeOK, Job, Sizes, RailLimits
<1>3. \A p \in later : p \in on /\ p \in Procs /\ HasRow(p) /\ HasRow(p)'
  BY PastFrom, PastHasRow
<1>4. \A p \in later : g[p] = f[p]
  BY <1>2, <1>3, SizeStays
<1>5. IsFiniteSet(on) /\ IsFiniteSet(later) /\ later \in SUBSET on /\ \A p \in on : f[p] \in Nat
  <2>1. on \in SUBSET Procs /\ later \in SUBSET on
    BY <1>3 DEF PastRail
  <2>2. IsFiniteSet(on)
    BY <2>1, FS_Subset
  <2>3. IsFiniteSet(later)
    BY <2>1, <2>2, FS_Subset
  <2>. QED BY <1>2, <2>1, <2>2, <2>3
<1>6. SumOver(g, later) = SumOver(f, later)
  BY <1>4, <1>5, SumSame
<1>7. SumOver(f, on) \in Nat /\ SumOver(f, later) \in Nat /\ Exposure \in Nat
  BY <1>5, SumNat, SumSubset, ExposureType DEF BooksInv, ShapeInv
<1>8. CASE Exposure' \in Nat /\ Exposure' <= Exposure
  <2>1. SumOver(f, later) <= SumOver(f, on)
    BY <1>5, SumSubset
  <2>. QED BY <1>1, <1>6, <1>7, <1>8, <2>1
<1>9. ASSUME NEW p \in Procs, CommitBuy(p), job[p].opened,
             Exposure' = Exposure + trades[job[p].trade].size
      PROVE  AtRisk(rail)' <= AtRisk(rail)
  <2>1. p \in on
    BY <1>9 DEF PastRail
  <2>2. p \notin later
    <3>1. ~HasRow(p)'
      BY <1>9, FinishIdle DEF CommitBuy, BooksInv, ShapeInv
    <3>. QED BY <1>3, <3>1
  <2>3. f[p] = trades[job[p].trade].size /\ f[p] \in Nat
    BY <1>2, <1>9, <2>1, PastHasRow DEF RiskInv, GateSized
  <2>4. SumOver(f, on) = f[p] + SumOver(f, on \ {p})
    BY <1>5, <2>1, SumRemove
  <2>5. IsFiniteSet(on \ {p}) /\ later \in SUBSET (on \ {p})
    BY <1>5, <2>1, <2>2, FS_Subset
  <2>6. SumOver(f, later) <= SumOver(f, on \ {p}) /\ SumOver(f, on \ {p}) \in Nat
    BY <1>5, <2>5, SumSubset, SumNat
  <2>. QED BY <1>1, <1>6, <1>7, <1>9, <2>3, <2>4, <2>6
<1>. QED BY <1>8, <1>9, ExposureSteps

(* While the stop, the streak or the day's loss blocks, the SOL in open    *)
(* positions and in sessions that have read past that rail does not grow:  *)
(* any number of sessions, each read in its own step, retries, refused     *)
(* inserts, deaths and commits included (safety.py:57-82,                  *)
(* executor.py:128).                                                       *)
THEOREM NoNewRiskHolds ==
  ASSUME IsFiniteSet(Approvers)
  PROVE  Spec => NoNewRisk
<1>1. Init => RiskInv
  <2> SUFFICES ASSUME Init PROVE RiskInv
    OBVIOUS
  <2>1. \A p \in Procs : pc[p] = "idle"
    BY DEF Init
  <2>. QED BY <2>1, Labelled DEF RiskInv, GateSized
<1>2. BooksInv /\ RiskInv /\ [Next]_vars => RiskInv'
  BY RiskNext
<1>3. IsFiniteSet(Procs)
  BY FS_AddElement DEF Procs
<1>4. BooksInv /\ BooksInv' /\ RiskInv /\ [Next]_vars
        => [\A rail \in HaltRails :
              Blocks(rail) /\ Blocks(rail)' => AtRisk(rail)' <= AtRisk(rail)]_vars
  BY <1>3, RiskMoves
<1>. QED BY <1>1, <1>2, <1>4, BooksCorrect, PTL DEF Spec, NoNewRisk
=============================================================================
