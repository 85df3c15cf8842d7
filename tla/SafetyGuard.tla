---------------------------- MODULE SafetyGuard ----------------------------
(***************************************************************************)
(* The safety rails of copy trading (backend/app/decision/safety.py): a    *)
(* handful of Redis keys that every buy is gated on.                       *)
(*                                                                         *)
(* The module holds the rails' state and one operator per method.  A       *)
(* method that reads or writes one key is one action; one that writes two  *)
(* (an INCR, then the emergency stop) or reads five (the gate) is as many, *)
(* because the process may be interrupted between two calls.               *)
(* CopyExecution composes them with the executor's own steps.              *)
(***************************************************************************)
EXTENDS Integers

CONSTANTS Tokens,       \* token mints
          MaxStreak,    \* copy_max_consecutive_failures
          LossLimit,    \* copy_daily_loss_limit_sol
          MaxOpen,      \* copy_max_open_positions
          MaxExposure   \* copy_max_exposure_sol

ASSUME RailLimits == /\ MaxStreak \in Nat \ {0}
                     /\ LossLimit \in Nat \ {0}
                     /\ MaxOpen \in Nat \ {0}
                     /\ MaxExposure \in Nat \ {0}

VARIABLES stop,      \* copy:emergency_stop is set
          streak,    \* copy:consecutive_failures
          pnl,       \* copy:daily_pnl_lamports:<today>
          cooldown   \* tokens with a copy:cooldown:<mint> key not seen expired

railVars == <<stop, streak, pnl, cooldown>>

RailsType == /\ stop \in BOOLEAN
             /\ streak \in Nat
             /\ pnl \in Int
             /\ cooldown \subseteq Tokens

RailsInit == /\ stop = FALSE
             /\ streak = 0
             /\ pnl = 0
             /\ cooldown = {}

-----------------------------------------------------------------------------
(* gate_reasons awaits one read after the other, the keys in this order and *)
(* then the books: what it returns is no view of any one moment.           *)
StopRead == 1
CooldownRead == 2
StreakRead == 3
LossRead == 4
BooksRead == 5

(* The rails that stop every buy, whatever its token. *)
HaltRails == {StopRead, StreakRead, LossRead}
Blocks(rail) == \/ rail = StopRead /\ stop
                \/ rail = StreakRead /\ streak >= MaxStreak
                \/ rail = LossRead /\ pnl <= -LossLimit

(* One read gives no reason, or one.  A key with a TTL is found alive or    *)
(* expired: the cooldown key was never set or is gone, or blocks.          *)
CooldownOver(token) == /\ cooldown' = cooldown \ {token}
                       /\ UNCHANGED <<stop, streak, pnl>>
RailClear(rail, token) ==
    IF rail = CooldownRead THEN CooldownOver(token)
                           ELSE ~Blocks(rail) /\ UNCHANGED railVars
RailBlocks(rail, token) == Blocks(rail) \/ (rail = CooldownRead /\ token \in cooldown)

(* The last read, open_exposure over the committed positions. *)
BooksClear(openCount, exposure) == openCount < MaxOpen /\ exposure < MaxExposure

(* record_execution_result(True): DEL of the streak. *)
ClearStreak == /\ streak' = 0
               /\ UNCHANGED <<stop, pnl, cooldown>>

(* record_execution_result(False), its INCR. *)
CountFailure == /\ streak' = streak + 1
                /\ UNCHANGED <<stop, pnl, cooldown>>

(* Faulty variant: SET in place of INCRBY. *)
AddPnlOverwrites(amount) == /\ pnl' = amount
                            /\ UNCHANGED <<stop, streak, cooldown>>

(* record_realized_pnl, its INCRBY. *)
AddPnl(amount) == /\ pnl' = pnl + amount
                  /\ UNCHANGED <<stop, streak, cooldown>>

(* Faulty variant: the limit itself does not trip. *)
StreakTripsLate(count) == count > MaxStreak

(* The values the two counters' callers compare after the increment. *)
StreakTrips(count) == count >= MaxStreak
LossTrips(total) == total <= -LossLimit

TripStop == /\ stop' = TRUE
            /\ UNCHANGED <<streak, pnl, cooldown>>

StartCooldown(token) == /\ cooldown' = cooldown \cup {token}
                        /\ UNCHANGED <<stop, streak, pnl>>

(* clear_emergency_stop: one DEL of both keys.  The day's loss stays. *)
ClearStop == /\ stop' = FALSE
             /\ streak' = 0
             /\ UNCHANGED <<pnl, cooldown>>

(* The UTC date changes: the counter of the new day does not exist yet. *)
NextDay == /\ pnl # 0
           /\ pnl' = 0
           /\ UNCHANGED <<stop, streak, cooldown>>

(* What the operator does to the rails, at any time. *)
OperatorMovesRails == \/ ~stop /\ TripStop
                      \/ (stop \/ streak > 0) /\ ClearStop
=============================================================================
