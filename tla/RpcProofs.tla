----------------------------- MODULE RpcProofs -----------------------------
(***************************************************************************)
(* The daily credit budgets of the RPC client: what is spent is bounded,   *)
(* and the operator is alerted at most once a day and lane.                *)
(***************************************************************************)
EXTENDS RpcProperties, FiniteSetTheorems, TLAPS

-----------------------------------------------------------------------------
(* Types.                                                                  *)

(* A caller between calls has a call record of the right type.             *)
LEMMA NoCallType == NoCall \in Call
BY Configuration DEF NoCall, Call, Kinds

(* The client starts well typed.                                           *)
LEMMA InitTypes == Init => TypeOK
<1> SUFFICES ASSUME Init PROVE TypeOK
  OBVIOUS
<1>1. frozen \in BOOLEAN /\ cached \in [Clients -> BOOLEAN] /\ fresh \in [Clients -> BOOLEAN]
  BY DEF Init
<1>2. used \in [Lanes -> Nat] /\ alerts \in [Lanes -> Nat] /\ paid \in [Lanes -> Nat] /\ late \in Nat
  BY DEF Init
<1>3. marked \in [Lanes -> BOOLEAN]
  BY DEF Init
<1>4. pc \in [Callers -> {"idle", "poll", "acquire", "notify", "waiting", "post"}]
  BY DEF Init
<1>5. call \in [Callers -> Call]
  BY NoCallType DEF Init
<1>. QED BY <1>1, <1>2, <1>3, <1>4, <1>5 DEF TypeOK

(* Every assignment of a call keeps its record well typed.                 *)
LEMMA CallUpdate ==
  ASSUME NEW j \in Call
  PROVE  /\ \A kind \in Kinds : [j EXCEPT !.kind = kind] \in Call
         /\ \A kind \in Kinds, seen \in BOOLEAN :
              [j EXCEPT !.kind = kind, !.seen = seen] \in Call
         /\ \A seen \in BOOLEAN : [j EXCEPT !.seen = seen] \in Call
         /\ \A n \in 0..MaxRetries : [j EXCEPT !.attempt = n, !.credit = "none"] \in Call
BY DEF Call

(* A caller's call replaced by another call keeps the calls well typed.    *)
LEMMA OneCall ==
  ASSUME NEW f \in [Callers -> Call], NEW c \in Callers, NEW j \in Call
  PROVE  [f EXCEPT ![c] = j] \in [Callers -> Call]
OBVIOUS

(* A call that starts, with or without polling the switch, is well typed.  *)
LEMMA BeginTypes ==
  ASSUME TypeOK, NEW c \in Callers, NEW kind \in Kinds,
         BeginUnchecked(c, kind) \/ BeginPoll(c, kind)
  PROVE  TypeOK'
<1>1. CASE BeginUnchecked(c, kind)
  <2>1. call' \in [Callers -> Call]
    BY <1>1 DEF BeginUnchecked, TypeOK, Call
  <2>. QED BY <1>1, <2>1 DEF BeginUnchecked, TypeOK, Goto, switchVars, counterVars, spendVars
<1>2. CASE BeginPoll(c, kind)
  <2>1. PICK seen \in BOOLEAN : call' = [call EXCEPT ![c].kind = kind, ![c].seen = seen]
    BY <1>2 DEF BeginPoll, TypeOK
  <2>2. call \in [Callers -> Call] /\ call[c] \in Call
    BY DEF TypeOK
  <2>3. call' = [call EXCEPT ![c] = [call[c] EXCEPT !.kind = kind, !.seen = seen]]
    BY <2>1
  <2>4. call' \in [Callers -> Call]
    BY <2>2, <2>3, CallUpdate, OneCall
  <2>. QED BY <1>2, <2>4 DEF BeginPoll, TypeOK, Goto, switchVars, counterVars, spendVars
<1>. QED BY <1>1, <1>2

(* A call that ends leaves its caller idle.                                *)
LEMMA FinishTypes ==
  ASSUME TypeOK, NEW c \in Callers, Finish(c)
  PROVE  /\ pc' \in [Callers -> {"idle", "poll", "acquire", "notify", "waiting", "post"}]
         /\ call' \in [Callers -> Call]
BY NoCallType DEF TypeOK, Finish, Goto

(* What a call does after its poll keeps the types.                        *)
LEMMA ProceedTypes ==
  ASSUME TypeOK, NEW c \in Callers, NEW isFrozen \in BOOLEAN, Proceed(c, isFrozen)
  PROVE  /\ pc' \in [Callers -> {"idle", "poll", "acquire", "notify", "waiting", "post"}]
         /\ call' \in [Callers -> Call]
<1>1. CASE isFrozen
  BY <1>1, FinishTypes DEF Proceed
<1>2. CASE ~isFrozen
  <2>1. Goto(c, "acquire") /\ call' = [call EXCEPT ![c].seen = FALSE]
    BY <1>2 DEF Proceed
  <2>2. call \in [Callers -> Call] /\ call[c] \in Call
    BY DEF TypeOK
  <2>3. call' = [call EXCEPT ![c] = [call[c] EXCEPT !.seen = FALSE]]
    BY <2>1
  <2>4. call' \in [Callers -> Call]
    BY <2>2, <2>3, CallUpdate, OneCall
  <2>. QED BY <2>1, <2>4 DEF TypeOK, Goto
<1>. QED BY <1>1, <1>2

(* A caller's current call is in one of the lanes.                         *)
LEMMA LaneType ==
  ASSUME TypeOK, NEW c \in Callers
  PROVE  Lane(c) \in Lanes
BY DEF Lane, LaneOf, Lanes

(* A charged counter stays a number.                                       *)
LEMMA ChargeTypes ==
  ASSUME TypeOK, NEW l \in Lanes, Charge(l)
  PROVE  used' \in [Lanes -> Nat]
BY Configuration DEF TypeOK, Charge, Incremented

(* A call that has its credit goes on to post.                             *)
LEMMA GrantedTypes ==
  ASSUME TypeOK, NEW c \in Callers, NEW credit \in {"today", "free"}, Granted(c, credit)
  PROVE  /\ pc' \in [Callers -> {"idle", "poll", "acquire", "notify", "waiting", "post"}]
         /\ call' \in [Callers -> Call]
BY DEF TypeOK, Granted, Goto, Call

(* The counts of paid and late requests stay numbers.                      *)
LEMMA SpendTypes ==
  ASSUME TypeOK, NEW c \in Callers, Spend(c)
  PROVE  paid' \in [Lanes -> Nat] /\ late' \in Nat
BY LaneType DEF TypeOK, Spend

(* Every step of a call keeps the types.                                   *)
LEMMA CallStepTypes ==
  ASSUME TypeOK, NEW c \in Callers, CallStep(c)
  PROVE  TypeOK'
<1>1. CASE PollAnswers(c)
  <2>1. call[c].seen \in BOOLEAN /\ ClientOf[c] \in Clients
    BY Configuration DEF TypeOK, Call
  <2>. QED BY <1>1, <2>1, ProceedTypes DEF PollAnswers, TypeOK, counterVars, spendVars
<1>2. CASE AcquireUncapped(c)
  BY <1>2, GrantedTypes DEF AcquireUncapped, TypeOK, switchVars, counterVars, spendVars
<1>3. CASE Acquire(c)
  <2>1. used' \in [Lanes -> Nat]
    BY <1>3, LaneType, ChargeTypes DEF Acquire
  <2>2. /\ pc' \in [Callers -> {"idle", "poll", "acquire", "notify", "waiting", "post"}]
        /\ call' \in [Callers -> Call]
    <3>1. CASE Granted(c, "today")
      BY <3>1, GrantedTypes
    <3>2. CASE Goto(c, "notify") /\ UNCHANGED call
      BY <3>2 DEF TypeOK, Goto
    <3>. QED BY <1>3, <3>1, <3>2 DEF Acquire
  <2>. QED BY <1>3, <2>1, <2>2 DEF Acquire, TypeOK, switchVars, spendVars
<1>4. CASE Notify(c)
  BY <1>4, LaneType DEF Notify, TypeOK, Goto, switchVars, spendVars
<1>5. CASE SleeperPolls(c)
  <2>1. used' \in [Lanes -> Nat]
    BY <1>5, LaneType, ChargeTypes DEF SleeperPolls
  <2>2. /\ pc' \in [Callers -> {"idle", "poll", "acquire", "notify", "waiting", "post"}]
        /\ call' \in [Callers -> Call]
    BY <1>5, GrantedTypes DEF SleeperPolls, TypeOK
  <2>. QED BY <1>5, <2>1, <2>2 DEF SleeperPolls, TypeOK, switchVars, spendVars
<1>6. CASE PostReturns(c)
  BY <1>6, SpendTypes, FinishTypes DEF PostReturns, TypeOK, switchVars, counterVars
<1>7. CASE PostRetries(c)
  <2>1. call[c].attempt + 1 \in 0..MaxRetries
    BY <1>7, Configuration DEF PostRetries, TypeOK, Call
  <2>2. call \in [Callers -> Call] /\ call[c] \in Call
    BY DEF TypeOK
  <2>3. call' = [call EXCEPT ![c] = [call[c] EXCEPT !.attempt = call[c].attempt + 1,
                                                   !.credit = "none"]]
    BY <1>7 DEF PostRetries
  <2>4. call' \in [Callers -> Call]
    BY <2>1, <2>2, <2>3, CallUpdate, OneCall
  <2>. QED BY <1>7, <2>4, SpendTypes DEF PostRetries, TypeOK, Goto, switchVars, counterVars
<1>. QED BY <1>1, <1>2, <1>3, <1>4, <1>5, <1>6, <1>7 DEF CallStep

(* Every way Redis may fail a call keeps the types.                        *)
LEMMA RedisFailureTypes ==
  ASSUME TypeOK, NEW c \in Callers, RedisFailure(c)
  PROVE  TypeOK'
<1>1. CASE PollFails(c)
  <2>1. cached[ClientOf[c]] \in BOOLEAN
    BY Configuration DEF TypeOK
  <2>. QED BY <1>1, <2>1, ProceedTypes DEF PollFails, TypeOK, switchVars, counterVars, spendVars
<1>2. ASSUME ChargeFails(c)
      PROVE  /\ used' \in [Lanes -> Nat]
             /\ pc' \in [Callers -> {"idle", "poll", "acquire", "notify", "waiting", "post"}]
             /\ call' \in [Callers -> Call]
  BY <1>2, LaneType, ChargeTypes, GrantedTypes DEF ChargeFails, TypeOK
<1>3. CASE AcquireFails(c)
  BY <1>2, <1>3 DEF AcquireFails, TypeOK, switchVars, spendVars
<1>4. CASE NotifyFails(c)
  <2>1. marked' \in [Lanes -> BOOLEAN]
    BY <1>4, LaneType DEF NotifyFails, TypeOK
  <2>. QED BY <1>4, <2>1 DEF NotifyFails, TypeOK, Goto, switchVars, spendVars
<1>5. CASE SleeperFails(c)
  BY <1>2, <1>5 DEF SleeperFails, TypeOK, switchVars, spendVars
<1>. QED BY <1>1, <1>3, <1>4, <1>5 DEF RedisFailure

(* Operators, restarts, the cache and midnight keep the types.             *)
LEMMA AroundTypes ==
  ASSUME TypeOK,
         Freeze \/ Unfreeze \/ NextDay \/ \E k \in Clients : CacheExpires(k) \/ Restart(k)
  PROVE  TypeOK'
<1>1. CASE Freeze \/ Unfreeze
  BY <1>1 DEF Freeze, Unfreeze, TypeOK, counterVars, spendVars
<1>2. CASE NextDay
  <2>1. call' \in [Callers -> Call]
    BY <1>2 DEF NextDay, TypeOK, Call
  <2>. QED BY <1>2, <2>1 DEF NextDay, TypeOK, switchVars
<1>3. ASSUME NEW k \in Clients, CacheExpires(k) PROVE TypeOK'
  BY <1>3 DEF CacheExpires, TypeOK, counterVars, spendVars
<1>4. ASSUME NEW k \in Clients, Restart(k) PROVE TypeOK'
  BY <1>4, NoCallType DEF Restart, TypeOK, counterVars, spendVars
<1>. QED BY <1>1, <1>2, <1>3, <1>4

(* Every variable keeps its type, for any number of clients and callers.   *)
THEOREM TypeCorrect == Spec => []TypeOK
<1>1. TypeOK /\ [Next]_vars => TypeOK'
  <2>1. TypeOK /\ UNCHANGED vars => TypeOK'
    BY DEF TypeOK, vars, switchVars, counterVars, spendVars
  <2>. QED BY <2>1, BeginTypes, CallStepTypes, RedisFailureTypes, AroundTypes DEF Next
<1>. QED BY <1>1, InitTypes, PTL DEF Spec

-----------------------------------------------------------------------------
(* The spend.  A credit is held between its INCR and its request: only a   *)
(* call about to post holds one.  What was paid and what is held today is  *)
(* within the counter and the limit; what was held over midnight and not   *)
(* yet spent, or spent since, is at most one credit per caller.            *)

Holders(l) == {c \in Callers : call[c].credit = "today" /\ Lane(c) = l}
Leftover == {c \in Callers : call[c].credit = "earlier"}

CreditShape == \A c \in Callers : pc[c] # "post" => call[c].credit = "none"
LaneWithin(l) == /\ paid[l] + Cardinality(Holders(l)) <= used[l]
                 /\ paid[l] + Cardinality(Holders(l)) <= Limit[l]
LateWithin == late + Cardinality(Leftover) <= Cardinality(Callers)
BudgetInv == TypeOK /\ CreditShape /\ (\A l \in Lanes : LaneWithin(l)) /\ LateWithin

(* At any time finitely many calls hold credits: one per caller at most.   *)
LEMMA HoldersFinite ==
  /\ Cardinality(Callers) \in Nat
  /\ \A l : IsFiniteSet(Holders(l)) /\ Cardinality(Holders(l)) \in Nat
  /\ IsFiniteSet(Leftover) /\ Cardinality(Leftover) \in Nat
  /\ Cardinality(Leftover) <= Cardinality(Callers)
<1>1. \A l : Holders(l) \in SUBSET Callers
  BY DEF Holders
<1>2. Leftover \in SUBSET Callers
  BY DEF Leftover
<1>. QED BY <1>1, <1>2, Configuration, FS_Subset, FS_CardinalityType

(* The bound on spending follows from the accounts of credits held.        *)
LEMMA SpendFollows == BudgetInv => SpendBounded
<1> SUFFICES ASSUME BudgetInv PROVE SpendBounded
  OBVIOUS
<1>1. ASSUME NEW l \in Lanes PROVE paid[l] <= Limit[l]
  BY <1>1, HoldersFinite, Configuration DEF BudgetInv, TypeOK, LaneWithin
<1>2. late <= Cardinality(Callers)
  BY HoldersFinite DEF BudgetInv, TypeOK, LateWithin
<1>. QED
  BY <1>1, <1>2, HoldersFinite, Configuration
     DEF BudgetInv, TypeOK, SpendBounded, BothLanes, Lanes

(* A step that leaves every held credit where it is.                       *)
LEMMA CreditsKept ==
  ASSUME BudgetInv, TypeOK', CreditShape',
         \A c \in Callers : /\ call'[c].credit \in {"today", "earlier"} \/
                                 call[c].credit \in {"today", "earlier"}
                               => call'[c].credit = call[c].credit /\ call'[c].kind = call[c].kind,
         paid' = paid, late' = late,
         \A l \in Lanes : used'[l] >= used[l]
  PROVE  BudgetInv'
<1>1. \A l : Holders(l)' = Holders(l)
  BY DEF Holders, Lane
<1>2. Leftover' = Leftover
  BY DEF Leftover
<1>3. ASSUME NEW l \in Lanes PROVE LaneWithin(l)'
  BY <1>1, HoldersFinite DEF BudgetInv, LaneWithin, TypeOK
<1>. QED BY <1>2, <1>3 DEF BudgetInv, LateWithin

(* A credit that is granted: the counter moved with it.                    *)
LEMMA CreditGranted ==
  ASSUME BudgetInv, TypeOK', NEW c \in Callers, pc[c] # "post",
         Charge(Lane(c)), used'[Lane(c)] <= Limit[Lane(c)],
         Granted(c, "today"), paid' = paid, late' = late
  PROVE  BudgetInv'
<1>0. PICK m : m = Lane(c)
  OBVIOUS
<1>1. m \in Lanes /\ call[c].credit = "none"
  BY <1>0, LaneType DEF BudgetInv, CreditShape
<1>2. used' = [used EXCEPT ![m] = used[m] + 1] /\ used[m] + 1 <= Limit[m]
  BY <1>0, <1>1, Configuration DEF Charge, Incremented, BudgetInv, TypeOK
<1>3. CreditShape'
  BY DEF BudgetInv, CreditShape, TypeOK, Granted, Goto
<1>4. Holders(m)' = Holders(m) \cup {c} /\ c \notin Holders(m)
  BY <1>0, <1>1 DEF Holders, Lane, Granted, BudgetInv, TypeOK
<1>5. Cardinality(Holders(m)') = Cardinality(Holders(m)) + 1
  BY <1>4, HoldersFinite, FS_AddElement
<1>6. LaneWithin(m)'
  <2>1. paid'[m] = paid[m] /\ paid[m] \in Nat /\ used'[m] = used[m] + 1 /\ used[m] \in Nat
    BY <1>1, <1>2 DEF BudgetInv, TypeOK
  <2>2. paid[m] + Cardinality(Holders(m)) <= used[m]
    BY <1>1 DEF BudgetInv, LaneWithin
  <2>. QED BY <1>1, <1>2, <1>5, <2>1, <2>2, HoldersFinite, Configuration DEF LaneWithin
<1>7. ASSUME NEW l \in Lanes \ {m} PROVE LaneWithin(l)'
  <2>1. Holders(l)' = Holders(l)
    BY <1>0, <1>1, <1>7 DEF Holders, Lane, Granted, BudgetInv, TypeOK
  <2>. QED BY <1>2, <1>7, <2>1 DEF LaneWithin, BudgetInv, TypeOK
<1>8. Leftover' = Leftover
  BY <1>1 DEF Leftover, Granted, BudgetInv, TypeOK
<1>. QED BY <1>1, <1>3, <1>6, <1>7, <1>8 DEF BudgetInv, LateWithin

(* A request: the credit it runs on is paid and no longer held.            *)
LEMMA CreditSpent ==
  ASSUME BudgetInv, TypeOK', CreditShape', NEW c \in Callers, Spend(c), used' = used,
         call'[c].credit = "none",
         \A d \in Callers \ {c} : call'[d] = call[d]
  PROVE  BudgetInv'
<1>1. ASSUME NEW l \in Lanes PROVE LaneWithin(l)'
  <2>1. Holders(l)' = Holders(l) \ {c}
    BY DEF Holders, Lane
  <2>2. Cardinality(Holders(l)') = IF c \in Holders(l) THEN Cardinality(Holders(l)) - 1
                                   ELSE Cardinality(Holders(l))
    BY <2>1, HoldersFinite, FS_RemoveElement
  <2>3. paid'[l] = IF c \in Holders(l) THEN paid[l] + 1 ELSE paid[l]
    BY <1>1, LaneType DEF Spend, Holders, BudgetInv, TypeOK
  <2>. QED BY <1>1, <2>2, <2>3, HoldersFinite, Configuration DEF LaneWithin, BudgetInv, TypeOK
<1>2. LateWithin'
  <2>1. Leftover' = Leftover \ {c}
    BY DEF Leftover
  <2>2. Cardinality(Leftover') = IF c \in Leftover THEN Cardinality(Leftover) - 1
                                 ELSE Cardinality(Leftover)
    BY <2>1, HoldersFinite, FS_RemoveElement
  <2>3. late' = IF c \in Leftover THEN late + 1 ELSE late
    BY DEF Spend, Leftover
  <2>. QED BY <2>2, <2>3, HoldersFinite DEF LateWithin, BudgetInv, TypeOK
<1>. QED BY <1>1, <1>2 DEF BudgetInv

(* A restart: credits are lost.                                            *)
LEMMA CreditsLost ==
  ASSUME BudgetInv, TypeOK', NEW k \in Clients, Restart(k)
  PROVE  BudgetInv'
<1>1. CreditShape'
  BY DEF Restart, BudgetInv, CreditShape, TypeOK, NoCall
<1>2. ASSUME NEW l \in Lanes PROVE LaneWithin(l)'
  <2>1. Holders(l)' \in SUBSET Holders(l)
    BY DEF Holders, Lane, Restart, BudgetInv, TypeOK, NoCall
  <2>2. Cardinality(Holders(l)') <= Cardinality(Holders(l)) /\ Cardinality(Holders(l)') \in Nat
    BY <2>1, HoldersFinite, FS_Subset, FS_CardinalityType
  <2>. QED BY <1>2, <2>2, HoldersFinite, Configuration
           DEF Restart, LaneWithin, BudgetInv, TypeOK, counterVars, spendVars
<1>3. Leftover' \in SUBSET Leftover
  BY DEF Leftover, Restart, BudgetInv, TypeOK, NoCall
<1>4. Cardinality(Leftover') <= Cardinality(Leftover) /\ Cardinality(Leftover') \in Nat
  BY <1>3, HoldersFinite, FS_Subset, FS_CardinalityType
<1>5. LateWithin'
  BY <1>4, HoldersFinite DEF Restart, LateWithin, BudgetInv, TypeOK, spendVars
<1>. QED BY <1>1, <1>2, <1>5 DEF BudgetInv

(* Midnight: nothing is held on today's counters any more.                 *)
LEMMA CreditsGrowOld ==
  ASSUME BudgetInv, TypeOK', NextDay
  PROVE  BudgetInv'
<1>1. CreditShape'
  BY DEF NextDay, BudgetInv, CreditShape, TypeOK, switchVars
<1>2. ASSUME NEW l \in Lanes PROVE LaneWithin(l)'
  <2>1. Holders(l)' = {}
    BY DEF Holders, NextDay, BudgetInv, TypeOK, Call
  <2>. QED BY <1>2, <2>1, FS_EmptySet, Configuration DEF NextDay, LaneWithin
<1>3. Leftover' \in SUBSET Callers
  BY DEF Leftover
<1>4. Cardinality(Leftover') <= Cardinality(Callers) /\ Cardinality(Leftover') \in Nat
  BY <1>3, Configuration, FS_Subset, FS_CardinalityType
<1>5. LateWithin'
  BY <1>4, HoldersFinite DEF NextDay, LateWithin
<1>. QED BY <1>1, <1>2, <1>5 DEF BudgetInv

(* Nothing is charged, held or spent at the start.                         *)
LEMMA BudgetInit == Init => BudgetInv
<1> SUFFICES ASSUME Init PROVE BudgetInv
  OBVIOUS
<1>1. (\A l : Holders(l) = {}) /\ Leftover = {} /\ CreditShape
  BY DEF Init, NoCall, Holders, Leftover, CreditShape
<1>2. \A l \in Lanes : LaneWithin(l)
  BY <1>1, FS_EmptySet, Configuration DEF Init, LaneWithin
<1>3. LateWithin
  BY <1>1, FS_EmptySet, HoldersFinite DEF Init, LateWithin
<1>. QED BY <1>1, <1>2, <1>3, InitTypes DEF BudgetInv

(* Polling the switch moves no credit.                                     *)
LEMMA ProceedKeepsCredits ==
  ASSUME TypeOK, CreditShape, NEW c \in Callers, pc[c] = "poll", NEW isFrozen, Proceed(c, isFrozen)
  PROVE  /\ CreditShape'
         /\ \A d \in Callers : call'[d].credit = call[d].credit
         /\ \A d \in Callers \ {c} : call'[d].kind = call[d].kind
<1>1. CASE Finish(c)
  BY <1>1 DEF Finish, Goto, CreditShape, NoCall, TypeOK
<1>2. CASE Goto(c, "acquire") /\ call' = [call EXCEPT ![c].seen = FALSE]
  BY <1>2 DEF Goto, CreditShape, TypeOK, Call
<1>. QED BY <1>1, <1>2 DEF Proceed

(* Every step of a call keeps the accounts of credits held.                *)
LEMMA CallStepBudget ==
  ASSUME BudgetInv, TypeOK', NEW c \in Callers, CallStep(c)
  PROVE  BudgetInv'
<1>0. TypeOK /\ CreditShape /\ Lane(c) \in Lanes
  BY LaneType DEF BudgetInv
<1>1. CASE PollAnswers(c)
  <2>1. Proceed(c, call[c].seen) /\ pc[c] = "poll" /\ UNCHANGED <<counterVars, spendVars>>
    BY <1>1 DEF PollAnswers
  <2>. QED BY <1>0, <2>1, CreditsKept, ProceedKeepsCredits
           DEF CreditShape, TypeOK, counterVars, spendVars
<1>2. CASE AcquireUncapped(c)
  <2>1. CreditShape'
    BY <1>0, <1>2 DEF AcquireUncapped, Granted, Goto, CreditShape, TypeOK
  <2>. QED BY <1>0, <1>2, <2>1, CreditsKept
           DEF AcquireUncapped, Granted, Goto, CreditShape, TypeOK, counterVars, spendVars
<1>3. CASE Acquire(c) /\ Granted(c, "today")
  BY <1>0, <1>3, CreditGranted DEF Acquire, Granted, Goto, TypeOK, spendVars
<1>4. CASE Acquire(c) /\ Goto(c, "notify") /\ UNCHANGED call
  <2>1. CreditShape'
    BY <1>0, <1>4 DEF Acquire, Goto, CreditShape, TypeOK
  <2>2. \A l \in Lanes : used'[l] >= used[l]
    BY <1>0, <1>4 DEF Acquire, Charge, Incremented, TypeOK
  <2>. QED BY <1>0, <1>4, <2>1, <2>2, CreditsKept DEF Acquire, TypeOK, spendVars
<1>5. CASE Notify(c)
  <2>1. CreditShape'
    BY <1>0, <1>5 DEF Notify, Goto, CreditShape, TypeOK
  <2>. QED BY <1>0, <1>5, <2>1, CreditsKept DEF Notify, TypeOK, spendVars
<1>6. CASE SleeperPolls(c) /\ Granted(c, "today")
  BY <1>0, <1>6, CreditGranted DEF SleeperPolls, Granted, Goto, TypeOK, spendVars
<1>7. CASE SleeperPolls(c) /\ UNCHANGED <<pc, call>>
  <2>1. CreditShape'
    BY <1>0, <1>7 DEF CreditShape
  <2>2. \A l \in Lanes : used'[l] >= used[l]
    BY <1>0, <1>7 DEF SleeperPolls, Charge, Incremented, TypeOK
  <2>. QED BY <1>0, <1>7, <2>1, <2>2, CreditsKept DEF SleeperPolls, TypeOK, spendVars
<1>8. CASE PostReturns(c)
  <2>1. CreditShape'
    BY <1>0, <1>8 DEF PostReturns, Finish, Goto, CreditShape, NoCall, TypeOK
  <2>. QED BY <1>0, <1>8, <2>1, CreditSpent DEF PostReturns, Finish, NoCall, TypeOK, counterVars
<1>9. CASE PostRetries(c)
  <2>1. CreditShape'
    BY <1>0, <1>9 DEF PostRetries, Goto, CreditShape, TypeOK
  <2>. QED BY <1>0, <1>9, <2>1, CreditSpent DEF PostRetries, TypeOK, counterVars
<1>. QED
  BY <1>1, <1>2, <1>3, <1>4, <1>5, <1>6, <1>7, <1>8, <1>9 DEF CallStep, Acquire, SleeperPolls

(* A failing Redis keeps the accounts of credits held.                     *)
LEMMA RedisFailureBudget ==
  ASSUME BudgetInv, TypeOK', NEW c \in Callers, RedisFailure(c)
  PROVE  BudgetInv'
<1>0. TypeOK /\ CreditShape /\ Lane(c) \in Lanes
  BY LaneType DEF BudgetInv
<1>1. CASE PollFails(c)
  <2>1. Proceed(c, cached[ClientOf[c]]) /\ pc[c] = "poll" /\ UNCHANGED <<counterVars, spendVars>>
    BY <1>1 DEF PollFails
  <2>. QED BY <1>0, <2>1, CreditsKept, ProceedKeepsCredits
           DEF CreditShape, TypeOK, counterVars, spendVars
<1>2. ASSUME ChargeFails(c), pc[c] # "post", UNCHANGED spendVars
      PROVE  BudgetInv'
  <2>1. CreditShape'
    BY <1>0, <1>2 DEF ChargeFails, Granted, Goto, CreditShape, TypeOK
  <2>2. \A l \in Lanes : used'[l] >= used[l]
    BY <1>0, <1>2 DEF ChargeFails, Charge, Incremented, TypeOK
  <2>. QED BY <1>0, <1>2, <2>1, <2>2, CreditsKept
           DEF ChargeFails, Granted, CreditShape, TypeOK, spendVars
<1>3. CASE AcquireFails(c) \/ SleeperFails(c)
  BY <1>2, <1>3 DEF AcquireFails, SleeperFails
<1>4. CASE NotifyFails(c)
  <2>1. CreditShape'
    BY <1>0, <1>4 DEF NotifyFails, Goto, CreditShape, TypeOK
  <2>. QED BY <1>0, <1>4, <2>1, CreditsKept DEF NotifyFails, TypeOK, spendVars
<1>. QED BY <1>1, <1>3, <1>4 DEF RedisFailure

(* Every step keeps the accounts of credits held.                          *)
LEMMA BudgetStep == BudgetInv /\ TypeOK' /\ [Next]_vars => BudgetInv'
<1> SUFFICES ASSUME BudgetInv, TypeOK', [Next]_vars PROVE BudgetInv'
  OBVIOUS
<1>0. TypeOK /\ CreditShape
  BY DEF BudgetInv
<1>1. ASSUME NEW c \in Callers, NEW kind \in Kinds, BeginUnchecked(c, kind) \/ BeginPoll(c, kind)
      PROVE  BudgetInv'
  <2>1. PICK seen \in BOOLEAN, label \in {"poll", "acquire"} :
            /\ call' = [call EXCEPT ![c].kind = kind, ![c].seen = seen]
            /\ pc[c] = "idle" /\ Goto(c, label)
            /\ UNCHANGED <<counterVars, spendVars>>
    <3>1. CASE BeginUnchecked(c, kind)
      <4>1. call' = [call EXCEPT ![c].kind = kind, ![c].seen = call[c].seen]
            /\ call[c].seen \in BOOLEAN
        BY <1>0, <3>1 DEF BeginUnchecked, TypeOK, Call
      <4>. QED BY <3>1, <4>1 DEF BeginUnchecked
    <3>2. CASE BeginPoll(c, kind)
      BY <1>0, <3>2 DEF BeginPoll, TypeOK
    <3>. QED BY <1>1, <3>1, <3>2
  <2>2. /\ \A d \in Callers : call'[d].credit = call[d].credit
        /\ \A d \in Callers \ {c} : call'[d] = call[d]
    BY <1>0, <2>1 DEF TypeOK, Call
  <2>3. CreditShape'
    BY <1>0, <2>1, <2>2 DEF Goto, CreditShape, TypeOK
  <2>. QED BY <1>0, <2>1, <2>2, <2>3, CreditsKept DEF CreditShape, TypeOK, counterVars, spendVars
<1>2. CASE Freeze \/ Unfreeze \/ (\E k \in Clients : CacheExpires(k)) \/ UNCHANGED vars
  <2>1. UNCHANGED <<counterVars, spendVars, pc, call>>
    BY <1>2 DEF Freeze, Unfreeze, CacheExpires, vars
  <2>. QED BY <1>0, <2>1, CreditsKept DEF CreditShape, TypeOK, counterVars, spendVars
<1>. QED BY <1>1, <1>2, CallStepBudget, RedisFailureBudget, CreditsLost, CreditsGrowOld DEF Next

(* The daily spend of a lane is within its limit, and that of both with    *)
(* what was held over midnight within the sum of the limits and one credit *)
(* per caller (rpc.py:74), whatever the number of callers that share the   *)
(* counters, with retries, sleepers' polls, restarts and failures of Redis.*)
THEOREM SpendBoundedHolds == Spec => []SpendBounded
<1>1. Spec => []BudgetInv
  BY BudgetInit, BudgetStep, TypeCorrect, PTL DEF Spec
<1>. QED BY <1>1, SpendFollows, PTL

-----------------------------------------------------------------------------
(* The alert.  It is sent only by the caller that has set the marker.      *)

AlertInv == TypeOK /\ \A l \in Lanes : alerts[l] <= IF marked[l] THEN 1 ELSE 0

(* Every step keeps the day's marker in front of its alert.                *)
LEMMA AlertStep == AlertInv /\ TypeOK' /\ [Next]_vars => AlertInv'
<1> SUFFICES ASSUME AlertInv, TypeOK', [Next]_vars PROVE AlertInv'
  OBVIOUS
<1>1. ASSUME NEW c \in Callers, Notify(c) PROVE AlertInv'
  BY <1>1, LaneType DEF AlertInv, TypeOK, Notify
<1>2. ASSUME NEW c \in Callers, NotifyFails(c) PROVE AlertInv'
  BY <1>2, LaneType DEF AlertInv, TypeOK, NotifyFails
<1>3. CASE NextDay
  BY <1>3 DEF AlertInv, TypeOK, NextDay
<1>4. CASE UNCHANGED <<marked, alerts>>
  BY <1>4 DEF AlertInv, TypeOK
<1>5. ASSUME NEW c \in Callers, CallStep(c), ~Notify(c) PROVE UNCHANGED <<marked, alerts>>
  BY <1>5 DEF CallStep, PollAnswers, AcquireUncapped, Acquire, SleeperPolls, PostReturns,
     PostRetries, counterVars
<1>6. ASSUME NEW c \in Callers, RedisFailure(c), ~NotifyFails(c) PROVE UNCHANGED <<marked, alerts>>
  BY <1>6 DEF RedisFailure, PollFails, AcquireFails, SleeperFails, counterVars
<1>7. ASSUME NEW c \in Callers, NEW kind \in Kinds, BeginUnchecked(c, kind) \/ BeginPoll(c, kind)
      PROVE  UNCHANGED <<marked, alerts>>
  BY <1>7 DEF BeginUnchecked, BeginPoll, counterVars
<1>8. ASSUME Freeze \/ Unfreeze \/ UNCHANGED vars \/ \E k \in Clients : CacheExpires(k) \/ Restart(k)
      PROVE  UNCHANGED <<marked, alerts>>
  BY <1>8 DEF Freeze, Unfreeze, CacheExpires, Restart, vars, counterVars
<1>. QED BY <1>1, <1>2, <1>3, <1>4, <1>5, <1>6, <1>7, <1>8 DEF Next

(* However many callers of whichever clients find a lane exhausted, the    *)
(* operator hears of it at most once a day (rpc.py:113).                   *)
THEOREM OneAlertPerDayHolds == Spec => []OneAlertPerDay
<1>1. Init => AlertInv
  BY InitTypes DEF Init, AlertInv
<1>2. AlertInv => OneAlertPerDay
  BY DEF AlertInv, TypeOK, OneAlertPerDay
<1>. QED BY <1>1, <1>2, AlertStep, TypeCorrect, PTL DEF Spec
=============================================================================
