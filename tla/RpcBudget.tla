----------------------------- MODULE RpcBudget -----------------------------
(***************************************************************************)
(* The Solana RPC client (backend/app/services/rpc.py): the two daily      *)
(* credit budgets every process shares through Redis, the freeze switch,   *)
(* and SolanaRpc.call, which takes a credit for every HTTP attempt.        *)
(*                                                                         *)
(* A caller is an asyncio task inside one call at a time.  Several callers *)
(* share a client, and with it the cached state of the freeze switch; all  *)
(* clients share the counters.                                             *)
(***************************************************************************)
EXTENDS Integers, FiniteSets

CONSTANTS Callers,      \* tasks that make RPC calls
          Clients,      \* SolanaRpc instances
          Switched,     \* of these, the ones given a Redis handle
          ClientOf,     \* the client of a caller
          KindsOf,      \* the kinds of calls it makes
          Limit,        \* daily limit of a lane; 0 opts out
          MaxRetries,   \* rpc_max_retries
          RedisFails    \* Redis calls may raise

Lanes == {"main", "priority"}
Kinds == {"ordinary", "followed", "execution"}

ASSUME Configuration == /\ IsFiniteSet(Callers)
                        /\ Switched \subseteq Clients
                        /\ ClientOf \in [Callers -> Clients]
                        /\ KindsOf \in [Callers -> SUBSET Kinds]
                        /\ Limit \in [Lanes -> Nat]
                        /\ MaxRetries \in Nat
                        /\ RedisFails \in BOOLEAN

VARIABLES
    frozen,    \* the key rpc:frozen is set
    cached,    \* a client's _frozen_cached
    fresh,     \* it was checked less than FREEZE_POLL_SECONDS ago
    used,      \* today's counter rpc:credits:... of a lane
    marked,    \* today's marker rpc:budget_notified:... of a lane
    alerts,    \* alerts emitted for a lane today
    paid,      \* HTTP requests of today on a credit of today, per lane
    late,      \* HTTP requests of today on a credit of an earlier day
    pc, call   \* the callers

switchVars == <<frozen, cached, fresh>>
counterVars == <<used, marked, alerts>>
spendVars == <<paid, late>>
vars == <<switchVars, counterVars, spendVars, pc, call>>

(* The locals of a call.  `credit` is what its next request runs on: a     *)
(* credit of today's or an earlier day's counter, or none at all; `seen`   *)
(* is the answer of a GET that is on its way back.                         *)
Call == [kind : Kinds, attempt : 0..MaxRetries, seen : BOOLEAN,
         credit : {"none", "today", "earlier", "free"}]
NoCall == [kind |-> "ordinary", attempt |-> 0, seen |-> FALSE, credit |-> "none"]

TypeOK ==
    /\ frozen \in BOOLEAN
    /\ cached \in [Clients -> BOOLEAN]
    /\ fresh \in [Clients -> BOOLEAN]
    /\ used \in [Lanes -> Nat]
    /\ marked \in [Lanes -> BOOLEAN]
    /\ alerts \in [Lanes -> Nat]
    /\ paid \in [Lanes -> Nat]
    /\ late \in Nat
    /\ pc \in [Callers -> {"idle", "poll", "acquire", "notify", "waiting", "post"}]
    /\ call \in [Callers -> Call]

Init ==
    /\ frozen = FALSE
    /\ cached = [k \in Clients |-> FALSE]
    /\ fresh = [k \in Clients |-> FALSE]
    /\ used = [l \in Lanes |-> 0]
    /\ marked = [l \in Lanes |-> FALSE]
    /\ alerts = [l \in Lanes |-> 0]
    /\ paid = [l \in Lanes |-> 0]
    /\ late = 0
    /\ pc = [c \in Callers |-> "idle"]
    /\ call = [c \in Callers |-> NoCall]

-----------------------------------------------------------------------------
Goto(c, label) == pc' = [pc EXCEPT ![c] = label]
Finish(c) == Goto(c, "idle") /\ call' = [call EXCEPT ![c] = NoCall]

(* Execution methods are exempt by name, followed wallets' fetches by the  *)
(* budget_exempt argument: both draw on the priority budget.               *)
LaneOf(kind) == IF kind = "ordinary" THEN "main" ELSE "priority"
Lane(c) == LaneOf(call[c].kind)

-----------------------------------------------------------------------------
(* The start of a call, and SolanaRpc._is_frozen.  A frozen call returns   *)
(* None at once.                                                           *)
Proceed(c, isFrozen) ==
    IF isFrozen THEN Finish(c)
    ELSE Goto(c, "acquire") /\ call' = [call EXCEPT ![c].seen = FALSE]

(* No Redis handle, or checked a moment ago and found released. *)
BeginUnchecked(c, kind) ==
    LET k == ClientOf[c] IN
    /\ pc[c] = "idle" /\ kind \in KindsOf[c]
    /\ k \notin Switched \/ (fresh[k] /\ ~cached[k])
    /\ call' = [call EXCEPT ![c].kind = kind]
    /\ Goto(c, "acquire")
    /\ UNCHANGED <<switchVars, counterVars, spendVars>>

(* The GET reads the key; another task of the client may do so too before  *)
(* the answer is back.                                                     *)
BeginPoll(c, kind) ==
    LET k == ClientOf[c] IN
    /\ pc[c] = "idle" /\ kind \in KindsOf[c]
    /\ k \in Switched /\ ~fresh[k]
    /\ call' = [call EXCEPT ![c].kind = kind, ![c].seen = frozen]
    /\ Goto(c, "poll")
    /\ UNCHANGED <<switchVars, counterVars, spendVars>>

PollAnswers(c) ==
    LET k == ClientOf[c] IN
    /\ pc[c] = "poll"
    /\ cached' = [cached EXCEPT ![k] = call[c].seen]
    /\ fresh' = [fresh EXCEPT ![k] = TRUE]
    /\ Proceed(c, call[c].seen)
    /\ UNCHANGED <<frozen, counterVars, spendVars>>

(* Faulty variant: an unreadable switch counts as released. *)
PollFailsOpen(c) ==
    /\ pc[c] = "poll"
    /\ RedisFails
    /\ cached' = [cached EXCEPT ![ClientOf[c]] = FALSE]
    /\ Proceed(c, FALSE)
    /\ UNCHANGED <<frozen, fresh, counterVars, spendVars>>

(* The GET raises: the last known state is kept, and not made fresh. *)
PollFails(c) ==
    /\ pc[c] = "poll"
    /\ RedisFails
    /\ Proceed(c, cached[ClientOf[c]])
    /\ UNCHANGED <<switchVars, counterVars, spendVars>>

-----------------------------------------------------------------------------
(* RpcBudget.acquire, on the budget of the call's lane.                    *)

(* The INCR, by a first attempt or by a sleeper's poll.  Beyond the limit  *)
(* the code compares the counter with nothing else, so it stops there.     *)
Incremented(l) == IF used[l] <= Limit[l] THEN used[l] + 1 ELSE used[l]
Charge(l) == used' = [used EXCEPT ![l] = Incremented(l)]

Granted(c, credit) ==
    /\ call' = [call EXCEPT ![c].credit = credit]
    /\ Goto(c, "post")

(* The lane has opted out: Redis is not asked. *)
AcquireUncapped(c) ==
    /\ pc[c] = "acquire"
    /\ Limit[Lane(c)] = 0
    /\ Granted(c, "free")
    /\ UNCHANGED <<switchVars, counterVars, spendVars>>

(* The INCR raises, before or after it took effect, or the EXPIRE of a new *)
(* key does: go on unaccounted.                                            *)
ChargeFails(c) ==
    /\ RedisFails
    /\ UNCHANGED used \/ Charge(Lane(c))
    /\ Granted(c, "free")

AcquireFails(c) ==
    /\ pc[c] = "acquire"
    /\ Limit[Lane(c)] > 0
    /\ ChargeFails(c)
    /\ UNCHANGED <<switchVars, marked, alerts, spendVars>>

Acquire(c) ==
    /\ pc[c] = "acquire"
    /\ Limit[Lane(c)] > 0
    /\ Charge(Lane(c))
    /\ IF used'[Lane(c)] <= Limit[Lane(c)]
         THEN Granted(c, "today")
         ELSE Goto(c, "notify") /\ UNCHANGED call
    /\ UNCHANGED <<switchVars, marked, alerts, spendVars>>

(* Faulty variant: SET without NX. *)
NotifyEveryTime(c) ==
    /\ pc[c] = "notify"
    /\ marked' = [marked EXCEPT ![Lane(c)] = TRUE]
    /\ alerts' = [alerts EXCEPT ![Lane(c)] = @ + 1]
    /\ Goto(c, "waiting")
    /\ UNCHANGED <<switchVars, used, spendVars, call>>

(* _notify_exhausted_once: SET NX, then the alert. *)
Notify(c) ==
    /\ pc[c] = "notify"
    /\ marked' = [marked EXCEPT ![Lane(c)] = TRUE]
    /\ alerts' = IF marked[Lane(c)] THEN alerts ELSE [alerts EXCEPT ![Lane(c)] = @ + 1]
    /\ Goto(c, "waiting")
    /\ UNCHANGED <<switchVars, used, spendVars, call>>

(* It raises before or after the SET: the alert is lost. *)
NotifyFails(c) ==
    /\ pc[c] = "notify"
    /\ RedisFails
    /\ marked' \in {marked, [marked EXCEPT ![Lane(c)] = TRUE]}
    /\ Goto(c, "waiting")
    /\ UNCHANGED <<switchVars, used, alerts, spendVars, call>>

(* After each POLL_SECONDS of sleep. *)
SleeperPolls(c) ==
    /\ pc[c] = "waiting"
    /\ Charge(Lane(c))
    /\ IF used'[Lane(c)] <= Limit[Lane(c)]
         THEN Granted(c, "today")
         ELSE UNCHANGED <<pc, call>>
    /\ UNCHANGED <<switchVars, marked, alerts, spendVars>>

SleeperFails(c) ==
    /\ pc[c] = "waiting"
    /\ ChargeFails(c)
    /\ UNCHANGED <<switchVars, marked, alerts, spendVars>>

-----------------------------------------------------------------------------
(* The HTTP request, some time after the credit was taken (_RateLimiter).  *)

Spend(c) ==
    /\ paid' = IF call[c].credit = "today" THEN [paid EXCEPT ![Lane(c)] = @ + 1] ELSE paid
    /\ late' = IF call[c].credit = "earlier" THEN late + 1 ELSE late

(* A result, an error that is not retriable, or the last attempt. *)
PostReturns(c) ==
    /\ pc[c] = "post"
    /\ Spend(c)
    /\ Finish(c)
    /\ UNCHANGED <<switchVars, counterVars>>

(* Faulty variants: retries run on the first attempt's credit; one retry   *)
(* too many.                                                               *)
PostRetriesFree(c) ==
    /\ pc[c] = "post"
    /\ call[c].attempt < MaxRetries
    /\ Spend(c)
    /\ call' = [call EXCEPT ![c].attempt = @ + 1]
    /\ UNCHANGED <<switchVars, counterVars, pc>>
PostRetriesOnceMore(c) ==
    /\ pc[c] = "post"
    /\ call[c].attempt <= MaxRetries
    /\ Spend(c)
    /\ call' = [call EXCEPT ![c].attempt = @ + 1, ![c].credit = "none"]
    /\ Goto(c, "acquire")
    /\ UNCHANGED <<switchVars, counterVars>>

(* A network error, a retriable status or RPC code: back off and take a    *)
(* new credit.  The freeze switch is not looked at again.                  *)
PostRetries(c) ==
    /\ pc[c] = "post"
    /\ call[c].attempt < MaxRetries
    /\ Spend(c)
    /\ call' = [call EXCEPT ![c].attempt = @ + 1, ![c].credit = "none"]
    /\ Goto(c, "acquire")
    /\ UNCHANGED <<switchVars, counterVars>>

-----------------------------------------------------------------------------
(* Around the calls.                                                       *)

(* freeze_rpc and unfreeze_rpc, by the operator. *)
Freeze == /\ ~frozen
          /\ frozen' = TRUE
          /\ UNCHANGED <<cached, fresh, counterVars, spendVars, pc, call>>
Unfreeze == /\ frozen
            /\ frozen' = FALSE
            /\ UNCHANGED <<cached, fresh, counterVars, spendVars, pc, call>>

(* FREEZE_POLL_SECONDS have passed. *)
CacheExpires(k) ==
    /\ fresh[k]
    /\ fresh' = [fresh EXCEPT ![k] = FALSE]
    /\ UNCHANGED <<frozen, cached, counterVars, spendVars, pc, call>>

(* Faulty variant: the counter's key does not name the day. *)
NextDayKeepsCounter ==
    /\ \E l \in Lanes : used[l] > 0 \/ paid[l] > 0 \/ late > 0 \/ marked[l]
    /\ marked' = [l \in Lanes |-> FALSE]
    /\ alerts' = [l \in Lanes |-> 0]
    /\ paid' = [l \in Lanes |-> 0]
    /\ late' = 0
    /\ call' = [c \in Callers |-> IF call[c].credit = "today"
                                    THEN [call[c] EXCEPT !.credit = "earlier"]
                                    ELSE call[c]]
    /\ UNCHANGED <<switchVars, used, pc>>

(* The UTC date changes: the keys of the new day do not exist yet. *)
NextDay ==
    /\ \E l \in Lanes : used[l] > 0 \/ paid[l] > 0 \/ late > 0 \/ marked[l]
    /\ used' = [l \in Lanes |-> 0]
    /\ marked' = [l \in Lanes |-> FALSE]
    /\ alerts' = [l \in Lanes |-> 0]
    /\ paid' = [l \in Lanes |-> 0]
    /\ late' = 0
    /\ call' = [c \in Callers |-> IF call[c].credit = "today"
                                    THEN [call[c] EXCEPT !.credit = "earlier"]
                                    ELSE call[c]]
    /\ UNCHANGED <<switchVars, pc>>

(* A process restarts: its calls are gone, its client starts anew. *)
Restart(k) ==
    /\ cached' = [cached EXCEPT ![k] = FALSE]
    /\ fresh' = [fresh EXCEPT ![k] = FALSE]
    /\ pc' = [c \in Callers |-> IF ClientOf[c] = k THEN "idle" ELSE pc[c]]
    /\ call' = [c \in Callers |-> IF ClientOf[c] = k THEN NoCall ELSE call[c]]
    /\ UNCHANGED <<frozen, counterVars, spendVars>>

-----------------------------------------------------------------------------
(* The steps of a call that is under way, and those that are a failure of  *)
(* Redis.                                                                  *)
CallStep(c) ==
    \/ PollAnswers(c)
    \/ AcquireUncapped(c) \/ Acquire(c) \/ Notify(c) \/ SleeperPolls(c)
    \/ PostReturns(c) \/ PostRetries(c)
RedisFailure(c) == PollFails(c) \/ AcquireFails(c) \/ NotifyFails(c) \/ SleeperFails(c)

Next ==
    \/ \E c \in Callers, kind \in Kinds : BeginUnchecked(c, kind) \/ BeginPoll(c, kind)
    \/ \E c \in Callers : CallStep(c) \/ RedisFailure(c)
    \/ Freeze \/ Unfreeze
    \/ \E k \in Clients : CacheExpires(k) \/ Restart(k)
    \/ NextDay

Spec == Init /\ [][Next]_vars

(* A call under way goes on (every await has a timeout, Redis' answers and *)
(* the sleeps included), time passes, and Redis does not fail every time a *)
(* task asks it for the switch.                                            *)
CallFairness ==
    /\ \A c \in Callers : WF_vars(CallStep(c)) /\ SF_vars(PollAnswers(c))
    /\ \A k \in Clients : WF_vars(CacheExpires(k))
    /\ WF_vars(NextDay)

FairSpec == Spec /\ CallFairness
=============================================================================
