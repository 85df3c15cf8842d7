--------------------------- MODULE RpcProperties ---------------------------
(***************************************************************************)
(* What the RPC client promises about credits, and what it does not.       *)
(***************************************************************************)
EXTENDS RpcBudget

Waiting(c) == pc[c] = "waiting"
BothLanes(f) == f["main"] + f["priority"]

(* "Total daily spend is bounded by the SUM of both" budgets (rpc.py:74),  *)
(* retries and sleepers' polls included and whichever tasks share the      *)
(* counters, as far as requests ran on a credit, that is but for failures  *)
(* of Redis and lanes that opted out.  A credit taken before midnight may  *)
(* be spent after it: one per caller.                                      *)
SpendBounded ==
    /\ \A l \in Lanes : paid[l] <= Limit[l]
    /\ BothLanes(paid) + late <= BothLanes(Limit) + Cardinality(Callers)

(* However many callers hit the wall, of one process or of several, the    *)
(* operator hears of it at most once a day and lane (rpc.py:113).          *)
OneAlertPerDay == \A l \in Lanes : alerts[l] <= 1

(* A lane is not lost to its sleepers, whose polls cost credits too: once  *)
(* the day turns over, some caller of the lane gets through, unless all of *)
(* them left (rpc.py:150-167).                                             *)
LanesRecover == \A l \in Lanes :
    (\E c \in Callers : Waiting(c) /\ Lane(c) = l)
        ~> (\/ \E c \in Callers : pc[c] = "post" /\ Lane(c) = l
            \/ \A c \in Callers : ~(Waiting(c) /\ Lane(c) = l))

(* A freeze that stays empties every client that has the switch: no call   *)
(* is let through any more, although Redis may fail any number of times in *)
(* between ("a blip cannot silently unfreeze a deliberate halt",           *)
(* rpc.py:228), and those already let through end, unless clients are      *)
(* restarted again and again.                                              *)
FreezeDrains ==
    <>[]frozen /\ <>[][\A k \in Clients : ~Restart(k)]_vars
        => <>[](\A c \in Callers : ClientOf[c] \in Switched =>
                          pc[c] \in {"idle", "poll"})

(* "Execution-critical methods are never blocked by the daily credit       *)
(* budget: a live position exit must not wait until tomorrow" (rpc.py:58). *)
ExecutionNeverBlocked ==
    \A c \in Callers : call[c].kind = "execution" => ~Waiting(c)
=============================================================================
