---------------------------- MODULE MCRpcBudget ----------------------------
EXTENDS RpcProperties

CONSTANTS worker, api,     \* clients
          fetch, execute   \* callers

(* Which client a caller uses and what for: an ordinary or a followed      *)
(* wallet's fetch, and an execution.  MCShared puts both on one client.    *)
MCShared == [c \in Callers |-> worker]
MCKindsOf == [c \in Callers |->
    IF c = execute THEN {"execution"} ELSE {"ordinary", "followed"}]

(* By default the main lane has opted out. *)
MCLimit == [l \in Lanes |-> IF l = "main" THEN 0 ELSE 1]
=============================================================================
