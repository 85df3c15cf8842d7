------------------------------ MODULE CopyBook ------------------------------
(***************************************************************************)
(* What copy trading promises of its books, whatever fails underneath: a   *)
(* token is flat or held by one entry trade, it goes from one entry to     *)
(* another only by way of flat, and an entry is held at most once.         *)
(* (models.py, CopyPosition: "one open copy position per token: mirrors an *)
(* exit unambiguously".)                                                   *)
(***************************************************************************)
CONSTANTS Tokens,    \* token mints
          Entries,   \* entry trades
          None

VARIABLES holder,    \* the entry a token is held by, or None
          done       \* entries that were held and closed

Init == /\ holder = [token \in Tokens |-> None]
        /\ done = {}

Open(token, entry) ==
    /\ holder[token] = None
    /\ entry \notin done
    /\ \A other \in Tokens : holder[other] # entry
    /\ holder' = [holder EXCEPT ![token] = entry]
    /\ UNCHANGED done

Close(token) ==
    /\ holder[token] # None
    /\ done' = done \cup {holder[token]}
    /\ holder' = [holder EXCEPT ![token] = None]

Next == \E token \in Tokens :
    \/ \E entry \in Entries : Open(token, entry)
    \/ Close(token)

Spec == Init /\ [][Next]_<<holder, done>>
=============================================================================
