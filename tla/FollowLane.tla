----------------------------- MODULE FollowLane -----------------------------
(***************************************************************************)
(* The follow lane: which wallets the listener subscribes to.  Analytics   *)
(* publishes the set after each metrics cycle (analytics/follow_lane.py),  *)
(* starring a wallet nudges it at once (api/wallets.py), both by replacing *)
(* one Redis key (services/redis.py); the listener watches the key and     *)
(* reconnects when it differs (ingestion/ws_listener.py).                  *)
(***************************************************************************)
EXTENDS Basics

CONSTANTS
    Followable,   \* wallets, as numbers in the order of their addresses
    Confidences,  \* the scores a wallet may have, or None
    FollowBarAt,  \* copy_min_wallet_confidence
    LaneMax,      \* follow_lane_max
    MaxChurn, MaxMishaps   \* bounds: stars and scores that change; calls that fail

ASSUME LaneParameters ==
    /\ IsFiniteSet(Followable) /\ Followable \subseteq Int
    /\ Confidences \ {None} \subseteq Int
    /\ LaneMax \in Nat

VARIABLES
    tracked, confidence,   \* in the database
    followKey,    \* Redis, follow:wallets
    publishing,   \* the addresses analytics is about to publish, or None
    nudges,       \* API requests between their commit and their answer
    asked,        \* what the listener's connection asks for, or None: no connection
    subscribed,   \* of these, what the node has subscribed it to
    refused,      \* and those it answered with an error
    churn, mishaps

connectionVars == <<asked, subscribed, refused>>
laneVars == <<tracked, confidence, followKey, publishing, nudges, connectionVars, churn, mishaps>>

LaneInit ==
    /\ tracked = {} /\ confidence = [w \in Followable |-> None]
    /\ followKey = {} /\ publishing = None /\ nudges = {}
    /\ asked = {} /\ subscribed = {} /\ refused = {}
    /\ churn = 0 /\ mishaps = 0

-----------------------------------------------------------------------------
Qualified == {w \in Followable \ tracked :
                confidence[w] # None /\ confidence[w] >= FollowBarAt}
Better(a, b) == confidence[a] > confidence[b] \/ (confidence[a] = confidence[b] /\ a > b)

(* The tracked ones, then the most confident, as long as there is room.    *)
(* More tracked ones than that: the database's order decides.              *)
ToFollow ==
    LET room == Max({LaneMax - Cardinality(tracked), 0})
        auto == {w \in Qualified : Cardinality({v \in Qualified : Better(v, w)}) < room}
    IN  {pinned \cup auto : pinned \in kSubset(Min({LaneMax, Cardinality(tracked)}), tracked)}

(* Faulty variant: the key is only added to.                               *)
PublishedOnTop(addresses) == followKey \cup addresses
Published(addresses) == addresses

PublishReads(addresses) ==
    /\ publishing = None
    /\ addresses \in ToFollow
    /\ publishing' = addresses
    /\ UNCHANGED <<tracked, confidence, followKey, nudges, connectionVars, churn, mishaps>>

PublishWrites ==
    /\ publishing # None
    /\ followKey' = Published(publishing)
    /\ publishing' = None
    /\ UNCHANGED <<tracked, confidence, nudges, connectionVars, churn, mishaps>>

Mishap == mishaps < MaxMishaps /\ mishaps' = mishaps + 1

(* Redis refuses, or analytics restarts.                                   *)
PublishFails ==
    /\ publishing # None
    /\ Mishap
    /\ publishing' = None
    /\ UNCHANGED <<tracked, confidence, followKey, nudges, connectionVars, churn>>

-----------------------------------------------------------------------------
Churn == churn < MaxChurn /\ churn' = churn + 1

(* Starring and unstarring: committed, then the nudge.                     *)
Track(w, followed) ==
    /\ Churn
    /\ tracked' = IF followed THEN tracked \cup {w} ELSE tracked \ {w}
    /\ nudges' = nudges \cup {[id |-> churn, wallet |-> w, followed |-> followed, seen |-> None]}
    /\ UNCHANGED <<confidence, followKey, publishing, connectionVars, mishaps>>

ScoreChanges(w, score) ==
    /\ Churn
    /\ confidence' = [confidence EXCEPT ![w] = score]
    /\ UNCHANGED <<tracked, followKey, publishing, nudges, connectionVars, mishaps>>

(* An error of the read counts as an empty set.                            *)
NudgeReads(n, answered) ==
    /\ n \in nudges /\ n.seen = None
    /\ nudges' = (nudges \ {n}) \cup {[n EXCEPT !.seen = IF answered THEN followKey ELSE {}]}
    /\ IF answered THEN UNCHANGED mishaps ELSE Mishap
    /\ UNCHANGED <<tracked, confidence, followKey, publishing, connectionVars, churn>>

(* A nudge that fails is only logged.                                      *)
NudgeWrites(n, answered) ==
    /\ n \in nudges /\ n.seen # None
    /\ nudges' = nudges \ {n}
    /\ IF answered
         THEN /\ followKey' = IF n.followed THEN n.seen \cup {n.wallet} ELSE n.seen \ {n.wallet}
              /\ UNCHANGED mishaps
         ELSE Mishap /\ UNCHANGED followKey
    /\ UNCHANGED <<tracked, confidence, publishing, connectionVars, churn>>

-----------------------------------------------------------------------------
(* The listener takes at most LaneMax addresses, in their order.           *)
Cut(addresses) == {w \in addresses : Cardinality({v \in addresses : v < w}) < LaneMax}
FollowedNow(answered) == IF answered THEN Cut(followKey) ELSE {}

Connect(answered) ==
    /\ asked = None
    /\ asked' = FollowedNow(answered)
    /\ IF answered THEN UNCHANGED mishaps ELSE Mishap
    /\ UNCHANGED <<tracked, confidence, followKey, publishing, nudges, subscribed, refused, churn>>

(* The node answers each request for itself; one that it answers with an   *)
(* error is passed over.                                                   *)
Unanswered == IF asked = None THEN {} ELSE asked \ (subscribed \cup refused)

Subscribes(w) ==
    /\ w \in Unanswered
    /\ subscribed' = subscribed \cup {w}
    /\ UNCHANGED <<tracked, confidence, followKey, publishing, nudges, asked, refused, churn,
                   mishaps>>

RefusesOne(w) ==
    /\ w \in Unanswered
    /\ Mishap
    /\ refused' = refused \cup {w}
    /\ UNCHANGED <<tracked, confidence, followKey, publishing, nudges, asked, subscribed, churn>>

Disconnects == asked' = None /\ subscribed' = {} /\ refused' = {}

(* The watcher closes a connection that asked for another set; so does an  *)
(* error, which it takes for an empty set.                                 *)
WatcherCloses(answered) ==
    /\ asked # None /\ asked # FollowedNow(answered)
    /\ Disconnects
    /\ IF answered THEN UNCHANGED mishaps ELSE Mishap
    /\ UNCHANGED <<tracked, confidence, followKey, publishing, nudges, churn>>

ConnectionLost ==
    /\ asked # None
    /\ Mishap
    /\ Disconnects
    /\ UNCHANGED <<tracked, confidence, followKey, publishing, nudges, churn>>

LaneNext ==
    \/ \E addresses \in ToFollow : PublishReads(addresses)
    \/ PublishWrites
    \/ PublishFails
    \/ \E w \in Followable, followed \in BOOLEAN : Track(w, followed)
    \/ \E w \in Followable, score \in Confidences : ScoreChanges(w, score)
    \/ \E n \in nudges, answered \in BOOLEAN : NudgeReads(n, answered) \/ NudgeWrites(n, answered)
    \/ \E answered \in BOOLEAN : Connect(answered) \/ WatcherCloses(answered)
    \/ \E w \in Followable : Subscribes(w) \/ RefusesOne(w)
    \/ ConnectionLost

(* The metrics cycle comes again and again, a request ends, the listener   *)
(* reconnects, the node answers, and the watcher looks once a minute.      *)
PublishCycle == PublishWrites \/ \E addresses \in ToFollow : PublishReads(addresses)
NudgeEnds == \E n \in nudges : NudgeReads(n, TRUE) \/ NudgeWrites(n, TRUE)
NodeAnswers == \E w \in Followable : Subscribes(w)

-----------------------------------------------------------------------------
(* The lane settles: once stars and scores rest, the listener has asked,   *)
(* for good, for exactly the wallets to follow, whichever nudge and        *)
(* publication overwrote each other, failed, or read an error for an empty *)
(* set; and it is subscribed to all of them that the node did not refuse   *)
(* on this connection.  These it never asks for again: the watcher only    *)
(* sees that the set is the same.  All this as long as no more are starred *)
(* than the lane has room for (follow_lane.py: "keeps the Redis set the    *)
(* listener reads in sync with reality").                                  *)
LaneSettles ==
    <>[](Cardinality(tracked) <= LaneMax =>
            {asked} = ToFollow /\ subscribed = asked \ refused)
=============================================================================
