---------------------------- MODULE IngestStream ----------------------------
(***************************************************************************)
(* Ingestion: the websocket listener (backend/app/ingestion/               *)
(* ws_listener.py) puts the signatures it is notified of on two Redis      *)
(* streams, and the ingest writers (fetcher.py, writer.py) of one consumer *)
(* group fetch, persist and publish them.                                  *)
(*                                                                         *)
(* A signature stands for a successful transaction with one swap; every    *)
(* swap of a transaction goes the same way.  The locals of a writer live   *)
(* in its job and die with it; streams, pending entries and rows stay.     *)
(***************************************************************************)
EXTENDS Integers, Sequences, FiniteSets

CONSTANTS Sigs,         \* transactions, numbered in slot order
          Followed,     \* of these, the ones of a followed wallet
          Programs,     \* DEX programs a transaction may mention
          Writers,      \* ingest writers, each a consumer of the group
          None,
          MaxAttempts,  \* ingest_max_attempts
          BatchSize,    \* ingest_batch_size
          MaxLen,       \* maxlen of a stream
          Faults,       \* which of FaultKinds happen
          MaxMishaps    \* bound: failures that are counted

Lanes == {"main", "priority"}
Wallet == "followed_wallet"
Sources == Programs \cup {Wallet}

(* Calls that raise.  Of the listener, "add": an XADD, and "claim": the SET *)
(* NX after it took effect, or the DEL of the claim.  Of a writer,         *)
(* "commit": the commit's answer is lost, "publish": a PUBLISH, "redis": an *)
(* XACK or a requeueing XADD; and "crash": it dies.  The ones that may     *)
(* cost a signature or its publication are counted, as slips of the        *)
(* listener and mishaps of the writers.                                    *)
FaultKinds == {"add", "claim", "commit", "publish", "redis", "crash"}

ASSUME Setup == /\ Sigs \subseteq Nat /\ IsFiniteSet(Sigs)
                /\ Followed \subseteq Sigs
                /\ Wallet \notin Programs
                /\ None \notin Sigs \cup Writers
                /\ MaxAttempts \in Nat \ {0}
                /\ BatchSize \in Nat \ {0}
                /\ MaxLen \in [Lanes -> Nat \ {0}]
                /\ Faults \subseteq FaultKinds
                /\ MaxMishaps \in Nat

Entry == [sig : Sigs, attempts : 0..MaxAttempts - 1]

VARIABLES
    notices,    \* logsNotifications yet to come: each comes at most once
    claimed,    \* ingest:dedup:{signature} keys
    holding,    \* the listener's signature between its Redis calls, or None
    step,       \* the listener: "recv", "add", "addPriority", "release"
    stream,     \* per lane, the entries no consumer has read
    pending,    \* per lane, the group's pending entries, with their owner
    rows,       \* signatures whose trade is in the database
    published,  \* how often a trade went out on events:trades
    dropped,    \* signatures given up after MaxAttempts
    trimmed,    \* signatures cut off a stream unread
    pc, job,    \* the writers
    slips, mishaps

listenerVars == <<notices, claimed, holding, step>>
queueVars == <<stream, pending, trimmed>>
outVars == <<rows, published, dropped>>
faultVars == <<slips, mishaps>>
vars == <<listenerVars, queueVars, outVars, pc, job, faultVars>>

(* A writer's batch: entries fetched and to persist, in order; entries to  *)
(* requeue, and the ones of these already added again; the one at hand.    *)
Job == [lane : Lanes, batch : SUBSET Entry, todo : Seq(Entry),
        retries : SUBSET Entry, added : SUBSET Entry]
NoJob == [lane |-> "main", batch |-> {}, todo |-> <<>>, retries |-> {}, added |-> {}]

TypeOK ==
    /\ notices \subseteq Sigs \X Sources
    /\ claimed \subseteq Sigs
    /\ holding \in Sigs \cup {None}
    /\ step \in {"recv", "add", "addPriority", "release"}
    /\ stream \in [Lanes -> Seq(Entry)]
    /\ pending \in [Lanes -> SUBSET (Entry \X Writers)]
    /\ rows \subseteq Sigs
    /\ published \in [Sigs -> Nat]
    /\ dropped \subseteq Sigs
    /\ trimmed \subseteq Sigs
    /\ pc \in [Writers -> {"peek", "read", "fetch", "persist", "publish", "ack"}]
    /\ job \in [Writers -> Job]
    /\ slips \in 0..MaxMishaps
    /\ mishaps \in 0..MaxMishaps

Init ==
    /\ notices = (Sigs \X Programs) \cup (Followed \X {Wallet})
    /\ claimed = {}
    /\ holding = None
    /\ step = "recv"
    /\ stream = [l \in Lanes |-> <<>>]
    /\ pending = [l \in Lanes |-> {}]
    /\ rows = {}
    /\ published = [s \in Sigs |-> 0]
    /\ dropped = {}
    /\ trimmed = {}
    /\ pc = [w \in Writers |-> "peek"]
    /\ job = [w \in Writers |-> NoJob]
    /\ slips = 0
    /\ mishaps = 0

-----------------------------------------------------------------------------
(* The listener.                                                           *)

(* A failure that is counted. *)
Counted(fault) == /\ fault \in Faults
                  /\ slips + mishaps < MaxMishaps
Slips(fault) == Counted(fault) /\ slips' = slips + 1 /\ UNCHANGED mishaps
Befalls(fault) == Counted(fault) /\ mishaps' = mishaps + 1 /\ UNCHANGED slips

(* XADD with MAXLEN ~: a stream over its length may lose its oldest entry, *)
(* which no consumer has read only if more than MaxLen are unread.         *)
Append1(lane, entry) ==
    LET longer == Append(stream[lane], entry) IN
    \/ /\ stream' = [stream EXCEPT ![lane] = longer]
       /\ UNCHANGED trimmed
    \/ /\ Len(longer) > MaxLen[lane]
       /\ stream' = [stream EXCEPT ![lane] = Tail(longer)]
       /\ trimmed' = trimmed \cup {longer[1].sig}

(* A notification, unless the listener is not connected when it comes: any *)
(* notice may stay where it is for ever.                                   *)
Take(sig, source) == /\ step = "recv"
                     /\ <<sig, source>> \in notices
                     /\ notices' = notices \ {<<sig, source>>}

(* A followed wallet's subscription, once acknowledged: the dedup key is   *)
(* set whether or not it was, and the entry is added anyway.               *)
ReceivePriority(sig) ==
    /\ Take(sig, Wallet)
    /\ claimed' = claimed \cup {sig}
    /\ holding' = sig
    /\ step' = "addPriority"
    /\ UNCHANGED <<queueVars, outVars, pc, job, faultVars>>

(* A program's subscription, or any one not acknowledged yet: a claimed    *)
(* signature is a duplicate.                                               *)
Receive(sig, source) ==
    /\ Take(sig, source)
    /\ IF sig \in claimed
         THEN UNCHANGED <<claimed, holding, step>>
         ELSE claimed' = claimed \cup {sig} /\ holding' = sig /\ step' = "add"
    /\ UNCHANGED <<queueVars, outVars, pc, job, faultVars>>

(* try_dedup raises although the key is set: the connection ends.          *)
ClaimUnanswered(sig, source) ==
    /\ Take(sig, source)
    /\ Slips("claim")
    /\ claimed' = claimed \cup {sig}
    /\ UNCHANGED <<holding, step, queueVars, outVars, pc, job>>

ListenerDone == holding' = None /\ step' = "recv"

Enqueue(lane) ==
    /\ step = IF lane = "main" THEN "add" ELSE "addPriority"
    /\ Append1(lane, [sig |-> holding, attempts |-> 0])
    /\ ListenerDone
    /\ UNCHANGED <<notices, claimed, pending, outVars, pc, job, faultVars>>

(* Faulty variant: the claim is not released. *)
EnqueueKeepsClaim ==
    /\ step = "add"
    /\ "add" \in Faults
    /\ ListenerDone
    /\ UNCHANGED <<notices, claimed, queueVars, outVars, pc, job, faultVars>>

(* The XADD raises: on the main lane the claim is to be released; either   *)
(* way the connection ends and the listener reconnects.                    *)
EnqueueFails ==
    /\ step = "add"
    /\ "add" \in Faults
    /\ step' = "release"
    /\ UNCHANGED <<notices, claimed, holding, queueVars, outVars, pc, job, faultVars>>

(* It raises although the entry is on the stream. *)
EnqueueUnanswered ==
    /\ step = "add"
    /\ Slips("add")
    /\ Append1("main", [sig |-> holding, attempts |-> 0])
    /\ step' = "release"
    /\ UNCHANGED <<notices, claimed, holding, pending, outVars, pc, job>>

PriorityFails ==
    /\ step = "addPriority"
    /\ Slips("add")
    /\ ListenerDone
    /\ UNCHANGED <<notices, claimed, queueVars, outVars, pc, job>>

Release ==
    /\ step = "release"
    /\ claimed' = claimed \ {holding}
    /\ ListenerDone
    /\ UNCHANGED <<notices, queueVars, outVars, pc, job, faultVars>>

(* dedup_release_failed: the claim stays. *)
ReleaseFails ==
    /\ step = "release"
    /\ Slips("claim")
    /\ ListenerDone
    /\ UNCHANGED <<notices, claimed, queueVars, outVars, pc, job>>

-----------------------------------------------------------------------------
(* A writer: read a batch.                                                 *)

Goto(w, label) == pc' = [pc EXCEPT ![w] = label]

(* XREADGROUP with ">" moves the oldest unread entries to the group's      *)
(* pending entries.                                                        *)
ReadBatch(w, lane) ==
    LET n == IF Len(stream[lane]) < BatchSize THEN Len(stream[lane]) ELSE BatchSize
        batch == {stream[lane][i] : i \in 1..n} IN
    /\ stream[lane] # <<>>
    /\ stream' = [stream EXCEPT ![lane] = SubSeq(@, n + 1, Len(@))]
    /\ pending' = [pending EXCEPT ![lane] = @ \cup (batch \X {w})]
    /\ job' = [job EXCEPT ![w] = [NoJob EXCEPT !.lane = lane, !.batch = batch]]
    /\ Goto(w, "fetch")
    /\ UNCHANGED <<listenerVars, trimmed, outVars, faultVars>>

PeekPriority(w) == pc[w] = "peek" /\ ReadBatch(w, "priority")

(* BLOCK 0 waits until there is an entry: that the call comes back without *)
(* one is up to the server (CLIENT UNBLOCK), and nothing makes it.         *)
PeekEmpty(w) ==
    /\ pc[w] = "peek"
    /\ stream["priority"] = <<>>
    /\ Goto(w, "read")
    /\ UNCHANGED <<listenerVars, queueVars, outVars, job, faultVars>>

ReadMain(w) == pc[w] = "read" /\ ReadBatch(w, "main")

(* The 5 s block on the main stream ends without an entry. *)
ReadEmpty(w) ==
    /\ pc[w] = "read"
    /\ stream["main"] = <<>>
    /\ Goto(w, "peek")
    /\ UNCHANGED <<listenerVars, queueVars, outVars, job, faultVars>>

(* A writer works on the entry. *)
InHand(w, entry) ==
    \/ entry \in job[w].batch \cup job[w].retries
    \/ \E i \in DOMAIN job[w].todo : job[w].todo[i] = entry

(* _autoclaim_if_due: an entry pending for a minute, its owner gone or     *)
(* done with the batch, changes owner.  The answer is not looked at.       *)
Autoclaim(w) ==
    /\ pc[w] = "peek"
    /\ \E lane \in Lanes : \E x \in pending[lane] :
        /\ x[2] # w /\ ~InHand(x[2], x[1])
        /\ pending' = [pending EXCEPT ![lane] = (@ \ {x}) \cup {<<x[1], w>>}]
    /\ UNCHANGED <<listenerVars, stream, trimmed, outVars, pc, job, faultVars>>

-----------------------------------------------------------------------------
(* A writer: fetch, then persist in slot order.                            *)

InSlotOrder(entries) ==
    LET positions == 1..Cardinality(entries) IN
    {q \in [positions -> entries] :
        /\ \A e \in entries : \E i \in positions : q[i] = e
        /\ \A i, j \in positions : i < j => q[i].sig <= q[j].sig}

(* _fetch answers None for a transaction that is not found yet, an error   *)
(* or a frozen client.                                                     *)
Fetch(w) ==
    /\ pc[w] = "fetch"
    /\ \E found \in SUBSET job[w].batch : \E todo \in InSlotOrder(found) :
        job' = [job EXCEPT ![w] =
                  [NoJob EXCEPT !.lane = job[w].lane, !.todo = todo,
                                !.retries = job[w].batch \ found]]
    /\ Goto(w, "persist")
    /\ UNCHANGED <<listenerVars, queueVars, outVars, faultVars>>

AtHand(w) == Head(job[w].todo)

(* Faulty variant: the trade's insert does not say whether it was new. *)
PersistAlwaysNew(w) ==
    /\ pc[w] = "persist"
    /\ job[w].todo # <<>>
    /\ rows' = rows \cup {AtHand(w).sig}
    /\ Goto(w, "publish")
    /\ UNCHANGED <<listenerVars, queueVars, published, dropped, job, faultVars>>

(* persist_parsed_transaction and its commit.  An insert that conflicts    *)
(* with another writer's waits for it, and only a new row is published.    *)
Persist(w) ==
    /\ pc[w] = "persist"
    /\ job[w].todo # <<>>
    /\ rows' = rows \cup {AtHand(w).sig}
    /\ Goto(w, IF AtHand(w).sig \in rows THEN "ack" ELSE "publish")
    /\ UNCHANGED <<listenerVars, queueVars, published, dropped, job, faultVars>>

(* What went wrong with the entry at hand is a reason to requeue it. *)
GiveBack(w) ==
    /\ job' = [job EXCEPT ![w].todo = Tail(@), ![w].retries = @ \cup {AtHand(w)}]
    /\ Goto(w, "persist")

(* The transaction rolls back (a race of two writers for a pool or an open *)
(* position, a deadlock, a database that is away).                         *)
PersistFails(w) ==
    /\ pc[w] = "persist"
    /\ job[w].todo # <<>>
    /\ GiveBack(w)
    /\ UNCHANGED <<listenerVars, queueVars, outVars, faultVars>>

(* The commit took effect and raises all the same. *)
CommitUnanswered(w) ==
    /\ pc[w] = "persist"
    /\ job[w].todo # <<>>
    /\ Befalls("commit")
    /\ rows' = rows \cup {AtHand(w).sig}
    /\ GiveBack(w)
    /\ UNCHANGED <<listenerVars, queueVars, published, dropped>>

Publish(w) ==
    /\ pc[w] = "publish"
    /\ published' = [published EXCEPT ![AtHand(w).sig] = @ + 1]
    /\ Goto(w, "ack")
    /\ UNCHANGED <<listenerVars, queueVars, rows, dropped, job, faultVars>>

(* It raises, heard or not. *)
PublishFails(w) ==
    /\ pc[w] = "publish"
    /\ Befalls("publish")
    /\ \/ UNCHANGED published
       \/ published' = [published EXCEPT ![AtHand(w).sig] = @ + 1]
    /\ GiveBack(w)
    /\ UNCHANGED <<listenerVars, queueVars, rows, dropped>>

Acked(w, entry) ==
    [pending EXCEPT ![job[w].lane] = {x \in @ : x[1] # entry}]

Ack(w) ==
    /\ pc[w] = "ack"
    /\ pending' = Acked(w, AtHand(w))
    /\ job' = [job EXCEPT ![w].todo = Tail(@)]
    /\ Goto(w, "persist")
    /\ UNCHANGED <<listenerVars, stream, trimmed, outVars, faultVars>>

(* Everything fetched has been dealt with. *)
Retrying(w) == pc[w] = "persist" /\ job[w].todo = <<>>

(* Redis raises: the batch is abandoned where it stands. *)
LoopError(w) ==
    /\ pc[w] = "ack" \/ (Retrying(w) /\ job[w].retries # {})
    /\ Befalls("redis")
    /\ job' = [job EXCEPT ![w] = NoJob]
    /\ Goto(w, "peek")
    /\ UNCHANGED <<listenerVars, queueVars, outVars>>

-----------------------------------------------------------------------------
(* A writer: _requeue_or_drop, for all retries at once.                    *)

Settle(w, entry) ==
    job' = [job EXCEPT ![w].retries = @ \ {entry}, ![w].added = @ \ {entry}]

(* Faulty variant: one attempt too many. *)
LastAttemptLate(entry) == entry.attempts + 1 > MaxAttempts

LastAttempt(entry) == entry.attempts + 1 >= MaxAttempts

Drop(w, entry) ==
    /\ Retrying(w)
    /\ entry \in job[w].retries
    /\ LastAttempt(entry)
    /\ dropped' = dropped \cup {entry.sig}
    /\ pending' = Acked(w, entry)
    /\ Settle(w, entry)
    /\ UNCHANGED <<listenerVars, stream, trimmed, rows, published, pc, faultVars>>

(* Faulty variant: acked without being added again. *)
RequeueForgets(w, entry) ==
    /\ Retrying(w)
    /\ entry \in job[w].retries \ job[w].added
    /\ ~LastAttempt(entry)
    /\ job' = [job EXCEPT ![w].added = @ \cup {entry}]
    /\ UNCHANGED <<listenerVars, queueVars, outVars, pc, faultVars>>

(* Add first, ack second. *)
Requeue(w, entry) ==
    /\ Retrying(w)
    /\ entry \in job[w].retries \ job[w].added
    /\ ~LastAttempt(entry)
    /\ Append1(job[w].lane, [entry EXCEPT !.attempts = @ + 1])
    /\ job' = [job EXCEPT ![w].added = @ \cup {entry}]
    /\ UNCHANGED <<listenerVars, pending, outVars, pc, faultVars>>

AckRequeued(w, entry) ==
    /\ Retrying(w)
    /\ entry \in job[w].added
    /\ pending' = Acked(w, entry)
    /\ Settle(w, entry)
    /\ UNCHANGED <<listenerVars, stream, trimmed, outVars, pc, faultVars>>

EndBatch(w) ==
    /\ Retrying(w)
    /\ job[w].retries = {}
    /\ job' = [job EXCEPT ![w] = NoJob]
    /\ Goto(w, "peek")
    /\ UNCHANGED <<listenerVars, queueVars, outVars, faultVars>>

(* The writer process dies and is started again. *)
Crash(w) ==
    /\ Befalls("crash")
    /\ job' = [job EXCEPT ![w] = NoJob]
    /\ Goto(w, "peek")
    /\ UNCHANGED <<listenerVars, queueVars, outVars>>

-----------------------------------------------------------------------------
ListenerStep == Enqueue("main") \/ Enqueue("priority") \/ Release
Receives == \E sig \in Sigs :
    \/ ReceivePriority(sig)
    \/ \E source \in Sources : Receive(sig, source) \/ ClaimUnanswered(sig, source)
ListenerFails == EnqueueFails \/ EnqueueUnanswered \/ PriorityFails \/ ReleaseFails

WriterStep(w) ==
    \/ PeekPriority(w) \/ ReadMain(w) \/ ReadEmpty(w)
    \/ Fetch(w) \/ Persist(w) \/ Publish(w) \/ Ack(w)
    \/ EndBatch(w)
    \/ \E entry \in Entry : Drop(w, entry) \/ Requeue(w, entry) \/ AckRequeued(w, entry)

WriterFails(w) ==
    PersistFails(w) \/ CommitUnanswered(w) \/ PublishFails(w) \/ LoopError(w)

Next ==
    \/ Receives
    \/ ListenerStep \/ ListenerFails
    \/ \E w \in Writers : \/ WriterStep(w) \/ PeekEmpty(w) \/ WriterFails(w)
                         \/ Autoclaim(w) \/ Crash(w)

Spec == Init /\ [][Next]_vars

(* The listener finishes what it began and the writers go on, but for the  *)
(* peek at an empty priority lane: it is the one call that waits for ever. *)
FairSpec == /\ Spec
            /\ WF_vars(ListenerStep)
            /\ \A w \in Writers : WF_vars(WriterStep(w))
=============================================================================
