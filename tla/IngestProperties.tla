-------------------------- MODULE IngestProperties --------------------------
(***************************************************************************)
(* What ingestion must guarantee.                                          *)
(***************************************************************************)
EXTENDS IngestStream

Unread(s, lane) == \E i \in DOMAIN stream[lane] : stream[lane][i].sig = s
Settled(s) == s \in rows \cup dropped \cup trimmed

(* A trade is published at most once, however many copies of its           *)
(* signature reach the writers, by both lanes, by a requeue or after a     *)
(* crash: the copytrader must not see a leader's trade twice (writer.py:   *)
(* 281-289, fetcher.py:249).                                               *)
PublishedOnce == \A s \in Sigs : published[s] <= 1

(* Signatures whose dedup key is set, so that no further notification of   *)
(* them is accepted, and that are neither on their way nor settled.        *)
OnItsWay(s) == \/ holding = s
               \/ \E lane \in Lanes : Unread(s, lane)
               \/ \E w \in Writers, e \in Entry : e.sig = s /\ InHand(w, e)
Stranded == {s \in claimed : ~OnItsWay(s) /\ ~Settled(s)}

(* A claim without an entry is the price of a second failure, and of no    *)
(* other: a failed XADD of the main lane costs nothing as long as the      *)
(* claim's own calls answer, a listener's call that fails costs one        *)
(* signature, a writer's failure or death a batch, whatever the lanes      *)
(* requeue, trim and claim meanwhile (ws_listener.py:184-219,              *)
(* fetcher.py:9-13).                                                       *)
StrandedWithinFailures == Cardinality(Stranded) <= slips + BatchSize * mishaps

(* A followed wallet's transaction, once on the priority lane, is stored   *)
(* and published, or given up after ingest_max_attempts, or trimmed,       *)
(* until a writer dies or a call of its fails with the work half done: it  *)
(* never waits behind the main lane, which a writer may be blocked on, and *)
(* needs no peek to come back empty (fetcher.py:84-106).                   *)
PriorityEntriesSettle ==
    \A s \in Sigs : Unread(s, "priority")
        ~> published[s] > 0 \/ s \in dropped \cup trimmed \/ mishaps > 0

(* "At-least-once: [...] a crash anywhere duplicates work instead of       *)
(* losing it. [...] Crashed consumers' pending entries are reclaimed via   *)
(* XAUTOCLAIM" (fetcher.py:9-13).                                          *)
CrashLosesNothing ==
    \A s \in Sigs : Unread(s, "priority") ~> Settled(s)

(* The look at the priority lane is a "non-blocking peek; fall back to the *)
(* main stream only when the lane is empty" (fetcher.py:84-86): an entry   *)
(* of the main stream has its turn.                                        *)
MainLaneServed ==
    \A s \in Sigs : Unread(s, "main") ~> Settled(s)
=============================================================================
