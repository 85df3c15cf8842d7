---------------------------- MODULE IngestProofs ----------------------------
(***************************************************************************)
(* Ingestion: a trade is published at most once, and a signature whose     *)
(* dedup key is set is on its way or settled, but for what the counted     *)
(* failures cost.                                                          *)
(***************************************************************************)
EXTENDS IngestProperties, FiniteSetTheorems, SequenceTheorems, TLAPS

Labels == {"peek", "read", "fetch", "persist", "publish", "ack"}

-----------------------------------------------------------------------------
(* Types.                                                                  *)

(* There are finitely many entries: signatures and attempts are bounded.   *)
LEMMA EntryFinite == IsFiniteSet(Entry)
<1>. DEFINE T == 0..MaxAttempts - 1
            f == [x \in Sigs \X T |-> [sig |-> x[1], attempts |-> x[2]]]
<1>1. IsFiniteSet(Sigs \X T)
  <2>1. IsFiniteSet(T)
    BY Setup, FS_Interval
  <2>. QED BY <2>1, Setup, FS_Product
<1>2. f \in Surjection(Sigs \X T, Entry)
  <2>1. f \in [Sigs \X T -> Entry]
    BY DEF Entry
  <2>2. ASSUME NEW e \in Entry PROVE \E x \in Sigs \X T : f[x] = e
    <3>1. <<e.sig, e.attempts>> \in Sigs \X T /\ e = [sig |-> e.sig, attempts |-> e.attempts]
      BY <2>2 DEF Entry
    <3>. QED BY <3>1
  <2>. QED BY <2>1, <2>2 DEF Surjection
<1>. QED BY <1>1, <1>2, FS_Surjection

(* A writer at rest has a job of the right type.                           *)
LEMMA NoJobType == NoJob \in Job
BY EmptySeq DEF NoJob, Job, Lanes

(* What a writer found, in whatever order, is a sequence of all of it.     *)
LEMMA OrderedEntries ==
  ASSUME NEW found \in SUBSET Entry, NEW todo \in InSlotOrder(found)
  PROVE  /\ todo \in Seq(Entry)
         /\ \A e \in found : \E i \in DOMAIN todo : todo[i] = e
         /\ \A i \in DOMAIN todo : todo[i] \in found
<1>1. Cardinality(found) \in Nat
  BY EntryFinite, FS_Subset, FS_CardinalityType
<1>2. todo \in [1..Cardinality(found) -> found]
  BY DEF InSlotOrder
<1>. QED BY <1>1, <1>2, SeqDef DEF InSlotOrder

(* An XADD keeps the stream a sequence of entries, trimmed or not.         *)
LEMMA Append1Types ==
  ASSUME TypeOK, NEW lane \in Lanes, NEW entry \in Entry, Append1(lane, entry)
  PROVE  stream' \in [Lanes -> Seq(Entry)] /\ trimmed' \in SUBSET Sigs
<1>. DEFINE longer == Append(stream[lane], entry)
<1>1. longer \in Seq(Entry) /\ longer # <<>> /\ Tail(longer) \in Seq(Entry) /\ longer[1] \in Entry
  BY AppendProperties, HeadTailProperties, ElementOfSeq, LenProperties DEF TypeOK
<1>2. longer[1].sig \in Sigs
  BY <1>1 DEF Entry
<1>. HIDE DEF longer
<1>3. \/ stream' = [stream EXCEPT ![lane] = longer] /\ UNCHANGED trimmed
      \/ stream' = [stream EXCEPT ![lane] = Tail(longer)] /\ trimmed' = trimmed \cup {longer[1].sig}
  BY DEF Append1, longer
<1>. QED BY <1>1, <1>2, <1>3 DEF TypeOK

(* The listener holds a signature exactly between its calls.               *)
ListenerShape == step = "recv" <=> holding = None

(* What a writer has in hand, by where it is in its loop.                  *)
WriterShape(w) ==
    /\ pc[w] \in {"peek", "read"} => job[w] = NoJob
    /\ pc[w] = "fetch" => job[w].todo = <<>> /\ job[w].retries = {} /\ job[w].added = {}
    /\ pc[w] # "fetch" => job[w].batch = {}
    /\ pc[w] \in {"publish", "ack"} => job[w].todo # <<>>
    /\ job[w].todo # <<>> => job[w].added = {}

StreamInv == TypeOK /\ ListenerShape /\ \A w \in Writers : WriterShape(w)

(* A failure that is counted keeps the counters in their bounds.           *)
LEMMA CountedTypes ==
  ASSUME TypeOK, NEW fault, Slips(fault) \/ Befalls(fault)
  PROVE  slips' \in 0..MaxMishaps /\ mishaps' \in 0..MaxMishaps
BY Setup DEF Slips, Befalls, Counted, TypeOK

(* The listener's steps keep the types.                                    *)
LEMMA ListenerTypes ==
  ASSUME StreamInv, Receives \/ ListenerStep \/ ListenerFails
  PROVE  StreamInv'
<1>0. TypeOK /\ ListenerShape /\ None \notin Sigs
  BY Setup DEF StreamInv
<1>1. ASSUME UNCHANGED <<pc, job>>, TypeOK', ListenerShape' PROVE StreamInv'
  BY <1>1 DEF StreamInv, WriterShape
<1>2. ASSUME NEW sig \in Sigs, NEW source \in Sources, ReceivePriority(sig) \/ Receive(sig, source)
      PROVE  StreamInv'
  <2>1. TypeOK'
    BY <1>0, <1>2 DEF ReceivePriority, Receive, Take, TypeOK, queueVars, outVars, faultVars
  <2>2. ListenerShape'
    BY <1>0, <1>2 DEF ReceivePriority, Receive, Take, ListenerShape
  <2>. QED BY <1>1, <1>2, <2>1, <2>2 DEF ReceivePriority, Receive
<1>3. ASSUME NEW sig \in Sigs, NEW source \in Sources, ClaimUnanswered(sig, source)
      PROVE  StreamInv'
  <2>1. slips' \in 0..MaxMishaps /\ mishaps' \in 0..MaxMishaps
    BY <1>0, <1>3, CountedTypes DEF ClaimUnanswered
  <2>2. TypeOK'
    BY <1>0, <1>3, <2>1 DEF ClaimUnanswered, Take, TypeOK, queueVars, outVars
  <2>3. ListenerShape'
    BY <1>0, <1>3 DEF ClaimUnanswered, ListenerShape
  <2>. QED BY <1>1, <1>3, <2>2, <2>3 DEF ClaimUnanswered
<1>4. ASSUME NEW lane \in Lanes, Append1(lane, [sig |-> holding, attempts |-> 0]), holding # None
      PROVE  stream' \in [Lanes -> Seq(Entry)] /\ trimmed' \in SUBSET Sigs
  <2>1. [sig |-> holding, attempts |-> 0] \in Entry
    BY <1>0, <1>4, Setup DEF TypeOK, Entry
  <2>. QED BY <1>0, <1>4, <2>1, Append1Types
<1>5. ASSUME NEW lane \in Lanes, Enqueue(lane) PROVE StreamInv'
  <2>1. stream' \in [Lanes -> Seq(Entry)] /\ trimmed' \in SUBSET Sigs
    BY <1>0, <1>4, <1>5 DEF Enqueue, ListenerShape
  <2>2. TypeOK'
    BY <1>0, <1>5, <2>1 DEF Enqueue, ListenerDone, TypeOK, outVars, faultVars
  <2>3. ListenerShape'
    BY <1>5 DEF Enqueue, ListenerDone, ListenerShape
  <2>. QED BY <1>1, <1>5, <2>2, <2>3 DEF Enqueue
<1>6. CASE EnqueueUnanswered
  <2>0. holding # None
    BY <1>0, <1>6 DEF EnqueueUnanswered, ListenerShape
  <2>1. stream' \in [Lanes -> Seq(Entry)] /\ trimmed' \in SUBSET Sigs
    BY <1>4, <1>6, <2>0 DEF EnqueueUnanswered, Lanes
  <2>2. slips' \in 0..MaxMishaps /\ mishaps' \in 0..MaxMishaps
    BY <1>0, <1>6, CountedTypes DEF EnqueueUnanswered
  <2>3. TypeOK'
    BY <1>0, <1>6, <2>1, <2>2 DEF EnqueueUnanswered, TypeOK, outVars
  <2>4. ListenerShape'
    BY <1>6, <2>0 DEF EnqueueUnanswered, ListenerShape
  <2>. QED BY <1>1, <1>6, <2>3, <2>4 DEF EnqueueUnanswered
<1>7. CASE EnqueueFails \/ Release
  <2>1. TypeOK'
    BY <1>0, <1>7 DEF EnqueueFails, Release, ListenerDone, TypeOK, queueVars, outVars, faultVars
  <2>2. ListenerShape'
    BY <1>0, <1>7 DEF EnqueueFails, Release, ListenerDone, ListenerShape
  <2>. QED BY <1>1, <1>7, <2>1, <2>2 DEF EnqueueFails, Release
<1>8. CASE PriorityFails \/ ReleaseFails
  <2>1. slips' \in 0..MaxMishaps /\ mishaps' \in 0..MaxMishaps
    BY <1>0, <1>8, CountedTypes DEF PriorityFails, ReleaseFails
  <2>2. TypeOK'
    BY <1>0, <1>8, <2>1 DEF PriorityFails, ReleaseFails, ListenerDone, TypeOK, queueVars, outVars
  <2>3. ListenerShape'
    BY <1>8 DEF PriorityFails, ReleaseFails, ListenerDone, ListenerShape
  <2>. QED BY <1>1, <1>8, <2>2, <2>3 DEF PriorityFails, ReleaseFails
<1>9. CASE Receives
  <2>1. Wallet \in Sources
    BY DEF Sources
  <2>. QED BY <1>2, <1>3, <1>9, <2>1 DEF Receives
<1>. QED BY <1>5, <1>6, <1>7, <1>8, <1>9 DEF ListenerStep, ListenerFails, Lanes

(* The listener leaves the writers and what they store alone.              *)
LEMMA ListenerAlone ==
  ASSUME Receives \/ ListenerStep \/ ListenerFails
  PROVE  UNCHANGED <<rows, published, dropped, pc, job, mishaps>>
<1>1. CASE Receives
  BY <1>1 DEF Receives, ReceivePriority, Receive, ClaimUnanswered, Slips, outVars, faultVars
<1>2. CASE ListenerStep \/ ListenerFails
  BY <1>2 DEF ListenerStep, ListenerFails, Enqueue, Release, EnqueueFails, EnqueueUnanswered,
              PriorityFails, ReleaseFails, Slips, outVars, faultVars
<1>. QED BY <1>1, <1>2

(* A writer's step leaves the listener and the other writers alone.        *)
LEMMA OneWriter ==
  ASSUME StreamInv, TypeOK', NEW w \in Writers, UNCHANGED listenerVars, WriterShape(w)',
         \A v \in Writers \ {w} : pc'[v] = pc[v] /\ job'[v] = job[v]
  PROVE  StreamInv'
BY DEF StreamInv, ListenerShape, WriterShape, listenerVars

(* Reading a batch keeps the types.                                        *)
LEMMA ReadTypes ==
  ASSUME StreamInv, NEW w \in Writers, NEW lane \in Lanes, ReadBatch(w, lane)
  PROVE  StreamInv'
<1>1. PICK n \in Nat, batch \in SUBSET Entry :
        /\ n <= Len(stream[lane])
        /\ batch = {stream[lane][i] : i \in 1..n}
        /\ stream' = [stream EXCEPT ![lane] = SubSeq(@, n + 1, Len(@))]
        /\ pending' = [pending EXCEPT ![lane] = @ \cup (batch \X {w})]
        /\ job' = [job EXCEPT ![w] = [NoJob EXCEPT !.lane = lane, !.batch = batch]]
  <2>. DEFINE n == IF Len(stream[lane]) < BatchSize THEN Len(stream[lane]) ELSE BatchSize
              batch == {stream[lane][i] : i \in 1..n}
  <2>1. stream[lane] \in Seq(Entry) /\ Len(stream[lane]) \in Nat
    BY LenProperties DEF StreamInv, TypeOK
  <2>2. n \in Nat /\ n <= Len(stream[lane])
    BY <2>1, Setup
  <2>3. batch \in SUBSET Entry
    BY <2>1, <2>2, ElementOfSeq
  <2>. QED BY <2>2, <2>3 DEF ReadBatch
<1>2. SubSeq(stream[lane], n + 1, Len(stream[lane])) \in Seq(Entry)
  <2>1. stream[lane] \in Seq(Entry)
    BY DEF StreamInv, TypeOK
  <2>2. Len(stream[lane]) \in Nat /\ \A i \in n + 1 .. Len(stream[lane]) : stream[lane][i] \in Entry
    BY <1>1, <2>1, LenProperties, ElementOfSeq
  <2>. QED BY <1>1, <2>2, SubSeqProperties
<1>3. [NoJob EXCEPT !.lane = lane, !.batch = batch] \in Job
  BY NoJobType DEF Job
<1>4. TypeOK'
  <2>1. stream' \in [Lanes -> Seq(Entry)]
    BY <1>1, <1>2 DEF StreamInv, TypeOK
  <2>2. pending' \in [Lanes -> SUBSET (Entry \X Writers)]
    BY <1>1 DEF StreamInv, TypeOK
  <2>3. job' \in [Writers -> Job] /\ pc' \in [Writers -> Labels]
    BY <1>1, <1>3 DEF ReadBatch, Goto, StreamInv, TypeOK, Labels
  <2>. QED BY <2>1, <2>2, <2>3 DEF ReadBatch, StreamInv, TypeOK, Labels, listenerVars, outVars, faultVars
<1>5. WriterShape(w)'
  BY <1>1 DEF ReadBatch, Goto, StreamInv, TypeOK, WriterShape, NoJob
<1>. QED BY <1>1, <1>4, <1>5, OneWriter DEF ReadBatch, Goto, StreamInv, TypeOK

(* Fetching the batch keeps the types.                                     *)
LEMMA FetchTypes ==
  ASSUME StreamInv, NEW w \in Writers, Fetch(w)
  PROVE  StreamInv'
<1>0. PICK found \in SUBSET job[w].batch : \E todo \in InSlotOrder(found) :
        job' = [job EXCEPT ![w] = [NoJob EXCEPT !.lane = job[w].lane, !.todo = todo,
                                                !.retries = job[w].batch \ found]]
  BY DEF Fetch
<1>1. PICK todo \in InSlotOrder(found) :
        job' = [job EXCEPT ![w] = [NoJob EXCEPT !.lane = job[w].lane, !.todo = todo,
                                                !.retries = job[w].batch \ found]]
  BY <1>0
<1>2. job[w] \in Job /\ job[w].batch \in SUBSET Entry /\ job[w].lane \in Lanes
  BY DEF StreamInv, TypeOK, Job
<1>3. todo \in Seq(Entry)
  BY <1>2, OrderedEntries
<1>4. [NoJob EXCEPT !.lane = job[w].lane, !.todo = todo, !.retries = job[w].batch \ found] \in Job
  BY <1>2, <1>3, NoJobType DEF Job
<1>5. job' \in [Writers -> Job] /\ pc' \in [Writers -> Labels]
  BY <1>1, <1>4 DEF Fetch, Goto, StreamInv, TypeOK, Labels
<1>6. TypeOK'
  BY <1>5 DEF Fetch, StreamInv, TypeOK, Labels, listenerVars, queueVars, outVars, faultVars
<1>7. WriterShape(w)'
  BY <1>1 DEF Fetch, Goto, StreamInv, TypeOK, WriterShape, NoJob
<1>. QED BY <1>1, <1>6, <1>7, OneWriter DEF Fetch, Goto, StreamInv, TypeOK

(* The entry at hand is the first of the batch; the rest is its tail.      *)
LEMMA HeadOfTodo ==
  ASSUME StreamInv, NEW w \in Writers, job[w].todo # <<>>
  PROVE  /\ AtHand(w) \in Entry /\ AtHand(w).sig \in Sigs
         /\ job[w].todo[1] = AtHand(w) /\ 1 \in DOMAIN job[w].todo
         /\ Tail(job[w].todo) \in Seq(Entry)
         /\ \A i \in DOMAIN job[w].todo :
              i # 1 => i - 1 \in DOMAIN Tail(job[w].todo) /\ Tail(job[w].todo)[i - 1] = job[w].todo[i]
<1>1. job[w].todo \in Seq(Entry)
  BY DEF StreamInv, TypeOK, Job
<1>2. AtHand(w) \in Entry /\ Tail(job[w].todo) \in Seq(Entry)
  BY <1>1, HeadTailProperties DEF AtHand
<1>3. Len(job[w].todo) \in Nat \ {0} /\ DOMAIN job[w].todo = 1..Len(job[w].todo)
  BY <1>1, LenProperties, EmptySeq
<1>4. DOMAIN Tail(job[w].todo) = 1..Len(job[w].todo) - 1
  BY <1>1, HeadTailProperties, LenProperties
<1>5. job[w].todo[1] = AtHand(w) /\ 1 \in DOMAIN job[w].todo
  BY <1>1, <1>3 DEF AtHand
<1>6. ASSUME NEW i \in DOMAIN job[w].todo, i # 1
      PROVE  i - 1 \in DOMAIN Tail(job[w].todo) /\ Tail(job[w].todo)[i - 1] = job[w].todo[i]
  <2>1. i - 1 \in 1..Len(Tail(job[w].todo)) /\ i \in Nat
    BY <1>1, <1>3, <1>6, HeadTailProperties
  <2>. QED BY <1>1, <2>1, HeadTailProperties, LenProperties
<1>. QED BY <1>2, <1>5, <1>6 DEF Entry

(* A writer's job with other entries in hand.                              *)
LEMMA JobUpdated ==
  ASSUME TypeOK, NEW w \in Writers, NEW todo \in Seq(Entry), NEW retries \in SUBSET Entry,
         NEW added \in SUBSET Entry
  PROVE  /\ [job EXCEPT ![w].todo = todo] \in [Writers -> Job]
         /\ [job EXCEPT ![w].todo = todo, ![w].retries = retries] \in [Writers -> Job]
         /\ [job EXCEPT ![w].added = added] \in [Writers -> Job]
         /\ [job EXCEPT ![w].retries = retries, ![w].added = added] \in [Writers -> Job]
<1>1. job[w] \in Job
  BY DEF TypeOK
<1>2. /\ [job[w] EXCEPT !.todo = todo] \in Job
      /\ [job[w] EXCEPT !.todo = todo, !.retries = retries] \in Job
      /\ [job[w] EXCEPT !.added = added] \in Job
      /\ [job[w] EXCEPT !.retries = retries, !.added = added] \in Job
  BY <1>1 DEF Job
<1>. QED BY <1>2 DEF TypeOK

(* Steps of the persisting loop.                                           *)
LEMMA PersistTypes ==
  ASSUME StreamInv, NEW w \in Writers,
         Persist(w) \/ PersistFails(w) \/ CommitUnanswered(w) \/ Publish(w) \/ PublishFails(w)
           \/ Ack(w)
  PROVE  StreamInv'
<1>0. TypeOK /\ WriterShape(w) /\ job[w].todo # <<>> /\ pc[w] \in {"persist", "publish", "ack"}
  BY DEF StreamInv, WriterShape, Persist, PersistFails, CommitUnanswered, Publish, PublishFails, Ack
<1>1. CASE Persist(w)
  <2>1. TypeOK'
    BY <1>0, <1>1, HeadOfTodo DEF Persist, Goto, TypeOK, listenerVars, queueVars, faultVars
  <2>2. WriterShape(w)'
    BY <1>0, <1>1 DEF Persist, Goto, TypeOK, WriterShape
  <2>. QED BY <1>0, <1>1, <2>1, <2>2, OneWriter DEF Persist, Goto, TypeOK
<1>2. CASE Publish(w)
  <2>1. TypeOK'
    BY <1>0, <1>2, HeadOfTodo DEF Publish, Goto, TypeOK, listenerVars, queueVars, faultVars
  <2>2. WriterShape(w)'
    BY <1>0, <1>2 DEF Publish, Goto, TypeOK, WriterShape
  <2>. QED BY <1>0, <1>2, <2>1, <2>2, OneWriter DEF Publish, Goto, TypeOK
<1>3. ASSUME GiveBack(w), slips' \in 0..MaxMishaps, mishaps' \in 0..MaxMishaps,
             rows' \subseteq Sigs, published' \in [Sigs -> Nat],
             UNCHANGED <<listenerVars, queueVars, dropped>>
      PROVE  StreamInv'
  <2>0. job[w].retries \cup {AtHand(w)} \in SUBSET Entry /\ Tail(job[w].todo) \in Seq(Entry)
    BY <1>0, HeadOfTodo DEF TypeOK, Job
  <2>1. job' \in [Writers -> Job] /\ pc' \in [Writers -> Labels]
    BY <1>0, <1>3, <2>0, JobUpdated DEF GiveBack, Goto, TypeOK, Labels
  <2>2. TypeOK'
    BY <1>0, <1>3, <2>1 DEF TypeOK, Labels, listenerVars, queueVars
  <2>3. WriterShape(w)'
    BY <1>0, <1>3 DEF GiveBack, Goto, TypeOK, WriterShape, Job
  <2>. QED BY <1>0, <1>3, <2>2, <2>3, OneWriter DEF GiveBack, Goto, TypeOK
<1>4. CASE PersistFails(w) \/ CommitUnanswered(w) \/ PublishFails(w)
  <2>1. slips' \in 0..MaxMishaps /\ mishaps' \in 0..MaxMishaps
    <3>1. CASE PersistFails(w)
      BY <1>0, <3>1 DEF PersistFails, TypeOK, faultVars
    <3>2. CASE CommitUnanswered(w) \/ PublishFails(w)
      BY <1>0, <3>2, CountedTypes DEF CommitUnanswered, PublishFails
    <3>. QED BY <1>4, <3>1, <3>2
  <2>2. rows' \subseteq Sigs /\ published' \in [Sigs -> Nat]
    BY <1>0, <1>4, HeadOfTodo DEF PersistFails, CommitUnanswered, PublishFails, TypeOK, outVars
  <2>. QED BY <1>3, <1>4, <2>1, <2>2 DEF PersistFails, CommitUnanswered, PublishFails, outVars
<1>5. CASE Ack(w)
  <2>1. job' \in [Writers -> Job] /\ pc' \in [Writers -> Labels]
    BY <1>0, <1>5, HeadOfTodo, JobUpdated DEF Ack, Goto, TypeOK, Labels
  <2>2. pending' \in [Lanes -> SUBSET (Entry \X Writers)]
    BY <1>0, <1>5 DEF Ack, Acked, TypeOK
  <2>3. TypeOK'
    BY <1>0, <1>5, <2>1, <2>2 DEF Ack, TypeOK, Labels, listenerVars, outVars, faultVars
  <2>4. WriterShape(w)'
    BY <1>0, <1>5 DEF Ack, Goto, TypeOK, WriterShape, Job
  <2>. QED BY <1>0, <1>5, <2>3, <2>4, OneWriter DEF Ack, Goto, TypeOK
<1>. QED BY <1>1, <1>2, <1>4, <1>5

(* Steps of the requeueing.                                                *)
LEMMA RequeueTypes ==
  ASSUME StreamInv, NEW w \in Writers, NEW entry \in Entry,
         Drop(w, entry) \/ Requeue(w, entry) \/ AckRequeued(w, entry)
  PROVE  StreamInv'
<1>0. TypeOK /\ WriterShape(w) /\ Retrying(w) /\ entry.sig \in Sigs /\ job[w].lane \in Lanes
  BY DEF StreamInv, Drop, Requeue, AckRequeued, Entry, TypeOK, Job
<1>1. pending' \in [Lanes -> SUBSET (Entry \X Writers)]
  <2>1. Acked(w, entry) \in [Lanes -> SUBSET (Entry \X Writers)]
    BY <1>0 DEF Acked, TypeOK
  <2>2. pending \in [Lanes -> SUBSET (Entry \X Writers)]
    BY <1>0 DEF TypeOK
  <2>3. pending' = pending \/ pending' = Acked(w, entry)
    BY DEF Drop, Requeue, AckRequeued
  <2>. QED BY <2>1, <2>2, <2>3
<1>2. /\ job[w].retries \ {entry} \in SUBSET Entry /\ job[w].added \ {entry} \in SUBSET Entry
      /\ job[w].added \cup {entry} \in SUBSET Entry
  BY <1>0 DEF TypeOK, Job
<1>3. job' \in [Writers -> Job]
  <2>0. job[w].todo \in Seq(Entry)
    BY <1>0 DEF TypeOK, Job
  <2>1. \/ job' = [job EXCEPT ![w].added = job[w].added \cup {entry}]
        \/ job' = [job EXCEPT ![w].retries = job[w].retries \ {entry},
                             ![w].added = job[w].added \ {entry}]
    BY DEF Drop, Requeue, AckRequeued, Settle
  <2>2. CASE job' = [job EXCEPT ![w].added = job[w].added \cup {entry}]
    BY <1>0, <1>2, <2>0, <2>2, JobUpdated
  <2>3. CASE job' = [job EXCEPT ![w].retries = job[w].retries \ {entry},
                               ![w].added = job[w].added \ {entry}]
    BY <1>0, <1>2, <2>0, <2>3, JobUpdated
  <2>. QED BY <2>1, <2>2, <2>3
<1>4. stream' \in [Lanes -> Seq(Entry)] /\ trimmed' \in SUBSET Sigs
  <2>1. CASE Requeue(w, entry)
    <3>1. [entry EXCEPT !.attempts = @ + 1] \in Entry
      BY <2>1, Setup DEF Requeue, LastAttempt, Entry
    <3>. QED BY <1>0, <2>1, <3>1, Append1Types DEF Requeue
  <2>2. CASE Drop(w, entry) \/ AckRequeued(w, entry)
    BY <1>0, <2>2 DEF Drop, AckRequeued, TypeOK
  <2>. QED BY <2>1, <2>2
<1>5. UNCHANGED <<listenerVars, rows, published, pc, faultVars>> /\ dropped' \in SUBSET Sigs
  BY <1>0 DEF Drop, Requeue, AckRequeued, TypeOK, outVars
<1>6. TypeOK'
  BY <1>0, <1>1, <1>3, <1>4, <1>5 DEF TypeOK, listenerVars, faultVars
<1>7. /\ job'[w].todo = job[w].todo /\ job'[w].batch = job[w].batch
      /\ \A v \in Writers \ {w} : job'[v] = job[v]
  BY <1>0 DEF Drop, Requeue, AckRequeued, Settle, TypeOK, Job
<1>8. WriterShape(w)'
  BY <1>0, <1>5, <1>7 DEF WriterShape, Retrying
<1>. QED BY <1>5, <1>6, <1>7, <1>8, OneWriter

(* A writer's steps, failures, claims and crashes keep the types.          *)
LEMMA WriterTypes ==
  ASSUME StreamInv, NEW w \in Writers,
         WriterStep(w) \/ PeekEmpty(w) \/ WriterFails(w) \/ Autoclaim(w) \/ Crash(w)
  PROVE  StreamInv'
<1>0. TypeOK /\ WriterShape(w)
  BY DEF StreamInv
<1>1. CASE PeekPriority(w) \/ ReadMain(w)
  BY <1>1, ReadTypes DEF PeekPriority, ReadMain, Lanes
<1>2. CASE PeekEmpty(w) \/ ReadEmpty(w)
  <2>1. TypeOK'
    BY <1>0, <1>2 DEF PeekEmpty, ReadEmpty, Goto, TypeOK, listenerVars, queueVars, outVars,
                        faultVars
  <2>2. WriterShape(w)'
    BY <1>0, <1>2 DEF PeekEmpty, ReadEmpty, Goto, TypeOK, WriterShape
  <2>. QED BY <1>0, <1>2, <2>1, <2>2, OneWriter DEF PeekEmpty, ReadEmpty, Goto, TypeOK
<1>3. ASSUME job' = [job EXCEPT ![w] = NoJob], Goto(w, "peek"), slips' \in 0..MaxMishaps,
             mishaps' \in 0..MaxMishaps, UNCHANGED <<listenerVars, queueVars, outVars>>
      PROVE  StreamInv'
  <2>1. TypeOK'
    BY <1>0, <1>3, NoJobType DEF Goto, TypeOK, listenerVars, queueVars, outVars
  <2>2. WriterShape(w)'
    BY <1>0, <1>3 DEF Goto, TypeOK, WriterShape, NoJob
  <2>. QED BY <1>0, <1>3, <2>1, <2>2, OneWriter DEF Goto, TypeOK
<1>4. CASE EndBatch(w) \/ LoopError(w) \/ Crash(w)
  <2>1. slips' \in 0..MaxMishaps /\ mishaps' \in 0..MaxMishaps
    <3>1. CASE EndBatch(w)
      BY <1>0, <3>1 DEF EndBatch, TypeOK, faultVars
    <3>2. CASE LoopError(w) \/ Crash(w)
      BY <1>0, <3>2, CountedTypes DEF LoopError, Crash
    <3>. QED BY <1>4, <3>1, <3>2
  <2>. QED BY <1>3, <1>4, <2>1 DEF EndBatch, LoopError, Crash
<1>5. CASE Autoclaim(w)
  <2>1. PICK lane \in Lanes : \E x \in pending[lane] :
          pending' = [pending EXCEPT ![lane] = (@ \ {x}) \cup {<<x[1], w>>}]
    BY <1>5 DEF Autoclaim
  <2>2. pending' \in [Lanes -> SUBSET (Entry \X Writers)]
    BY <1>0, <2>1 DEF TypeOK
  <2>3. TypeOK'
    BY <1>0, <1>5, <2>2 DEF Autoclaim, TypeOK, listenerVars, outVars, faultVars
  <2>. QED BY <1>0, <1>5, <2>3, OneWriter DEF Autoclaim, WriterShape
<1>. QED BY <1>1, <1>2, <1>4, <1>5, FetchTypes, PersistTypes, RequeueTypes
         DEF WriterStep, WriterFails

(* The streams start well typed.                                           *)
LEMMA StreamInit == Init => StreamInv
<1> SUFFICES ASSUME Init PROVE StreamInv
  OBVIOUS
<1>1. TypeOK
  <2>1. notices \subseteq Sigs \X Sources
    BY Setup DEF Init, Sources
  <2>2. stream \in [Lanes -> Seq(Entry)] /\ pending \in [Lanes -> SUBSET (Entry \X Writers)]
    BY EmptySeq DEF Init
  <2>3. published \in [Sigs -> Nat] /\ slips \in 0..MaxMishaps /\ mishaps \in 0..MaxMishaps
    BY Setup DEF Init
  <2>4. pc \in [Writers -> Labels] /\ job \in [Writers -> Job]
    BY NoJobType DEF Init, Labels
  <2>. QED BY <2>1, <2>2, <2>3, <2>4 DEF Init, TypeOK, Labels
<1>2. ListenerShape
  BY DEF Init, ListenerShape
<1>3. \A w \in Writers : WriterShape(w)
  BY DEF Init, WriterShape, NoJob
<1>. QED BY <1>1, <1>2, <1>3 DEF StreamInv

(* Every step keeps the types.                                             *)
LEMMA StreamStep == StreamInv /\ [Next]_vars => StreamInv'
<1>1. StreamInv /\ UNCHANGED vars => StreamInv'
  BY DEF StreamInv, TypeOK, ListenerShape, WriterShape, vars, listenerVars, queueVars, outVars, faultVars
<1>. QED BY <1>1, ListenerTypes, WriterTypes DEF Next

(* The types hold throughout.                                              *)
LEMMA StreamCorrect == Spec => []StreamInv
BY StreamInit, StreamStep, PTL DEF Spec

(* Every variable keeps its type, for any number of writers, transactions  *)
(* and mishaps.                                                            *)
THEOREM TypeCorrect == Spec => []TypeOK
<1>1. StreamInv => TypeOK
  BY DEF StreamInv
<1>. QED BY <1>1, StreamCorrect, PTL

-----------------------------------------------------------------------------
(* One publication.                                                        *)

(* A writer publishes a row it has just inserted: no other publishes the   *)
(* same one, and none has been published for it before.                    *)
PublicationShape ==
    /\ \A s \in Sigs : published[s] <= 1 /\ (published[s] > 0 => s \in rows)
    /\ \A w \in Writers : pc[w] = "publish" =>
         AtHand(w).sig \in rows /\ published[AtHand(w).sig] = 0
    /\ \A v, w \in Writers : pc[v] = "publish" /\ pc[w] = "publish" /\ v # w =>
         AtHand(v).sig # AtHand(w).sig

PubInv == StreamInv /\ PublicationShape

(* A step that neither publishes nor is about to.                          *)
LEMMA PublicationKept ==
  ASSUME PubInv, rows \subseteq rows', UNCHANGED published,
         \A w \in Writers : pc'[w] = "publish" => pc[w] = "publish" /\ job'[w].todo = job[w].todo
  PROVE  PublicationShape'
BY DEF PubInv, PublicationShape, AtHand

(* A commit leaves a row stored and one writer about to publish it.        *)
LEMMA PersistPublication ==
  ASSUME PubInv, NEW w \in Writers, Persist(w)
  PROVE  PublicationShape'
<1>0. StreamInv /\ TypeOK /\ PublicationShape /\ AtHand(w).sig \in Sigs
  BY HeadOfTodo DEF PubInv, StreamInv, Persist
<1>1. /\ rows' = rows \cup {AtHand(w).sig} /\ published' = published
      /\ \A v \in Writers : AtHand(v)' = AtHand(v)
      /\ \A v \in Writers \ {w} : pc'[v] = pc[v]
      /\ pc'[w] = "publish" => AtHand(w).sig \notin rows
  BY <1>0 DEF Persist, Goto, TypeOK, AtHand
<1>2. \A s \in Sigs : published'[s] <= 1 /\ (published'[s] > 0 => s \in rows')
  BY <1>0, <1>1 DEF PublicationShape
<1>3. ASSUME NEW v \in Writers, pc'[v] = "publish"
      PROVE  AtHand(v).sig \in rows' /\ published'[AtHand(v).sig] = 0
  <2>1. CASE v = w
    BY <1>0, <1>1, <1>3, <2>1 DEF PublicationShape, TypeOK
  <2>2. CASE v # w
    BY <1>0, <1>1, <1>3, <2>2 DEF PublicationShape
  <2>. QED BY <2>1, <2>2
<1>4. ASSUME NEW u \in Writers, NEW v \in Writers, pc'[u] = "publish", pc'[v] = "publish", u # v
      PROVE  AtHand(u).sig # AtHand(v).sig
  BY <1>0, <1>1, <1>4 DEF PublicationShape
<1>. QED BY <1>1, <1>2, <1>3, <1>4 DEF PublicationShape

(* A publication, answered or not, is of a stored row, and the first of it. *)
LEMMA PublishPublication ==
  ASSUME PubInv, NEW w \in Writers, pc[w] = "publish", rows' = rows,
         published' = [published EXCEPT ![AtHand(w).sig] = @ + 1],
         pc'[w] # "publish", \A v \in Writers \ {w} : pc'[v] = pc[v] /\ job'[v] = job[v]
  PROVE  PublicationShape'
<1>0. StreamInv /\ TypeOK /\ WriterShape(w) /\ PublicationShape /\ AtHand(w).sig \in Sigs
  BY HeadOfTodo DEF PubInv, StreamInv, WriterShape
<1>1. \A v \in Writers \ {w} : AtHand(v)' = AtHand(v)
  BY DEF AtHand
<1>2. \A s \in Sigs : published'[s] <= 1 /\ (published'[s] > 0 => s \in rows')
  BY <1>0, <1>1 DEF PublicationShape, TypeOK
<1>3. ASSUME NEW v \in Writers, pc'[v] = "publish"
      PROVE  v # w /\ AtHand(v).sig \in rows' /\ published'[AtHand(v).sig] = 0
  <2>1. v # w /\ pc[v] = "publish"
    BY <1>3
  <2>2. AtHand(v).sig # AtHand(w).sig /\ AtHand(v).sig \in rows /\ published[AtHand(v).sig] = 0
    BY <1>0, <1>1, <2>1 DEF PublicationShape
  <2>. QED BY <1>0, <1>1, <2>1, <2>2 DEF TypeOK
<1>4. ASSUME NEW u \in Writers, NEW v \in Writers, pc'[u] = "publish", pc'[v] = "publish", u # v
      PROVE  AtHand(u).sig # AtHand(v).sig
  BY <1>0, <1>1, <1>3, <1>4 DEF PublicationShape
<1>. QED BY <1>1, <1>2, <1>3, <1>4 DEF PublicationShape

(* Nothing is published at the start.                                      *)
LEMMA PubInit == Init => PubInv
BY StreamInit DEF Init, PubInv, PublicationShape

(* Every step keeps the order of insert and publication.                   *)
LEMMA PubStep ==
  ASSUME PubInv, [Next]_vars
  PROVE  PubInv'
<1>0. StreamInv /\ StreamInv' /\ TypeOK
  BY StreamStep DEF PubInv, StreamInv
<1>1. CASE Receives \/ ListenerStep \/ ListenerFails \/ UNCHANGED vars
  <2>1. UNCHANGED <<rows, published, pc, job>>
    BY <1>1, ListenerAlone DEF vars, outVars
  <2>. QED BY <1>0, <2>1, PublicationKept DEF PubInv
<1>2. ASSUME NEW w \in Writers,
             WriterStep(w) \/ PeekEmpty(w) \/ WriterFails(w) \/ Autoclaim(w) \/ Crash(w)
      PROVE  PublicationShape'
  <2>1. CASE PeekPriority(w) \/ ReadMain(w) \/ PeekEmpty(w) \/ ReadEmpty(w) \/ Fetch(w) \/ Ack(w)
    <3>1. UNCHANGED <<rows, published>>
      BY <2>1 DEF PeekPriority, ReadMain, ReadBatch, PeekEmpty, ReadEmpty, Fetch, Ack, outVars
    <3>2. pc'[w] # "publish" /\ \A v \in Writers \ {w} : pc'[v] = pc[v] /\ job'[v] = job[v]
      BY <1>0, <2>1 DEF PeekPriority, ReadMain, ReadBatch, PeekEmpty, ReadEmpty, Fetch, Ack, Goto,
                        TypeOK
    <3>. QED BY <3>1, <3>2, PublicationKept
  <2>2. CASE EndBatch(w) \/ PersistFails(w) \/ CommitUnanswered(w) \/ LoopError(w) \/ Crash(w)
    <3>1. rows \subseteq rows' /\ UNCHANGED published
      BY <2>2 DEF EndBatch, PersistFails, CommitUnanswered, LoopError, Crash, outVars
    <3>2. pc'[w] # "publish" /\ \A v \in Writers \ {w} : pc'[v] = pc[v] /\ job'[v] = job[v]
      BY <1>0, <2>2 DEF EndBatch, PersistFails, CommitUnanswered, LoopError, Crash, GiveBack, Goto,
                        TypeOK
    <3>. QED BY <3>1, <3>2, PublicationKept
  <2>5. CASE Publish(w) \/ PublishFails(w)
    <3>1. /\ pc[w] = "publish" /\ rows' = rows
          /\ \/ UNCHANGED published
             \/ published' = [published EXCEPT ![AtHand(w).sig] = @ + 1]
      BY <2>5 DEF Publish, PublishFails
    <3>2. pc'[w] # "publish" /\ \A v \in Writers \ {w} : pc'[v] = pc[v] /\ job'[v] = job[v]
      BY <1>0, <2>5 DEF Publish, PublishFails, GiveBack, Goto, TypeOK
    <3>. QED BY <3>1, <3>2, PublicationKept, PublishPublication
  <2>3. CASE Autoclaim(w)
    BY <2>3, PublicationKept DEF Autoclaim, outVars
  <2>4. ASSUME NEW entry \in Entry, Drop(w, entry) \/ Requeue(w, entry) \/ AckRequeued(w, entry)
        PROVE  PublicationShape'
    <3>1. UNCHANGED <<rows, published, pc>> /\ pc[w] # "publish"
      BY <2>4 DEF Drop, Requeue, AckRequeued, Retrying, outVars
    <3>2. \A v \in Writers \ {w} : job'[v] = job[v]
      BY <1>0, <2>4 DEF Drop, Requeue, AckRequeued, Settle, TypeOK
    <3>. QED BY <3>1, <3>2, PublicationKept
  <2>. QED BY <1>2, <2>1, <2>2, <2>3, <2>4, <2>5, PersistPublication DEF WriterStep, WriterFails
<1>. QED BY <1>0, <1>1, <1>2 DEF Next, PubInv

(* A leader's trade goes out on events:trades at most once, whatever the   *)
(* number of copies, writers and mishaps.                                  *)
THEOREM PublishedOnceHolds == Spec => []PublishedOnce
<1>1. PubInv => PublishedOnce
  BY DEF PubInv, PublicationShape, PublishedOnce
<1>2. PubInv /\ [Next]_vars => PubInv'
  BY PubStep
<1>. QED BY <1>1, <1>2, PubInit, PTL DEF Spec

-----------------------------------------------------------------------------
(* Claims.                                                                 *)

(* An entry in hand that has not been put on the stream again.             *)
Live(w, e) == InHand(w, e) /\ e \notin job[w].added
LiveFor(s, w) == \E e \in Entry : e.sig = s /\ Live(w, e)

Queued(s) == \E lane \in Lanes : Unread(s, lane)
Backed(s) == holding = s \/ Settled(s) \/ Queued(s) \/ \E w \in Writers : LiveFor(s, w)
Adrift == {s \in claimed : ~Backed(s)}

(* What a writer that dies takes with it.                                  *)
Hand(w) == {e \in Entry : InHand(w, e)}
HandSigs(w) == {e.sig : e \in Hand(w)}

(* An entry is acknowledged only once its row is there.                    *)
AckedStored == \A w \in Writers : pc[w] \in {"publish", "ack"} => AtHand(w).sig \in rows
HandBound == \A w \in Writers : Cardinality(Hand(w)) <= BatchSize
AdriftCounted == Cardinality(Adrift) <= slips + BatchSize * mishaps

ClaimInv == StreamInv /\ AckedStored /\ HandBound /\ AdriftCounted

(* A writer reaches publish or ack only once the row is stored.            *)
LEMMA AckedStoredStep ==
  ASSUME ClaimInv, [Next]_vars
  PROVE  AckedStored'
<1>0. StreamInv /\ TypeOK /\ AckedStored /\ rows \subseteq rows'
  <2>1. ASSUME Receives \/ ListenerStep \/ ListenerFails \/ UNCHANGED vars
        PROVE  rows \subseteq rows'
    BY <2>1, ListenerAlone DEF vars, outVars
  <2>2. ASSUME NEW w \in Writers, WriterStep(w) PROVE rows \subseteq rows'
    BY <2>2 DEF WriterStep, PeekPriority, ReadMain, ReadBatch, ReadEmpty, Fetch,
                Persist, Publish, Ack, EndBatch, Drop, Requeue, AckRequeued, outVars
  <2>3. ASSUME NEW w \in Writers, PeekEmpty(w) \/ WriterFails(w) \/ Autoclaim(w) \/ Crash(w)
        PROVE  rows \subseteq rows'
    BY <2>3 DEF PeekEmpty, WriterFails, PersistFails, CommitUnanswered, PublishFails, LoopError,
                Autoclaim, Crash, outVars
  <2>. QED BY <2>1, <2>2, <2>3 DEF Next, ClaimInv, StreamInv
<1>1. ASSUME NEW v \in Writers, pc'[v] \in {"publish", "ack"}, UNCHANGED <<pc, job>>
      PROVE  AtHand(v)'.sig \in rows'
  BY <1>0, <1>1 DEF AckedStored, AtHand
<1>2. CASE Receives \/ ListenerStep \/ ListenerFails \/ UNCHANGED vars
  <2>1. UNCHANGED <<pc, job>>
    BY <1>2, ListenerAlone DEF vars
  <2>. QED BY <1>1, <2>1 DEF AckedStored
<1>3. ASSUME NEW w \in Writers,
             WriterStep(w) \/ PeekEmpty(w) \/ WriterFails(w) \/ Autoclaim(w) \/ Crash(w)
      PROVE  AckedStored'
  <2>1. ASSUME NEW v \in Writers \ {w}, pc'[v] = pc[v], job'[v] = job[v], pc'[v] \in {"publish", "ack"}
        PROVE  AtHand(v)'.sig \in rows'
    BY <1>0, <2>1 DEF AckedStored, AtHand
  <2>2. CASE PeekPriority(w) \/ ReadMain(w) \/ PeekEmpty(w) \/ ReadEmpty(w) \/ Fetch(w) \/ Ack(w)
             \/ EndBatch(w) \/ WriterFails(w) \/ Crash(w)
    <3>1. pc'[w] \notin {"publish", "ack"} /\ \A v \in Writers \ {w} : pc'[v] = pc[v] /\ job'[v] = job[v]
      BY <1>0, <2>2 DEF PeekPriority, ReadMain, ReadBatch, PeekEmpty, ReadEmpty, Fetch, Ack, EndBatch,
                        WriterFails, PersistFails, CommitUnanswered, PublishFails, LoopError, Crash,
                        GiveBack, Goto, TypeOK
    <3>. QED BY <2>1, <3>1 DEF AckedStored
  <2>3. CASE Persist(w) \/ Publish(w)
    <3>1. /\ job' = job /\ \A v \in Writers \ {w} : pc'[v] = pc[v]
          /\ pc[w] = "publish" \/ rows' = rows \cup {AtHand(w).sig}
      BY <1>0, <2>3 DEF Persist, Publish, Goto, TypeOK
    <3>2. AtHand(w)'.sig \in rows'
      BY <1>0, <3>1 DEF AckedStored, AtHand
    <3>. QED BY <2>1, <3>1, <3>2 DEF AckedStored
  <2>4. CASE Autoclaim(w)
    BY <1>1, <2>4 DEF Autoclaim, AckedStored
  <2>5. ASSUME NEW entry \in Entry, Drop(w, entry) \/ Requeue(w, entry) \/ AckRequeued(w, entry)
        PROVE  AckedStored'
    <3>1. pc' = pc /\ pc[w] = "persist" /\ \A v \in Writers \ {w} : job'[v] = job[v]
      BY <1>0, <2>5 DEF Drop, Requeue, AckRequeued, Retrying, Settle, TypeOK
    <3>. QED BY <2>1, <3>1 DEF AckedStored
  <2>. QED BY <1>3, <2>2, <2>3, <2>4, <2>5 DEF WriterStep
<1>. QED BY <1>2, <1>3 DEF Next

(* The tail of what is to persist has no entry of its own.                 *)
LEMMA TailOfTodo ==
  ASSUME NEW seq \in Seq(Entry), seq # <<>>, NEW j \in DOMAIN Tail(seq)
  PROVE  j + 1 \in DOMAIN seq /\ Tail(seq)[j] = seq[j + 1]
<1>1. Len(seq) \in Nat \ {0} /\ DOMAIN seq = 1..Len(seq)
  BY LenProperties, EmptySeq
<1>2. DOMAIN Tail(seq) = 1..Len(seq) - 1
  BY HeadTailProperties, LenProperties
<1>. QED BY <1>1, <1>2, HeadTailProperties

(* A writer's hand is finite.                                              *)
LEMMA HandFinite ==
  ASSUME NEW w
  PROVE  /\ IsFiniteSet(Hand(w)) /\ Cardinality(Hand(w)) \in Nat
         /\ IsFiniteSet(HandSigs(w)) /\ Cardinality(HandSigs(w)) <= Cardinality(Hand(w))
         /\ Cardinality(HandSigs(w)) \in Nat
<1>1. IsFiniteSet(Hand(w)) /\ Cardinality(Hand(w)) \in Nat
  <2>1. Hand(w) \subseteq Entry
    BY DEF Hand
  <2>. QED BY <2>1, EntryFinite, FS_Subset, FS_CardinalityType
<1>. DEFINE f == [e \in Hand(w) |-> e.sig]
<1>2. f \in Surjection(Hand(w), HandSigs(w))
  BY DEF HandSigs, Surjection
<1>3. /\ IsFiniteSet(HandSigs(w)) /\ Cardinality(HandSigs(w)) <= Cardinality(Hand(w))
  BY <1>1, <1>2, FS_Surjection
<1>. QED BY <1>1, <1>3, FS_CardinalityType

(* A hand that takes nothing up stays within the batch size.               *)
LEMMA HandShrinks ==
  ASSUME HandBound, NEW w \in Writers, Hand(w)' \subseteq Hand(w)
  PROVE  Cardinality(Hand(w)') <= BatchSize
<1>1. /\ Cardinality(Hand(w)') <= Cardinality(Hand(w))
      /\ Cardinality(Hand(w)') \in Nat
  BY HandFinite, FS_Subset, FS_CardinalityType
<1>2. Cardinality(Hand(w)) <= BatchSize
  BY DEF HandBound
<1>. QED BY <1>1, <1>2, HandFinite, Setup

(* A batch that is read has BatchSize entries at most.                     *)
LEMMA ReadHand ==
  ASSUME ClaimInv, NEW w \in Writers, NEW lane \in Lanes, ReadBatch(w, lane)
  PROVE  Cardinality(Hand(w)') <= BatchSize
<1>. DEFINE n == IF Len(stream[lane]) < BatchSize THEN Len(stream[lane]) ELSE BatchSize
            batch == {stream[lane][i] : i \in 1..n}
            f == [i \in 1..n |-> stream[lane][i]]
<1>1. n \in Nat /\ n <= BatchSize
  <2>1. Len(stream[lane]) \in Nat
    BY LenProperties DEF ClaimInv, StreamInv, TypeOK
  <2>. QED BY <2>1, Setup
<1>2. job' = [job EXCEPT ![w] = [NoJob EXCEPT !.lane = lane, !.batch = batch]]
  BY DEF ReadBatch
<1>3. Hand(w)' \subseteq batch
  <2>1. job \in [Writers -> Job]
    BY DEF ClaimInv, StreamInv, TypeOK
  <2>2. job'[w].batch = batch /\ job'[w].todo = <<>> /\ job'[w].retries = {}
    BY <1>2, <2>1 DEF NoJob
  <2>. HIDE DEF batch
  <2>. QED BY <2>2 DEF Hand, InHand
<1>. HIDE DEF n
<1>4. IsFiniteSet(batch) /\ Cardinality(batch) <= n
  <2>1. f \in Surjection(1..n, batch)
    BY DEF Surjection
  <2>2. IsFiniteSet(1..n) /\ Cardinality(1..n) = n
    BY <1>1, FS_Interval
  <2>. QED BY <2>1, <2>2, FS_Surjection
<1>. HIDE DEF batch
<1>5. /\ Cardinality(Hand(w)') <= Cardinality(batch)
      /\ Cardinality(Hand(w)') \in Nat /\ Cardinality(batch) \in Nat
  BY <1>3, <1>4, FS_Subset, FS_CardinalityType
<1>. QED BY <1>1, <1>4, <1>5, Setup

(* Nothing but a read takes entries up.                                    *)
LEMMA HandStep ==
  ASSUME ClaimInv, [Next]_vars
  PROVE  HandBound'
<1>0. StreamInv /\ TypeOK /\ HandBound /\ job \in [Writers -> Job]
  BY DEF ClaimInv, StreamInv, TypeOK
<1>1. ASSUME UNCHANGED job PROVE HandBound'
  BY <1>0, <1>1, HandShrinks DEF HandBound, Hand, InHand
<1>2. CASE Receives \/ ListenerStep \/ ListenerFails \/ UNCHANGED vars
  BY <1>1, <1>2, ListenerAlone DEF vars
<1>3. ASSUME NEW w \in Writers,
             WriterStep(w) \/ PeekEmpty(w) \/ WriterFails(w) \/ Autoclaim(w) \/ Crash(w)
      PROVE  HandBound'
  <2>0. ASSUME \A v \in Writers \ {w} : job'[v] = job[v],
               Cardinality(Hand(w)') <= BatchSize
        PROVE  HandBound'
    <3>1. ASSUME NEW v \in Writers \ {w} PROVE Cardinality(Hand(v)') <= BatchSize
      <4>1. Hand(v)' \subseteq Hand(v)
        BY <2>0, <3>1 DEF Hand, InHand
      <4>. QED BY <1>0, <4>1, HandShrinks
    <3>. QED BY <2>0, <3>1 DEF HandBound
  <2>1. CASE PeekPriority(w) \/ ReadMain(w)
    <3>1. Cardinality(Hand(w)') <= BatchSize
      BY <2>1, ReadHand DEF PeekPriority, ReadMain, Lanes
    <3>2. \A v \in Writers \ {w} : job'[v] = job[v]
      BY <1>0, <2>1 DEF PeekPriority, ReadMain, ReadBatch
    <3>. QED BY <2>0, <3>1, <3>2
  <2>2. CASE PeekEmpty(w) \/ ReadEmpty(w) \/ Persist(w) \/ Publish(w) \/ Autoclaim(w)
    BY <1>1, <2>2 DEF PeekEmpty, ReadEmpty, Persist, Publish, Autoclaim
  <2>3. CASE Fetch(w)
    <3>0. PICK found \in SUBSET job[w].batch : \E todo \in InSlotOrder(found) :
            job' = [job EXCEPT ![w] = [NoJob EXCEPT !.lane = job[w].lane, !.todo = todo,
                                                    !.retries = job[w].batch \ found]]
      BY <2>3 DEF Fetch
    <3>1. PICK todo \in InSlotOrder(found) :
            job' = [job EXCEPT ![w] = [NoJob EXCEPT !.lane = job[w].lane, !.todo = todo,
                                                    !.retries = job[w].batch \ found]]
      BY <3>0
    <3>2. job[w].batch \in SUBSET Entry
      BY <1>0 DEF Job
    <3>3. \A i \in DOMAIN todo : todo[i] \in found
      BY <3>2, OrderedEntries
    <3>4. /\ job'[w].todo = todo /\ job'[w].retries = job[w].batch \ found /\ job'[w].batch = {}
          /\ \A v \in Writers \ {w} : job'[v] = job[v]
      BY <1>0, <3>1 DEF NoJob
    <3>5. Hand(w)' \subseteq Hand(w)
      BY <3>3, <3>4 DEF Hand, InHand
    <3>. QED BY <1>0, <2>0, <3>4, <3>5, HandShrinks
  <2>4. CASE PersistFails(w) \/ CommitUnanswered(w) \/ PublishFails(w) \/ Ack(w)
    <3>1. job[w].todo # <<>> /\ job[w].todo \in Seq(Entry)
      BY <1>0, <2>4 DEF PersistFails, CommitUnanswered, PublishFails, Ack, StreamInv, WriterShape, Job
    <3>2. /\ job'[w].todo = Tail(job[w].todo) /\ job'[w].batch = job[w].batch
          /\ job'[w].retries \subseteq job[w].retries \cup {AtHand(w)}
          /\ \A v \in Writers \ {w} : job'[v] = job[v]
      BY <1>0, <2>4 DEF PersistFails, CommitUnanswered, PublishFails, Ack, GiveBack, Job
    <3>3. /\ AtHand(w) = job[w].todo[1] /\ 1 \in DOMAIN job[w].todo
          /\ \A j \in DOMAIN Tail(job[w].todo) :
               j + 1 \in DOMAIN job[w].todo /\ Tail(job[w].todo)[j] = job[w].todo[j + 1]
      BY <1>0, <3>1, HeadOfTodo, TailOfTodo
    <3>4. Hand(w)' \subseteq Hand(w)
      BY <3>2, <3>3 DEF Hand, InHand
    <3>. QED BY <1>0, <2>0, <3>2, <3>4, HandShrinks
  <2>5. CASE EndBatch(w) \/ LoopError(w) \/ Crash(w)
    <3>1. job'[w] = NoJob /\ \A v \in Writers \ {w} : job'[v] = job[v]
      BY <1>0, <2>5 DEF EndBatch, LoopError, Crash
    <3>2. Hand(w)' \subseteq Hand(w)
      BY <3>1 DEF Hand, InHand, NoJob
    <3>. QED BY <1>0, <2>0, <3>1, <3>2, HandShrinks
  <2>6. ASSUME NEW entry \in Entry, Drop(w, entry) \/ Requeue(w, entry) \/ AckRequeued(w, entry)
        PROVE  HandBound'
    <3>1. /\ job'[w].todo = job[w].todo /\ job'[w].batch = job[w].batch
          /\ job'[w].retries \subseteq job[w].retries
          /\ \A v \in Writers \ {w} : job'[v] = job[v]
      BY <1>0, <2>6 DEF Drop, Requeue, AckRequeued, Settle, Job
    <3>2. Hand(w)' \subseteq Hand(w)
      BY <3>1 DEF Hand, InHand
    <3>. QED BY <1>0, <2>0, <3>1, <3>2, HandShrinks
  <2>. QED BY <1>3, <2>1, <2>2, <2>3, <2>4, <2>5, <2>6 DEF WriterStep, WriterFails
<1>. QED BY <1>2, <1>3 DEF Next

(* Adding an entry leaves every signature queued that was, but for the one *)
(* trimmed; the added entry's is queued too.                               *)
LEMMA Append1Queues ==
  ASSUME TypeOK, NEW lane \in Lanes, NEW entry \in Entry, Append1(lane, entry),
         NEW s, Queued(s) \/ s = entry.sig
  PROVE  Queued(s)' \/ s \in trimmed'
<1>. DEFINE longer == Append(stream[lane], entry)
<1>0. stream[lane] \in Seq(Entry) /\ stream \in [Lanes -> Seq(Entry)] /\ Len(stream[lane]) \in Nat
  BY LenProperties DEF TypeOK
<1>1. /\ longer \in Seq(Entry) /\ longer # <<>> /\ Len(longer) = Len(stream[lane]) + 1
      /\ DOMAIN stream[lane] = 1..Len(stream[lane]) /\ DOMAIN longer = 1..Len(longer)
      /\ DOMAIN Tail(longer) = 1..Len(longer) - 1
  BY <1>0, AppendProperties, HeadTailProperties, LenProperties
<1>2. /\ \A i \in DOMAIN stream[lane] : i \in DOMAIN longer /\ longer[i] = stream[lane][i]
      /\ Len(longer) \in DOMAIN longer /\ longer[Len(longer)] = entry
  BY <1>0, <1>1, AppendProperties
<1>3. \A i \in DOMAIN longer : i # 1 =>
        i - 1 \in DOMAIN Tail(longer) /\ Tail(longer)[i - 1] = longer[i]
  BY <1>0, <1>1, HeadTailProperties
<1>4. CASE \E l \in Lanes \ {lane} : Unread(s, l)
  BY <1>0, <1>4 DEF Append1, Queued, Unread
<1>5. CASE Unread(s, lane) \/ s = entry.sig
  <2>1. PICK i \in DOMAIN longer : longer[i].sig = s
    BY <1>2, <1>5 DEF Unread
  <2>2. CASE stream' = [stream EXCEPT ![lane] = longer]
    <3>1. stream'[lane] = longer
      BY <1>0, <2>2
    <3>2. Unread(s, lane)'
      BY <2>1, <3>1 DEF Unread
    <3>. QED BY <3>2 DEF Queued
  <2>3. CASE stream' = [stream EXCEPT ![lane] = Tail(longer)] /\ trimmed' = trimmed \cup {longer[1].sig}
    <3>1. stream'[lane] = Tail(longer)
      BY <1>0, <2>3
    <3>2. CASE i = 1
      BY <2>1, <2>3, <3>2
    <3>3. CASE i # 1
      <4>1. Unread(s, lane)'
        BY <1>3, <2>1, <3>1, <3>3 DEF Unread
      <4>. QED BY <4>1 DEF Queued
    <3>. QED BY <3>2, <3>3
  <2>. QED BY <2>2, <2>3 DEF Append1
<1>. QED BY <1>4, <1>5 DEF Queued

(* A signature stays backed through a step that moves only one writer.     *)
LEMMA WriterBacks ==
  ASSUME ClaimInv, NEW w \in Writers, NEW s \in Sigs, Backed(s), UNCHANGED holding,
         rows \subseteq rows', dropped \subseteq dropped', trimmed \subseteq trimmed',
         \A v \in Writers \ {w} : job'[v] = job[v],
         Queued(s) => Backed(s)',
         LiveFor(s, w) => Backed(s)'
  PROVE  Backed(s)'
<1>1. CASE \E v \in Writers \ {w} : LiveFor(s, v)
  BY <1>1 DEF Backed, LiveFor, Live, InHand
<1>2. CASE holding = s \/ Settled(s)
  BY <1>2 DEF Backed, Settled
<1>. QED BY <1>1, <1>2 DEF Backed

(* What is adrift is paid for when a step adds no more than it counts.     *)
LEMMA AdriftPaid ==
  ASSUME ClaimInv, StreamInv', NEW lost, NEW k \in Nat, IsFiniteSet(lost), Cardinality(lost) <= k,
         \A s \in claimed' : Backed(s)' \/ s \in lost \/ s \in Adrift,
         slips' + BatchSize * mishaps' >= slips + BatchSize * mishaps + k
  PROVE  AdriftCounted'
<1>1. Adrift' \subseteq Adrift \cup lost
  BY DEF Adrift
<1>2. IsFiniteSet(Adrift) /\ IsFiniteSet(Adrift \cup lost)
  <2>1. Adrift \subseteq Sigs
    BY DEF Adrift, ClaimInv, StreamInv, TypeOK
  <2>2. IsFiniteSet(Adrift)
    BY <2>1, Setup, FS_Subset
  <2>. QED BY <2>2, FS_Union
<1>3. /\ Cardinality(Adrift') <= Cardinality(Adrift \cup lost)
      /\ Cardinality(Adrift') \in Nat /\ Cardinality(Adrift \cup lost) \in Nat
  BY <1>1, <1>2, FS_Subset, FS_CardinalityType
<1>4. Cardinality(Adrift \cup lost) <= Cardinality(Adrift) + Cardinality(lost)
  <2>1. /\ Cardinality(Adrift \cup lost)
             = Cardinality(Adrift) + Cardinality(lost) - Cardinality(Adrift \cap lost)
    BY <1>2, FS_Union
  <2>2. Cardinality(Adrift \cap lost) \in Nat
    BY <1>2, FS_Intersection, FS_CardinalityType
  <2>3. Cardinality(Adrift) \in Nat /\ Cardinality(lost) \in Nat
    BY <1>2, FS_CardinalityType
  <2>. QED BY <2>1, <2>2, <2>3
<1>5. Cardinality(Adrift) \in Nat /\ Cardinality(lost) \in Nat
  BY <1>2, FS_CardinalityType
<1>6. Cardinality(Adrift) <= slips + BatchSize * mishaps
  BY DEF ClaimInv, AdriftCounted
<1>7. /\ slips + BatchSize * mishaps \in Int /\ slips' + BatchSize * mishaps' \in Int
  BY Setup DEF ClaimInv, StreamInv, TypeOK
<1>. QED BY <1>3, <1>4, <1>5, <1>6, <1>7 DEF AdriftCounted

(* A step that counts nothing sets nothing adrift.                         *)
LEMMA NothingLost ==
  ASSUME ClaimInv, StreamInv', UNCHANGED faultVars,
         \A s \in claimed' : Backed(s)' \/ s \in Adrift
  PROVE  AdriftCounted'
<1>1. IsFiniteSet({}) /\ Cardinality({}) = 0
  BY FS_EmptySet
<1>2. slips' + BatchSize * mishaps' >= slips + BatchSize * mishaps + 0
  BY Setup DEF faultVars, ClaimInv, StreamInv, TypeOK
<1>. QED BY <1>1, <1>2, AdriftPaid

(* A slip of the listener sets one signature adrift.                       *)
LEMMA OneLost ==
  ASSUME ClaimInv, StreamInv', NEW fault, Slips(fault), NEW sig,
         \A s \in claimed' : Backed(s)' \/ s = sig \/ s \in Adrift
  PROVE  AdriftCounted'
<1>1. IsFiniteSet({sig}) /\ Cardinality({sig}) <= 1
  BY FS_Singleton
<1>2. slips' + BatchSize * mishaps' >= slips + BatchSize * mishaps + 1
  BY Setup DEF Slips, ClaimInv, StreamInv, TypeOK
<1>. QED BY <1>1, <1>2, AdriftPaid

(* A mishap of a writer sets what is in its hand adrift.                   *)
LEMMA HandLost ==
  ASSUME ClaimInv, StreamInv', NEW w \in Writers, NEW fault, Befalls(fault),
         \A s \in claimed' : Backed(s)' \/ s \in HandSigs(w) \/ s \in Adrift
  PROVE  AdriftCounted'
<1>1. IsFiniteSet(HandSigs(w)) /\ Cardinality(HandSigs(w)) <= BatchSize
  BY HandFinite, Setup DEF ClaimInv, HandBound
<1>2. slips' + BatchSize * mishaps' >= slips + BatchSize * mishaps + BatchSize
  <2>1. slips' = slips /\ mishaps' = mishaps + 1 /\ mishaps \in Nat /\ slips \in Nat
    BY Setup DEF Befalls, ClaimInv, StreamInv, TypeOK
  <2>2. BatchSize * (mishaps + 1) = BatchSize * mishaps + BatchSize /\ BatchSize * mishaps \in Nat
    BY <2>1, Setup
  <2>. QED BY <2>1, <2>2, Setup
<1>. QED BY <1>1, <1>2, Setup, AdriftPaid

(* The listener's claims are followed by an entry or by a release, or a    *)
(* slip is counted.                                                        *)
LEMMA ListenerBacks ==
  ASSUME ClaimInv, StreamInv', Receives \/ ListenerStep \/ ListenerFails
  PROVE  AdriftCounted'
<1>0. StreamInv /\ TypeOK /\ ListenerShape /\ None \notin Sigs
  BY Setup DEF ClaimInv, StreamInv
<1>1. UNCHANGED <<rows, dropped, job, mishaps>>
  BY ListenerAlone
<1>2. \A s, v : LiveFor(s, v) => LiveFor(s, v)'
  BY <1>1 DEF LiveFor, Live, InHand
<1>3. ASSUME UNCHANGED <<stream, trimmed>>, NEW s, Backed(s), holding' = s \/ holding # s
      PROVE  Backed(s)'
  BY <1>1, <1>2, <1>3 DEF Backed, Settled, Queued, Unread
<1>4. \A s \in claimed : Backed(s) \/ s \in Adrift
  BY DEF Adrift
<1>5. ASSUME NEW sig \in Sigs, NEW source \in Sources, ReceivePriority(sig) \/ Receive(sig, source)
      PROVE  AdriftCounted'
  <2>1. UNCHANGED <<stream, trimmed>> /\ UNCHANGED faultVars /\ holding = None
    BY <1>0, <1>5 DEF ReceivePriority, Receive, Take, ListenerShape, queueVars
  <2>2. claimed' = claimed \/ (claimed' = claimed \cup {sig} /\ holding' = sig)
    BY <1>5 DEF ReceivePriority, Receive
  <2>3. \A s \in claimed' : Backed(s)' \/ s \in Adrift
    <3>1. ASSUME NEW s \in claimed PROVE Backed(s)' \/ s \in Adrift
      BY <1>0, <1>3, <1>4, <2>1, <3>1 DEF TypeOK
    <3>2. holding' = sig => Backed(sig)'
      BY DEF Backed
    <3>. QED BY <2>2, <3>1, <3>2
  <2>. QED BY <2>1, <2>3, NothingLost
<1>6. ASSUME NEW sig \in Sigs, NEW source \in Sources, ClaimUnanswered(sig, source)
      PROVE  AdriftCounted'
  <2>1. UNCHANGED <<stream, trimmed, holding>> /\ claimed' = claimed \cup {sig} /\ Slips("claim")
    BY <1>6 DEF ClaimUnanswered, queueVars
  <2>2. \A s \in claimed' : Backed(s)' \/ s = sig \/ s \in Adrift
    BY <1>3, <1>4, <2>1
  <2>. QED BY <2>1, <2>2, OneLost
<1>7. ASSUME NEW lane \in Lanes, Append1(lane, [sig |-> holding, attempts |-> 0]), holding # None,
             UNCHANGED claimed
      PROVE  \A s \in claimed' : Backed(s)' \/ s \in Adrift
  <2>1. [sig |-> holding, attempts |-> 0] \in Entry
    BY <1>0, <1>7, Setup DEF TypeOK, Entry
  <2>2. \A s : Queued(s) \/ s = holding => Queued(s)' \/ s \in trimmed'
    BY <1>0, <1>7, <2>1, Append1Queues
  <2>3. trimmed \subseteq trimmed'
    BY <1>7 DEF Append1
  <2>. QED BY <1>1, <1>2, <1>4, <1>7, <2>2, <2>3 DEF Backed, Settled
<1>8. ASSUME NEW lane \in Lanes, Enqueue(lane) PROVE AdriftCounted'
  BY <1>0, <1>7, <1>8, NothingLost DEF Enqueue, ListenerShape
<1>9. CASE EnqueueUnanswered
  <2>1. /\ Append1("main", [sig |-> holding, attempts |-> 0]) /\ holding # None
        /\ UNCHANGED claimed /\ Slips("add")
    BY <1>0, <1>9 DEF EnqueueUnanswered, ListenerShape
  <2>2. \A s \in claimed' : Backed(s)' \/ s \in Adrift
    BY <1>7, <2>1 DEF Lanes
  <2>. QED BY <2>1, <2>2, OneLost
<1>10. CASE EnqueueFails
  <2>1. UNCHANGED <<stream, trimmed, holding, claimed>> /\ UNCHANGED faultVars
    BY <1>10 DEF EnqueueFails, queueVars
  <2>2. \A s \in claimed' : Backed(s)' \/ s \in Adrift
    BY <1>3, <1>4, <2>1
  <2>. QED BY <2>1, <2>2, NothingLost
<1>11. CASE Release
  <2>1. UNCHANGED <<stream, trimmed>> /\ UNCHANGED faultVars /\ claimed' = claimed \ {holding}
    BY <1>11 DEF Release, queueVars
  <2>2. \A s \in claimed' : Backed(s)' \/ s \in Adrift
    BY <1>3, <1>4, <2>1
  <2>. QED BY <2>1, <2>2, NothingLost
<1>12. CASE PriorityFails \/ ReleaseFails
  <2>1. UNCHANGED <<stream, trimmed, claimed>> /\ \E fault : Slips(fault)
    BY <1>12 DEF PriorityFails, ReleaseFails, queueVars
  <2>2. \A s \in claimed' : Backed(s)' \/ s = holding \/ s \in Adrift
    BY <1>3, <1>4, <2>1
  <2>. QED BY <2>1, <2>2, OneLost
<1>13. CASE Receives
  <2>1. Wallet \in Sources
    BY DEF Sources
  <2>. QED BY <1>5, <1>6, <1>13, <2>1 DEF Receives
<1>. QED BY <1>8, <1>9, <1>10, <1>11, <1>12, <1>13 DEF ListenerStep, ListenerFails, Lanes

(* The rest of a stream after its first entries, entry by entry.           *)
LEMMA RestOfSeq ==
  ASSUME NEW seq \in Seq(Entry), NEW n \in 0..Len(seq)
  PROVE  LET rest == SubSeq(seq, n + 1, Len(seq)) IN
         /\ Len(rest) = Len(seq) - n
         /\ DOMAIN rest = 1..Len(rest)
         /\ \A j \in 1..Len(rest) : rest[j] = seq[n + j]
<1>. DEFINE rest == SubSeq(seq, n + 1, Len(seq))
            m == n + 1
<1>1. Len(seq) \in Int /\ m \in Int /\ n \in Nat
  BY LenProperties
<1>2. \A j \in m .. Len(seq) : seq[j] \in Entry
  BY <1>1, ElementOfSeq, LenProperties
<1>. HIDE DEF m
<1>3. /\ SubSeq(seq, m, Len(seq)) \in Seq(Entry)
      /\ Len(SubSeq(seq, m, Len(seq))) = IF m <= Len(seq) THEN Len(seq) - m + 1 ELSE 0
      /\ \A j \in 1 .. Len(seq) - m + 1 : SubSeq(seq, m, Len(seq))[j] = seq[m + j - 1]
  BY <1>1, <1>2, SubSeqProperties
<1>. USE DEF m
<1>4. rest \in Seq(Entry) /\ Len(rest) = Len(seq) - n
  BY <1>1, <1>3
<1>5. \A j \in 1..Len(rest) : rest[j] = seq[n + j]
  BY <1>1, <1>3, <1>4
<1>. QED BY <1>4, <1>5, LenProperties

(* Reading a batch moves entries to pending; what they back stays backed.  *)
LEMMA ReadBacks ==
  ASSUME ClaimInv, NEW w \in Writers, NEW lane \in Lanes, ReadBatch(w, lane),
         pc[w] \in {"peek", "read"}, NEW s \in Sigs, Backed(s)
  PROVE  Backed(s)'
<1>. DEFINE n == IF Len(stream[lane]) < BatchSize THEN Len(stream[lane]) ELSE BatchSize
            batch == {stream[lane][i] : i \in 1..n}
<1>0. /\ stream[lane] \in Seq(Entry) /\ stream \in [Lanes -> Seq(Entry)]
      /\ Len(stream[lane]) \in Nat /\ DOMAIN stream[lane] = 1..Len(stream[lane])
      /\ n \in 0..Len(stream[lane])
      /\ \A i \in DOMAIN stream[lane] : stream[lane][i] \in Entry
  BY Setup, LenProperties, ElementOfSeq DEF ClaimInv, StreamInv, TypeOK
<1>1. /\ stream' = [stream EXCEPT ![lane] = SubSeq(stream[lane], n + 1, Len(stream[lane]))]
      /\ job' = [job EXCEPT ![w] = [NoJob EXCEPT !.lane = lane, !.batch = batch]]
      /\ UNCHANGED <<holding, rows, dropped, trimmed>>
  BY DEF ReadBatch, listenerVars, outVars
<1>2. job[w] = NoJob /\ job \in [Writers -> Job]
  BY DEF ClaimInv, StreamInv, WriterShape, TypeOK
<1>3. ~LiveFor(s, w)
  BY <1>2 DEF LiveFor, Live, InHand, NoJob
<1>4. job'[w].batch = batch /\ job'[w].added = {} /\ \A v \in Writers \ {w} : job'[v] = job[v]
  BY <1>1, <1>2 DEF NoJob
<1>. HIDE DEF n
<1>5. ASSUME Unread(s, lane) PROVE Backed(s)'
  <2>1. PICK i \in DOMAIN stream[lane] : stream[lane][i].sig = s
    BY <1>5 DEF Unread
  <2>2. CASE i <= n
    <3>1. stream[lane][i] \in job'[w].batch /\ stream[lane][i] \in Entry
      BY <1>0, <1>4, <2>1, <2>2
    <3>2. LiveFor(s, w)'
      BY <1>4, <2>1, <3>1 DEF LiveFor, Live, InHand
    <3>. QED BY <3>2 DEF Backed
  <2>3. CASE i > n
    <3>. DEFINE rest == SubSeq(stream[lane], n + 1, Len(stream[lane]))
    <3>2. /\ Len(rest) = Len(stream[lane]) - n
          /\ DOMAIN rest = 1..Len(rest)
          /\ \A j \in 1..Len(rest) : rest[j] = stream[lane][n + j]
      BY <1>0, RestOfSeq
    <3>3. stream'[lane] = rest
      BY <1>0, <1>1
    <3>. HIDE DEF rest
    <3>4. i - n \in DOMAIN rest /\ rest[i - n] = stream[lane][i]
      BY <1>0, <2>1, <2>3, <3>2
    <3>5. Unread(s, lane)'
      BY <2>1, <3>3, <3>4 DEF Unread
    <3>. QED BY <3>5 DEF Backed, Queued
  <2>. QED BY <1>0, <2>1, <2>2, <2>3
<1>6. ASSUME NEW l \in Lanes \ {lane}, Unread(s, l) PROVE Backed(s)'
  <2>1. stream'[l] = stream[l]
    BY <1>0, <1>1
  <2>2. Unread(s, l)'
    BY <1>6, <2>1 DEF Unread
  <2>. QED BY <2>2 DEF Backed, Queued
<1>7. Queued(s) => Backed(s)'
  BY <1>5, <1>6 DEF Queued
<1>. QED BY <1>1, <1>3, <1>4, <1>7, WriterBacks

(* Sorting a batch into its outcomes drops none of it.                     *)
LEMMA FetchBacks ==
  ASSUME ClaimInv, NEW w \in Writers, Fetch(w), NEW s, LiveFor(s, w)
  PROVE  LiveFor(s, w)'
<1>0. PICK found \in SUBSET job[w].batch : \E todo \in InSlotOrder(found) :
        job' = [job EXCEPT ![w] = [NoJob EXCEPT !.lane = job[w].lane, !.todo = todo,
                                                !.retries = job[w].batch \ found]]
  BY DEF Fetch
<1>1. PICK todo \in InSlotOrder(found) :
        job' = [job EXCEPT ![w] = [NoJob EXCEPT !.lane = job[w].lane, !.todo = todo,
                                                !.retries = job[w].batch \ found]]
  BY <1>0
<1>2. /\ job[w].batch \in SUBSET Entry /\ job \in [Writers -> Job]
      /\ job[w].todo = <<>> /\ job[w].retries = {}
  BY DEF ClaimInv, StreamInv, TypeOK, Job, WriterShape, Fetch
<1>3. job'[w].todo = todo /\ job'[w].retries = job[w].batch \ found /\ job'[w].added = {}
  BY <1>1, <1>2 DEF NoJob
<1>4. PICK e \in Entry : e.sig = s /\ e \in job[w].batch
  BY <1>2 DEF LiveFor, Live, InHand
<1>5. e \in found => \E i \in DOMAIN todo : todo[i] = e
  BY <1>2, OrderedEntries
<1>. QED BY <1>3, <1>4, <1>5 DEF LiveFor, Live, InHand

(* The entry at hand goes; it is kept for a retry, or its row is there.    *)
LEMMA TailBacks ==
  ASSUME ClaimInv, NEW w \in Writers, job[w].todo # <<>>, NEW s, LiveFor(s, w),
         job'[w].todo = Tail(job[w].todo), job'[w].batch = job[w].batch,
         job[w].retries \subseteq job'[w].retries, job'[w].added = job[w].added,
         AtHand(w) \in job'[w].retries \/ s # AtHand(w).sig
  PROVE  LiveFor(s, w)'
<1>0. StreamInv /\ job[w].added = {}
  BY DEF ClaimInv, StreamInv, WriterShape
<1>1. PICK e \in Entry : e.sig = s /\ InHand(w, e)
  BY DEF LiveFor, Live
<1>2. CASE e \in job[w].batch \cup job[w].retries
  BY <1>0, <1>1, <1>2 DEF LiveFor, Live, InHand
<1>3. ASSUME NEW i \in DOMAIN job[w].todo, job[w].todo[i] = e PROVE LiveFor(s, w)'
  <2>1. CASE i = 1
    <3>1. e \in job'[w].retries
      BY <1>0, <1>1, <1>3, <2>1, HeadOfTodo
    <3>. QED BY <1>0, <1>1, <3>1 DEF LiveFor, Live, InHand
  <2>2. CASE i # 1
    <3>1. i - 1 \in DOMAIN job'[w].todo /\ job'[w].todo[i - 1] = e
      BY <1>0, <1>3, <2>2, HeadOfTodo
    <3>. QED BY <1>0, <1>1, <3>1 DEF LiveFor, Live, InHand
  <2>. QED BY <2>1, <2>2
<1>. QED BY <1>1, <1>2, <1>3 DEF InHand

(* An entry that is dropped, requeued or acknowledged leaves its claim     *)
(* backed.                                                                 *)
LEMMA RequeueBacks ==
  ASSUME ClaimInv, NEW w \in Writers, NEW entry \in Entry,
         Drop(w, entry) \/ Requeue(w, entry) \/ AckRequeued(w, entry),
         NEW s \in Sigs, Backed(s)
  PROVE  Backed(s)'
<1>0. /\ TypeOK /\ job[w] \in Job /\ job \in [Writers -> Job] /\ job[w].lane \in Lanes
      /\ job[w].todo = <<>> /\ job[w].batch = {}
  BY DEF ClaimInv, StreamInv, WriterShape, TypeOK, Job, Drop, Requeue, AckRequeued, Retrying
<1>1. /\ UNCHANGED <<holding, rows>> /\ dropped \subseteq dropped' /\ trimmed \subseteq trimmed'
      /\ \A v \in Writers \ {w} : job'[v] = job[v]
      /\ job'[w].todo = job[w].todo /\ job'[w].batch = job[w].batch
  <2>1. /\ \A v \in Writers \ {w} : job'[v] = job[v]
        /\ job'[w].todo = job[w].todo /\ job'[w].batch = job[w].batch
    <3>1. CASE Settle(w, entry)
      BY <1>0, <3>1 DEF Settle, Job
    <3>2. CASE job' = [job EXCEPT ![w].added = @ \cup {entry}]
      BY <1>0, <3>2 DEF Job
    <3>. QED BY <3>1, <3>2 DEF Drop, Requeue, AckRequeued
  <2>2. UNCHANGED <<holding, rows>> /\ dropped \subseteq dropped' /\ trimmed \subseteq trimmed'
    BY DEF Drop, Requeue, AckRequeued, Append1, Settle, listenerVars, outVars
  <2>. QED BY <2>1, <2>2
<1>2. CASE Requeue(w, entry)
  <2>1. [entry EXCEPT !.attempts = @ + 1] \in Entry /\ [entry EXCEPT !.attempts = @ + 1].sig = entry.sig
    BY <1>2, Setup DEF Requeue, LastAttempt, Entry
  <2>2. Queued(s) \/ s = entry.sig => Queued(s)' \/ s \in trimmed'
    BY <1>0, <1>2, <2>1, Append1Queues DEF Requeue
  <2>3. job'[w].retries = job[w].retries /\ job'[w].added = job[w].added \cup {entry}
    BY <1>0, <1>2 DEF Requeue, Job
  <2>4. LiveFor(s, w) => s = entry.sig \/ LiveFor(s, w)'
    BY <1>1, <2>3 DEF LiveFor, Live, InHand
  <2>. QED BY <1>1, <2>2, <2>4, WriterBacks DEF Backed, Settled
<1>3. CASE Drop(w, entry) \/ AckRequeued(w, entry)
  <2>1. /\ stream' = stream
        /\ job'[w].retries = job[w].retries \ {entry} /\ job'[w].added = job[w].added \ {entry}
        /\ entry \in job[w].added \/ entry.sig \in dropped'
    BY <1>0, <1>3 DEF Drop, AckRequeued, Settle, Job
  <2>2. LiveFor(s, w) => s \in dropped' \/ LiveFor(s, w)'
    BY <1>0, <1>1, <2>1 DEF LiveFor, Live, InHand
  <2>3. Queued(s) => Queued(s)'
    BY <2>1 DEF Queued, Unread
  <2>. QED BY <1>1, <2>2, <2>3, WriterBacks DEF Backed, Settled
<1>. QED BY <1>2, <1>3

(* A writer's steps set nothing adrift; a mishap, what it has in hand.     *)
LEMMA WriterStepBacks ==
  ASSUME ClaimInv, StreamInv', NEW w \in Writers,
         WriterStep(w) \/ PeekEmpty(w) \/ WriterFails(w) \/ Autoclaim(w) \/ Crash(w)
  PROVE  AdriftCounted'
<1>0. StreamInv /\ TypeOK /\ WriterShape(w) /\ AckedStored
  BY DEF ClaimInv, StreamInv
<1>1. CASE CommitUnanswered(w) \/ PublishFails(w) \/ LoopError(w) \/ Crash(w)
  <2>1. /\ UNCHANGED <<claimed, holding, stream, trimmed, dropped>> /\ rows \subseteq rows'
        /\ \E fault : Befalls(fault)
    BY <1>1 DEF CommitUnanswered, PublishFails, LoopError, Crash, listenerVars, queueVars, outVars
  <2>2. \A v \in Writers \ {w} : job'[v] = job[v]
    BY <1>0, <1>1 DEF CommitUnanswered, PublishFails, LoopError, Crash, GiveBack, TypeOK
  <2>3. ASSUME NEW s \in claimed', s \notin HandSigs(w), s \notin Adrift PROVE Backed(s)'
    <3>1. Backed(s) /\ s \in Sigs
      BY <1>0, <2>1, <2>3 DEF Adrift, TypeOK
    <3>2. ~LiveFor(s, w)
      BY <2>3 DEF HandSigs, Hand, LiveFor, Live
    <3>3. Queued(s) => Backed(s)'
      BY <2>1 DEF Backed, Queued, Unread
    <3>. QED BY <2>1, <2>2, <3>1, <3>2, <3>3, WriterBacks
  <2>. QED BY <2>1, <2>3, HandLost
<1>2. ASSUME UNCHANGED faultVars, claimed' = claimed, \A s \in Sigs : Backed(s) => Backed(s)'
      PROVE  AdriftCounted'
  BY <1>0, <1>2, NothingLost DEF Adrift, TypeOK
<1>3. ASSUME UNCHANGED <<holding, stream, trimmed, dropped>>, rows \subseteq rows',
             \A v \in Writers \ {w} : job'[v] = job[v],
             NEW s \in Sigs, Backed(s), LiveFor(s, w) => Backed(s)'
      PROVE  Backed(s)'
  <2>1. Queued(s) => Queued(s)'
    BY <1>3 DEF Queued, Unread
  <2>. QED BY <1>3, <2>1, WriterBacks DEF Backed
<1>4. CASE PeekPriority(w) \/ ReadMain(w)
  BY <1>2, <1>4, ReadBacks DEF PeekPriority, ReadMain, ReadBatch, Lanes, listenerVars
<1>5. CASE PeekEmpty(w) \/ ReadEmpty(w) \/ Persist(w) \/ Publish(w) \/ Autoclaim(w)
  <2>1. /\ UNCHANGED <<claimed, holding, stream, trimmed, dropped, job>> /\ UNCHANGED faultVars
        /\ rows \subseteq rows'
    BY <1>5 DEF PeekEmpty, ReadEmpty, Persist, Publish, Autoclaim, listenerVars, queueVars, outVars
  <2>2. \A s \in Sigs : Backed(s) => Backed(s)'
    BY <2>1 DEF Backed, Settled, Queued, Unread, LiveFor, Live, InHand
  <2>. QED BY <1>2, <2>1, <2>2
<1>6. CASE Fetch(w)
  <2>1. UNCHANGED <<claimed, holding, stream, trimmed, dropped, rows>> /\ UNCHANGED faultVars
    BY <1>6 DEF Fetch, listenerVars, queueVars, outVars
  <2>2. \A v \in Writers \ {w} : job'[v] = job[v]
    BY <1>0, <1>6 DEF Fetch, TypeOK
  <2>3. \A s \in Sigs : LiveFor(s, w) => Backed(s)'
    BY <1>6, FetchBacks DEF Backed
  <2>. QED BY <1>2, <1>3, <2>1, <2>2, <2>3
<1>7. CASE PersistFails(w)
  <2>1. UNCHANGED <<claimed, holding, stream, trimmed, dropped, rows>> /\ UNCHANGED faultVars
    BY <1>7 DEF PersistFails, listenerVars, queueVars, outVars
  <2>2. job \in [Writers -> Job] /\ job[w] \in Job
    BY <1>0 DEF TypeOK
  <2>3. /\ \A v \in Writers \ {w} : job'[v] = job[v]
        /\ job'[w].todo = Tail(job[w].todo) /\ job'[w].batch = job[w].batch
        /\ job'[w].retries = job[w].retries \cup {AtHand(w)} /\ job'[w].added = job[w].added
        /\ job[w].todo # <<>>
    BY <1>7, <2>2 DEF PersistFails, GiveBack, Job
  <2>4. \A s \in Sigs : LiveFor(s, w) => Backed(s)'
    BY <2>3, TailBacks DEF Backed
  <2>. QED BY <1>2, <1>3, <2>1, <2>3, <2>4
<1>8. CASE Ack(w)
  <2>1. UNCHANGED <<claimed, holding, stream, trimmed, dropped, rows>> /\ UNCHANGED faultVars
    BY <1>8 DEF Ack, listenerVars, queueVars, outVars
  <2>2. job \in [Writers -> Job] /\ job[w] \in Job
    BY <1>0 DEF TypeOK
  <2>3. /\ \A v \in Writers \ {w} : job'[v] = job[v]
        /\ job'[w].todo = Tail(job[w].todo) /\ job'[w].batch = job[w].batch
        /\ job'[w].retries = job[w].retries /\ job'[w].added = job[w].added
        /\ job[w].todo # <<>> /\ AtHand(w).sig \in rows
    BY <1>0, <1>8, <2>2 DEF Ack, Job, WriterShape, AckedStored
  <2>4. \A s \in Sigs : LiveFor(s, w) => Backed(s)'
    BY <2>1, <2>3, TailBacks DEF Backed, Settled
  <2>. QED BY <1>2, <1>3, <2>1, <2>3, <2>4
<1>9. CASE EndBatch(w)
  <2>1. UNCHANGED <<claimed, holding, stream, trimmed, dropped, rows>> /\ UNCHANGED faultVars
    BY <1>9 DEF EndBatch, listenerVars, queueVars, outVars
  <2>2. \A v \in Writers \ {w} : job'[v] = job[v]
    BY <1>0, <1>9 DEF EndBatch, TypeOK
  <2>3. \A s \in Sigs : ~LiveFor(s, w)
    BY <1>0, <1>9 DEF EndBatch, Retrying, WriterShape, LiveFor, Live, InHand
  <2>. QED BY <1>2, <1>3, <2>1, <2>2, <2>3
<1>10. ASSUME NEW entry \in Entry, Drop(w, entry) \/ Requeue(w, entry) \/ AckRequeued(w, entry)
       PROVE  AdriftCounted'
  <2>1. UNCHANGED claimed /\ UNCHANGED faultVars
    BY <1>10 DEF Drop, Requeue, AckRequeued, listenerVars
  <2>. QED BY <1>2, <1>10, <2>1, RequeueBacks
<1>. QED BY <1>1, <1>4, <1>5, <1>6, <1>7, <1>8, <1>9, <1>10 DEF WriterStep, WriterFails

(* There are no claims at the start.                                       *)
LEMMA ClaimInit == Init => ClaimInv
<1> SUFFICES ASSUME Init PROVE ClaimInv
  OBVIOUS
<1>1. StreamInv /\ AckedStored
  BY StreamInit DEF Init, AckedStored
<1>2. ASSUME NEW w \in Writers PROVE Cardinality(Hand(w)) <= BatchSize
  <2>1. Hand(w) = {}
    BY DEF Init, Hand, InHand, NoJob
  <2>. QED BY <2>1, FS_EmptySet, Setup
<1>3. AdriftCounted
  <2>1. Adrift = {}
    BY DEF Init, Adrift
  <2>2. slips + BatchSize * mishaps = 0
    BY Setup DEF Init
  <2>. QED BY <2>1, <2>2, FS_EmptySet DEF AdriftCounted
<1>. QED BY <1>1, <1>2, <1>3 DEF ClaimInv, HandBound

(* Every step pays for what it sets adrift.                                *)
LEMMA ClaimStep == ClaimInv /\ [Next]_vars => ClaimInv'
<1> SUFFICES ASSUME ClaimInv, [Next]_vars PROVE ClaimInv'
  OBVIOUS
<1>1. StreamInv' /\ AckedStored' /\ HandBound'
  BY StreamStep, AckedStoredStep, HandStep DEF ClaimInv
<1>2. ASSUME UNCHANGED vars PROVE AdriftCounted'
  <2>1. Adrift' = Adrift
    BY <1>2 DEF Adrift, Backed, Settled, Queued, Unread, LiveFor, Live, InHand, vars,
                listenerVars, queueVars, outVars
  <2>. QED BY <1>2, <2>1 DEF ClaimInv, AdriftCounted, vars, faultVars
<1>3. AdriftCounted'
  BY <1>1, <1>2, ListenerBacks, WriterStepBacks DEF Next
<1>. QED BY <1>1, <1>3 DEF ClaimInv

(* A claimed signature is held, queued, in a writer's hands or settled,    *)
(* but for one per slip of the listener and a batch per mishap of a        *)
(* writer: no order of claiming, requeueing, trimming and acknowledging    *)
(* loses another, for any number of writers, transactions and failures.    *)
THEOREM StrandedWithinFailuresHolds == Spec => []StrandedWithinFailures
<1>1. ClaimInv => StrandedWithinFailures
  <2> SUFFICES ASSUME ClaimInv PROVE StrandedWithinFailures
    OBVIOUS
  <2>1. Stranded \subseteq Adrift
    BY DEF Stranded, Adrift, OnItsWay, Backed, Queued, LiveFor, Live
  <2>2. IsFiniteSet(Adrift)
    <3>1. Adrift \subseteq Sigs
      BY DEF Adrift, ClaimInv, StreamInv, TypeOK
    <3>. QED BY <3>1, Setup, FS_Subset
  <2>3. /\ Cardinality(Stranded) <= Cardinality(Adrift)
        /\ Cardinality(Stranded) \in Nat /\ Cardinality(Adrift) \in Nat
    BY <2>1, <2>2, FS_Subset, FS_CardinalityType
  <2>4. slips + BatchSize * mishaps \in Int
    BY Setup DEF ClaimInv, StreamInv, TypeOK
  <2>. QED BY <2>3, <2>4 DEF ClaimInv, AdriftCounted, StrandedWithinFailures
<1>. QED BY <1>1, ClaimInit, ClaimStep, PTL DEF Spec
=============================================================================
