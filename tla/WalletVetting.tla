--------------------------- MODULE WalletVetting ---------------------------
(***************************************************************************)
(* The vetting cycle (analytics/vetting.py, analytics/funding.py): wallets *)
(* that may be copied are checked for signs of being fake.  A verdict is a *)
(* row that the cycle commits at its end, and a Redis key, vetting:<id>,   *)
(* that is set at once and that the evaluator reads.                       *)
(***************************************************************************)
EXTENDS Basics

CONSTANTS
    Wallets,       \* wallet id -> [address, tracked, confidence, casts, history, wins]
    CexWallets,    \* KNOWN_CEX_HOT_WALLETS
    FollowBar, CandidateMargin, VettingBatch, StaleAfter,  \* settings, times in ticks
    RepeatMinTokens, RepeatRatio, InsiderShare,            \* settings, ratios in percent
    MaxVettingNow, MaxFaults   \* bounds: time, and look-ups, writes or processes that fail

Verdicts == {"suspicious", "inconclusive", "clear"}
ASSUME VettingValues ==
    /\ StaleAfter \in Int
    /\ None \notin [wallet : DOMAIN Wallets, verdict : Verdicts]

VARIABLES
    vettingNow,
    vettingRows, \* wallet_vettings, committed
    mirror,      \* Redis, vetting:<id>
    cycle,       \* the running cycle: wallets to go, rows flushed, session broken
    verdictDue,  \* the verdict flushed and not yet mirrored, or None
    missed,      \* history: wallets whose last mirror write Redis refused
    faults

vettingVars == <<vettingNow, vettingRows, mirror, cycle, verdictDue, missed, faults>>

WalletIds == DOMAIN Wallets
IdleCycle == [running |-> FALSE, queue |-> {}, rows |-> <<>>, broken |-> FALSE]

-----------------------------------------------------------------------------
(* Repeat cast: co-traders met on enough of the wallet's tokens recur; too *)
(* many tokens on which two of them meet it make a ring.                   *)
Recurring(casts) ==
    {w \in UNION {casts[i] : i \in DOMAIN casts} :
        Cardinality({i \in DOMAIN casts : w \in casts[i]}) >= RepeatMinTokens}
RepeatCast(casts) ==
    LET repeated == {i \in DOMAIN casts : Cardinality(casts[i] \cap Recurring(casts)) >= 2}
    IN  /\ Len(casts) >= RepeatMinTokens
        /\ 100 * Cardinality(repeated) >= RepeatRatio * Len(casts)

(* trace_funder: who sent the wallet its first SOL.  A history deeper than *)
(* the page cap, a provider that does not answer, or no such transfer      *)
(* among the earliest transactions: nothing is known.                      *)
Untraced == [funder |-> None, kind |-> "unknown"]
TraceFunder(history, answered) ==
    LET senders == SelectSeq(history.earliest, LAMBDA sender : sender # None)
    IN  IF history.deep \/ ~answered \/ senders = <<>> THEN Untraced
        ELSE [funder |-> senders[1],
              kind |-> IF senders[1] \in CexWallets THEN "cex" ELSE "wallet"]

Candidate(id) == \/ Wallets[id].tracked
                 \/ /\ Wallets[id].confidence # None
                    /\ Wallets[id].confidence >= FollowBar - CandidateMargin

(* Shared funder: another candidate whose latest vetting names the same    *)
(* private wallet.                                                         *)
LatestRow(rows, id) ==
    LET own == {i \in DOMAIN rows : rows[i].wallet = id}
    IN  IF own = {} THEN None ELSE rows[Max(own)]
SharedFunder(id, info, rows) ==
    /\ info.kind = "wallet"
    /\ \E peer \in WalletIds \ {id} :
          /\ Candidate(peer)
          /\ LatestRow(rows, peer) # None
          /\ LatestRow(rows, peer).kind = "wallet"
          /\ LatestRow(rows, peer).funder = info.funder

(* Insider profits: wins on tokens that the wallet or its funder created.  *)
InsiderProfits(id, info) ==
    LET wins == Wallets[id].wins
        insider == SelectSeq(wins, LAMBDA creator :
                        creator # None /\ creator \in {Wallets[id].address, info.funder})
    IN  Len(insider) >= 2 /\ 100 * Len(insider) >= InsiderShare * Len(wins)

Verdict(id, info, rows) ==
    CASE RepeatCast(Wallets[id].casts) \/ SharedFunder(id, info, rows)
            \/ InsiderProfits(id, info) -> "suspicious"
      [] OTHER -> IF info = Untraced /\ Len(Wallets[id].casts) < RepeatMinTokens
                    THEN "inconclusive" ELSE "clear"

-----------------------------------------------------------------------------
RecentlyVetted(id) ==
    \E i \in DOMAIN vettingRows : /\ vettingRows[i].wallet = id
                                  /\ vettingRows[i].at >= vettingNow - StaleAfter

(* Tracked wallets first, then by confidence, then by id.                  *)
Earlier(a, b) ==
    LET rank(id) == <<IF Wallets[id].tracked THEN 0 ELSE 1, -OrZero(Wallets[id].confidence), id>>
        x == rank(a)  y == rank(b)
    IN  \/ x[1] < y[1]
        \/ x[1] = y[1] /\ x[2] < y[2]
        \/ x[1] = y[1] /\ x[2] = y[2] /\ x[3] < y[3]
Candidates ==
    LET due == {id \in WalletIds : Candidate(id) /\ ~RecentlyVetted(id)}
    IN  {id \in due : Cardinality({other \in due : Earlier(other, id)}) < VettingBatch}

VettingInit ==
    /\ vettingNow = 0
    /\ vettingRows = <<>>
    /\ mirror = [id \in WalletIds |-> None]
    /\ cycle = IdleCycle
    /\ verdictDue = None
    /\ missed = {}
    /\ faults = 0

Fault == faults < MaxFaults /\ faults' = faults + 1

CycleStarts ==
    /\ ~cycle.running
    /\ Candidates # {}
    /\ cycle' = [IdleCycle EXCEPT !.running = TRUE, !.queue = Candidates]
    /\ UNCHANGED <<vettingNow, vettingRows, mirror, verdictDue, missed, faults>>

(* Faulty variant: each verdict is committed as soon as it is reached.     *)
CommittedAtOnce(row) ==
    /\ vettingRows' = Append(vettingRows, row)
    /\ cycle' = [cycle EXCEPT !.queue = @ \ {row.wallet}]

(* The row is only flushed: it belongs to the cycle's transaction.         *)
FlushRow(row) ==
    /\ cycle' = [cycle EXCEPT !.queue = @ \ {row.wallet}, !.rows = Append(@, row)]
    /\ UNCHANGED vettingRows

(* The wallet whose turn it is.                                            *)
VettedNext(id) ==
    /\ cycle.running /\ ~cycle.broken /\ verdictDue = None
    /\ id \in cycle.queue
    /\ \A other \in cycle.queue : ~Earlier(other, id)

(* vet_wallet up to its flush.  Rows flushed before are seen as peers.     *)
VetWallet(id, answered) ==
    LET info == TraceFunder(Wallets[id].history, answered)
        verdict == Verdict(id, info, vettingRows \o cycle.rows)
    IN  /\ VettedNext(id)
        /\ FlushRow([wallet |-> id, verdict |-> verdict, funder |-> info.funder,
                     kind |-> info.kind, at |-> vettingNow])
        /\ verdictDue' = [wallet |-> id, verdict |-> verdict]
        /\ UNCHANGED <<vettingNow, mirror, missed>>
        /\ IF answered THEN UNCHANGED faults ELSE Fault

(* One bad wallet is skipped; but a failure of the database leaves the     *)
(* session unusable: every later wallet fails too, and so does the commit. *)
VetFails(id, database) ==
    /\ VettedNext(id)
    /\ Fault
    /\ cycle' = [cycle EXCEPT !.broken = database,
                              !.queue = IF database THEN {} ELSE @ \ {id}]
    /\ UNCHANGED <<vettingNow, vettingRows, mirror, verdictDue, missed>>

MirrorVerdict ==
    /\ verdictDue # None
    /\ mirror' = [mirror EXCEPT ![verdictDue.wallet] = verdictDue.verdict]
    /\ missed' = missed \ {verdictDue.wallet}
    /\ verdictDue' = None
    /\ UNCHANGED <<vettingNow, vettingRows, cycle, faults>>

(* Redis refuses the write: logged, the row stays.                         *)
MirrorFails ==
    /\ verdictDue # None
    /\ Fault
    /\ missed' = missed \cup {verdictDue.wallet}
    /\ verdictDue' = None
    /\ UNCHANGED <<vettingNow, vettingRows, mirror, cycle>>

CycleCommits ==
    /\ cycle.running /\ cycle.queue = {} /\ verdictDue = None
    /\ vettingRows' = IF cycle.broken THEN vettingRows ELSE vettingRows \o cycle.rows
    /\ cycle' = IdleCycle
    /\ UNCHANGED <<vettingNow, mirror, verdictDue, missed, faults>>

(* The worker dies, or the database does: nothing of the cycle is kept.    *)
CycleDies ==
    /\ cycle.running
    /\ Fault
    /\ cycle' = IdleCycle
    /\ verdictDue' = None
    /\ UNCHANGED <<vettingNow, vettingRows, mirror, missed>>

VettingTimePasses ==
    /\ ~cycle.running
    /\ vettingNow < MaxVettingNow
    /\ vettingNow' = vettingNow + 1
    /\ UNCHANGED <<vettingRows, mirror, cycle, verdictDue, missed, faults>>

VettingNext == \/ CycleStarts
               \/ \E id \in WalletIds, answered \in BOOLEAN : VetWallet(id, answered)
               \/ \E id \in WalletIds, database \in BOOLEAN : VetFails(id, database)
               \/ MirrorVerdict
               \/ MirrorFails
               \/ CycleCommits
               \/ CycleDies
               \/ VettingTimePasses

-----------------------------------------------------------------------------
(* What the evaluator reads is the verdict of the latest vetting on        *)
(* record, or the wallet is about to be vetted again: a verdict whose row  *)
(* is lost with the cycle is reached anew, and no row is kept whose        *)
(* verdict was never mirrored, unless Redis itself refused it (vetting.py: *)
(* the mirror "must track the verdict even when the caller batches").      *)
MirrorTracksVerdict ==
    ~cycle.running =>
        \A id \in WalletIds \ missed :
            \/ ~RecentlyVetted(id)
            \/ mirror[id] = LatestRow(vettingRows, id).verdict
=============================================================================
