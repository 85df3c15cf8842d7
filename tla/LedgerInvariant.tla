--------------------------- MODULE LedgerInvariant ---------------------------
(***************************************************************************)
(* What a ledger session holds and has written at each of its statements:  *)
(* the invariants from which the ledger's properties follow.               *)
(***************************************************************************)
EXTENDS PositionLedger

Payer(w) == job[w].t.tx.payer

(* Where a session is in its transaction's rows.                           *)
Place(w) ==
    /\ pc[w] = "idle" => job[w] = NoJob
    /\ pc[w] # "idle" => job[w].t \in Txs /\ job[w].rows \in Outcomes[job[w].t]
    /\ pc[w] \notin {"idle", "commit"} => Payer(w) # None
    /\ pc[w] = "wallet" => job[w].at = 1
    /\ pc[w] \in {"token", "pool", "addPool", "insert", "select", "write"} =>
         job[w].at <= Len(job[w].rows)
    /\ pc[w] = "commit" => job[w].at = Len(job[w].rows) + 1
InProgress == \A w \in Writers : Place(w)

(* Past its first statement a session holds its payer's wallet row, and    *)
(* only then has it written positions, all of them the payer's.            *)
PastWallet == {"token", "pool", "addPool", "insert", "select", "write", "commit"}
Locks(w) ==
    /\ pc[w] \in PastWallet /\ Payer(w) # None => rowLock[<<"wallet", Payer(w)>>] = w
    /\ \A pair \in Positioned(w) : pc[w] \in PastWallet /\ Payer(w) # None /\ pair[1] = Payer(w)
WalletLocked == \A w \in Writers : Locks(w)

(* What it has read is current until it writes.                            *)
Current(w) == pc[w] = "write" => job[w].held = EpisodesSeen(w, Row(w).pair)
HeldCurrent == \A w \in Writers : Current(w)

(* It has inserted the rows it has got to - the current one once it is     *)
(* inserted - that were not there; nobody else has inserted any of them.   *)
NewRows(rows, n, recorded) == {rows[i] : i \in {j \in 1..n : ~Recorded(rows[j], recorded)}}
Reached(w) == IF pc[w] \in {"select", "write"} THEN job[w].at ELSE job[w].at - 1
InsertedHere(w) ==
    /\ job[w].inserted = NewRows(job[w].rows, Reached(w), trades)
    /\ pc[w] \in {"select", "write"} => Row(w) \in job[w].inserted /\ Row(w).sol # None
InsertedNew ==
    /\ IsFiniteSet(trades)
    /\ \A w \in Writers : InsertedHere(w)
    /\ \A w, other \in Writers : w # other =>
         \A r \in job[w].inserted : ~Recorded(r, job[other].inserted)

(* Its positions go on from the committed ones.                            *)
Extends(old, new) ==
    /\ Len(old) <= Len(new)
    /\ \A i \in DOMAIN old : old[i].status = "closed" => new[i] = old[i]
OnlyLastOpen(episodes) ==
    \A i \in DOMAIN episodes : i < Len(episodes) => episodes[i].status = "closed"
WritesExtend ==
    /\ \A pair \in Pairs : OnlyLastOpen(positions[pair])
    /\ \A w \in Writers : \A pair \in Positioned(w) :
         /\ Extends(positions[pair], job[w].episodes[pair])
         /\ OnlyLastOpen(job[w].episodes[pair])

(* What it has folded: what it has inserted, but for the row at hand.      *)
Pending(w) == IF pc[w] \in {"select", "write"} THEN {Row(w)} ELSE {}
Valued(rows, pair) == {r \in rows : r.pair = pair /\ r.sol # None}
WritesBalance ==
    \A w \in Writers : \A pair \in Pairs :
        Holding(EpisodesSeen(w, pair))
            = Holding(positions[pair]) + Net(Valued(job[w].inserted \ Pending(w), pair))

(* What it has written: the committed positions and, one after the other,  *)
(* the rows it has got to that were not there, as TradeLedger's Record     *)
(* folds them.                                                             *)
IsReplay(h, old, pair, rows, n, recorded) ==
    /\ h[0] = old
    /\ \A i \in 1..n :
         h[i] = IF rows[i].pair = pair /\ ~Recorded(rows[i], recorded)
                  THEN UpdatePosition(h[i - 1], rows[i]) ELSE h[i - 1]
Replays(eps, old, pair, rows, n, recorded) ==
    \E h : IsReplay(h, old, pair, rows, n, recorded) /\ h[n] = eps
Replayed(w) ==
    pc[w] \in PastWallet /\ Payer(w) # None =>
        \A pair \in Pairs : pair[1] = Payer(w) =>
            Replays(EpisodesSeen(w, pair), positions[pair], pair,
                    job[w].rows, job[w].at - 1, trades)
WritesReplay == \A w \in Writers : Replayed(w)

TypedRows ==
    \A t \in Txs : \A rows \in Outcomes[t] :
        /\ rows \in Seq(Rows)
        /\ \A i \in DOMAIN rows : rows[i].sig = t.id /\ rows[i].index = i
                                  /\ rows[i].pair[1] = t.tx.payer
        /\ t.tx.payer = None => rows = <<>>
=============================================================================
