---------------------------- MODULE LedgerProofs ----------------------------
(***************************************************************************)
(* The ledger's safety properties hold for any transactions, any number of *)
(* writers, deliveries and rollbacks.  The wallet row a session locks with *)
(* its first statement keeps sessions of one payer apart; what a session   *)
(* has read and written is then still current when it commits.             *)
(* It begins with the parsers, whose events the ledger records, and ends   *)
(* with them: an event is a net change of the payer's balances, and the    *)
(* events of a trade are that trade.                                       *)
(***************************************************************************)
EXTENDS LedgerInvariant, ChainTrades, SumProofs, SequenceTheorems

(* A position's fold stays a position and moves what is held by the trade. *)
Signed(row) == IF row.side = "buy" THEN row.tokens ELSE -row.tokens

(* A new episode is a position.                                            *)
LEMMA NewPositionType == NewPosition \in Positions
BY DEF NewPosition, Positions

(* Counting a trade changes nothing but counters.                          *)
LEMMA CountedType ==
  ASSUME NEW p \in Positions
  PROVE  /\ Counted(p) \in Positions
         /\ \A f \in {"status", "bought", "sold", "boughtSol", "soldSol", "realized"} :
              Counted(p)[f] = p[f]
BY DEF Counted, Positions

(* What was paid for the tokens sold is a number.                          *)
LEMMA CostType ==
  ASSUME NEW p \in Positions, NEW n \in Nat
  PROVE  CostBasis(p, n) \in Int
<1>1. CASE p.bought = 0
  BY <1>1 DEF CostBasis
<1>2. CASE p.bought # 0
  <2>1. p.bought \in Nat /\ p.boughtSol \in Nat /\ Scale \in Nat
    BY LedgerUnits DEF Positions
  <2>2. PICK b : b = p.bought
    OBVIOUS
  <2>3. PICK cost : cost = Scale * p.boughtSol
    OBVIOUS
  <2>4. cost \in Int
    BY <2>1, <2>3
  <2>5. PICK whole : whole = cost * n
    OBVIOUS
  <2>6. whole \in Int
    BY <2>4, <2>5
  <2>7. b \in Nat /\ b > 0
    BY <1>2, <2>1, <2>2
  <2>8. whole \div b \in Int
    BY <2>6, <2>7
  <2>. QED BY <1>2, <2>2, <2>3, <2>5, <2>8 DEF CostBasis
<1>. QED BY <1>1, <1>2

(* A fold changes what a position holds by the trade's tokens.             *)
LEMMA FoldOnce ==
  ASSUME NEW p \in Positions, NEW row \in Rows, row.sol # None
  PROVE  /\ Fold(p, row) \in Positions
         /\ Remaining(Fold(p, row)) = Remaining(p) + Signed(row)
<1>1. row.sol \in Nat /\ row.tokens \in Nat /\ row.side \in {"buy", "sell"}
  BY DEF Rows
<1>2. PICK c : c = Counted(p)
  OBVIOUS
<1>3. c \in Positions /\ c.bought = p.bought /\ c.sold = p.sold
  BY <1>2, CountedType
<1>4. CASE row.side = "buy"
  <2>1. PICK q : q = Bought(p, row)
    OBVIOUS
  <2>5. q = [c EXCEPT !.bought = c.bought + row.tokens, !.boughtSol = c.boughtSol + row.sol]
    BY <1>2, <2>1 DEF Bought
  <2>2. q \in Positions /\ q.bought = p.bought + row.tokens /\ q.sold = p.sold
    <3>1. PICK b, s : b = c.bought + row.tokens /\ s = c.boughtSol + row.sol
      OBVIOUS
    <3>2. b \in Nat /\ s \in Nat
      BY <1>1, <1>3, <3>1 DEF Positions
    <3>3. q = [c EXCEPT !.bought = b, !.boughtSol = s]
      BY <2>5, <3>1
    <3>4. q \in Positions /\ q.bought = b /\ q.sold = c.sold
      BY <1>3, <3>2, <3>3 DEF Positions
    <3>. QED BY <1>3, <3>1, <3>4
  <2>3. /\ [q EXCEPT !.status = "closed"] \in Positions
        /\ Remaining([q EXCEPT !.status = "closed"]) = Remaining(q)
    BY <2>2 DEF Positions, Remaining
  <2>4. Remaining(q) = Remaining(p) + row.tokens
    BY <1>1, <2>2 DEF Positions, Remaining
  <2>. QED BY <1>4, <2>1, <2>2, <2>3, <2>4 DEF Fold, Signed
<1>5. CASE row.side = "sell"
  <2>1. PICK q : q = Sold(p, row)
    OBVIOUS
  <2>2. PICK cost : cost = CostBasis(p, row.tokens)
    OBVIOUS
  <2>3. cost \in Int /\ Scale * row.sol \in Int
    BY <1>1, <2>2, CostType, LedgerUnits
  <2>4. PICK gain : gain = Scale * row.sol
    OBVIOUS
  <2>5. q = [c EXCEPT !.sold = c.sold + row.tokens, !.soldSol = c.soldSol + row.sol,
                      !.realized = c.realized + gain - cost]
    BY <1>2, <2>1, <2>2, <2>4 DEF Sold
  <2>6. q \in Positions /\ q.bought = p.bought /\ q.sold = p.sold + row.tokens
    <3>1. PICK b, s, r : /\ b = c.sold + row.tokens /\ s = c.soldSol + row.sol
                         /\ r = c.realized + gain - cost
      OBVIOUS
    <3>2. b \in Nat /\ s \in Nat /\ c.realized \in Int
      BY <1>1, <1>3, <3>1 DEF Positions
    <3>3. r \in Int
      BY <2>3, <2>4, <3>1, <3>2
    <3>4. q = [c EXCEPT !.sold = b, !.soldSol = s, !.realized = r]
      BY <2>5, <3>1
    <3>5. q \in Positions /\ q.bought = c.bought /\ q.sold = b
      BY <1>3, <3>2, <3>3, <3>4 DEF Positions
    <3>. QED BY <1>3, <3>1, <3>5
  <2>7. /\ [q EXCEPT !.status = "closed"] \in Positions
        /\ Remaining([q EXCEPT !.status = "closed"]) = Remaining(q)
    BY <2>6 DEF Positions, Remaining
  <2>8. Remaining(q) = Remaining(p) - row.tokens
    BY <1>1, <2>6 DEF Positions, Remaining
  <2>9. Remaining(p) + Signed(row) = Remaining(p) - row.tokens
    BY <1>1, <1>5 DEF Signed, Positions, Remaining
  <2>10. Fold(p, row) = IF Exhausted(q) THEN [q EXCEPT !.status = "closed"] ELSE q
    BY <1>5, <2>1 DEF Fold
  <2>. QED BY <2>6, <2>7, <2>8, <2>9, <2>10
<1>. QED BY <1>1, <1>4, <1>5

-----------------------------------------------------------------------------
(* What a trade does to the positions of its wallet and token: the last    *)
(* one is changed, if it is open, or one is added.                         *)
LEMMA UpdateForm ==
  ASSUME NEW eps \in Seq(Positions), NEW row \in Rows
  PROVE  \/ row.sol = None /\ UpdatePosition(eps, row) = eps
         \/ /\ row.sol # None
            /\ \E p \in Positions :
                 \/ /\ eps # <<>> /\ eps[Len(eps)].status = "open"
                    /\ Remaining(p) = Remaining(eps[Len(eps)]) + Signed(row)
                    /\ UpdatePosition(eps, row) = [eps EXCEPT ![Len(eps)] = p]
                 \/ /\ eps # <<>> => eps[Len(eps)].status # "open"
                    /\ Remaining(p) = Signed(row)
                    /\ UpdatePosition(eps, row) = Append(eps, p)
<1>1. CASE row.sol = None
  BY <1>1 DEF UpdatePosition
<1>2. CASE row.sol # None /\ HasOpen(eps)
  <2>1. eps # <<>> /\ eps[Len(eps)].status = "open" /\ Last(eps) = eps[Len(eps)]
    BY <1>2 DEF HasOpen, Last
  <2>2. eps[Len(eps)] \in Positions
    BY <2>1, ElementOfSeq, EmptySeq, LenProperties
  <2>3. PICK p : p = Fold(eps[Len(eps)], row)
    OBVIOUS
  <2>4. p \in Positions /\ Remaining(p) = Remaining(eps[Len(eps)]) + Signed(row)
    BY <1>2, <2>2, <2>3, FoldOnce
  <2>5. UpdatePosition(eps, row) = [eps EXCEPT ![Len(eps)] = p]
    BY <1>2, <2>1, <2>3 DEF UpdatePosition
  <2>. QED BY <1>2, <2>1, <2>4, <2>5
<1>3. CASE row.sol # None /\ ~HasOpen(eps)
  <2>1. eps # <<>> => eps[Len(eps)].status # "open"
    BY <1>3 DEF HasOpen, Last
  <2>2. PICK p : p = Fold(NewPosition, row)
    OBVIOUS
  <2>3. p \in Positions /\ Remaining(p) = Remaining(NewPosition) + Signed(row)
    BY <1>3, <2>2, NewPositionType, FoldOnce
  <2>4. Remaining(NewPosition) = 0 /\ Signed(row) \in Int
    BY DEF Remaining, NewPosition, Signed, Rows
  <2>5. UpdatePosition(eps, row) = Append(eps, p)
    BY <1>3, <2>2 DEF UpdatePosition
  <2>. QED BY <1>3, <2>1, <2>3, <2>4, <2>5
<1>. QED BY <1>1, <1>2, <1>3

(* What a position holds is a number.                                      *)
LEMMA RemainingType == \A p \in Positions : Remaining(p) \in Int
BY DEF Remaining, Positions

(* So is what a pair's episodes hold together.                             *)
LEMMA HoldingType ==
  ASSUME NEW eps \in Seq(Positions)
  PROVE  Holding(eps) \in Int
<1>. DEFINE f == [i \in DOMAIN eps |-> Remaining(eps[i])]
<1>1. IsFiniteSet(DOMAIN eps)
  BY LenProperties, FS_Interval
<1>2. \A i \in DOMAIN eps : f[i] \in Int
  BY LenProperties, ElementOfSeq, RemainingType
<1>3. SumOver(f, DOMAIN eps) \in Int
  <2>. HIDE DEF f
  <2>. QED BY <1>1, <1>2, SumType
<1>. QED BY <1>3 DEF Holding

(* Changing the last episode changes the pair's holding by as much.        *)
LEMMA HoldingChanged ==
  ASSUME NEW eps \in Seq(Positions), eps # <<>>, NEW p \in Positions,
         NEW n \in Int, Remaining(p) = Remaining(eps[Len(eps)]) + n
  PROVE  LET new == [eps EXCEPT ![Len(eps)] = p]
         IN  /\ new \in Seq(Positions) /\ new # <<>> /\ Len(new) = Len(eps)
             /\ Holding(new) = Holding(eps) + n
<1>. DEFINE new == [eps EXCEPT ![Len(eps)] = p]
            f == [i \in DOMAIN eps |-> Remaining(eps[i])]
            g == [i \in DOMAIN new |-> Remaining(new[i])]
            e == Len(eps)
<1>1. DOMAIN eps = 1..e /\ e \in Nat \ {0} /\ e \in DOMAIN eps
  BY LenProperties, EmptySeq
<1>2. new \in [1..e -> Positions] /\ DOMAIN new = DOMAIN eps
  BY <1>1, ElementOfSeq, LenProperties
<1>3. new \in Seq(Positions) /\ Len(new) = e
  BY <1>1, <1>2, SeqDef, LenProperties
<1>4. new # <<>>
  BY <1>1, <1>3, EmptySeq
<1>5. IsFiniteSet(DOMAIN eps)
  BY <1>1, FS_Interval
<1>6. \A i \in DOMAIN eps : f[i] \in Int /\ g[i] \in Int
  BY <1>1, <1>2, <1>3, ElementOfSeq, RemainingType
<1>7. \A i \in DOMAIN eps \ {e} : g[i] = f[i]
  BY <1>1, <1>2
<1>8. g[e] = f[e] + n
  BY <1>1, <1>2
<1>9. SumOver(g, DOMAIN eps) = SumOver(f, DOMAIN eps) - f[e] + g[e]
  <2>. HIDE DEF f, g, e
  <2>1. PICK S, x, before, after : S = DOMAIN eps /\ x = e /\ before = f /\ after = g
    OBVIOUS
  <2>2. /\ IsFiniteSet(S) /\ x \in S
        /\ \A i \in S : before[i] \in Int /\ after[i] \in Int
        /\ \A i \in S \ {x} : after[i] = before[i]
    BY <1>1, <1>5, <1>6, <1>7, <2>1
  <2>3. SumOver(after, S) = SumOver(before, S) - before[x] + after[x]
    BY <2>2, SumChange
  <2>. QED BY <2>1, <2>3
<1>10. SumOver(f, DOMAIN eps) \in Int
  <2>. HIDE DEF f
  <2>. QED BY <1>5, <1>6, SumType
<1>11. Holding(eps) = SumOver(f, DOMAIN eps) /\ Holding(new) = SumOver(g, DOMAIN eps)
  BY <1>2 DEF Holding
<1>12. Holding(new) = Holding(eps) + n
  <2>1. f[e] \in Int
    BY <1>1, <1>6
  <2>. HIDE DEF f, g, e, new
  <2>. QED BY <1>8, <1>9, <1>10, <1>11, <2>1
<1>. QED BY <1>3, <1>4, <1>12

(* A further episode adds what it holds.                                   *)
LEMMA HoldingAdded ==
  ASSUME NEW eps \in Seq(Positions), NEW p \in Positions
  PROVE  LET new == Append(eps, p)
         IN  /\ new \in Seq(Positions) /\ new # <<>> /\ Len(new) = Len(eps) + 1
             /\ Holding(new) = Holding(eps) + Remaining(p)
<1>. DEFINE new == Append(eps, p)
            f == [i \in DOMAIN eps |-> Remaining(eps[i])]
            g == [i \in DOMAIN new |-> Remaining(new[i])]
            e == Len(eps) + 1
<1>1. /\ new \in Seq(Positions) /\ new # <<>> /\ Len(new) = e
      /\ \A i \in 1..Len(eps) : new[i] = eps[i]
      /\ new[e] = p
  BY AppendProperties
<1>2. Len(eps) \in Nat /\ DOMAIN eps = 1..Len(eps) /\ DOMAIN new = 1..e
  BY <1>1, LenProperties
<1>3. e \notin DOMAIN eps /\ DOMAIN new = DOMAIN eps \cup {e}
  BY <1>2
<1>4. IsFiniteSet(DOMAIN eps)
  BY <1>2, FS_Interval
<1>5. \A i \in DOMAIN new : g[i] \in Int
  BY <1>1, <1>2, ElementOfSeq, RemainingType
<1>6. \A i \in DOMAIN eps : g[i] = f[i]
  BY <1>1, <1>2, <1>3
<1>7. SumOver(g, DOMAIN eps \cup {e}) = g[e] + SumOver(g, DOMAIN eps)
  <2>. HIDE DEF g, e
  <2>. QED BY <1>3, <1>4, <1>5, SumAdd
<1>8. SumOver(g, DOMAIN eps) = SumOver(f, DOMAIN eps)
  <2>. HIDE DEF f, g
  <2>. QED BY <1>4, <1>6, SumSame
<1>9. g[e] = Remaining(p) /\ Remaining(p) \in Int
  BY <1>1, <1>3, RemainingType
<1>10. Holding(eps) = SumOver(f, DOMAIN eps) /\ Holding(new) = SumOver(g, DOMAIN eps \cup {e})
  BY <1>3 DEF Holding
<1>11. Holding(eps) \in Int
  BY HoldingType
<1>12. Holding(new) = Holding(eps) + Remaining(p)
  <2>. HIDE DEF f, g, e, new
  <2>. QED BY <1>7, <1>8, <1>9, <1>10, <1>11
<1>. QED BY <1>1, <1>12

(* A trade moves a number of tokens.                                       *)
LEMMA SignedType == \A row \in Rows : Signed(row) \in Int
BY DEF Signed, Rows

(* update_position changes a pair's holding by the trade's tokens.         *)
LEMMA UpdateType ==
  ASSUME NEW eps \in Seq(Positions), NEW row \in Rows
  PROVE  /\ UpdatePosition(eps, row) \in Seq(Positions)
         /\ row.sol # None => UpdatePosition(eps, row) # <<>>
         /\ row.sol # None => Holding(UpdatePosition(eps, row)) = Holding(eps) + Signed(row)
<1>1. CASE row.sol = None
  BY <1>1, UpdateForm
<1>2. CASE row.sol # None
  <2>1. PICK p \in Positions :
                 \/ /\ eps # <<>>
                    /\ Remaining(p) = Remaining(eps[Len(eps)]) + Signed(row)
                    /\ UpdatePosition(eps, row) = [eps EXCEPT ![Len(eps)] = p]
                 \/ /\ Remaining(p) = Signed(row)
                    /\ UpdatePosition(eps, row) = Append(eps, p)
    BY <1>2, UpdateForm
  <2>2. Signed(row) \in Int
    BY SignedType
  <2>3. CASE /\ eps # <<>>
             /\ Remaining(p) = Remaining(eps[Len(eps)]) + Signed(row)
             /\ UpdatePosition(eps, row) = [eps EXCEPT ![Len(eps)] = p]
    BY <2>2, <2>3, HoldingChanged
  <2>4. CASE /\ Remaining(p) = Signed(row)
             /\ UpdatePosition(eps, row) = Append(eps, p)
    BY <2>4, HoldingAdded
  <2>. QED BY <2>1, <2>3, <2>4
<1>. QED BY <1>1, <1>2

(* update_position leaves closed episodes alone and only the last one open.*)
LEMMA UpdateExtends ==
  ASSUME NEW eps \in Seq(Positions), NEW row \in Rows, OnlyLastOpen(eps)
  PROVE  /\ Extends(eps, UpdatePosition(eps, row))
         /\ OnlyLastOpen(UpdatePosition(eps, row))
<1>0. Len(eps) \in Nat /\ DOMAIN eps = 1..Len(eps)
      /\ \A i \in 1..Len(eps) : eps[i] \in Positions
  BY LenProperties, ElementOfSeq
<1>1. CASE row.sol = None
  BY <1>0, <1>1, UpdateForm DEF Extends
<1>2. CASE row.sol # None
  <2>1. PICK p \in Positions :
                 \/ /\ eps # <<>> /\ eps[Len(eps)].status = "open"
                    /\ Remaining(p) = Remaining(eps[Len(eps)]) + Signed(row)
                    /\ UpdatePosition(eps, row) = [eps EXCEPT ![Len(eps)] = p]
                 \/ /\ eps # <<>> => eps[Len(eps)].status # "open"
                    /\ UpdatePosition(eps, row) = Append(eps, p)
    BY <1>2, UpdateForm
  <2>2. PICK new : new = UpdatePosition(eps, row)
    OBVIOUS
  <2>3. CASE /\ eps # <<>> /\ eps[Len(eps)].status = "open"
             /\ Remaining(p) = Remaining(eps[Len(eps)]) + Signed(row)
             /\ new = [eps EXCEPT ![Len(eps)] = p]
    <3>1. Len(new) = Len(eps)
      BY <2>3, SignedType, HoldingChanged
    <3>2. \A i \in 1..Len(eps) : i # Len(eps) => new[i] = eps[i]
      BY <1>0, <2>3
    <3>3. Extends(eps, new)
      BY <1>0, <2>3, <3>1, <3>2 DEF Extends
    <3>4. OnlyLastOpen(new)
      BY <1>0, <2>3, <3>1, <3>2 DEF OnlyLastOpen
    <3>. QED BY <2>2, <3>3, <3>4
  <2>4. CASE /\ eps # <<>> => eps[Len(eps)].status # "open"
             /\ new = Append(eps, p)
    <3>1. Len(new) = Len(eps) + 1 /\ \A i \in 1..Len(eps) : new[i] = eps[i]
      BY <2>4, AppendProperties
    <3>2. \A i \in 1..Len(eps) : eps[i].status = "closed"
      <4>1. SUFFICES ASSUME NEW i \in 1..Len(eps) PROVE eps[i].status = "closed"
        OBVIOUS
      <4>2. CASE i = Len(eps)
        <5>1. eps # <<>>
          BY <1>0, <4>2, EmptySeq
        <5>2. eps[i].status # "open"
          BY <2>4, <4>2, <5>1
        <5>3. eps[i] \in Positions
          BY <1>0
        <5>. QED BY <5>2, <5>3 DEF Positions
      <4>3. CASE i # Len(eps)
        <5>1. i \in DOMAIN eps /\ Len(eps) \in Nat
          BY <1>0
        <5>2. i < Len(eps)
          BY <4>3, <5>1
        <5>. QED BY <5>1, <5>2 DEF OnlyLastOpen
      <4>. QED BY <4>2, <4>3
    <3>3. Extends(eps, new)
      BY <1>0, <3>1 DEF Extends
    <3>4. OnlyLastOpen(new)
      BY <1>0, <3>1, <3>2 DEF OnlyLastOpen
    <3>. QED BY <2>2, <3>3, <3>4
  <2>. QED BY <2>1, <2>2, <2>3, <2>4
<1>. QED BY <1>1, <1>2

(* Episodes that go on from others go on from what those went on from.     *)
LEMMA ExtendsOn ==
  ASSUME NEW a \in Seq(Positions), NEW b \in Seq(Positions), NEW c \in Seq(Positions),
         Extends(a, b), Extends(b, c)
  PROVE  Extends(a, c)
<1>1. /\ Len(a) \in Nat /\ Len(b) \in Nat /\ Len(c) \in Nat
      /\ DOMAIN a = 1..Len(a) /\ DOMAIN b = 1..Len(b)
  BY LenProperties
<1>2. DOMAIN a \subseteq DOMAIN b
  BY <1>1 DEF Extends
<1>. QED BY <1>1, <1>2 DEF Extends

-----------------------------------------------------------------------------
(* What a transaction parses to: events of its payer, of tokens of its     *)
(* own, with amounts that are natural numbers.                             *)
WellFormed(tx) ==
    /\ IsFiniteSet(DOMAIN tx.accounts)
    /\ \A i \in DOMAIN tx.accounts :
         LET a == tx.accounts[i] IN a.mint \in Nat /\ a.pre \in Nat /\ a.post \in Nat
    /\ tx.lamports \in Int /\ tx.fee \in Nat /\ tx.tips \in Nat

TokensOf(tx) == {tx.accounts[i].mint : i \in DOMAIN tx.accounts} \ QuoteMints

(* What the payer's balances changed by, in a mint it may have paid with.  *)
NetChanges(tx, quote) ==
    {TokenDelta(tx, tx.payer, quote)} \cup (IF quote = WSOL THEN {NativeSolDelta(tx)} ELSE {})

IsNetChange(tx, e) ==
    LET delta == TokenDelta(tx, tx.payer, e.token) IN
    /\ e.token \in MovedTokens(tx, tx.payer)
    /\ e.tokens = Abs(delta) /\ e.side = (IF delta > 0 THEN "buy" ELSE "sell")
    /\ \E paid \in NetChanges(tx, e.quote) : e.paid = Abs(paid) /\ Opposite(paid, delta)

IsEvent(tx, e) ==
    /\ {"wallet", "side", "token", "quote", "tokens", "paid", "aggregator"} \subseteq DOMAIN e
    /\ e.wallet = tx.payer /\ e.side \in {"buy", "sell"} /\ e.token \in TokensOf(tx)
    /\ e.tokens \in Nat /\ e.paid \in Nat
    /\ IsNetChange(tx, e)

AreEvents(tx, s) == \E V : s \in Seq(V) /\ \A e \in V : IsEvent(tx, e)

(* A sequence over a transaction's events is a sequence of its events.     *)
LEMMA EventsOf ==
  ASSUME NEW tx, NEW V, NEW s \in Seq(V), \A e \in V : IsEvent(tx, e)
  PROVE  AreEvents(tx, s)
BY DEF AreEvents

(* No events are events of any transaction.                                *)
LEMMA NoEvents == \A tx : AreEvents(tx, <<>>)
<1>. SUFFICES ASSUME NEW tx PROVE AreEvents(tx, <<>>)
  OBVIOUS
<1>1. PICK s, V : s = <<>> /\ V = {}
  OBVIOUS
<1>2. s \in Seq(V) /\ \A e \in V : IsEvent(tx, e)
  BY <1>1, EmptySeq
<1>3. AreEvents(tx, s)
  BY <1>2, EventsOf
<1>. QED BY <1>1, <1>3

(* One event.                                                              *)
LEMMA OneEvent ==
  ASSUME NEW tx, NEW e, IsEvent(tx, e)
  PROVE  AreEvents(tx, <<e>>)
<1>1. PICK s, V : s = <<e>> /\ V = {e}
  OBVIOUS
<1>2. s \in Seq(V) /\ \A x \in V : IsEvent(tx, x)
  BY <1>1
<1>3. AreEvents(tx, s)
  BY <1>2, EventsOf
<1>. QED BY <1>1, <1>3

(* Events of two venues of a transaction, one after the other.             *)
LEMMA MoreEvents ==
  ASSUME NEW tx, NEW s, NEW t, AreEvents(tx, s), AreEvents(tx, t)
  PROVE  AreEvents(tx, s \o t)
<1>1. PICK V : s \in Seq(V) /\ \A e \in V : IsEvent(tx, e)
  BY DEF AreEvents
<1>2. PICK W : t \in Seq(W) /\ \A e \in W : IsEvent(tx, e)
  BY DEF AreEvents
<1>3. s \in Seq(V \cup W) /\ t \in Seq(V \cup W)
  BY <1>1, <1>2, SeqDef
<1>4. s \o t \in Seq(V \cup W)
  BY <1>3, ConcatProperties
<1>. QED BY <1>1, <1>2, <1>4 DEF AreEvents

(* A net balance change is a number.                                       *)
LEMMA DeltaType ==
  ASSUME NEW tx, WellFormed(tx), NEW owner, NEW mint
  PROVE  TokenDelta(tx, owner, mint) \in Int
<1>. DEFINE f == [i \in DOMAIN tx.accounts |->
                    LET a == tx.accounts[i] IN
                    IF a.owner = owner /\ a.mint = mint THEN a.post - a.pre ELSE 0]
            S == DOMAIN tx.accounts
<1>1. \A i \in S : f[i] \in Int
  BY DEF WellFormed
<1>2. IsFiniteSet(S)
  BY DEF WellFormed
<1>3. SumOver(f, S) \in Int
  <2>. HIDE DEF f, S
  <2>. QED BY <1>1, <1>2, SumType
<1>. QED BY <1>3 DEF TokenDelta

(* An absolute value is a natural number.                                  *)
LEMMA AbsType == \A x \in Int : Abs(x) \in Nat
BY DEF Abs

(* An event that a parser builds names the payer and a token that moved,   *)
(* and has the amounts of the payer's balance changes.                     *)
LEMMA EventIs ==
  ASSUME NEW tx, NEW venue, NEW token \in MovedTokens(tx, tx.payer), NEW delta \in Int,
         delta = TokenDelta(tx, tx.payer, token), NEW quote, NEW amount \in Int,
         amount \in NetChanges(tx, quote), Opposite(amount, delta)
  PROVE  IsEvent(tx, Event(tx, venue, token, delta, quote, amount))
<1>. DEFINE e == Event(tx, venue, token, delta, quote, amount)
<1>1. PICK d, a : d = Abs(delta) /\ a = Abs(amount)
  OBVIOUS
<1>2. d \in Nat /\ a \in Nat
  BY <1>1, AbsType
<1>3. /\ e.token = token /\ e.quote = quote /\ e.tokens = d /\ e.paid = a
      /\ e.side = (IF delta > 0 THEN "buy" ELSE "sell") /\ e.wallet = tx.payer
      /\ {"wallet", "side", "token", "quote", "tokens", "paid", "aggregator"} \subseteq DOMAIN e
  BY <1>1 DEF Event
<1>4. token \in TokensOf(tx)
  BY DEF MovedTokens, TokensOf
<1>. HIDE DEF e
<1>5. IsNetChange(tx, e)
  BY <1>1, <1>3 DEF IsNetChange
<1>6. IsEvent(tx, e)
  BY <1>2, <1>3, <1>4, <1>5 DEF IsEvent
<1>. QED BY <1>6 DEF e

(* The trade leg is one of the two native changes.                         *)
LEMMA TradeLegType ==
  ASSUME NEW a \in Int, NEW b \in Int, NEW legs, legs \subseteq {a, b}, legs # {}
  PROVE  TradeLeg(legs) \in Int /\ TradeLeg(legs) \in legs
<1>1. \E leg \in legs : \A other \in legs : Abs(other) <= Abs(leg)
  <2>1. PICK x, y : x = Abs(a) /\ y = Abs(b)
    OBVIOUS
  <2>2. x \in Nat /\ y \in Nat
    BY <2>1, AbsType
  <2>3. CASE legs = {a}
    BY <2>1, <2>2, <2>3
  <2>4. CASE legs = {b}
    BY <2>1, <2>2, <2>4
  <2>5. CASE legs = {a, b} /\ x <= y
    BY <2>1, <2>2, <2>5
  <2>6. CASE legs = {a, b} /\ y <= x
    BY <2>1, <2>2, <2>6
  <2>7. legs = {a} \/ legs = {b} \/ legs = {a, b}
    OBVIOUS
  <2>8. x <= y \/ y <= x
    BY <2>2
  <2>. QED BY <2>3, <2>4, <2>5, <2>6, <2>7, <2>8
<1>2. TradeLeg(legs) \in legs
  BY <1>1 DEF TradeLeg
<1>. QED BY <1>2

(* A swap of a token against a quote mint yields events of the transaction.*)
LEMMA TokenSwapIs ==
  ASSUME NEW tx, WellFormed(tx), NEW venue, NEW token \in MovedTokens(tx, tx.payer),
         NEW stables \in StableOrders
  PROVE  AreEvents(tx, TokenSwap(tx, venue, token, stables))
<1>. DEFINE delta == TokenDelta(tx, tx.payer, token)
            legs == SolLegs(tx, delta)
            counter == {i \in DOMAIN stables :
                          Opposite(TokenDelta(tx, tx.payer, stables[i]), delta)}
            stable == stables[Min(counter)]
            wsol == TokenDelta(tx, tx.payer, WSOL)
            native == IF Abs(NativeSolDelta(tx)) >= MinSolFlow THEN NativeSolDelta(tx) ELSE 0
<1>1. delta \in Int /\ wsol \in Int /\ TokenDelta(tx, tx.payer, stable) \in Int
  BY DeltaType
<1>2. native \in Int
  BY DEF WellFormed, NativeSolDelta
<1>3. legs \subseteq {wsol, native}
  BY DEF SolLegs
<1>4. CASE legs # {}
  <2>1. TradeLeg(legs) \in Int
    <3>. HIDE DEF legs, wsol, native, delta
    <3>. QED BY <1>1, <1>2, <1>3, <1>4, TradeLegType
  <2>2. TradeLeg(legs) \in legs
    <3>. HIDE DEF legs, wsol, native, delta
    <3>. QED BY <1>1, <1>2, <1>3, <1>4, TradeLegType
  <2>3. TradeLeg(legs) \in NetChanges(tx, WSOL) /\ Opposite(TradeLeg(legs), delta)
    <3>1. \A leg \in legs : leg \in {wsol, native} /\ Opposite(leg, delta)
      BY DEF SolLegs
    <3>2. ~Opposite(0, delta)
      BY DEF Opposite
    <3>3. \A leg \in legs : leg \in NetChanges(tx, WSOL) /\ Opposite(leg, delta)
      <4>. HIDE DEF legs, delta
      <4>. QED BY <3>1, <3>2 DEF NetChanges
    <3>. HIDE DEF legs, delta
    <3>. QED BY <2>2, <3>3
  <2>4. IsEvent(tx, Event(tx, venue, token, delta, WSOL, TradeLeg(legs)))
    <3>. HIDE DEF legs
    <3>. QED BY <1>1, <2>1, <2>3, EventIs
  <2>5. TokenSwap(tx, venue, token, stables)
          = <<Event(tx, venue, token, delta, WSOL, TradeLeg(legs))>>
    BY <1>4 DEF TokenSwap
  <2>. HIDE DEF legs, delta
  <2>. QED BY <2>4, <2>5, OneEvent
<1>5. CASE legs = {} /\ counter # {}
  <2>. DEFINE paid == TokenDelta(tx, tx.payer, stable)
  <2>1. IsEvent(tx, Event(tx, venue, token, delta, stable, paid))
    <3>1. IsFiniteSet(counter) /\ counter \subseteq Int
      <4>1. DOMAIN stables = 1..2
        <5>1. stables = <<USDC, USDT>> \/ stables = <<USDT, USDC>>
          BY DEF StableOrders
        <5>. QED BY <5>1
      <4>2. IsFiniteSet(1..2)
        <5>1. 1 \in Int /\ 2 \in Int
          OBVIOUS
        <5>. QED BY <5>1, FS_Interval
      <4>3. counter \subseteq 1..2
        BY <4>1
      <4>. HIDE DEF counter
      <4>4. counter \subseteq Int
        BY <4>3
      <4>5. IsFiniteSet(counter)
        BY <4>2, <4>3, FS_Subset
      <4>. QED BY <4>4, <4>5
    <3>2. Min(counter) \in counter
      <4>. HIDE DEF counter
      <4>. QED BY <1>5, <3>1, MinIn
    <3>3. Opposite(paid, delta)
      BY <3>2
    <3>4. paid \in NetChanges(tx, stable)
      BY DEF NetChanges
    <3>. HIDE DEF counter, stable, paid
    <3>. QED BY <1>1, <3>3, <3>4, EventIs DEF paid
  <2>2. TokenSwap(tx, venue, token, stables)
          = <<Event(tx, venue, token, delta, stable, paid)>>
    BY <1>5 DEF TokenSwap
  <2>. HIDE DEF counter, stable, delta, paid
  <2>. QED BY <2>1, <2>2, OneEvent
<1>6. CASE legs = {} /\ counter = {}
  <2>1. TokenSwap(tx, venue, token, stables) = <<>>
    BY <1>6 DEF TokenSwap
  <2>. QED BY <2>1, NoEvents
<1>. QED BY <1>4, <1>5, <1>6

(* So does a swap of two tokens.                                           *)
LEMMA TokenToTokenIs ==
  ASSUME NEW tx, WellFormed(tx), NEW venue, NEW a \in MovedTokens(tx, tx.payer),
         NEW b \in MovedTokens(tx, tx.payer)
  PROVE  AreEvents(tx, TokenToToken(tx, venue, a, b))
<1>. DEFINE da == TokenDelta(tx, tx.payer, a)
            db == TokenDelta(tx, tx.payer, b)
            one == Event(tx, venue, a, da, b, db)
            two == Event(tx, venue, b, db, a, da)
<1>1. ASSUME Opposite(da, db) PROVE IsEvent(tx, one) /\ IsEvent(tx, two)
  <2>1. da \in Int /\ db \in Int /\ da # 0 /\ db # 0
    BY DeltaType DEF MovedTokens
  <2>2. Opposite(db, da)
    <3>. HIDE DEF da, db
    <3>. QED BY <1>1, <2>1 DEF Opposite
  <2>3. db \in NetChanges(tx, b) /\ da \in NetChanges(tx, a)
    BY DEF NetChanges
  <2>. QED BY <1>1, <2>1, <2>2, <2>3, EventIs
<1>2. ASSUME Opposite(da, db) PROVE AreEvents(tx, <<one, two>>)
  <2>. HIDE DEF one, two
  <2>1. PICK s, V : s = <<one, two>> /\ V = {one, two}
    OBVIOUS
  <2>2. s \in Seq(V) /\ \A x \in V : IsEvent(tx, x)
    BY <1>1, <1>2, <2>1
  <2>3. AreEvents(tx, s)
    BY <2>2, EventsOf
  <2>. QED BY <2>1, <2>3
<1>3. TokenToToken(tx, venue, a, b) = IF Opposite(da, db) THEN <<one, two>> ELSE <<>>
  BY DEF TokenToToken
<1>. HIDE DEF one, two, da, db
<1>. QED BY <1>2, <1>3, NoEvents

(* So does everything a venue infers from balances.                        *)
LEMMA InferIs ==
  ASSUME NEW tx, WellFormed(tx), NEW program, NEW pool, NEW stables \in StableOrders
  PROVE  AreEvents(tx, InferSwapEvents(tx, program, pool, stables))
<1>. DEFINE moved == MovedTokens(tx, tx.payer)
            venue == [dex |-> DexOf(program), program |-> program, pool |-> pool]
<1>1. moved \subseteq TokensOf(tx)
  BY DEF MovedTokens, TokensOf
<1>2. TokensOf(tx) \subseteq Int
  BY DEF WellFormed, TokensOf
<1>3. IsFiniteSet(moved)
  <2>. DEFINE f == [i \in DOMAIN tx.accounts |-> tx.accounts[i].mint]
              mints == {f[i] : i \in DOMAIN tx.accounts}
  <2>1. IsFiniteSet(DOMAIN tx.accounts)
    BY DEF WellFormed
  <2>2. IsFiniteSet(mints)
    <3>. HIDE DEF f
    <3>. QED BY <2>1, ImageFinite
  <2>3. moved \subseteq mints
    BY <1>1 DEF TokensOf
  <2>. HIDE DEF mints, moved
  <2>. QED BY <2>2, <2>3, FS_Subset
<1>4. CASE Cardinality(moved) = 1
  <2>1. moved # {}
    <3>. HIDE DEF moved
    <3>. QED BY <1>4, FS_EmptySet
  <2>2. (CHOOSE t \in moved : TRUE) \in moved
    BY <2>1
  <2>3. InferSwapEvents(tx, program, pool, stables)
          = TokenSwap(tx, venue, CHOOSE t \in moved : TRUE, stables)
    BY <1>4 DEF InferSwapEvents
  <2>. HIDE DEF venue
  <2>. QED BY <2>2, <2>3, TokenSwapIs
<1>5. CASE Cardinality(moved) = 2
  <2>1. moved # {}
    <3>. HIDE DEF moved
    <3>. QED BY <1>5, FS_EmptySet
  <2>2. Min(moved) \in moved /\ Max(moved) \in moved
    <3>. HIDE DEF moved
    <3>. QED BY <1>1, <1>2, <1>3, <2>1, MinIn, MaxIn
  <2>3. InferSwapEvents(tx, program, pool, stables)
          = TokenToToken(tx, venue, Min(moved), Max(moved))
    BY <1>5 DEF InferSwapEvents
  <2>. HIDE DEF venue
  <2>. QED BY <2>2, <2>3, TokenToTokenIs
<1>6. CASE Cardinality(moved) # 1 /\ Cardinality(moved) # 2
  <2>1. InferSwapEvents(tx, program, pool, stables) = <<>>
    BY <1>6 DEF InferSwapEvents
  <2>. QED BY <2>1, NoEvents
<1>. QED BY <1>4, <1>5, <1>6

(* So do all venues together.                                              *)
LEMMA VenuesAre ==
  ASSUME NEW tx, WellFormed(tx), NEW stables \in StableOrders
  PROVE  AreEvents(tx, VenueEvents(tx, stables))
<1>1. AreEvents(tx, ParsePump(tx, stables))
  <2>. DEFINE program == PumpProgram(tx)
  <2>1. \/ ParsePump(tx, stables) = <<>>
        \/ ParsePump(tx, stables)
             = InferSwapEvents(tx, program, PumpPool(tx, program), stables)
    BY DEF ParsePump
  <2>. QED BY <2>1, NoEvents, InferIs
<1>2. AreEvents(tx, ParseRaydium(tx, stables))
  <2>1. \/ ParseRaydium(tx, stables) = <<>>
        \/ \E program, pool :
             ParseRaydium(tx, stables) = InferSwapEvents(tx, program, pool, stables)
    BY DEF ParseRaydium
  <2>. QED BY <2>1, NoEvents, InferIs
<1>3. AreEvents(tx, ParseOrca(tx, stables))
  <2>1. \/ ParseOrca(tx, stables) = <<>>
        \/ ParseOrca(tx, stables) = InferSwapEvents(tx, "orca", OrcaPool(tx), stables)
    BY DEF ParseOrca
  <2>. QED BY <2>1, NoEvents, InferIs
<1>4. AreEvents(tx, ParseJupiter(tx, stables))
  <2>1. \/ ParseJupiter(tx, stables) = <<>>
        \/ \E program, pool :
             ParseJupiter(tx, stables) = InferSwapEvents(tx, program, pool, stables)
    BY DEF ParseJupiter
  <2>. QED BY <2>1, NoEvents, InferIs
<1>. DEFINE venues == ParsePump(tx, stables) \o ParseRaydium(tx, stables)
                        \o ParseOrca(tx, stables)
<1>5. AreEvents(tx, venues)
  BY <1>1, <1>2, <1>3, MoreEvents
<1>6. VenueEvents(tx, stables) \in {venues, ParseJupiter(tx, stables)}
  BY DEF VenueEvents
<1>. QED BY <1>4, <1>5, <1>6

(* The n-th smallest of a set of integers has n members up to it.          *)
LEMMA NthPlace ==
  ASSUME NEW S, IsFiniteSet(S), S \subseteq Int, NEW n \in 1..Cardinality(S)
  PROVE  Nth(S, n) \in S /\ Cardinality({j \in S : j <= Nth(S, n)}) = n
<1>. DEFINE P(i) == Cardinality({j \in S : j <= i}) = n
<1>1. \E i \in S : P(i)
  BY NthExists
<1>2. Nth(S, n) = CHOOSE i \in S : P(i)
  BY DEF Nth
<1>. HIDE DEF P
<1>3. Nth(S, n) \in S /\ P(Nth(S, n))
  BY <1>1, <1>2
<1>. QED BY <1>3 DEF P

(* Each member of a set of integers is its n-th smallest for one n.        *)
LEMMA NthOnto ==
  ASSUME NEW S, IsFiniteSet(S), S \subseteq Int, NEW p \in S
  PROVE  \E n \in 1..Cardinality(S) : Nth(S, n) = p
<1>. DEFINE upTo(x) == {j \in S : j <= x}
            n == Cardinality(upTo(p))
<1>1. ASSUME NEW x \in S
      PROVE  IsFiniteSet(upTo(x)) /\ Cardinality(upTo(x)) \in 1..Cardinality(S)
  <2>1. upTo(x) \subseteq S /\ x \in upTo(x)
    BY <1>1
  <2>2. IsFiniteSet(upTo(x)) /\ Cardinality(upTo(x)) <= Cardinality(S)
    <3>. HIDE DEF upTo
    <3>. QED BY <2>1, FS_Subset
  <2>3. Cardinality(upTo(x)) # 0 /\ Cardinality(upTo(x)) \in Nat /\ Cardinality(S) \in Nat
    <3>. HIDE DEF upTo
    <3>. QED BY <2>1, <2>2, FS_EmptySet, FS_CardinalityType
  <2>. QED BY <2>2, <2>3
<1>2. ASSUME NEW x \in S, NEW y \in S, x < y
      PROVE  Cardinality(upTo(x)) < Cardinality(upTo(y))
  <2>1. x \in Int /\ y \in Int /\ \A j \in S : j \in Int
    OBVIOUS
  <2>2. y \in upTo(y) /\ y \notin upTo(x)
    BY <1>2, <2>1
  <2>3. upTo(x) \subseteq upTo(y)
    <3>1. ASSUME NEW j \in S, j <= x PROVE j <= y
      BY <1>2, <2>1, <3>1
    <3>. QED BY <3>1
  <2>4. IsFiniteSet(upTo(y)) /\ Cardinality(upTo(x)) \in Nat /\ Cardinality(upTo(y)) \in Nat
    BY <1>1
  <2>. HIDE DEF upTo
  <2>5. upTo(x) # upTo(y)
    BY <2>2
  <2>. QED BY <2>3, <2>4, <2>5, FS_Subset
<1>3. n \in 1..Cardinality(S)
  BY <1>1
<1>4. PICK q : q = Nth(S, n)
  OBVIOUS
<1>5. q \in S /\ Cardinality(upTo(q)) = n
  <2>. HIDE DEF n
  <2>. QED BY <1>3, <1>4, NthPlace
<1>6. ~(q < p) /\ ~(p < q)
  BY <1>1, <1>2, <1>5
<1>7. q = p
  BY <1>5, <1>6
<1>. QED BY <1>3, <1>4, <1>7

(* Removing equal swaps leaves some of the events, each key of theirs, and *)
(* no key twice.                                                           *)
LEMMA DedupIs ==
  ASSUME NEW V, NEW events \in Seq(V)
  PROVE  LET kept == Deduped(events) IN
         /\ kept \in Seq(V)
         /\ \A n \in DOMAIN kept : \E i \in DOMAIN events : kept[n] = events[i]
         /\ \A m, n \in DOMAIN kept : SwapKey(kept[m]) = SwapKey(kept[n]) => m = n
         /\ \A i \in DOMAIN events :
              \E n \in DOMAIN kept : SwapKey(kept[n]) = SwapKey(events[i])
<1>1. DOMAIN events = 1..Len(events) /\ Len(events) \in Nat
  BY LenProperties
<1>2. PICK places : places = FirstSeen(events)
  OBVIOUS
<1>3. places \subseteq 1..Len(events) /\ places \subseteq Int
  BY <1>1, <1>2 DEF FirstSeen
<1>4. IsFiniteSet(places)
  <2>1. IsFiniteSet(1..Len(events))
    BY <1>1, FS_Interval
  <2>. QED BY <1>3, <2>1, FS_Subset
<1>5. PICK k : k = Cardinality(places)
  OBVIOUS
<1>6. k \in Nat
  BY <1>4, <1>5, FS_CardinalityType
<1>7. PICK kept : kept = [n \in 1..k |-> events[Nth(places, n)]]
  OBVIOUS
<1>8. Deduped(events) = kept
  BY <1>2, <1>5, <1>7 DEF Deduped, At
<1>9. ASSUME NEW n \in 1..k
      PROVE  /\ Nth(places, n) \in places
             /\ Cardinality({j \in places : j <= Nth(places, n)}) = n
  BY <1>3, <1>4, <1>5, NthPlace
<1>10. kept \in Seq(V) /\ DOMAIN kept = 1..k
  <2>1. ASSUME NEW n \in 1..k PROVE events[Nth(places, n)] \in V
    BY <1>1, <1>3, <1>9, ElementOfSeq
  <2>. QED BY <1>6, <1>7, <2>1, SeqDef
<1>11. ASSUME NEW n \in DOMAIN kept PROVE \E i \in DOMAIN events : kept[n] = events[i]
  BY <1>1, <1>3, <1>7, <1>9, <1>10
<1>12. ASSUME NEW m \in DOMAIN kept, NEW n \in DOMAIN kept,
              SwapKey(kept[m]) = SwapKey(kept[n])
       PROVE  m = n
  <2>1. PICK a, b : a = Nth(places, m) /\ b = Nth(places, n)
    OBVIOUS
  <2>2. a \in places /\ b \in places /\ SwapKey(events[a]) = SwapKey(events[b])
    BY <1>7, <1>9, <1>10, <1>12, <2>1
  <2>3. ASSUME NEW x \in places, NEW y \in places, x < y
        PROVE  SwapKey(events[x]) # SwapKey(events[y])
    <3>1. x \in 1..(y - 1)
      BY <1>3, <2>3
    <3>. QED BY <1>2, <3>1 DEF FirstSeen
  <2>4. ~(a < b) /\ ~(b < a)
    BY <2>2, <2>3
  <2>5. a = b
    BY <1>3, <2>2, <2>4
  <2>6. Cardinality({j \in places : j <= a}) = m
    BY <1>9, <1>10, <2>1
  <2>7. Cardinality({j \in places : j <= b}) = n
    BY <1>9, <1>10, <2>1
  <2>. QED BY <2>5, <2>6, <2>7
<1>13. ASSUME NEW i \in DOMAIN events
       PROVE  \E n \in DOMAIN kept : SwapKey(kept[n]) = SwapKey(events[i])
  <2>. DEFINE same == {j \in DOMAIN events : SwapKey(events[j]) = SwapKey(events[i])}
              first == Min(same)
  <2>1. first \in same /\ \A j \in same : first <= j
    <3>1. IsFiniteSet(1..Len(events))
      BY <1>1, FS_Interval
    <3>2. IsFiniteSet(same) /\ same \subseteq Int /\ i \in same
      <4>1. same \subseteq 1..Len(events) /\ i \in same
        BY <1>1
      <4>. HIDE DEF same
      <4>. QED BY <3>1, <4>1, FS_Subset
    <3>. HIDE DEF same
    <3>. QED BY <3>2, MinIn
  <2>. HIDE DEF first
  <2>2. first \in places
    <3>1. ASSUME NEW j \in 1..(first - 1) PROVE SwapKey(events[j]) # SwapKey(events[first])
      <4>1. j \in DOMAIN events /\ ~(first <= j)
        BY <1>1, <2>1, <3>1
      <4>. QED BY <2>1, <4>1
    <3>. QED BY <1>2, <2>1, <3>1 DEF FirstSeen
  <2>3. PICK n \in 1..k : Nth(places, n) = first
    BY <1>3, <1>4, <1>5, <2>2, NthOnto
  <2>. QED BY <1>7, <1>10, <2>1, <2>3
<1>. QED BY <1>8, <1>10, <1>11, <1>12, <1>13

(* What the registry answers are events of the transaction, none without a *)
(* payer.                                                                  *)
LEMMA ParsedIs ==
  ASSUME NEW tx, WellFormed(tx), NEW stables \in StableOrders
  PROVE  /\ AreEvents(tx, ParseTransaction(tx, stables))
         /\ tx.payer = None => ParseTransaction(tx, stables) = <<>>
<1>1. CASE tx.failed \/ tx.payer = None
  <2>1. ParseTransaction(tx, stables) = <<>>
    BY <1>1 DEF ParseTransaction
  <2>. QED BY <2>1, NoEvents
<1>2. CASE ~(tx.failed \/ tx.payer = None)
  <2>1. PICK V : VenueEvents(tx, stables) \in Seq(V) /\ \A e \in V : IsEvent(tx, e)
    BY VenuesAre DEF AreEvents
  <2>2. PICK events : events = Deduped(VenueEvents(tx, stables))
    OBVIOUS
  <2>3. events \in Seq(V)
    BY <2>1, <2>2, DedupIs
  <2>. DEFINE tag == Aggregator(tx)
              s == Tagged(events, tag)
              W == {[e EXCEPT !.aggregator = tag] : e \in V}
  <2>4. \A e \in W : IsEvent(tx, e)
    <3>. HIDE DEF tag
    <3>1. ASSUME NEW e \in V, NEW g, g = [e EXCEPT !.aggregator = tag] PROVE IsEvent(tx, g)
      <4>1. IsEvent(tx, e)
        BY <2>1
      <4>2. /\ DOMAIN g = DOMAIN e /\ g.wallet = e.wallet /\ g.side = e.side
            /\ g.token = e.token /\ g.quote = e.quote /\ g.tokens = e.tokens /\ g.paid = e.paid
        BY <3>1, <4>1 DEF IsEvent
      <4>3. IsNetChange(tx, g)
        BY <4>1, <4>2 DEF IsEvent, IsNetChange
      <4>. QED BY <4>1, <4>2, <4>3 DEF IsEvent
    <3>. QED BY <3>1
  <2>5. s \in Seq(W)
    <3>. HIDE DEF tag
    <3>1. Len(events) \in Nat /\ DOMAIN events = 1..Len(events)
          /\ \A i \in 1..Len(events) : events[i] \in V
      BY <2>3, LenProperties, ElementOfSeq
    <3>2. s \in [1..Len(events) -> W]
      BY <3>1 DEF Tagged
    <3>. HIDE DEF s, W
    <3>. QED BY <3>1, <3>2, SeqDef
  <2>6. ParseTransaction(tx, stables) = s
    BY <1>2, <2>2 DEF ParseTransaction
  <2>. HIDE DEF s, W
  <2>. QED BY <1>2, <2>4, <2>5, <2>6, EventsOf
<1>. QED BY <1>1, <1>2

(* parsers/util.py infer_swap_events takes every amount from the net       *)
(* balance changes of whoever paid: an event's token moved, by as much and *)
(* in the direction that it says, against something that moved the other   *)
(* way by what it says was paid; and no swap is told twice, whichever      *)
(* venues have seen it (parsers/__init__.py).  A failed transaction has no *)
(* events.                                                                 *)
THEOREM EventsAreNetChanges ==
  ASSUME NEW tx, WellFormed(tx), NEW stables \in StableOrders, NEW events,
         events = ParseTransaction(tx, stables)
  PROVE  /\ tx.failed \/ tx.payer = None => events = <<>>
         /\ \A i \in DOMAIN events : events[i].wallet = tx.payer /\ IsNetChange(tx, events[i])
         /\ \A i, j \in DOMAIN events : SwapKey(events[i]) = SwapKey(events[j]) => i = j
<1>1. tx.failed \/ tx.payer = None => events = <<>>
  BY DEF ParseTransaction
<1>2. ASSUME NEW i \in DOMAIN events
      PROVE  events[i].wallet = tx.payer /\ IsNetChange(tx, events[i])
  <2>1. PICK V : events \in Seq(V) /\ \A e \in V : IsEvent(tx, e)
    BY ParsedIs DEF AreEvents
  <2>2. events[i] \in V
    BY <2>1, ElementOfSeq, LenProperties
  <2>. QED BY <2>1, <2>2 DEF IsEvent
<1>3. ASSUME ~(tx.failed \/ tx.payer = None), NEW i \in DOMAIN events, NEW j \in DOMAIN events,
             SwapKey(events[i]) = SwapKey(events[j])
      PROVE  i = j
  <2>1. PICK V : VenueEvents(tx, stables) \in Seq(V) /\ \A e \in V : IsEvent(tx, e)
    BY VenuesAre DEF AreEvents
  <2>2. PICK kept : kept = Deduped(VenueEvents(tx, stables))
    OBVIOUS
  <2>3. /\ kept \in Seq(V)
        /\ \A m, n \in DOMAIN kept : SwapKey(kept[m]) = SwapKey(kept[n]) => m = n
    BY <2>1, <2>2, DedupIs
  <2>4. PICK tag : tag = Aggregator(tx)
    OBVIOUS
  <2>5. DOMAIN events = DOMAIN kept
        /\ \A n \in DOMAIN kept : events[n] = [kept[n] EXCEPT !.aggregator = tag]
    BY <1>3, <2>2, <2>4 DEF ParseTransaction, Tagged
  <2>6. ASSUME NEW n \in DOMAIN kept PROVE SwapKey(events[n]) = SwapKey(kept[n])
    <3>1. PICK e : e = kept[n]
      OBVIOUS
    <3>2. {"wallet", "side", "token", "quote"} \subseteq DOMAIN e
      <4>1. kept[n] \in V
        BY <2>3, ElementOfSeq, LenProperties
      <4>. QED BY <2>1, <3>1, <4>1 DEF IsEvent
    <3>3. PICK g : g = events[n]
      OBVIOUS
    <3>4. g = [e EXCEPT !.aggregator = tag]
      BY <2>5, <3>1, <3>3
    <3>5. g.wallet = e.wallet /\ g.token = e.token /\ g.side = e.side /\ g.quote = e.quote
      BY <3>2, <3>4
    <3>. QED BY <3>1, <3>3, <3>5 DEF SwapKey
  <2>. QED BY <1>3, <2>3, <2>5, <2>6
<1>. QED BY <1>1, <1>2, <1>3

(* The row of an event is a row of the table.                              *)
LEMMA RowIs ==
  ASSUME NEW t \in Txs, NEW e, IsEvent(t.tx, e), NEW i \in Nat, NEW price \in {None, SolPrice}
  PROVE  TradeRow(t.id, i, e, price) \in Rows
<1>1. <<t.tx.payer, e.token>> \in Pairs
  <2>. DEFINE ofTx == {t.tx.accounts[j].mint : j \in DOMAIN t.tx.accounts}
  <2>1. e.token \in ofTx /\ e.token \notin QuoteMints
    BY DEF IsEvent, TokensOf
  <2>2. ofTx \in {{s.tx.accounts[j].mint : j \in DOMAIN s.tx.accounts} : s \in Txs}
    OBVIOUS
  <2>3. e.token \in TradedTokens
    <3>. HIDE DEF ofTx
    <3>. QED BY <2>1, <2>2 DEF TradedTokens
  <2>4. t.tx.payer \in {s.tx.payer : s \in Txs}
    OBVIOUS
  <2>. QED BY <2>3, <2>4 DEF Pairs
<1>2. QuoteInSol(e, price) \in Nat \cup {None}
  <2>1. CASE e.quote = WSOL
    BY <2>1 DEF QuoteInSol, IsEvent, WSOL, StableMints, USDC, USDT
  <2>2. CASE e.quote # WSOL /\ e.quote \in StableMints /\ price # None
    <3>1. PICK a, b : a = e.paid /\ b = price
      OBVIOUS
    <3>2. a \in Nat /\ b \in Nat \ {0}
      BY <2>2, <3>1, LedgerUnits DEF IsEvent
    <3>3. a \div b \in Nat
      BY <3>2
    <3>4. QuoteInSol(e, price) = a \div b
      BY <2>2, <3>1 DEF QuoteInSol
    <3>. QED BY <3>3, <3>4
  <2>3. CASE e.quote # WSOL /\ ~(e.quote \in StableMints /\ price # None)
    BY <2>3 DEF QuoteInSol
  <2>. QED BY <2>1, <2>2, <2>3
<1>. QED BY <1>1, <1>2 DEF TradeRow, Rows, IsEvent

(* The rows a transaction may come to.                                     *)
LEMMA OutcomeRows == TypedRows
<1>. SUFFICES ASSUME NEW t \in Txs, NEW rows \in Outcomes[t]
              PROVE  /\ rows \in Seq(Rows)
                     /\ \A i \in DOMAIN rows : rows[i].sig = t.id /\ rows[i].index = i
                                               /\ rows[i].pair[1] = t.tx.payer
                     /\ t.tx.payer = None => rows = <<>>
  BY DEF TypedRows
<1>1. PICK stables \in StableOrders, price \in {None, SolPrice} :
        rows = RowsOf(t, stables, price)
  BY DEF Outcomes
<1>2. WellFormed(t.tx)
  BY TransactionShape DEF WellFormed
<1>3. PICK events : events = ParseTransaction(t.tx, stables)
  OBVIOUS
<1>4. AreEvents(t.tx, events) /\ (t.tx.payer = None => events = <<>>)
  BY <1>2, <1>3, ParsedIs
<1>5. PICK V : events \in Seq(V) /\ \A e \in V : IsEvent(t.tx, e)
  BY <1>4 DEF AreEvents
<1>6. Len(events) \in Nat /\ DOMAIN events = 1..Len(events)
      /\ \A i \in 1..Len(events) : events[i] \in V
  BY <1>5, LenProperties, ElementOfSeq
<1>7. rows = [i \in 1..Len(events) |-> TradeRow(t.id, i, events[i], price)]
  BY <1>1, <1>3, <1>6 DEF RowsOf
<1>8. \A i \in 1..Len(events) : TradeRow(t.id, i, events[i], price) \in Rows
  <2>1. SUFFICES ASSUME NEW i \in 1..Len(events)
                 PROVE  TradeRow(t.id, i, events[i], price) \in Rows
    OBVIOUS
  <2>2. PICK e : e = events[i]
    OBVIOUS
  <2>3. IsEvent(t.tx, e) /\ i \in Nat
    BY <1>5, <1>6, <2>2
  <2>. QED BY <1>1, <2>2, <2>3, RowIs
<1>9. rows \in [1..Len(events) -> Rows]
  BY <1>7, <1>8
<1>10. rows \in Seq(Rows)
  BY <1>6, <1>9, SeqDef
<1>11. ASSUME NEW i \in DOMAIN rows
       PROVE  rows[i].sig = t.id /\ rows[i].index = i /\ rows[i].pair[1] = t.tx.payer
  <2>1. i \in 1..Len(events) /\ rows[i] = TradeRow(t.id, i, events[i], price)
    BY <1>7, <1>11
  <2>2. events[i].wallet = t.tx.payer
    BY <1>5, <1>6, <2>1 DEF IsEvent
  <2>. QED BY <2>1, <2>2 DEF TradeRow
<1>12. t.tx.payer = None => rows = <<>>
  <2>1. SUFFICES ASSUME events = <<>> PROVE rows = <<>>
    BY <1>4
  <2>2. Len(events) = 0
    BY <2>1, EmptySeq
  <2>3. Len(rows) = 0
    BY <1>6, <1>9, <1>10, <2>2, LenProperties
  <2>. QED BY <1>10, <2>3, EmptySeq
<1>. QED BY <1>10, <1>11, <1>12

-----------------------------------------------------------------------------
(* What each statement does to its session.                                *)
Stages == {"idle", "wallet", "token", "pool", "addPool", "insert", "select", "write", "commit"}
Becomes(w, at, inserted, held, episodes) ==
    /\ job' \in [Writers -> Jobs]
    /\ \A other \in Writers \ {w} : job'[other] = job[other]
    /\ job'[w].t = job[w].t /\ job'[w].rows = job[w].rows
    /\ job'[w].at = at /\ job'[w].inserted = inserted
    /\ job'[w].held = held /\ job'[w].episodes = episodes
After(w) == IF job[w].at + 1 > Len(job[w].rows) THEN "commit" ELSE "token"

(* The parts of a session's job have their types.                          *)
LEMMA JobFields ==
  ASSUME LedgerTypeOK, NEW w \in Writers
  PROVE  /\ job[w] \in Jobs
         /\ job[w].t \in Txs \cup {None} /\ job[w].rows \in Seq(Rows)
         /\ job[w].at \in Nat \ {0} /\ job[w].inserted \in SUBSET Rows
         /\ job[w].held \in Seq(Positions) /\ job[w].episodes \in [Pairs -> Seq(Positions)]
         /\ pc[w] \in Stages
BY DEF LedgerTypeOK, Jobs, Stages

(* A session starts with a job of the right type.                          *)
LEMMA NewJobType ==
  ASSUME NEW t \in Txs \cup {None}, NEW rows \in Seq(Rows),
         NEW pool \in PoolAddresses \cup {None}
  PROVE  NewJob(t, rows, pool) \in Jobs
<1>1. <<>> \in Seq(Positions)
  BY EmptySeq
<1>2. [pair \in Pairs |-> <<>>] \in [Pairs -> Seq(Positions)]
  BY <1>1
<1>3. /\ {} \in SUBSET Rows /\ 1 \in Nat \ {0}
      /\ t \in Txs \cup {None} /\ rows \in Seq(Rows) /\ pool \in PoolAddresses \cup {None}
  OBVIOUS
<1>. QED BY <1>1, <1>2, <1>3 DEF NewJob, Jobs

(* The row at hand is a row.                                               *)
LEMMA RowType ==
  ASSUME LedgerTypeOK, NEW w \in Writers, job[w].at <= Len(job[w].rows)
  PROVE  Row(w) \in Rows /\ Row(w).pair \in Pairs /\ job[w].at \in DOMAIN job[w].rows
<1>1. job[w].rows \in Seq(Rows) /\ job[w].at \in Nat \ {0}
  BY JobFields
<1>2. job[w].at \in 1..Len(job[w].rows)
  BY <1>1, LenProperties
<1>3. Row(w) \in Rows /\ job[w].at \in DOMAIN job[w].rows
  BY <1>1, <1>2, ElementOfSeq, LenProperties DEF Row
<1>. QED BY <1>3 DEF Rows

(* What insert_trade does to the session, in each of its outcomes.         *)
LEMMA InsertDoes ==
  ASSUME LedgerTypeOK, NEW w \in Writers, InsertTrade(w), Row(w) \in Rows
  PROVE  \/ /\ Recorded(Row(w), trades \cup job[w].inserted)
            /\ Becomes(w, job[w].at + 1, job[w].inserted, job[w].held, job[w].episodes)
            /\ pc' = [pc EXCEPT ![w] = After(w)]
         \/ /\ ~Recorded(Row(w), trades \cup job[w].inserted)
            /\ Row(w).sol = None
            /\ Becomes(w, job[w].at + 1, job[w].inserted \cup {Row(w)},
                       job[w].held, job[w].episodes)
            /\ pc' = [pc EXCEPT ![w] = After(w)]
         \/ /\ ~Recorded(Row(w), trades \cup job[w].inserted)
            /\ Row(w).sol # None
            /\ Becomes(w, job[w].at, job[w].inserted \cup {Row(w)},
                       job[w].held, job[w].episodes)
            /\ pc' = [pc EXCEPT ![w] = "select"]
<1>1. PICK j, at, rows : j = job[w] /\ at = job[w].at + 1 /\ rows = job[w].inserted \cup {Row(w)}
  OBVIOUS
<1>2. j \in Jobs /\ job \in [Writers -> Jobs] /\ at \in Nat \ {0} /\ rows \in SUBSET Rows
  BY <1>1, JobFields DEF LedgerTypeOK
<1>3. ASSUME job' = [job EXCEPT ![w].at = at]
      PROVE  Becomes(w, at, j.inserted, j.held, j.episodes)
  BY <1>1, <1>2, <1>3 DEF Becomes, Jobs
<1>4. ASSUME job' = [job EXCEPT ![w].inserted = rows]
      PROVE  Becomes(w, j.at, rows, j.held, j.episodes)
  BY <1>1, <1>2, <1>4 DEF Becomes, Jobs
<1>5. ASSUME job' = [[job EXCEPT ![w].at = at] EXCEPT ![w].inserted = rows]
      PROVE  Becomes(w, at, rows, j.held, j.episodes)
  BY <1>1, <1>2, <1>5 DEF Becomes, Jobs
<1>6. CASE Recorded(Row(w), trades \cup job[w].inserted)
  <2>1. job' = [job EXCEPT ![w].at = job[w].at + 1] /\ ToRow(w, job[w].at + 1)
    BY <1>6 DEF InsertTrade, Skipped
  <2>. QED BY <1>1, <1>3, <1>6, <2>1 DEF ToRow, Goto, After
<1>7. CASE ~Recorded(Row(w), trades \cup job[w].inserted) /\ Row(w).sol = None
  <2>1. /\ job' = [[job EXCEPT ![w].at = job[w].at + 1]
                      EXCEPT ![w].inserted = job[w].inserted \cup {Row(w)}]
        /\ ToRow(w, job[w].at + 1)
    BY <1>7 DEF InsertTrade, Skipped
  <2>. QED BY <1>1, <1>5, <1>7, <2>1 DEF ToRow, Goto, After
<1>8. CASE ~Recorded(Row(w), trades \cup job[w].inserted) /\ Row(w).sol # None
  <2>1. /\ job' = [job EXCEPT ![w].inserted = job[w].inserted \cup {Row(w)}]
        /\ Goto(w, "select")
    BY <1>8 DEF InsertTrade
  <2>. QED BY <1>1, <1>4, <1>8, <2>1 DEF Goto
<1>. QED BY <1>6, <1>7, <1>8

(* The episodes that a session sees are positions.                         *)
LEMMA SeenType ==
  ASSUME LedgerTypeOK, NEW w \in Writers, NEW pair \in Pairs
  PROVE  EpisodesSeen(w, pair) \in Seq(Positions)
BY JobFields DEF EpisodesSeen, LedgerTypeOK

(* What the SELECT ... FOR UPDATE does to the session.                     *)
LEMMA SelectDoes ==
  ASSUME LedgerTypeOK, NEW w \in Writers, SelectPosition(w), Row(w).pair \in Pairs
  PROVE  Becomes(w, job[w].at, job[w].inserted, EpisodesSeen(w, Row(w).pair), job[w].episodes)
<1>1. PICK eps : eps = EpisodesSeen(w, Row(w).pair)
  OBVIOUS
<1>2. eps \in Seq(Positions) /\ job \in [Writers -> Jobs]
  BY <1>1, SeenType DEF LedgerTypeOK
<1>3. job' = [job EXCEPT ![w].held = eps]
  BY <1>1 DEF SelectPosition
<1>4. Becomes(w, job[w].at, job[w].inserted, eps, job[w].episodes)
  BY <1>2, <1>3 DEF Becomes, Jobs
<1>. QED BY <1>1, <1>4

(* What the fold and flush do to the session.                              *)
LEMMA WriteDoes ==
  ASSUME LedgerTypeOK, NEW w \in Writers, WritePosition(w), Row(w) \in Rows, Row(w).pair \in Pairs
  PROVE  /\ Becomes(w, job[w].at + 1, job[w].inserted, <<>>,
                    [job[w].episodes EXCEPT ![Row(w).pair] = UpdatePosition(job[w].held, Row(w))])
         /\ pc' = [pc EXCEPT ![w] = After(w)]
<1>1. PICK j, eps, at : /\ j = job[w] /\ at = job[w].at + 1
                        /\ eps = [job[w].episodes EXCEPT
                                     ![Row(w).pair] = UpdatePosition(job[w].held, Row(w))]
  OBVIOUS
<1>2. /\ job \in [Writers -> Jobs] /\ at \in Nat \ {0}
      /\ eps \in [Pairs -> Seq(Positions)] /\ <<>> \in Seq(Positions)
  <2>1. /\ job[w].held \in Seq(Positions) /\ job[w].at \in Nat
        /\ job[w].episodes \in [Pairs -> Seq(Positions)]
    BY JobFields
  <2>2. UpdatePosition(job[w].held, Row(w)) \in Seq(Positions)
    BY <2>1, UpdateType
  <2>. QED BY <1>1, <2>1, <2>2, EmptySeq DEF LedgerTypeOK
<1>3. job' = [[job EXCEPT ![w].at = at] EXCEPT ![w].episodes = eps, ![w].held = <<>>]
  BY <1>1 DEF WritePosition, Skipped
<1>4. Becomes(w, at, j.inserted, <<>>, eps)
  <2>1. PICK none : none = <<>>
    OBVIOUS
  <2>2. /\ job' = [[job EXCEPT ![w].at = at] EXCEPT ![w].episodes = eps, ![w].held = none]
        /\ none \in Seq(Positions)
    BY <1>2, <1>3, <2>1
  <2>3. PICK new : new = [[j EXCEPT !.at = at] EXCEPT !.episodes = eps, !.held = none]
    OBVIOUS
  <2>4. j \in Jobs
    BY <1>1, JobFields
  <2>5. /\ new \in Jobs /\ new.t = j.t /\ new.rows = j.rows /\ new.at = at
        /\ new.inserted = j.inserted /\ new.held = none /\ new.episodes = eps
    BY <1>2, <2>2, <2>3, <2>4 DEF Jobs
  <2>6. job' = [job EXCEPT ![w] = new]
    BY <1>1, <1>2, <2>2, <2>3
  <2>7. Becomes(w, at, j.inserted, none, eps)
    BY <1>1, <1>2, <2>5, <2>6 DEF Becomes
  <2>. QED BY <2>1, <2>7
<1>5. pc' = [pc EXCEPT ![w] = After(w)]
  BY DEF WritePosition, ToRow, Goto, After
<1>. QED BY <1>1, <1>4, <1>5

(* A session starts at its first row and has written nothing.              *)
LEMMA NewFields ==
  ASSUME NEW t, NEW rows, NEW pool
  PROVE  LET j == NewJob(t, rows, pool)
         IN  /\ j.t = t /\ j.rows = rows /\ j.at = 1 /\ j.inserted = {} /\ j.held = <<>>
             /\ \A pair \in Pairs : j.episodes[pair] = <<>>
BY DEF NewJob

(* A statement changes its own session only.                               *)
Refer(w) == UpsertToken(w) \/ SelectPool(w) \/ InsertPool(w)
StepOf(w) == \/ \E t \in Txs : \E rows \in Outcomes[t] : Deliver(w, t, rows)
             \/ UpsertWallet(w) \/ Refer(w)
             \/ InsertTrade(w) \/ SelectPosition(w) \/ WritePosition(w)
             \/ Commit(w) \/ Abort(w)

(* Every step is some session's.                                           *)
LEMMA NextIs == LedgerNext => \E w \in Writers : StepOf(w)
<1>1. \A w \in Writers : Refused(w) \/ RollBack(w) => Abort(w)
  BY DEF Refused, RollBack, PoolTaken, Deadlock
<1>2. \A w \in Writers : Persist(w) => StepOf(w)
  BY DEF Persist, StepOf, Refer
<1>. QED BY <1>1, <1>2 DEF LedgerNext, StepOf

(* The rows an event refers to, before its own: they change nothing else.  *)
LEMMA ReferDoes ==
  ASSUME NEW w \in Writers, Refer(w)
  PROVE  /\ job' = job /\ trades' = trades /\ positions' = positions
         /\ seen' = seen /\ pools' = pools /\ deliveries' = deliveries /\ rollbacks' = rollbacks
         /\ pc[w] \in {"token", "pool", "addPool"}
         /\ \E s \in {"pool", "addPool", "insert"} : pc' = [pc EXCEPT ![w] = s]
BY DEF Refer, UpsertToken, SelectPool, InsertPool, Goto

(* While a session works on a row, the row is its payer's and in its place.*)
LEMMA RowHere ==
  ASSUME LedgerTypeOK, InProgress, NEW w \in Writers,
         pc[w] \in {"token", "pool", "addPool", "insert", "select", "write"}
  PROVE  /\ Row(w) \in Rows /\ Row(w).pair \in Pairs /\ job[w].at \in DOMAIN job[w].rows
         /\ Row(w).sig = job[w].t.id /\ Row(w).index = job[w].at
         /\ Row(w).pair[1] = Payer(w) /\ Payer(w) # None
         /\ job[w].t \in Txs /\ job[w].rows \in Outcomes[job[w].t]
<1>1. /\ job[w].at <= Len(job[w].rows) /\ Payer(w) # None
      /\ job[w].t \in Txs /\ job[w].rows \in Outcomes[job[w].t]
  BY DEF InProgress, Place
<1>2. Row(w) \in Rows /\ Row(w).pair \in Pairs /\ job[w].at \in DOMAIN job[w].rows
  BY <1>1, RowType
<1>. QED BY <1>1, <1>2, OutcomeRows DEF TypedRows, Row, Payer

(* A step changes the job of its own session only, and keeps its type.     *)
LEMMA JobStep ==
  ASSUME LedgerTypeOK, InProgress, NEW w \in Writers, StepOf(w)
  PROVE  /\ job' \in [Writers -> Jobs]
         /\ \A other \in Writers \ {w} : job'[other] = job[other] /\ pc'[other] = pc[other]
         /\ pc' \in [Writers -> Stages]
<1>1. pc \in [Writers -> Stages] /\ job \in [Writers -> Jobs]
  BY DEF LedgerTypeOK, Stages
<1>2. ASSUME NEW t \in Txs, NEW rows \in Outcomes[t], Deliver(w, t, rows)
      PROVE  /\ job' \in [Writers -> Jobs]
             /\ \A other \in Writers \ {w} : job'[other] = job[other] /\ pc'[other] = pc[other]
             /\ pc' \in [Writers -> Stages]
  <2>1. NewJob(t, rows, PoolOf(t)) \in Jobs
    <3>1. rows \in Seq(Rows)
      BY <1>2, OutcomeRows DEF TypedRows
    <3>2. PoolOf(t) \in PoolAddresses \cup {None}
      BY <1>2, KnownPools
    <3>. QED BY <1>2, <3>1, <3>2, NewJobType
  <2>2. job' = [job EXCEPT ![w] = NewJob(t, rows, PoolOf(t))]
        /\ \E s \in {"commit", "wallet"} : pc' = [pc EXCEPT ![w] = s]
    BY <1>2 DEF Deliver, Goto
  <2>. QED BY <1>1, <2>1, <2>2 DEF Stages
<1>3. CASE UpsertWallet(w)
  <2>1. job' = job /\ \E s \in {"commit", "token"} : pc' = [pc EXCEPT ![w] = s]
    BY <1>3 DEF UpsertWallet, ToRow, Goto
  <2>. QED BY <1>1, <2>1 DEF Stages
<1>4. CASE Refer(w)
  <2>1. job' = job /\ \E s \in {"pool", "addPool", "insert"} : pc' = [pc EXCEPT ![w] = s]
    BY <1>4, ReferDoes
  <2>. QED BY <1>1, <2>1 DEF Stages
<1>5. CASE InsertTrade(w)
  <2>1. Row(w) \in Rows
    BY <1>5, RowHere DEF InsertTrade
  <2>2. /\ \E at, inserted, held, episodes : Becomes(w, at, inserted, held, episodes)
        /\ \E s \in {"commit", "token", "select"} : pc' = [pc EXCEPT ![w] = s]
    BY <1>5, <2>1, InsertDoes DEF After
  <2>. QED BY <1>1, <2>2 DEF Becomes, Stages
<1>6. CASE SelectPosition(w)
  <2>1. \E at, inserted, held, episodes : Becomes(w, at, inserted, held, episodes)
    BY <1>6, RowHere, SelectDoes DEF SelectPosition
  <2>2. pc' = [pc EXCEPT ![w] = "write"]
    BY <1>6 DEF SelectPosition, Goto
  <2>. QED BY <1>1, <2>1, <2>2 DEF Becomes, Stages
<1>7. CASE WritePosition(w)
  <2>1. Row(w) \in Rows /\ Row(w).pair \in Pairs
    BY <1>7, RowHere DEF WritePosition
  <2>2. /\ \E at, inserted, held, episodes : Becomes(w, at, inserted, held, episodes)
        /\ \E s \in {"commit", "token"} : pc' = [pc EXCEPT ![w] = s]
    BY <1>7, <2>1, WriteDoes DEF After
  <2>. QED BY <1>1, <2>2 DEF Becomes, Stages
<1>8. CASE Commit(w) \/ Abort(w)
  <2>1. NoJob \in Jobs
    BY NewJobType, EmptySeq DEF NoJob
  <2>2. job' = [job EXCEPT ![w] = NoJob] /\ pc' = [pc EXCEPT ![w] = "idle"]
    BY <1>8 DEF Commit, Abort, Goto
  <2>. QED BY <1>1, <2>1, <2>2 DEF Stages
<1>. QED BY <1>2, <1>3, <1>4, <1>5, <1>6, <1>7, <1>8 DEF StepOf

(* The rows that the upserts lock are entities.                            *)
LEMMA EntityTypes ==
  ASSUME NEW w \in Writers, LedgerTypeOK, InProgress
  PROVE  /\ pc[w] = "wallet" => <<"wallet", Payer(w)>> \in Entities
         /\ pc[w] = "token" => <<"token", Row(w).pair[2]>> \in Entities
<1>1. ASSUME pc[w] = "wallet" PROVE <<"wallet", Payer(w)>> \in Entities
  <2>1. job[w].t \in Txs /\ Payer(w) # None
    BY <1>1 DEF InProgress, Place
  <2>. QED BY <2>1 DEF Entities, Payers, Payer
<1>2. ASSUME pc[w] = "token" PROVE <<"token", Row(w).pair[2]>> \in Entities
  <2>1. PICK pair : pair = Row(w).pair /\ pair \in Pairs
    BY <1>2, RowHere
  <2>2. pair[2] \in TradedTokens
    BY <2>1 DEF Pairs
  <2>. QED BY <2>1, <2>2 DEF Entities
<1>. QED BY <1>1, <1>2

(* A step takes no lock from its holder, and a holder loses it by ending.  *)
LEMMA LocksStep ==
  ASSUME LedgerTypeOK, InProgress, NEW w \in Writers, StepOf(w)
  PROVE  /\ rowLock' \in [Entities -> Writers \cup {None}]
         /\ \A e \in Entities : /\ rowLock[e] \notin {None, w} => rowLock'[e] = rowLock[e]
                                /\ rowLock[e] = w => rowLock'[e] = w \/ pc'[w] = "idle"
<1>1. rowLock \in [Entities -> Writers \cup {None}] /\ pc \in [Writers -> Stages]
  BY DEF LedgerTypeOK, Stages
<1>2. ASSUME NEW entity, Upsert(w, entity)
      PROVE  /\ rowLock' \in [Entities -> Writers \cup {None}]
             /\ \A e \in Entities : /\ rowLock[e] \notin {None, w} => rowLock'[e] = rowLock[e]
                                    /\ rowLock[e] = w => rowLock'[e] = w
  BY <1>1, <1>2 DEF Upsert
<1>3. CASE Commit(w) \/ Abort(w)
  <2>1. rowLock' = Unlocked(w) /\ pc' = [pc EXCEPT ![w] = "idle"]
    BY <1>3 DEF Commit, Abort, Goto
  <2>. QED BY <1>1, <2>1 DEF Unlocked
<1>4. CASE \/ \E t \in Txs : \E rows \in Outcomes[t] : Deliver(w, t, rows)
           \/ InsertTrade(w) \/ SelectPosition(w) \/ WritePosition(w)
  <2>1. rowLock' = rowLock
    BY <1>4 DEF Deliver, InsertTrade, SelectPosition, WritePosition
  <2>. QED BY <1>1, <2>1
<1>5. CASE UpsertWallet(w)
  BY <1>2, <1>5 DEF UpsertWallet
<1>6. CASE Refer(w)
  BY <1>1, <1>2, <1>6 DEF Refer, UpsertToken, SelectPool, InsertPool
<1>. QED BY <1>3, <1>4, <1>5, <1>6 DEF StepOf

(* What a session's step does to the committed state: nothing, unless it   *)
(* commits.                                                                *)
LEMMA CommittedSame ==
  ASSUME NEW w \in Writers, StepOf(w), ~Commit(w)
  PROVE  trades' = trades /\ positions' = positions /\ seen' = seen
<1>1. CASE \/ \E t \in Txs : \E rows \in Outcomes[t] : Deliver(w, t, rows)
           \/ Abort(w)
  BY <1>1 DEF Deliver, Abort
<1>2. CASE UpsertWallet(w) \/ Refer(w) \/ InsertTrade(w)
  BY <1>2, ReferDoes DEF UpsertWallet, InsertTrade
<1>3. CASE SelectPosition(w) \/ WritePosition(w)
  BY <1>3 DEF SelectPosition, WritePosition
<1>. QED BY <1>1, <1>2, <1>3 DEF StepOf

(* Every step keeps the types.                                             *)
LEMMA TypeNext ==
  ASSUME LedgerTypeOK, InProgress, LedgerNext
  PROVE  LedgerTypeOK'
<1>1. PICK w \in Writers : StepOf(w)
  BY NextIs
<1>2. /\ job' \in [Writers -> Jobs] /\ pc' \in [Writers -> Stages]
      /\ rowLock' \in [Entities -> Writers \cup {None}]
  BY <1>1, JobStep, LocksStep
<1>3. trades' \subseteq Rows /\ positions' \in [Pairs -> Seq(Positions)] /\ seen' \subseteq Txs
  <2>1. CASE ~Commit(w)
    BY <1>1, <2>1, CommittedSame DEF LedgerTypeOK
  <2>2. CASE Commit(w)
    <3>1. /\ trades' = trades \cup job[w].inserted /\ seen' = seen \cup {job[w].t}
          /\ positions' = [pair \in Pairs |-> EpisodesSeen(w, pair)]
          /\ pc[w] = "commit"
      BY <2>2 DEF Commit
    <3>2. job[w].t \in Txs
      BY <3>1 DEF InProgress, Place
    <3>3. trades \subseteq Rows /\ seen \subseteq Txs /\ job[w].inserted \subseteq Rows
      BY JobFields DEF LedgerTypeOK
    <3>. QED BY <3>1, <3>2, <3>3, SeenType
  <2>. QED BY <2>1, <2>2
<1>4. deliveries' \in [Txs -> Nat] /\ \A t \in Txs : deliveries'[t] <= MaxDeliveries[t]
  <2>1. deliveries \in [Txs -> Nat] /\ \A t \in Txs : deliveries[t] <= MaxDeliveries[t]
    BY DEF LedgerTypeOK
  <2>2. MaxDeliveries \in [Txs -> Nat \ {0}]
    BY LedgerBounds
  <2>3. ASSUME NEW t \in Txs, NEW rows, Deliver(w, t, rows)
        PROVE  deliveries' \in [Txs -> Nat] /\ \A u \in Txs : deliveries'[u] <= MaxDeliveries[u]
    BY <2>1, <2>2, <2>3 DEF Deliver
  <2>4. CASE Refer(w) \/ Commit(w) \/ Abort(w)
    BY <2>1, <2>4, ReferDoes DEF Commit, Abort
  <2>5. CASE UpsertWallet(w) \/ InsertTrade(w) \/ SelectPosition(w) \/ WritePosition(w)
    BY <2>1, <2>5 DEF UpsertWallet, InsertTrade, SelectPosition, WritePosition
  <2>. QED BY <1>1, <2>3, <2>4, <2>5 DEF StepOf
<1>5. rollbacks' \in 0..MaxRollbacks
  <2>1. rollbacks \in 0..MaxRollbacks /\ MaxRollbacks \in Nat
    BY LedgerBounds DEF LedgerTypeOK
  <2>2. ASSUME NEW v \in Writers, RollBack(v) PROVE rollbacks' \in 0..MaxRollbacks
    BY <2>1, <2>2 DEF RollBack
  <2>3. ASSUME NEW v \in Writers,
               (\E t \in Txs : \E rows \in Outcomes[t] : Deliver(v, t, rows)) \/ Refused(v)
        PROVE  rollbacks' = rollbacks
    BY <2>3 DEF Deliver, Refused, PoolTaken, Deadlock
  <2>4. ASSUME NEW v \in Writers, Persist(v) PROVE rollbacks' = rollbacks
    <3>1. Refer(v) => rollbacks' = rollbacks
      BY ReferDoes
    <3>2. UpsertWallet(v) \/ InsertTrade(v) \/ Commit(v) => rollbacks' = rollbacks
      BY DEF UpsertWallet, InsertTrade, Commit
    <3>3. SelectPosition(v) \/ WritePosition(v) => rollbacks' = rollbacks
      BY DEF SelectPosition, WritePosition
    <3>. QED BY <2>4, <3>1, <3>2, <3>3 DEF Persist, Refer
  <2>. QED BY <2>1, <2>2, <2>3, <2>4 DEF LedgerNext
<1>6. pools' \subseteq PoolAddresses
  <2>1. pools \subseteq PoolAddresses
    BY DEF LedgerTypeOK
  <2>2. CASE Commit(w)
    BY <2>1, <2>2 DEF Commit
  <2>3. CASE \/ \E t \in Txs : \E rows \in Outcomes[t] : Deliver(w, t, rows)
             \/ Refer(w) \/ Abort(w)
    BY <2>1, <2>3, ReferDoes DEF Deliver, Abort
  <2>4. CASE UpsertWallet(w) \/ InsertTrade(w) \/ SelectPosition(w) \/ WritePosition(w)
    BY <2>1, <2>4 DEF UpsertWallet, InsertTrade, SelectPosition, WritePosition
  <2>. QED BY <1>1, <2>2, <2>3, <2>4 DEF StepOf
<1>. QED BY <1>2, <1>3, <1>4, <1>5, <1>6 DEF LedgerTypeOK, Stages

(* Every step keeps the sessions in their places.                          *)
LEMMA PlaceNext ==
  ASSUME LedgerTypeOK, InProgress, LedgerNext
  PROVE  InProgress'
<1>1. PICK w \in Writers : StepOf(w)
  BY NextIs
<1>2. ASSUME NEW o \in Writers, o # w PROVE Place(o)'
  <2>1. job'[o] = job[o] /\ pc'[o] = pc[o]
    BY <1>1, <1>2, JobStep
  <2>. QED BY <2>1 DEF InProgress, Place, Payer
<1>3. Place(w)'
  <2>0. pc \in [Writers -> Stages] /\ job \in [Writers -> Jobs] /\ Place(w)
        /\ job[w].at \in Nat
    BY JobFields DEF LedgerTypeOK, Stages, InProgress
  <2>1. ASSUME NEW t \in Txs, NEW rows \in Outcomes[t], Deliver(w, t, rows)
        PROVE  Place(w)'
    <3>1. job'[w] = NewJob(t, rows, PoolOf(t))
          /\ pc'[w] = IF t.tx.payer = None THEN "commit" ELSE "wallet"
      BY <2>0, <2>1 DEF Deliver, Goto
    <3>2. job'[w].t = t /\ job'[w].rows = rows /\ job'[w].at = 1
      BY <3>1, NewFields
    <3>3. t.tx.payer = None => Len(rows) = 0
      BY OutcomeRows, EmptySeq DEF TypedRows
    <3>. QED BY <3>1, <3>2, <3>3 DEF Place, Payer
  <2>2. CASE UpsertWallet(w)
    <3>1. job' = job /\ job[w].at = 1 /\ Payer(w) # None
          /\ job[w].t \in Txs /\ job[w].rows \in Outcomes[job[w].t]
          /\ pc'[w] = IF 1 > Len(job[w].rows) THEN "commit" ELSE "token"
      BY <2>0, <2>2 DEF UpsertWallet, ToRow, Goto, Place
    <3>2. Len(job[w].rows) \in Nat
      BY JobFields, LenProperties
    <3>. QED BY <3>1, <3>2 DEF Place, Payer
  <2>3. CASE Refer(w)
    <3>1. /\ job' = job /\ pc[w] \in {"token", "pool", "addPool"}
          /\ pc'[w] \in {"pool", "addPool", "insert"}
      BY <2>0, <2>3, ReferDoes
    <3>. QED BY <2>0, <3>1 DEF Place, Payer
  <2>4. ASSUME pc[w] \in {"insert", "write"}, pc' = [pc EXCEPT ![w] = After(w)],
               \E inserted, held, episodes : Becomes(w, job[w].at + 1, inserted, held, episodes)
        PROVE  Place(w)'
    <3>1. /\ pc'[w] = After(w)
          /\ job'[w].t = job[w].t /\ job'[w].rows = job[w].rows /\ job'[w].at = job[w].at + 1
      BY <2>0, <2>4 DEF Becomes
    <3>2. Len(job[w].rows) \in Nat /\ job[w].at <= Len(job[w].rows)
      BY <2>0, <2>4, JobFields, LenProperties DEF Place
    <3>3. /\ job[w].t \in Txs /\ job[w].rows \in Outcomes[job[w].t] /\ Payer(w) # None
      BY <2>4, RowHere
    <3>4. job[w].at + 1 > Len(job[w].rows) => job[w].at + 1 = Len(job[w].rows) + 1
      BY <2>0, <3>2
    <3>5. ~(job[w].at + 1 > Len(job[w].rows)) => job[w].at + 1 <= Len(job[w].rows)
      BY <2>0, <3>2
    <3>6. Payer(w)' = Payer(w)
      BY <3>1 DEF Payer
    <3>. QED BY <3>1, <3>3, <3>4, <3>5, <3>6 DEF Place, After
  <2>5. ASSUME pc[w] \in {"insert", "select"}, pc'[w] \in {"select", "write"},
               \E inserted, held, episodes : Becomes(w, job[w].at, inserted, held, episodes)
        PROVE  Place(w)'
    <3>1. job'[w].t = job[w].t /\ job'[w].rows = job[w].rows /\ job'[w].at = job[w].at
      BY <2>5 DEF Becomes
    <3>. QED BY <2>0, <2>5, <3>1 DEF Place, Payer
  <2>6. CASE InsertTrade(w)
    <3>1. Row(w) \in Rows /\ pc[w] = "insert"
      BY <2>6, RowHere DEF InsertTrade
    <3>2. \/ /\ pc' = [pc EXCEPT ![w] = After(w)]
             /\ \E inserted, held, episodes : Becomes(w, job[w].at + 1, inserted, held, episodes)
          \/ /\ pc'[w] = "select"
             /\ \E inserted, held, episodes : Becomes(w, job[w].at, inserted, held, episodes)
      BY <2>0, <2>6, <3>1, InsertDoes
    <3>. QED BY <2>4, <2>5, <3>1, <3>2
  <2>7. CASE SelectPosition(w)
    <3>1. pc[w] = "select" /\ pc'[w] = "write"
      BY <2>0, <2>7 DEF SelectPosition, Goto
    <3>2. \E inserted, held, episodes : Becomes(w, job[w].at, inserted, held, episodes)
      BY <2>7, <3>1, RowHere, SelectDoes
    <3>. QED BY <2>5, <3>1, <3>2
  <2>8. CASE WritePosition(w)
    <3>1. pc[w] = "write"
      BY <2>8 DEF WritePosition
    <3>2. pc' = [pc EXCEPT ![w] = After(w)]
          /\ \E inserted, held, episodes : Becomes(w, job[w].at + 1, inserted, held, episodes)
      BY <2>8, <3>1, RowHere, WriteDoes
    <3>. QED BY <2>4, <3>1, <3>2
  <2>9. CASE Commit(w) \/ Abort(w)
    <3>1. job'[w] = NoJob /\ pc'[w] = "idle"
      BY <2>0, <2>9 DEF Commit, Abort, Goto
    <3>2. NoJob' = NoJob
      BY DEF NoJob, NewJob
    <3>. QED BY <3>1, <3>2 DEF Place
  <2>. QED BY <1>1, <2>1, <2>2, <2>3, <2>6, <2>7, <2>8, <2>9 DEF StepOf
<1>. QED BY <1>2, <1>3 DEF InProgress

-----------------------------------------------------------------------------
(* Sessions of one payer exclude each other from their first statement on. *)
LEMMA LockedNext ==
  ASSUME LedgerTypeOK, InProgress, WalletLocked, LedgerNext
  PROVE  WalletLocked'
<1>1. PICK w \in Writers : StepOf(w)
  BY NextIs
<1>2. pc \in [Writers -> Stages] /\ job \in [Writers -> Jobs]
      /\ rowLock \in [Entities -> Writers \cup {None}] /\ \A o \in Writers : Locks(o)
  BY DEF LedgerTypeOK, Stages, WalletLocked
<1>3. ASSUME NEW o \in Writers, pc[o] \in PastWallet, Payer(o) # None
      PROVE  <<"wallet", Payer(o)>> \in Entities
  <2>1. pc[o] # "idle"
    BY <1>3 DEF PastWallet
  <2>2. job[o].t \in Txs
    BY <2>1 DEF InProgress, Place
  <2>. QED BY <1>3, <2>2 DEF Entities, Payers, Payer
<1>4. ASSUME NEW o \in Writers, o # w PROVE Locks(o)'
  <2>1. job'[o] = job[o] /\ pc'[o] = pc[o] /\ Payer(o)' = Payer(o)
        /\ Positioned(o)' = Positioned(o)
    BY <1>1, <1>4, JobStep DEF Payer, Positioned
  <2>2. ASSUME pc[o] \in PastWallet, Payer(o) # None
        PROVE  rowLock'[<<"wallet", Payer(o)>>] = o
    <3>1. rowLock[<<"wallet", Payer(o)>>] = o /\ <<"wallet", Payer(o)>> \in Entities
      BY <1>2, <1>3, <2>2 DEF Locks
    <3>. QED BY <1>1, <1>4, <3>1, LocksStep, NobodyIsNone
  <2>. QED BY <1>2, <2>1, <2>2 DEF Locks
<1>5. Locks(w)'
  <2>1. ASSUME NEW t \in Txs, NEW rows \in Outcomes[t], Deliver(w, t, rows)
        PROVE  Locks(w)'
    <3>1. job'[w] = NewJob(t, rows, PoolOf(t))
          /\ pc'[w] = IF t.tx.payer = None THEN "commit" ELSE "wallet"
      BY <1>2, <2>1 DEF Deliver, Goto
    <3>2. Positioned(w)' = {} /\ job'[w].t = t
      BY <3>1, NewFields DEF Positioned
    <3>. QED BY <3>1, <3>2 DEF Locks, Payer, PastWallet
  <2>2. CASE UpsertWallet(w)
    <3>1. job' = job /\ pc[w] = "wallet" /\ Upsert(w, <<"wallet", Payer(w)>>)
          /\ pc'[w] \in {"commit", "token"}
      BY <1>2, <2>2 DEF UpsertWallet, ToRow, Goto, Payer
    <3>2. <<"wallet", Payer(w)>> \in Entities
      BY <3>1, EntityTypes
    <3>3. rowLock'[<<"wallet", Payer(w)>>] = w
      BY <1>2, <3>1, <3>2 DEF Upsert
    <3>4. Positioned(w) = {}
      BY <1>2, <3>1 DEF Locks, PastWallet
    <3>5. Payer(w)' = Payer(w) /\ Positioned(w)' = {}
      BY <3>1, <3>4 DEF Payer, Positioned
    <3>. QED BY <3>3, <3>5 DEF Locks
  <2>3. ASSUME pc[w] \in {"token", "pool", "addPool", "insert", "select", "write"},
               pc'[w] \in PastWallet,
               job'[w].t = job[w].t,
               \A pair \in Pairs : pair # Row(w).pair =>
                  job'[w].episodes[pair] = job[w].episodes[pair]
        PROVE  Locks(w)'
    <3>1. /\ Payer(w) # None /\ Row(w).pair[1] = Payer(w) /\ pc[w] \in PastWallet
      BY <2>3, RowHere DEF PastWallet
    <3>2. Payer(w)' = Payer(w)
      BY <2>3 DEF Payer
    <3>3. rowLock[<<"wallet", Payer(w)>>] = w /\ <<"wallet", Payer(w)>> \in Entities
      BY <1>2, <1>3, <3>1 DEF Locks
    <3>4. pc'[w] # "idle"
      BY <2>3 DEF PastWallet
    <3>5. rowLock'[<<"wallet", Payer(w)>>] = w
      BY <1>1, <3>3, <3>4, LocksStep
    <3>6. ASSUME NEW pair \in Positioned(w)' PROVE pair[1] = Payer(w)
      <4>1. CASE pair = Row(w).pair
        BY <3>1, <4>1
      <4>2. CASE pair # Row(w).pair
        <5>1. pair \in Pairs /\ job'[w].episodes[pair] # <<>>
          BY <3>6 DEF Positioned
        <5>2. pair \in Positioned(w)
          BY <2>3, <4>2, <5>1 DEF Positioned
        <5>. QED BY <1>2, <5>2 DEF Locks
      <4>. QED BY <4>1, <4>2
    <3>. QED BY <2>3, <3>1, <3>2, <3>5, <3>6 DEF Locks
  <2>4. CASE Refer(w)
    <3>1. /\ job' = job /\ pc[w] \in {"token", "pool", "addPool"}
          /\ pc'[w] \in {"pool", "addPool", "insert"}
      BY <1>2, <2>4, ReferDoes
    <3>. QED BY <2>3, <3>1 DEF PastWallet
  <2>5. CASE InsertTrade(w)
    <3>1. Row(w) \in Rows /\ pc[w] = "insert"
      BY <2>5, RowHere DEF InsertTrade
    <3>2. /\ \E at, inserted, held : Becomes(w, at, inserted, held, job[w].episodes)
          /\ pc'[w] \in PastWallet
      BY <1>2, <2>5, <3>1, InsertDoes DEF After, PastWallet
    <3>. QED BY <2>3, <3>1, <3>2 DEF Becomes
  <2>6. CASE SelectPosition(w)
    <3>1. pc[w] = "select" /\ pc'[w] = "write"
      BY <1>2, <2>6 DEF SelectPosition, Goto
    <3>2. \E at, inserted, held : Becomes(w, at, inserted, held, job[w].episodes)
      BY <2>6, <3>1, RowHere, SelectDoes
    <3>. QED BY <2>3, <3>1, <3>2 DEF Becomes, PastWallet
  <2>7. CASE WritePosition(w)
    <3>1. pc[w] = "write"
      BY <2>7 DEF WritePosition
    <3>2. PICK eps : eps = UpdatePosition(job[w].held, Row(w))
      OBVIOUS
    <3>3. /\ \E at, inserted, held :
               Becomes(w, at, inserted, held, [job[w].episodes EXCEPT ![Row(w).pair] = eps])
          /\ pc'[w] \in PastWallet
      BY <1>2, <2>7, <3>1, <3>2, RowHere, WriteDoes DEF After, PastWallet
    <3>4. /\ job'[w].t = job[w].t
          /\ job'[w].episodes = [job[w].episodes EXCEPT ![Row(w).pair] = eps]
      BY <3>3 DEF Becomes
    <3>5. job[w].episodes \in [Pairs -> Seq(Positions)]
      BY JobFields
    <3>6. \A pair \in Pairs : pair # Row(w).pair =>
             job'[w].episodes[pair] = job[w].episodes[pair]
      BY <3>4, <3>5
    <3>. QED BY <2>3, <3>1, <3>3, <3>4, <3>6
  <2>8. CASE Commit(w) \/ Abort(w)
    <3>1. job'[w] = NoJob /\ pc'[w] = "idle"
      BY <1>2, <2>8 DEF Commit, Abort, Goto
    <3>2. Positioned(w)' = {}
      BY <3>1, NewFields DEF Positioned, NoJob
    <3>. QED BY <3>1, <3>2 DEF Locks, PastWallet
  <2>. QED BY <1>1, <2>1, <2>2, <2>4, <2>5, <2>6, <2>7, <2>8 DEF StepOf
<1>. QED BY <1>4, <1>5 DEF WalletLocked

(* Past its first upsert a session shares no pair with another's writes.   *)
LEMMA WritesApart ==
  ASSUME WalletLocked, NEW w \in Writers, NEW o \in Writers, w # o,
         pc[w] \in PastWallet, Payer(w) # None, NEW pair, pair[1] = Payer(w)
  PROVE  pair \notin Positioned(o)
<1>1. SUFFICES ASSUME pair \in Positioned(o) PROVE FALSE
  OBVIOUS
<1>2. pc[o] \in PastWallet /\ Payer(o) # None /\ pair[1] = Payer(o)
  BY <1>1 DEF WalletLocked, Locks
<1>3. rowLock[<<"wallet", Payer(w)>>] = w /\ rowLock[<<"wallet", Payer(o)>>] = o
  BY <1>2 DEF WalletLocked, Locks
<1>. QED BY <1>2, <1>3

(* The ledger starts empty and well typed.                                 *)
LEMMA LedgerStarts ==
  ASSUME LedgerInit
  PROVE  LedgerTypeOK /\ InProgress /\ WalletLocked /\ HeldCurrent
<1>1. NoJob \in Jobs
  BY NewJobType, EmptySeq DEF NoJob
<1>2. LedgerTypeOK
  <2>1. positions \in [Pairs -> Seq(Positions)]
    <3>1. <<>> \in Seq(Positions)
      BY EmptySeq
    <3>. QED BY <3>1 DEF LedgerInit, Init
  <2>2. deliveries \in [Txs -> Nat] /\ \A t \in Txs : deliveries[t] <= MaxDeliveries[t]
    BY LedgerBounds DEF LedgerInit
  <2>3. 0 \in 0..MaxRollbacks
    BY LedgerBounds
  <2>. QED BY <1>1, <2>1, <2>2, <2>3 DEF LedgerInit, Init, LedgerTypeOK
<1>3. \A w \in Writers : pc[w] = "idle" /\ job[w] = NoJob /\ Positioned(w) = {}
  BY NewFields DEF LedgerInit, Positioned, NoJob
<1>. QED BY <1>2, <1>3 DEF InProgress, Place, WalletLocked, Locks, HeldCurrent, Current, PastWallet

(* The ledger's tables and sessions keep their types, each session is in   *)
(* its place in its transaction's rows, and from its first upsert to its   *)
(* end it holds the payer's wallet row, which keeps two sessions of a      *)
(* payer apart (writer.py: persist_transaction, upsert_wallet).            *)
THEOREM TypeCorrect == LedgerSpec => [](LedgerTypeOK /\ InProgress /\ WalletLocked)
<1>1. LedgerInit => LedgerTypeOK /\ InProgress /\ WalletLocked
  BY LedgerStarts
<1>2. LedgerTypeOK /\ InProgress /\ WalletLocked /\ [LedgerNext]_ledgerVars
        => (LedgerTypeOK /\ InProgress /\ WalletLocked)'
  <2>1. ASSUME LedgerTypeOK, InProgress, WalletLocked, LedgerNext
        PROVE  (LedgerTypeOK /\ InProgress /\ WalletLocked)'
    BY <2>1, TypeNext, PlaceNext, LockedNext
  <2>2. ASSUME LedgerTypeOK, InProgress, WalletLocked, UNCHANGED ledgerVars
        PROVE  (LedgerTypeOK /\ InProgress /\ WalletLocked)'
    BY <2>2 DEF ledgerVars, sessionVars, LedgerTypeOK, InProgress, Place, WalletLocked, Locks,
                Payer, Positioned
  <2>. QED BY <2>1, <2>2
<1>. QED BY <1>1, <1>2, PTL DEF LedgerSpec

-----------------------------------------------------------------------------
Base == LedgerTypeOK /\ InProgress /\ WalletLocked

(* A step of another session changes nothing of what a session sees of its *)
(* payer.                                                                  *)
LEMMA SeenSame ==
  ASSUME Base, NEW w \in Writers, StepOf(w), NEW o \in Writers, o # w,
         pc[o] \in PastWallet, Payer(o) # None, NEW pair \in Pairs, pair[1] = Payer(o)
  PROVE  /\ positions'[pair] = positions[pair]
         /\ EpisodesSeen(o, pair)' = EpisodesSeen(o, pair)
<1>1. positions'[pair] = positions[pair]
  <2>1. CASE ~Commit(w)
    BY <2>1, CommittedSame
  <2>2. CASE Commit(w)
    <3>1. positions'[pair] = EpisodesSeen(w, pair)
      BY <2>2 DEF Commit
    <3>2. pair \notin Positioned(w)
      BY WritesApart DEF Base
    <3>. QED BY <3>1, <3>2 DEF EpisodesSeen
  <2>. QED BY <2>1, <2>2
<1>2. job'[o] = job[o]
  BY JobStep DEF Base
<1>. QED BY <1>1, <1>2 DEF EpisodesSeen, Positioned

(* Every step keeps what was read current until it is written.             *)
LEMMA CurrentNext ==
  ASSUME Base, HeldCurrent, LedgerNext
  PROVE  HeldCurrent'
<1>1. PICK w \in Writers : StepOf(w)
  BY NextIs
<1>2. LedgerTypeOK /\ InProgress /\ pc \in [Writers -> Stages] /\ job \in [Writers -> Jobs]
  BY DEF Base, LedgerTypeOK, Stages
<1>3. ASSUME NEW o \in Writers, o # w, pc'[o] = "write"
      PROVE  Current(o)'
  <2>1. job'[o] = job[o] /\ pc[o] = "write" /\ Row(o)' = Row(o)
    BY <1>1, <1>2, <1>3, JobStep DEF Row
  <2>2. Row(o).pair \in Pairs /\ Row(o).pair[1] = Payer(o) /\ Payer(o) # None
        /\ pc[o] \in PastWallet
    BY <1>2, <2>1, RowHere DEF PastWallet
  <2>3. EpisodesSeen(o, Row(o).pair)' = EpisodesSeen(o, Row(o).pair)
    <3>1. PICK pair : pair = Row(o).pair
      OBVIOUS
    <3>2. EpisodesSeen(o, pair)' = EpisodesSeen(o, pair)
      BY <1>1, <1>3, <2>2, <3>1, SeenSame
    <3>3. Row(o)'.pair = pair
      BY <2>1, <3>1
    <3>. QED BY <3>1, <3>2, <3>3 DEF EpisodesSeen, Positioned
  <2>4. job[o].held = EpisodesSeen(o, Row(o).pair)
    BY <2>1 DEF HeldCurrent, Current
  <2>. QED BY <2>1, <2>3, <2>4 DEF Current
<1>4. ASSUME pc'[w] = "write" PROVE Current(w)'
  <2>1. SelectPosition(w)
    <3>1. ASSUME NEW t \in Txs, NEW rows \in Outcomes[t], Deliver(w, t, rows)
          PROVE  pc'[w] # "write"
      BY <1>2, <3>1 DEF Deliver, Goto
    <3>2. CASE UpsertWallet(w) \/ Refer(w)
      BY <1>2, <1>4, <3>2, ReferDoes DEF UpsertWallet, ToRow, Goto
    <3>3. CASE InsertTrade(w)
      <4>1. Row(w) \in Rows
        BY <1>2, <3>3, RowHere DEF InsertTrade
      <4>2. \E s \in {"commit", "token", "select"} : pc' = [pc EXCEPT ![w] = s]
        BY <1>2, <3>3, <4>1, InsertDoes DEF After
      <4>. QED BY <1>2, <1>4, <4>2
    <3>4. CASE WritePosition(w)
      <4>1. Row(w) \in Rows /\ Row(w).pair \in Pairs
        BY <1>2, <3>4, RowHere DEF WritePosition
      <4>2. \E s \in {"commit", "token"} : pc' = [pc EXCEPT ![w] = s]
        BY <1>2, <3>4, <4>1, WriteDoes DEF After
      <4>. QED BY <1>2, <1>4, <4>2
    <3>5. CASE Commit(w) \/ Abort(w)
      BY <1>2, <1>4, <3>5 DEF Commit, Abort, Goto
    <3>. QED BY <1>1, <1>4, <3>1, <3>2, <3>3, <3>4, <3>5 DEF StepOf
  <2>2. pc[w] = "select" /\ positions' = positions
    BY <2>1 DEF SelectPosition
  <2>3. Becomes(w, job[w].at, job[w].inserted, EpisodesSeen(w, Row(w).pair), job[w].episodes)
    BY <1>2, <2>1, <2>2, RowHere, SelectDoes
  <2>4. /\ job'[w].held = EpisodesSeen(w, Row(w).pair) /\ job'[w].episodes = job[w].episodes
        /\ job'[w].rows = job[w].rows /\ job'[w].at = job[w].at
    BY <2>3 DEF Becomes
  <2>5. Row(w)' = Row(w)
    BY <2>4 DEF Row
  <2>. QED BY <2>2, <2>4, <2>5 DEF Current, EpisodesSeen, Positioned
<1>. QED BY <1>3, <1>4 DEF HeldCurrent, Current

(* The unique index of open positions is free: the session read the last   *)
(* episode.                                                                *)
LEMMA IndexFree == Base /\ HeldCurrent => IndexNeverRefuses
<1>. SUFFICES ASSUME Base, HeldCurrent, NEW w \in Writers, pc[w] = "write",
                     ~HasOpen(job[w].held)
              PROVE  /\ \/ ~HasOpen(positions[Row(w).pair])
                        \/ Row(w).pair \in Positioned(w)
                     /\ \A other \in Writers \ {w} : Row(w).pair \notin Positioned(other)
  BY DEF IndexNeverRefuses
<1>1. job[w].held = EpisodesSeen(w, Row(w).pair)
  BY DEF HeldCurrent, Current
<1>2. Row(w).pair[1] = Payer(w) /\ Payer(w) # None /\ pc[w] \in PastWallet
  BY RowHere DEF PastWallet, Base
<1>3. \A other \in Writers \ {w} : Row(w).pair \notin Positioned(other)
  BY <1>2, WritesApart DEF Base
<1>. QED BY <1>1, <1>3 DEF EpisodesSeen

(* The unique index of open positions (models.py, uq_positions_open) never *)
(* refuses an insert: update_position finds an open position whenever      *)
(* there is one, for the payer's wallet row was locked before.             *)
THEOREM IndexNeverRefusesHolds == LedgerSpec => []IndexNeverRefuses
<1>1. LedgerInit => HeldCurrent
  BY LedgerStarts
<1>2. Base /\ HeldCurrent /\ [LedgerNext]_ledgerVars => HeldCurrent'
  <2>1. ASSUME HeldCurrent, UNCHANGED ledgerVars PROVE HeldCurrent'
    BY <2>1 DEF ledgerVars, sessionVars, HeldCurrent, Current, EpisodesSeen, Positioned, Row
  <2>. QED BY <2>1, CurrentNext
<1>3. LedgerSpec => []Base
  BY TypeCorrect DEF Base
<1>. QED BY <1>1, <1>2, <1>3, IndexFree, PTL DEF LedgerSpec

-----------------------------------------------------------------------------
(* Episodes that are over stay as they are.                                *)
LEMMA ExtendsSelf == \A eps : Len(eps) \in Int => Extends(eps, eps)
BY DEF Extends

(* What a session sees goes on from what is committed.                     *)
LEMMA SeenExtends ==
  ASSUME LedgerTypeOK, WritesExtend, NEW w \in Writers, NEW pair \in Pairs
  PROVE  /\ Extends(positions[pair], EpisodesSeen(w, pair))
         /\ OnlyLastOpen(EpisodesSeen(w, pair))
<1>1. positions[pair] \in Seq(Positions)
  BY DEF LedgerTypeOK
<1>2. Len(positions[pair]) \in Int
  BY <1>1, LenProperties
<1>. QED BY <1>2, ExtendsSelf DEF WritesExtend, EpisodesSeen

(* When a statement of w changes what w has written, it folds a row.       *)
LEMMA EpisodesStep ==
  ASSUME Base, NEW w \in Writers, StepOf(w), NEW pair \in Pairs
  PROVE  \/ job'[w].episodes[pair] = <<>>
         \/ job'[w].episodes[pair] = job[w].episodes[pair] /\ ~Commit(w)
         \/ /\ WritePosition(w) /\ pair = Row(w).pair
            /\ job'[w].episodes[pair] = UpdatePosition(job[w].held, Row(w))
<1>0. LedgerTypeOK /\ InProgress /\ pc \in [Writers -> Stages] /\ job \in [Writers -> Jobs]
  BY DEF Base, LedgerTypeOK, Stages
<1>1. ASSUME NEW t \in Txs, NEW rows \in Outcomes[t], Deliver(w, t, rows)
      PROVE  job'[w].episodes[pair] = <<>>
  BY <1>0, <1>1, NewFields DEF Deliver
<1>2. CASE UpsertWallet(w) \/ Refer(w)
  BY <1>2, ReferDoes DEF UpsertWallet, Commit
<1>3. CASE InsertTrade(w)
  <2>1. Row(w) \in Rows /\ pc[w] # "commit"
    BY <1>0, <1>3, RowHere DEF InsertTrade
  <2>2. \E at, inserted, held : Becomes(w, at, inserted, held, job[w].episodes)
    BY <1>0, <1>3, <2>1, InsertDoes
  <2>. QED BY <2>1, <2>2 DEF Becomes, Commit
<1>4. CASE SelectPosition(w)
  <2>1. \E at, inserted, held : Becomes(w, at, inserted, held, job[w].episodes)
    BY <1>0, <1>4, RowHere, SelectDoes DEF SelectPosition
  <2>. QED BY <1>4, <2>1 DEF Becomes, Commit, SelectPosition
<1>5. CASE WritePosition(w)
  <2>1. Row(w) \in Rows /\ Row(w).pair \in Pairs /\ pc[w] # "commit"
    BY <1>0, <1>5, RowHere DEF WritePosition
  <2>2. PICK eps : eps = UpdatePosition(job[w].held, Row(w))
    OBVIOUS
  <2>3. \E at, inserted, held :
             Becomes(w, at, inserted, held, [job[w].episodes EXCEPT ![Row(w).pair] = eps])
    BY <1>0, <1>5, <2>1, <2>2, WriteDoes
  <2>4. job'[w].episodes = [job[w].episodes EXCEPT ![Row(w).pair] = eps]
    BY <2>3 DEF Becomes
  <2>5. job[w].episodes \in [Pairs -> Seq(Positions)]
    BY <1>0, JobFields
  <2>. QED BY <1>5, <2>1, <2>2, <2>4, <2>5 DEF Commit
<1>6. CASE Commit(w) \/ Abort(w)
  <2>1. job'[w] = NoJob
    BY <1>0, <1>6 DEF Commit, Abort
  <2>. QED BY <2>1, NewFields DEF NoJob
<1>. QED BY <1>1, <1>2, <1>3, <1>4, <1>5, <1>6 DEF StepOf

(* Every step keeps uncommitted episodes going on from committed ones.     *)
LEMMA ExtendNext ==
  ASSUME Base, HeldCurrent, WritesExtend, LedgerNext
  PROVE  WritesExtend'
<1>1. PICK w \in Writers : StepOf(w)
  BY NextIs
<1>2. LedgerTypeOK /\ InProgress
  BY DEF Base
<1>3. ASSUME NEW pair \in Pairs PROVE OnlyLastOpen(positions'[pair])
  <2>1. CASE ~Commit(w)
    BY <1>1, <1>3, <2>1, CommittedSame DEF WritesExtend
  <2>2. CASE Commit(w)
    <3>1. positions'[pair] = EpisodesSeen(w, pair)
      BY <2>2 DEF Commit
    <3>. QED BY <1>2, <3>1, SeenExtends
  <2>. QED BY <2>1, <2>2
<1>4. ASSUME NEW o \in Writers, o # w, NEW pair \in Positioned(o)'
      PROVE  /\ Extends(positions'[pair], job'[o].episodes[pair])
             /\ OnlyLastOpen(job'[o].episodes[pair])
  <2>1. job'[o] = job[o] /\ pair \in Pairs /\ pair \in Positioned(o)
    BY <1>1, <1>2, <1>4, JobStep DEF Positioned
  <2>2. pc[o] \in PastWallet /\ Payer(o) # None /\ pair[1] = Payer(o)
    BY <2>1 DEF Base, WalletLocked, Locks
  <2>3. positions'[pair] = positions[pair]
    BY <1>1, <1>4, <2>1, <2>2, SeenSame
  <2>. QED BY <2>1, <2>3 DEF WritesExtend
<1>5. ASSUME NEW pair \in Positioned(w)'
      PROVE  /\ Extends(positions'[pair], job'[w].episodes[pair])
             /\ OnlyLastOpen(job'[w].episodes[pair])
  <2>1. pair \in Pairs /\ job'[w].episodes[pair] # <<>>
    BY <1>5 DEF Positioned
  <2>2. CASE job'[w].episodes[pair] = job[w].episodes[pair] /\ ~Commit(w)
    <3>1. pair \in Positioned(w) /\ positions' = positions
      BY <1>1, <2>1, <2>2, CommittedSame DEF Positioned
    <3>. QED BY <2>2, <3>1 DEF WritesExtend
  <2>3. CASE /\ WritePosition(w) /\ pair = Row(w).pair
             /\ job'[w].episodes[pair] = UpdatePosition(job[w].held, Row(w))
    <3>1. pc[w] = "write" /\ positions' = positions /\ Row(w) \in Rows
      BY <1>2, <2>3, RowHere DEF WritePosition
    <3>2. PICK seen0 : seen0 = EpisodesSeen(w, pair)
      OBVIOUS
    <3>3. job[w].held = seen0
      BY <2>3, <3>1, <3>2 DEF HeldCurrent, Current
    <3>4. /\ seen0 \in Seq(Positions) /\ Extends(positions[pair], seen0)
          /\ OnlyLastOpen(seen0) /\ positions[pair] \in Seq(Positions)
      BY <1>2, <2>1, <3>2, SeenType, SeenExtends DEF LedgerTypeOK
    <3>5. PICK new : new = UpdatePosition(seen0, Row(w))
      OBVIOUS
    <3>6. new \in Seq(Positions) /\ Extends(seen0, new) /\ OnlyLastOpen(new)
      BY <3>1, <3>4, <3>5, UpdateType, UpdateExtends
    <3>7. Extends(positions[pair], new)
      BY <3>4, <3>6, ExtendsOn
    <3>. QED BY <2>3, <3>1, <3>3, <3>5, <3>6, <3>7
  <2>. QED BY <1>1, <2>1, <2>2, <2>3, EpisodesStep
<1>. QED BY <1>3, <1>4, <1>5 DEF WritesExtend

(* No step changes a closed episode, and all but the last are closed.      *)
LEMMA FinalStep ==
  ASSUME Base, HeldCurrent, WritesExtend, WritesExtend', LedgerNext
  PROVE  \A pair \in Pairs :
           /\ Len(positions[pair]) <= Len(positions'[pair])
           /\ \A i \in DOMAIN positions[pair] :
                positions[pair][i].status = "closed" => positions'[pair][i] = positions[pair][i]
           /\ \A i \in DOMAIN positions'[pair] :
                i < Len(positions'[pair]) => positions'[pair][i].status = "closed"
<1>. SUFFICES ASSUME NEW pair \in Pairs
              PROVE  Extends(positions[pair], positions'[pair]) /\ OnlyLastOpen(positions'[pair])
  BY DEF Extends, OnlyLastOpen
<1>1. PICK w \in Writers : StepOf(w)
  BY NextIs
<1>2. OnlyLastOpen(positions'[pair])
  BY DEF WritesExtend
<1>3. CASE ~Commit(w)
  <2>1. positions' = positions /\ positions[pair] \in Seq(Positions)
    BY <1>1, <1>3, CommittedSame DEF Base, LedgerTypeOK
  <2>2. Len(positions[pair]) \in Int
    BY <2>1, LenProperties
  <2>. QED BY <1>2, <2>1, <2>2, ExtendsSelf
<1>4. CASE Commit(w)
  <2>1. positions'[pair] = EpisodesSeen(w, pair)
    BY <1>4 DEF Commit
  <2>. QED BY <1>2, <2>1, SeenExtends DEF Base
<1>. QED BY <1>3, <1>4

(* An episode that is over is never changed or reopened, and only the last *)
(* one of a wallet and token can be open (update_position).                *)
THEOREM EpisodesFinalHolds == LedgerSpec => EpisodesFinal
<1>1. LedgerInit => HeldCurrent /\ WritesExtend
  <2>1. ASSUME LedgerInit PROVE WritesExtend
    <3>1. \A pair \in Pairs : positions[pair] = <<>>
      BY <2>1 DEF LedgerInit, Init
    <3>2. \A w \in Writers : Positioned(w) = {}
      BY <2>1, NewFields DEF LedgerInit, Positioned, NoJob
    <3>3. OnlyLastOpen(<<>>)
      BY DEF OnlyLastOpen
    <3>. QED BY <3>1, <3>2, <3>3 DEF WritesExtend
  <2>. QED BY <2>1, LedgerStarts
<1>2. Base /\ HeldCurrent /\ WritesExtend /\ [LedgerNext]_ledgerVars
        => (HeldCurrent /\ WritesExtend)'
  <2>1. ASSUME HeldCurrent, WritesExtend, UNCHANGED ledgerVars
        PROVE  (HeldCurrent /\ WritesExtend)'
    BY <2>1 DEF ledgerVars, sessionVars, HeldCurrent, Current, EpisodesSeen, Positioned, Row,
                WritesExtend
  <2>. QED BY <2>1, CurrentNext, ExtendNext
<1>3. ASSUME Base, HeldCurrent, WritesExtend, [LedgerNext]_ledgerVars, WritesExtend'
      PROVE  [\A pair \in Pairs :
                /\ Len(positions[pair]) <= Len(positions'[pair])
                /\ \A i \in DOMAIN positions[pair] :
                     positions[pair][i].status = "closed"
                       => positions'[pair][i] = positions[pair][i]
                /\ \A i \in DOMAIN positions'[pair] :
                     i < Len(positions'[pair]) => positions'[pair][i].status = "closed"
             ]_ledgerVars
  BY <1>3, FinalStep
<1>4. LedgerSpec => []Base
  BY TypeCorrect DEF Base
<1>. QED BY <1>1, <1>2, <1>3, <1>4, PTL DEF LedgerSpec, EpisodesFinal

-----------------------------------------------------------------------------
(* Each trade is inserted by one session, and folded by it.                *)
LEMMA NewRowsZero == \A rows, recorded : NewRows(rows, 0, recorded) = {}
BY DEF NewRows

(* The next row is new, or it is already recorded.                         *)
LEMMA NewRowsMore ==
  ASSUME NEW rows, NEW recorded, NEW n \in Nat
  PROVE  NewRows(rows, n + 1, recorded)
           = NewRows(rows, n, recorded)
               \cup (IF Recorded(rows[n + 1], recorded) THEN {} ELSE {rows[n + 1]})
<1>1. 1..n + 1 = 1..n \cup {n + 1}
  OBVIOUS
<1>2. {j \in 1..n + 1 : ~Recorded(rows[j], recorded)}
        = {j \in 1..n : ~Recorded(rows[j], recorded)}
            \cup {j \in {n + 1} : ~Recorded(rows[j], recorded)}
  BY <1>1
<1>. QED BY <1>2 DEF NewRows

(* Finitely many rows are new.                                             *)
LEMMA NewRowsFinite ==
  ASSUME NEW rows, NEW recorded, NEW n \in Nat
  PROVE  IsFiniteSet(NewRows(rows, n, recorded))
<1>. DEFINE new == {j \in 1..n : ~Recorded(rows[j], recorded)}
<1>1. IsFiniteSet(new)
  <2>1. new \subseteq 1..n
    OBVIOUS
  <2>2. IsFiniteSet(1..n)
    <3>1. 1 \in Int /\ n \in Int
      OBVIOUS
    <3>. QED BY <3>1, FS_Interval
  <2>. HIDE DEF new
  <2>. QED BY <2>1, <2>2, FS_Subset
<1>2. IsFiniteSet({rows[i] : i \in new})
  <2>. HIDE DEF new
  <2>. QED BY <1>1, ImageFinite
<1>. QED BY <1>2 DEF NewRows

(* Which rows are new depends on what is recorded of them only.            *)
LEMMA NewRowsSame ==
  ASSUME NEW rows, NEW a, NEW b, NEW n,
         \A j \in 1..n : Recorded(rows[j], a) <=> Recorded(rows[j], b)
  PROVE  NewRows(rows, n, a) = NewRows(rows, n, b)
BY DEF NewRows

(* A session has inserted finitely many rows.                              *)
LEMMA InsertedFinite ==
  ASSUME LedgerTypeOK, InsertedNew, NEW w \in Writers
  PROVE  IsFiniteSet(job[w].inserted)
<1>1. Reached(w) \in Nat
  BY JobFields DEF Reached
<1>. QED BY <1>1, NewRowsFinite DEF InsertedNew, InsertedHere

(* What a session has inserted is not in trades.                           *)
LEMMA InsertedApart ==
  ASSUME InsertedNew, NEW w \in Writers, NEW r \in job[w].inserted
  PROVE  ~Recorded(r, trades) /\ r \notin trades
<1>1. r \in NewRows(job[w].rows, Reached(w), trades)
  BY DEF InsertedNew, InsertedHere
<1>2. ~Recorded(r, trades)
  BY <1>1 DEF NewRows
<1>. QED BY <1>2 DEF Recorded, SameTrade

(* A row that is to be inserted is of a place the session has not been at. *)
LEMMA RowNotYet ==
  ASSUME Base, InsertedNew, NEW w \in Writers, pc[w] = "insert"
  PROVE  ~Recorded(Row(w), job[w].inserted)
<1>1. LedgerTypeOK /\ InProgress
  BY DEF Base
<1>2. /\ job[w].t \in Txs /\ job[w].rows \in Outcomes[job[w].t]
      /\ job[w].at \in DOMAIN job[w].rows /\ Row(w).index = job[w].at
  BY <1>1, RowHere
<1>3. job[w].at \in Nat /\ DOMAIN job[w].rows = 1..Len(job[w].rows)
      /\ Len(job[w].rows) \in Nat
  BY <1>1, JobFields, LenProperties
<1>4. ASSUME NEW r \in job[w].inserted PROVE r.index # job[w].at
  <2>1. PICK i \in 1..(job[w].at - 1) : r = job[w].rows[i]
    BY <1>4 DEF InsertedNew, InsertedHere, Reached, NewRows
  <2>2. i \in DOMAIN job[w].rows /\ i # job[w].at
    BY <1>2, <1>3, <2>1
  <2>3. r.index = i
    BY <1>2, <2>1, <2>2, OutcomeRows DEF TypedRows
  <2>. QED BY <2>2, <2>3
<1>. QED BY <1>2, <1>4 DEF Recorded, SameTrade

(* A row is recorded in one of two sets.                                   *)
LEMMA RecordedUnion ==
  \A row, a, b : Recorded(row, a \cup b) <=> Recorded(row, a) \/ Recorded(row, b)
BY DEF Recorded

(* What a step of w does to what w has inserted.                           *)
LEMMA InsertedStep ==
  ASSUME Base, InsertedNew, NEW w \in Writers, StepOf(w)
  PROVE  \/ job'[w].inserted = {} /\ Reached(w)' = 0 /\ pc'[w] \notin {"select", "write"}
         \/ /\ job'[w].inserted = job[w].inserted /\ Reached(w)' = Reached(w)
            /\ job'[w].rows = job[w].rows /\ trades' = trades
            /\ \/ pc'[w] \notin {"select", "write"}
               \/ pc[w] \in {"select", "write"} /\ Row(w)' = Row(w)
         \/ /\ InsertTrade(w) /\ job'[w].rows = job[w].rows /\ trades' = trades
            /\ Reached(w) = job[w].at - 1 /\ Reached(w)' = job[w].at
            /\ \/ /\ Recorded(Row(w), trades) /\ job'[w].inserted = job[w].inserted
                  /\ pc'[w] \notin {"select", "write"}
               \/ /\ ~Recorded(Row(w), trades) /\ Row(w) \notin job[w].inserted
                  /\ job'[w].inserted = job[w].inserted \cup {Row(w)}
                  /\ \/ Row(w).sol = None /\ pc'[w] \notin {"select", "write"}
                     \/ Row(w).sol # None /\ pc'[w] = "select" /\ Row(w)' = Row(w)
<1>0. LedgerTypeOK /\ InProgress /\ pc \in [Writers -> Stages] /\ job \in [Writers -> Jobs]
      /\ job[w].at \in Nat
  BY JobFields DEF Base, LedgerTypeOK, Stages
<1>1. ASSUME job'[w].inserted = {}, job'[w].at = 1, pc'[w] \notin {"select", "write"}
      PROVE  job'[w].inserted = {} /\ Reached(w)' = 0 /\ pc'[w] \notin {"select", "write"}
  BY <1>1 DEF Reached
<1>2. ASSUME NEW t \in Txs, NEW rows \in Outcomes[t], Deliver(w, t, rows)
      PROVE  job'[w].inserted = {} /\ job'[w].at = 1 /\ pc'[w] \notin {"select", "write"}
  <2>1. /\ job'[w] = NewJob(t, rows, PoolOf(t))
        /\ pc'[w] = IF t.tx.payer = None THEN "commit" ELSE "wallet"
    BY <1>0, <1>2 DEF Deliver, Goto
  <2>. QED BY <2>1, NewFields
<1>3. CASE Commit(w) \/ Abort(w)
  <2>1. job'[w] = NoJob /\ pc'[w] = "idle"
    BY <1>0, <1>3 DEF Commit, Abort, Goto
  <2>. QED BY <1>1, <2>1, NewFields DEF NoJob
<1>4. CASE UpsertWallet(w) \/ Refer(w)
  <2>1. /\ job' = job /\ trades' = trades /\ pc[w] \in {"wallet", "token", "pool", "addPool"}
        /\ pc'[w] \in {"commit", "token", "pool", "addPool", "insert"}
    BY <1>0, <1>4, ReferDoes DEF UpsertWallet, ToRow, Goto
  <2>. QED BY <2>1 DEF Reached
<1>5. CASE SelectPosition(w)
  <2>1. pc[w] = "select" /\ pc'[w] = "write" /\ trades' = trades
    BY <1>0, <1>5 DEF SelectPosition, Goto
  <2>2. \E held : Becomes(w, job[w].at, job[w].inserted, held, job[w].episodes)
    BY <1>0, <1>5, <2>1, RowHere, SelectDoes
  <2>3. /\ job'[w].at = job[w].at /\ job'[w].rows = job[w].rows
        /\ job'[w].inserted = job[w].inserted
    BY <2>2 DEF Becomes
  <2>. QED BY <2>1, <2>3 DEF Reached, Row
<1>6. CASE WritePosition(w)
  <2>1. pc[w] = "write" /\ trades' = trades
    BY <1>0, <1>6 DEF WritePosition
  <2>2. /\ \E held, eps : Becomes(w, job[w].at + 1, job[w].inserted, held, eps)
        /\ pc' = [pc EXCEPT ![w] = After(w)]
    BY <1>0, <1>6, <2>1, RowHere, WriteDoes
  <2>3. /\ job'[w].at = job[w].at + 1 /\ job'[w].rows = job[w].rows
        /\ job'[w].inserted = job[w].inserted /\ pc'[w] \in {"commit", "token"}
    BY <1>0, <2>2 DEF Becomes, After
  <2>4. Reached(w)' = Reached(w)
    BY <1>0, <2>1, <2>3 DEF Reached
  <2>. QED BY <2>1, <2>3, <2>4
<1>7. CASE InsertTrade(w)
  <2>1. pc[w] = "insert" /\ trades' = trades /\ Row(w) \in Rows
    BY <1>0, <1>7, RowHere DEF InsertTrade
  <2>2. ~Recorded(Row(w), job[w].inserted) /\ Row(w) \notin job[w].inserted
    BY <2>1, RowNotYet DEF Recorded, SameTrade
  <2>3. Recorded(Row(w), trades \cup job[w].inserted) <=> Recorded(Row(w), trades)
    BY <2>2, RecordedUnion
  <2>4. Reached(w) = job[w].at - 1
    BY <2>1 DEF Reached
  <2>5. CASE /\ Recorded(Row(w), trades \cup job[w].inserted)
             /\ Becomes(w, job[w].at + 1, job[w].inserted, job[w].held, job[w].episodes)
             /\ pc' = [pc EXCEPT ![w] = After(w)]
    <3>1. /\ job'[w].at = job[w].at + 1 /\ job'[w].rows = job[w].rows
          /\ job'[w].inserted = job[w].inserted /\ pc'[w] \in {"commit", "token"}
      BY <1>0, <2>5 DEF Becomes, After
    <3>2. Reached(w)' = job[w].at
      BY <1>0, <3>1 DEF Reached
    <3>. QED BY <1>7, <2>1, <2>3, <2>4, <2>5, <3>1, <3>2
  <2>6. CASE /\ ~Recorded(Row(w), trades \cup job[w].inserted)
             /\ Row(w).sol = None
             /\ Becomes(w, job[w].at + 1, job[w].inserted \cup {Row(w)},
                        job[w].held, job[w].episodes)
             /\ pc' = [pc EXCEPT ![w] = After(w)]
    <3>1. /\ job'[w].at = job[w].at + 1 /\ job'[w].rows = job[w].rows
          /\ job'[w].inserted = job[w].inserted \cup {Row(w)} /\ pc'[w] \in {"commit", "token"}
      BY <1>0, <2>6 DEF Becomes, After
    <3>2. Reached(w)' = job[w].at
      BY <1>0, <3>1 DEF Reached
    <3>. QED BY <1>7, <2>1, <2>2, <2>3, <2>4, <2>6, <3>1, <3>2
  <2>7. CASE /\ ~Recorded(Row(w), trades \cup job[w].inserted)
             /\ Row(w).sol # None
             /\ Becomes(w, job[w].at, job[w].inserted \cup {Row(w)},
                        job[w].held, job[w].episodes)
             /\ pc' = [pc EXCEPT ![w] = "select"]
    <3>1. /\ job'[w].at = job[w].at /\ job'[w].rows = job[w].rows
          /\ job'[w].inserted = job[w].inserted \cup {Row(w)} /\ pc'[w] = "select"
      BY <1>0, <2>7 DEF Becomes
    <3>2. Reached(w)' = job[w].at /\ Row(w)' = Row(w)
      BY <1>0, <3>1 DEF Reached, Row
    <3>. QED BY <1>7, <2>1, <2>2, <2>3, <2>4, <2>7, <3>1, <3>2
  <2>. QED BY <1>0, <1>7, <2>1, <2>5, <2>6, <2>7, InsertDoes
<1>. QED BY <1>1, <1>2, <1>3, <1>4, <1>5, <1>6, <1>7 DEF StepOf

(* What w commits is not among the rows that o has got to.                 *)
LEMMA RecordedSame ==
  ASSUME Base, InsertedNew, NEW w \in Writers, StepOf(w), NEW o \in Writers, o # w
  PROVE  \A j \in 1..Reached(o) : Recorded(job[o].rows[j], trades')
                                   <=> Recorded(job[o].rows[j], trades)
<1>1. CASE ~Commit(w)
  BY <1>1, CommittedSame
<1>2. CASE Commit(w)
  <2>1. trades' = trades \cup job[w].inserted
    BY <1>2 DEF Commit
  <2>2. SUFFICES ASSUME NEW j \in 1..Reached(o), ~Recorded(job[o].rows[j], trades)
                 PROVE  ~Recorded(job[o].rows[j], job[w].inserted)
    BY <2>1, RecordedUnion
  <2>3. job[o].rows[j] \in job[o].inserted
    BY <2>2 DEF InsertedNew, InsertedHere, NewRows
  <2>. QED BY <2>3 DEF InsertedNew
<1>. QED BY <1>1, <1>2

(* An insert changes what w has inserted by its row at most, which nobody  *)
(* else has.                                                               *)
LEMMA InsertedNext ==
  ASSUME Base, InsertedNew, LedgerNext
  PROVE  InsertedNew'
<1>1. PICK w \in Writers : StepOf(w)
  BY NextIs
<1>0. LedgerTypeOK /\ InProgress /\ pc \in [Writers -> Stages] /\ job \in [Writers -> Jobs]
  BY DEF Base, LedgerTypeOK, Stages
<1>2. ASSUME ~Commit(w) PROVE trades' = trades
  BY <1>1, <1>2, CommittedSame
<1>3. ASSUME Commit(w) PROVE trades' = trades \cup job[w].inserted
  BY <1>3 DEF Commit
<1>4. IsFiniteSet(trades')
  <2>1. IsFiniteSet(trades) /\ IsFiniteSet(job[w].inserted)
    BY <1>0, InsertedFinite DEF InsertedNew
  <2>2. IsFiniteSet(trades \cup job[w].inserted)
    BY <2>1, FS_Union
  <2>. QED BY <1>2, <1>3, <2>1, <2>2
<1>5. ASSUME NEW o \in Writers, o # w
      PROVE  job'[o] = job[o] /\ pc'[o] = pc[o] /\ InsertedHere(o)'
  <2>1. /\ job'[o] = job[o] /\ pc'[o] = pc[o]
        /\ Reached(o)' = Reached(o) /\ Row(o)' = Row(o)
    BY <1>0, <1>1, <1>5, JobStep DEF Reached, Row
  <2>2. InsertedHere(o)
    BY DEF InsertedNew
  <2>3. \A j \in 1..Reached(o) : Recorded(job[o].rows[j], trades')
                                   <=> Recorded(job[o].rows[j], trades)
    BY <1>1, <1>5, RecordedSame
  <2>4. NewRows(job[o].rows, Reached(o), trades') = NewRows(job[o].rows, Reached(o), trades)
    <3>1. PICK rows, n, after : rows = job[o].rows /\ n = Reached(o) /\ after = trades'
      OBVIOUS
    <3>2. NewRows(rows, n, after) = NewRows(rows, n, trades)
      BY <2>3, <3>1, NewRowsSame
    <3>. QED BY <3>1, <3>2
  <2>5. job'[o].inserted = NewRows(job'[o].rows, Reached(o)', trades')
    BY <2>1, <2>2, <2>4 DEF InsertedHere
  <2>6. pc'[o] \in {"select", "write"} => Row(o)' \in job'[o].inserted /\ Row(o)'.sol # None
    BY <2>1, <2>2 DEF InsertedHere
  <2>. QED BY <2>1, <2>5, <2>6 DEF InsertedHere, NewRows
<1>6. InsertedHere(w)'
  <2>1. InsertedHere(w)
    BY DEF InsertedNew
  <2>2. CASE job'[w].inserted = {} /\ Reached(w)' = 0 /\ pc'[w] \notin {"select", "write"}
    <3>1. NewRows(job'[w].rows, 0, trades') = {}
      BY NewRowsZero
    <3>. QED BY <2>2, <3>1 DEF InsertedHere, NewRows
  <2>3. CASE /\ job'[w].inserted = job[w].inserted /\ Reached(w)' = Reached(w)
             /\ job'[w].rows = job[w].rows /\ trades' = trades
             /\ \/ pc'[w] \notin {"select", "write"}
                \/ pc[w] \in {"select", "write"} /\ Row(w)' = Row(w)
    BY <2>1, <2>3 DEF InsertedHere, NewRows
  <2>4. CASE /\ InsertTrade(w) /\ job'[w].rows = job[w].rows /\ trades' = trades
             /\ Reached(w) = job[w].at - 1 /\ Reached(w)' = job[w].at
             /\ \/ /\ Recorded(Row(w), trades) /\ job'[w].inserted = job[w].inserted
                   /\ pc'[w] \notin {"select", "write"}
                \/ /\ ~Recorded(Row(w), trades) /\ Row(w) \notin job[w].inserted
                   /\ job'[w].inserted = job[w].inserted \cup {Row(w)}
                   /\ \/ Row(w).sol = None /\ pc'[w] \notin {"select", "write"}
                      \/ Row(w).sol # None /\ pc'[w] = "select" /\ Row(w)' = Row(w)
    <3>1. PICK n \in Nat : n + 1 = job[w].at /\ n = Reached(w)
      BY <1>0, <2>4, JobFields
    <3>2. NewRows(job[w].rows, n + 1, trades)
            = NewRows(job[w].rows, n, trades)
                \cup (IF Recorded(Row(w), trades) THEN {} ELSE {Row(w)})
      <4>1. PICK rows : rows = job[w].rows
        OBVIOUS
      <4>2. NewRows(rows, n + 1, trades)
              = NewRows(rows, n, trades)
                  \cup (IF Recorded(rows[n + 1], trades) THEN {} ELSE {rows[n + 1]})
        BY NewRowsMore
      <4>3. Row(w) = rows[n + 1]
        BY <3>1, <4>1 DEF Row
      <4>. QED BY <4>1, <4>2, <4>3
    <3>3. job[w].inserted = NewRows(job[w].rows, n, trades)
      BY <2>1, <3>1 DEF InsertedHere
    <3>4. job'[w].inserted = NewRows(job[w].rows, n + 1, trades)
      BY <2>4, <3>2, <3>3
    <3>5. job'[w].inserted = NewRows(job'[w].rows, Reached(w)', trades')
      BY <2>4, <3>1, <3>4
    <3>6. pc'[w] \in {"select", "write"} => Row(w)' \in job'[w].inserted /\ Row(w)'.sol # None
      BY <2>4
    <3>. QED BY <3>5, <3>6 DEF InsertedHere, NewRows
  <2>. QED BY <1>1, <2>2, <2>3, <2>4, InsertedStep
<1>7. ASSUME NEW o \in Writers, o # w
      PROVE  /\ \A r \in job'[w].inserted : ~Recorded(r, job'[o].inserted)
             /\ \A r \in job'[o].inserted : ~Recorded(r, job'[w].inserted)
  <2>1. \A r \in job'[w].inserted : ~Recorded(r, job[o].inserted)
    <3>1. ASSUME NEW r \in job[w].inserted PROVE ~Recorded(r, job[o].inserted)
      BY <1>7 DEF InsertedNew
    <3>2. CASE InsertTrade(w)
      <4>1. ~Recorded(Row(w), job[o].inserted)
        BY <1>7, <3>2 DEF InsertTrade
      <4>2. job'[w].inserted \subseteq job[w].inserted \cup {Row(w)}
        BY <1>1, InsertedStep
      <4>. QED BY <3>1, <4>1, <4>2
    <3>3. CASE ~InsertTrade(w)
      <4>1. job'[w].inserted \subseteq job[w].inserted
        BY <1>1, <3>3, InsertedStep
      <4>. QED BY <3>1, <4>1
    <3>. QED BY <3>2, <3>3
  <2>2. job'[o].inserted = job[o].inserted
    BY <1>5, <1>7
  <2>. QED BY <2>1, <2>2 DEF Recorded, SameTrade
<1>8. \A a, b \in Writers : a # b =>
        \A r \in job'[a].inserted : ~Recorded(r, job'[b].inserted)
  <2>1. ASSUME NEW a \in Writers, NEW b \in Writers, a # b, NEW r \in job'[a].inserted
        PROVE  ~Recorded(r, job'[b].inserted)
    <3>1. CASE a = w \/ b = w
      BY <1>7, <2>1, <3>1
    <3>2. CASE a # w /\ b # w
      BY <1>5, <2>1, <3>2 DEF InsertedNew
    <3>. QED BY <3>1, <3>2
  <2>. QED BY <2>1
<1>9. \A o \in Writers : InsertedHere(o)'
  BY <1>5, <1>6
<1>. QED BY <1>4, <1>8, <1>9 DEF InsertedNew, Recorded

-----------------------------------------------------------------------------
(* Tokens bought less tokens sold.                                         *)
LEMMA NetType ==
  ASSUME NEW rows \in SUBSET Rows, IsFiniteSet(rows)
  PROVE  Net(rows) \in Int
<1>. DEFINE f == [r \in rows |-> Signed(r)]
<1>1. \A r \in rows : f[r] \in Int
  BY SignedType
<1>2. Net(rows) = SumOver(f, rows)
  BY DEF Net, Signed
<1>. HIDE DEF f
<1>. QED BY <1>1, <1>2, SumType

(* Nothing moves no tokens.                                                *)
LEMMA NetEmpty == Net({}) = 0
BY SumEmpty DEF Net

(* Disjoint sets of rows move their tokens together.                       *)
LEMMA NetUnion ==
  ASSUME NEW a \in SUBSET Rows, IsFiniteSet(a), NEW b \in SUBSET Rows, IsFiniteSet(b),
         a \cap b = {}
  PROVE  Net(a \cup b) = Net(a) + Net(b)
<1>. DEFINE f == [r \in a \cup b |-> Signed(r)]
            g == [r \in a |-> Signed(r)]
            h == [r \in b |-> Signed(r)]
<1>1. Net(a \cup b) = SumOver(f, a \cup b) /\ Net(a) = SumOver(g, a) /\ Net(b) = SumOver(h, b)
  BY DEF Net, Signed
<1>2. \A r \in a \cup b : f[r] \in Int
  BY SignedType
<1>3. (\A r \in a : f[r] = g[r]) /\ (\A r \in b : f[r] = h[r])
  OBVIOUS
<1>. HIDE DEF f, g, h
<1>4. SumOver(f, a) = SumOver(g, a) /\ SumOver(f, b) = SumOver(h, b)
  BY <1>3, SumSame
<1>5. SumOver(f, a \cup b) = SumOver(f, a) + SumOver(f, b)
  BY <1>2, SumUnion
<1>. QED BY <1>1, <1>4, <1>5

(* One row moves its tokens.                                               *)
LEMMA NetSingle == \A row \in Rows : Net({row}) = Signed(row)
<1>. SUFFICES ASSUME NEW row \in Rows PROVE Net({row}) = Signed(row)
  OBVIOUS
<1>. DEFINE f == [r \in {row} |-> Signed(r)]
<1>1. Net({row}) = SumOver(f, {row}) /\ f[row] = Signed(row) /\ f[row] \in Int
  BY SignedType DEF Net, Signed
<1>2. SumOver(f, {row}) = f[row]
  <2>. HIDE DEF f
  <2>. QED BY <1>1, SumSingle
<1>. QED BY <1>1, <1>2

(* The valued rows of two sets.                                            *)
LEMMA ValuedUnion ==
  \A a, b, pair : Valued(a \cup b, pair) = Valued(a, pair) \cup Valued(b, pair)
BY DEF Valued

(* The valued rows of a finite set.                                        *)
LEMMA ValuedFinite ==
  ASSUME NEW rows \in SUBSET Rows, IsFiniteSet(rows), NEW pair
  PROVE  Valued(rows, pair) \in SUBSET Rows /\ IsFiniteSet(Valued(rows, pair))
<1>1. Valued(rows, pair) \subseteq rows
  BY DEF Valued
<1>. QED BY <1>1, FS_Subset

(* What a session has folded.                                              *)
FoldedBy(w) == job[w].inserted \ Pending(w)

(* A session has folded finitely many rows.                                *)
LEMMA FoldedFinite ==
  ASSUME Base, InsertedNew, NEW w \in Writers
  PROVE  FoldedBy(w) \in SUBSET Rows /\ IsFiniteSet(FoldedBy(w))
<1>1. job[w].inserted \in SUBSET Rows /\ IsFiniteSet(job[w].inserted)
  BY JobFields, InsertedFinite DEF Base
<1>2. FoldedBy(w) \subseteq job[w].inserted
  BY DEF FoldedBy
<1>. QED BY <1>1, <1>2, FS_Subset

(* A statement begins or ends a session, folds nothing, or folds the row   *)
(* at hand.                                                                *)
LEMMA FoldedStep ==
  ASSUME Base, InsertedNew, NEW w \in Writers, StepOf(w)
  PROVE  \/ FoldedBy(w)' = {} /\ \A pair \in Pairs : job'[w].episodes[pair] = <<>>
         \/ /\ positions' = positions /\ job'[w].episodes = job[w].episodes
            /\ \A pair \in Pairs : Valued(FoldedBy(w), pair)' = Valued(FoldedBy(w), pair)
         \/ /\ WritePosition(w) /\ positions' = positions
            /\ Row(w) \in Rows /\ Row(w).sol # None /\ Row(w) \notin FoldedBy(w)
            /\ FoldedBy(w)' = FoldedBy(w) \cup {Row(w)}
            /\ job'[w].episodes = [job[w].episodes EXCEPT
                                      ![Row(w).pair] = UpdatePosition(job[w].held, Row(w))]
<1>0. LedgerTypeOK /\ InProgress /\ pc \in [Writers -> Stages] /\ job \in [Writers -> Jobs]
      /\ InsertedHere(w)
  BY DEF Base, LedgerTypeOK, Stages, InsertedNew
<1>1. ASSUME NEW t \in Txs, NEW rows \in Outcomes[t], Deliver(w, t, rows)
      PROVE  FoldedBy(w)' = {} /\ \A pair \in Pairs : job'[w].episodes[pair] = <<>>
  <2>1. job'[w] = NewJob(t, rows, PoolOf(t))
    BY <1>0, <1>1 DEF Deliver
  <2>. QED BY <2>1, NewFields DEF FoldedBy
<1>2. CASE Commit(w) \/ Abort(w)
  <2>1. job'[w] = NoJob
    BY <1>0, <1>2 DEF Commit, Abort
  <2>. QED BY <2>1, NewFields DEF NoJob, FoldedBy
<1>3. CASE UpsertWallet(w) \/ Refer(w)
  <2>1. /\ job' = job /\ positions' = positions /\ pc[w] \in {"wallet", "token", "pool", "addPool"}
        /\ pc'[w] \in {"commit", "token", "pool", "addPool", "insert"}
    BY <1>0, <1>3, ReferDoes DEF UpsertWallet, ToRow, Goto
  <2>2. FoldedBy(w)' = FoldedBy(w)
    BY <2>1 DEF FoldedBy, Pending
  <2>. QED BY <2>1, <2>2 DEF Valued
<1>4. CASE InsertTrade(w)
  <2>1. pc[w] = "insert" /\ positions' = positions /\ Row(w) \in Rows
    BY <1>0, <1>4, RowHere DEF InsertTrade
  <2>2. \E at, inserted, held : Becomes(w, at, inserted, held, job[w].episodes)
    BY <1>0, <1>4, <2>1, InsertDoes
  <2>3. job'[w].episodes = job[w].episodes
    BY <2>2 DEF Becomes
  <2>4. FoldedBy(w) = job[w].inserted
    BY <2>1 DEF FoldedBy, Pending
  <2>5. \/ job'[w].inserted = job[w].inserted /\ pc'[w] \notin {"select", "write"}
        \/ /\ job'[w].inserted = job[w].inserted \cup {Row(w)} /\ Row(w).sol = None
           /\ pc'[w] \notin {"select", "write"}
        \/ /\ job'[w].inserted = job[w].inserted \cup {Row(w)} /\ Row(w) \notin job[w].inserted
           /\ pc'[w] = "select" /\ Row(w)' = Row(w)
    <3>1. \/ /\ Recorded(Row(w), trades \cup job[w].inserted)
             /\ job'[w].inserted = job[w].inserted /\ pc'[w] \in {"commit", "token"}
          \/ /\ job'[w].inserted = job[w].inserted \cup {Row(w)} /\ Row(w).sol = None
             /\ pc'[w] \in {"commit", "token"}
          \/ /\ ~Recorded(Row(w), trades \cup job[w].inserted)
             /\ job'[w].inserted = job[w].inserted \cup {Row(w)}
             /\ job'[w].at = job[w].at /\ job'[w].rows = job[w].rows /\ pc'[w] = "select"
      <4>1. After(w) \in {"commit", "token"}
        BY DEF After
      <4>. QED BY <1>0, <1>4, <2>1, <4>1, InsertDoes DEF Becomes
    <3>. QED BY <3>1 DEF Recorded, SameTrade, Row
  <2>6. \A pair \in Pairs : Valued(FoldedBy(w)', pair) = Valued(FoldedBy(w), pair)
    <3>1. \/ FoldedBy(w)' = FoldedBy(w)
          \/ FoldedBy(w)' = FoldedBy(w) \cup {Row(w)} /\ Row(w).sol = None
      BY <2>4, <2>5 DEF FoldedBy, Pending
    <3>. QED BY <3>1 DEF Valued
  <2>. QED BY <2>1, <2>3, <2>6 DEF Valued
<1>5. CASE SelectPosition(w)
  <2>1. pc[w] = "select" /\ pc'[w] = "write" /\ positions' = positions
    BY <1>0, <1>5 DEF SelectPosition, Goto
  <2>2. \E held : Becomes(w, job[w].at, job[w].inserted, held, job[w].episodes)
    BY <1>0, <1>5, <2>1, RowHere, SelectDoes
  <2>3. /\ job'[w].at = job[w].at /\ job'[w].rows = job[w].rows
        /\ job'[w].inserted = job[w].inserted /\ job'[w].episodes = job[w].episodes
    BY <2>2 DEF Becomes
  <2>4. FoldedBy(w)' = FoldedBy(w)
    BY <2>1, <2>3 DEF FoldedBy, Pending, Row
  <2>. QED BY <2>1, <2>3, <2>4 DEF Valued
<1>6. CASE WritePosition(w)
  <2>1. pc[w] = "write" /\ positions' = positions /\ Row(w) \in Rows /\ Row(w).pair \in Pairs
    BY <1>0, <1>6, RowHere DEF WritePosition
  <2>2. Row(w) \in job[w].inserted /\ Row(w).sol # None
    BY <1>0, <2>1 DEF InsertedHere
  <2>3. PICK eps : eps = UpdatePosition(job[w].held, Row(w))
    OBVIOUS
  <2>4. /\ Becomes(w, job[w].at + 1, job[w].inserted, <<>>,
                   [job[w].episodes EXCEPT ![Row(w).pair] = eps])
        /\ pc'[w] \in {"commit", "token"}
    BY <1>0, <1>6, <2>1, <2>3, WriteDoes DEF After
  <2>5. /\ job'[w].inserted = job[w].inserted
        /\ job'[w].episodes = [job[w].episodes EXCEPT ![Row(w).pair] = eps]
    BY <2>4 DEF Becomes
  <2>6. FoldedBy(w) = job[w].inserted \ {Row(w)} /\ FoldedBy(w)' = job[w].inserted
    BY <2>1, <2>4, <2>5 DEF FoldedBy, Pending
  <2>. QED BY <1>6, <2>1, <2>2, <2>3, <2>5, <2>6
<1>. QED BY <1>1, <1>2, <1>3, <1>4, <1>5, <1>6 DEF StepOf

(* The positions a session sees hold what the committed ones do and what   *)
(* it has folded.                                                          *)
Balanced(w, pair) ==
    Holding(EpisodesSeen(w, pair)) = Holding(positions[pair]) + Net(Valued(FoldedBy(w), pair))

(* The balance, session by session and pair by pair.                       *)
LEMMA BalancedIs == WritesBalance <=> \A w \in Writers : \A pair \in Pairs : Balanced(w, pair)
BY DEF WritesBalance, Balanced, FoldedBy

(* A session that has not written a pair has folded none of its rows that  *)
(* counts.                                                                 *)
LEMMA NothingFolded ==
  ASSUME Base, InsertedNew, NEW w \in Writers, NEW pair \in Pairs, Balanced(w, pair),
         pair \notin Positioned(w)
  PROVE  Net(Valued(FoldedBy(w), pair)) = 0
<1>1. /\ FoldedBy(w) \in SUBSET Rows /\ IsFiniteSet(FoldedBy(w))
      /\ positions[pair] \in Seq(Positions)
  BY FoldedFinite DEF Base, LedgerTypeOK
<1>2. Holding(positions[pair]) \in Int /\ Net(Valued(FoldedBy(w), pair)) \in Int
  BY <1>1, HoldingType, ValuedFinite, NetType
<1>3. Holding(positions[pair]) = Holding(positions[pair]) + Net(Valued(FoldedBy(w), pair))
  BY DEF Balanced, EpisodesSeen
<1>. QED BY <1>2, <1>3

(* Every step keeps what a session wrote in balance with what it folded.   *)
LEMMA BalanceNext ==
  ASSUME Base, HeldCurrent, InsertedNew, WritesBalance, LedgerNext
  PROVE  WritesBalance'
<1>1. PICK w \in Writers : StepOf(w)
  BY NextIs
<1>0. LedgerTypeOK /\ InProgress /\ pc \in [Writers -> Stages] /\ job \in [Writers -> Jobs]
      /\ LedgerTypeOK'
  BY TypeNext DEF Base, LedgerTypeOK, Stages
<1>2. \A o \in Writers : \A pair \in Pairs : Balanced(o, pair)
  BY BalancedIs
<1>3. \A pair \in Pairs : positions'[pair] \in Seq(Positions) /\ Holding(positions'[pair]) \in Int
  BY <1>0, HoldingType DEF LedgerTypeOK
<1>4. ASSUME NEW o \in Writers, o # w, NEW pair \in Pairs
      PROVE  Balanced(o, pair)'
  <2>1. job'[o] = job[o] /\ pc'[o] = pc[o]
    BY <1>0, <1>1, <1>4, JobStep
  <2>2. FoldedBy(o)' = FoldedBy(o) /\ (pair \in Positioned(o)' <=> pair \in Positioned(o))
    BY <2>1 DEF FoldedBy, Pending, Row, Positioned
  <2>3. PICK n : n = Net(Valued(FoldedBy(o), pair))
    OBVIOUS
  <2>4. Net(Valued(FoldedBy(o)', pair)) = n
    BY <2>2, <2>3
  <2>5. CASE pair \in Positioned(o)
    <3>1. pc[o] \in PastWallet /\ Payer(o) # None /\ pair[1] = Payer(o)
      BY <2>5 DEF Base, WalletLocked, Locks
    <3>2. /\ positions'[pair] = positions[pair]
          /\ EpisodesSeen(o, pair)' = EpisodesSeen(o, pair)
      BY <1>1, <1>4, <3>1, SeenSame
    <3>3. Holding(EpisodesSeen(o, pair)) = Holding(positions[pair]) + n
      BY <1>2, <2>3 DEF Balanced
    <3>4. Holding(EpisodesSeen(o, pair)') = Holding(positions'[pair]) + n
      BY <3>2, <3>3
    <3>. QED BY <2>4, <3>4 DEF Balanced, Holding, Net, Valued
  <2>6. CASE pair \notin Positioned(o)
    <3>1. n = 0
      BY <1>2, <2>3, <2>6, NothingFolded
    <3>2. EpisodesSeen(o, pair)' = positions'[pair]
      BY <2>2, <2>6 DEF EpisodesSeen
    <3>3. Holding(EpisodesSeen(o, pair)') = Holding(positions'[pair]) + n
      BY <1>3, <3>1, <3>2
    <3>. QED BY <2>4, <3>3 DEF Balanced, Holding, Net, Valued
  <2>. QED BY <2>5, <2>6
<1>5. ASSUME NEW pair \in Pairs PROVE Balanced(w, pair)'
  <2>1. CASE FoldedBy(w)' = {} /\ \A p \in Pairs : job'[w].episodes[p] = <<>>
    <3>1. EpisodesSeen(w, pair)' = positions'[pair]
      BY <2>1 DEF EpisodesSeen, Positioned
    <3>2. Valued(FoldedBy(w)', pair) = {}
      BY <2>1 DEF Valued
    <3>3. Holding(EpisodesSeen(w, pair)')
            = Holding(positions'[pair]) + Net(Valued(FoldedBy(w)', pair))
      BY <1>3, <3>1, <3>2, NetEmpty
    <3>. QED BY <3>3 DEF Balanced, Holding, Net, Valued
  <2>2. CASE /\ positions' = positions /\ job'[w].episodes = job[w].episodes
             /\ \A p \in Pairs : Valued(FoldedBy(w), p)' = Valued(FoldedBy(w), p)
    <3>1. EpisodesSeen(w, pair)' = EpisodesSeen(w, pair) /\ positions'[pair] = positions[pair]
      BY <2>2 DEF EpisodesSeen, Positioned
    <3>2. Valued(FoldedBy(w)', pair) = Valued(FoldedBy(w), pair)
      BY <2>2 DEF Valued
    <3>3. Holding(EpisodesSeen(w, pair)')
            = Holding(positions'[pair]) + Net(Valued(FoldedBy(w)', pair))
      BY <1>2, <3>1, <3>2 DEF Balanced
    <3>. QED BY <3>3 DEF Balanced, Holding, Net, Valued
  <2>3. CASE /\ WritePosition(w) /\ positions' = positions
             /\ Row(w) \in Rows /\ Row(w).sol # None /\ Row(w) \notin FoldedBy(w)
             /\ FoldedBy(w)' = FoldedBy(w) \cup {Row(w)}
             /\ job'[w].episodes = [job[w].episodes EXCEPT
                                       ![Row(w).pair] = UpdatePosition(job[w].held, Row(w))]
    <3>0. PICK row, before, after : /\ row = Row(w) /\ before = EpisodesSeen(w, pair)
                                    /\ after = UpdatePosition(job[w].held, Row(w))
      OBVIOUS
    <3>1. /\ job[w].episodes \in [Pairs -> Seq(Positions)] /\ row.pair \in Pairs
          /\ row \in Rows /\ row.sol # None /\ before \in Seq(Positions)
      BY <1>0, <2>3, <3>0, JobFields, SeenType DEF Rows
    <3>2. Holding(before) = Holding(positions[pair]) + Net(Valued(FoldedBy(w), pair))
      BY <1>2, <3>0 DEF Balanced
    <3>3. CASE pair # row.pair
      <4>1. job'[w].episodes[pair] = job[w].episodes[pair]
        BY <2>3, <3>0, <3>1, <3>3
      <4>2. EpisodesSeen(w, pair)' = before
        BY <2>3, <3>0, <4>1 DEF EpisodesSeen, Positioned
      <4>3. Valued(FoldedBy(w)', pair) = Valued(FoldedBy(w), pair)
        BY <2>3, <3>0, <3>3 DEF Valued
      <4>4. Holding(EpisodesSeen(w, pair)')
              = Holding(positions'[pair]) + Net(Valued(FoldedBy(w)', pair))
        BY <2>3, <3>2, <4>2, <4>3
      <4>. QED BY <4>4 DEF Balanced, Holding, Net, Valued
    <3>4. CASE pair = row.pair
      <4>1. job[w].held = before
        BY <2>3, <3>0, <3>4 DEF HeldCurrent, Current, WritePosition
      <4>2. after # <<>> /\ Holding(after) = Holding(before) + Signed(row)
        BY <3>0, <3>1, <4>1, UpdateType
      <4>3. job'[w].episodes[pair] = after
        BY <2>3, <3>0, <3>1, <3>4
      <4>4. EpisodesSeen(w, pair)' = after
        BY <4>2, <4>3 DEF EpisodesSeen, Positioned
      <4>5. PICK old : old = Valued(FoldedBy(w), pair)
        OBVIOUS
      <4>6. old \in SUBSET Rows /\ IsFiniteSet(old) /\ row \notin old
        <5>1. FoldedBy(w) \in SUBSET Rows /\ IsFiniteSet(FoldedBy(w))
          BY FoldedFinite
        <5>2. old \in SUBSET Rows /\ IsFiniteSet(old)
          BY <4>5, <5>1, ValuedFinite
        <5>. QED BY <2>3, <3>0, <4>5, <5>2 DEF Valued
      <4>7. Valued(FoldedBy(w)', pair) = old \cup {row}
        BY <2>3, <3>0, <3>1, <3>4, <4>5 DEF Valued
      <4>8. Net(old \cup {row}) = Net(old) + Signed(row)
        <5>1. {row} \in SUBSET Rows /\ IsFiniteSet({row}) /\ old \cap {row} = {}
          BY <3>1, <4>6, FS_Singleton
        <5>2. Net(old \cup {row}) = Net(old) + Net({row})
          BY <4>6, <5>1, NetUnion
        <5>. QED BY <3>1, <5>2, NetSingle
      <4>9. /\ Holding(positions[pair]) \in Int /\ Net(old) \in Int /\ Signed(row) \in Int
        BY <1>0, <3>1, <4>6, HoldingType, NetType, SignedType DEF LedgerTypeOK
      <4>10. Holding(EpisodesSeen(w, pair)')
               = Holding(positions'[pair]) + Net(Valued(FoldedBy(w)', pair))
        <5>1. Holding(after) = Holding(positions[pair]) + Net(old \cup {row})
          BY <3>2, <4>2, <4>5, <4>8, <4>9
        <5>. QED BY <2>3, <4>4, <4>7, <5>1
      <4>. QED BY <4>10 DEF Balanced, Holding, Net, Valued
    <3>. QED BY <3>3, <3>4
  <2>. QED BY <1>1, <2>1, <2>2, <2>3, FoldedStep
<1>6. \A o \in Writers : \A pair \in Pairs : Balanced(o, pair)'
  BY <1>4, <1>5
<1>. QED BY <1>6 DEF WritesBalance, Balanced, FoldedBy

(* Every step, a commit in particular, conserves the tokens.               *)
LEMMA ConservedNext ==
  ASSUME Base, InsertedNew, WritesBalance, TokensConserved, LedgerNext
  PROVE  TokensConserved'
<1>1. PICK w \in Writers : StepOf(w)
  BY NextIs
<1>2. LedgerTypeOK
  BY DEF Base
<1>3. \A pair \in Pairs : Holding(positions[pair]) = Net(Valued(trades, pair))
  BY DEF TokensConserved, Valued
<1>4. ASSUME NEW pair \in Pairs
      PROVE  Holding(positions'[pair]) = Net(Valued(trades', pair))
  <2>1. CASE ~Commit(w)
    BY <1>1, <1>3, <2>1, CommittedSame
  <2>2. CASE Commit(w)
    <3>1. /\ positions'[pair] = EpisodesSeen(w, pair) /\ trades' = trades \cup job[w].inserted
          /\ FoldedBy(w) = job[w].inserted
      BY <2>2 DEF Commit, FoldedBy, Pending
    <3>2. PICK a, b : a = Valued(trades, pair) /\ b = Valued(job[w].inserted, pair)
      OBVIOUS
    <3>3. a \in SUBSET Rows /\ IsFiniteSet(a) /\ b \in SUBSET Rows /\ IsFiniteSet(b)
      BY <1>2, <3>1, <3>2, FoldedFinite, ValuedFinite DEF InsertedNew, LedgerTypeOK
    <3>4. a \cap b = {}
      BY <3>2, InsertedApart DEF Valued
    <3>5. Net(a \cup b) = Net(a) + Net(b)
      BY <3>3, <3>4, NetUnion
    <3>6. Holding(EpisodesSeen(w, pair)) = Holding(positions[pair]) + Net(b)
      BY <3>1, <3>2 DEF WritesBalance, FoldedBy
    <3>7. Valued(trades', pair) = a \cup b
      BY <3>1, <3>2, ValuedUnion
    <3>. QED BY <1>3, <3>1, <3>2, <3>5, <3>6, <3>7
  <2>. QED BY <2>1, <2>2
<1>. QED BY <1>4 DEF TokensConserved, Valued, Holding, Net

(* Nothing is inserted at the start.                                       *)
LEMMA InsertedStarts == LedgerInit => InsertedNew
<1>. SUFFICES ASSUME LedgerInit PROVE InsertedNew
  OBVIOUS
<1>1. trades = {} /\ \A w \in Writers : job[w].inserted = {} /\ pc[w] = "idle" /\ job[w].at = 1
  BY NewFields DEF LedgerInit, Init, NoJob
<1>2. \A w \in Writers : NewRows(job[w].rows, 0, trades) = {} /\ Reached(w) = 0
  BY <1>1, NewRowsZero DEF Reached
<1>. QED BY <1>1, <1>2, FS_EmptySet DEF InsertedNew, InsertedHere

(* A stutter changes nothing of this.                                      *)
LEMMA InvariantsStutter ==
  HeldCurrent /\ InsertedNew /\ UNCHANGED ledgerVars => (HeldCurrent /\ InsertedNew)'
<1>. SUFFICES ASSUME HeldCurrent, InsertedNew, UNCHANGED ledgerVars
              PROVE  (HeldCurrent /\ InsertedNew)'
  OBVIOUS
<1>1. HeldCurrent'
  BY DEF ledgerVars, sessionVars, HeldCurrent, Current, EpisodesSeen, Positioned, Row
<1>2. InsertedNew'
  BY DEF ledgerVars, sessionVars, InsertedNew, InsertedHere, NewRows, Reached, Row, Recorded
<1>. QED BY <1>1, <1>2

(* Nothing is lost, or folded twice: the positions of a wallet and token   *)
(* hold what its recorded trades of a known value come to, whatever the    *)
(* order, the replays and the rollbacks (writer.py: "All writes are safe   *)
(* to replay").                                                            *)
THEOREM TokensConservedHolds == LedgerSpec => []TokensConserved
<1>1. LedgerInit => HeldCurrent /\ InsertedNew /\ WritesBalance /\ TokensConserved
  <2>1. SUFFICES ASSUME LedgerInit PROVE InsertedNew /\ WritesBalance /\ TokensConserved
    BY LedgerStarts
  <2>2. /\ trades = {} /\ \A pair \in Pairs : positions[pair] = <<>>
    BY <2>1 DEF LedgerInit, Init
  <2>3. \A w \in Writers : /\ job[w].inserted = {} /\ pc[w] = "idle" /\ job[w].at = 1
                           /\ \A pair \in Pairs : EpisodesSeen(w, pair) = <<>>
    BY <2>1, <2>2, NewFields DEF LedgerInit, NoJob, EpisodesSeen, Positioned
  <2>4. Holding(<<>>) = 0
    <3>1. DOMAIN <<>> = {}
      BY EmptySeq, LenProperties
    <3>. QED BY <3>1, SumEmpty DEF Holding
  <2>5. \A pair \in Pairs : Valued({}, pair) = {}
    BY DEF Valued
  <2>6. InsertedNew
    BY <2>1, InsertedStarts
  <2>7. WritesBalance
    <3>1. \A w \in Writers : FoldedBy(w) = {}
      BY <2>3 DEF FoldedBy
    <3>2. ASSUME NEW w \in Writers, NEW pair \in Pairs PROVE Balanced(w, pair)
      <4>1. EpisodesSeen(w, pair) = <<>> /\ positions[pair] = <<>>
            /\ Valued(FoldedBy(w), pair) = {}
        BY <2>2, <2>3, <2>5, <3>1
      <4>. QED BY <2>4, <4>1, NetEmpty DEF Balanced
    <3>. QED BY <3>2, BalancedIs
  <2>8. TokensConserved
    <3>1. \A pair \in Pairs : Holding(positions[pair]) = Net(Valued(trades, pair))
      BY <2>2, <2>4, <2>5, NetEmpty
    <3>. QED BY <3>1 DEF TokensConserved, Valued
  <2>. QED BY <2>6, <2>7, <2>8
<1>2. Base /\ HeldCurrent /\ InsertedNew /\ WritesBalance /\ TokensConserved
        /\ [LedgerNext]_ledgerVars
        => (HeldCurrent /\ InsertedNew /\ WritesBalance /\ TokensConserved)'
  <2>1. ASSUME HeldCurrent, InsertedNew, WritesBalance, TokensConserved, UNCHANGED ledgerVars
        PROVE  (HeldCurrent /\ InsertedNew /\ WritesBalance /\ TokensConserved)'
    <3>1. (HeldCurrent /\ InsertedNew)'
      BY <2>1, InvariantsStutter
    <3>2. WritesBalance' /\ TokensConserved'
      BY <2>1 DEF ledgerVars, sessionVars, WritesBalance, TokensConserved, EpisodesSeen,
                  Positioned, Pending, Row, Holding, Net, Valued
    <3>. QED BY <3>1, <3>2
  <2>. QED BY <2>1, CurrentNext, InsertedNext, BalanceNext, ConservedNext
<1>3. LedgerSpec => []Base
  BY TypeCorrect DEF Base
<1>. QED BY <1>1, <1>2, <1>3, PTL DEF LedgerSpec

-----------------------------------------------------------------------------
(* The sessions add up to transactions recorded one after the other.       *)
LEMMA ReplayStart ==
  ASSUME NEW old, NEW pair, NEW rows, NEW recorded
  PROVE  Replays(old, old, pair, rows, 0, recorded)
<1>1. IsReplay([i \in {0} |-> old], old, pair, rows, 0, recorded)
  BY DEF IsReplay
<1>. QED BY <1>1 DEF Replays

(* A replay goes on by the next row.                                       *)
LEMMA ReplayOn ==
  ASSUME NEW eps, NEW old, NEW pair, NEW rows, NEW n \in Nat, NEW recorded,
         Replays(eps, old, pair, rows, n, recorded)
  PROVE  Replays(IF rows[n + 1].pair = pair /\ ~Recorded(rows[n + 1], recorded)
                   THEN UpdatePosition(eps, rows[n + 1]) ELSE eps,
                 old, pair, rows, n + 1, recorded)
<1>1. PICK h : IsReplay(h, old, pair, rows, n, recorded) /\ h[n] = eps
  BY DEF Replays
<1>2. PICK new : new = IF rows[n + 1].pair = pair /\ ~Recorded(rows[n + 1], recorded)
                         THEN UpdatePosition(eps, rows[n + 1]) ELSE eps
  OBVIOUS
<1>. DEFINE g == [i \in 0..n + 1 |-> IF i = n + 1 THEN new ELSE h[i]]
<1>3. g[0] = old /\ g[n + 1] = new
  BY <1>1 DEF IsReplay
<1>4. ASSUME NEW i \in 1..n + 1
      PROVE  g[i] = IF rows[i].pair = pair /\ ~Recorded(rows[i], recorded)
                      THEN UpdatePosition(g[i - 1], rows[i]) ELSE g[i - 1]
  <2>1. g[i - 1] = h[i - 1]
    OBVIOUS
  <2>2. CASE i = n + 1
    <3>1. g[i - 1] = eps /\ g[i] = new
      BY <1>1, <2>1, <2>2
    <3>. HIDE DEF g
    <3>. QED BY <1>2, <2>2, <3>1
  <2>3. CASE i # n + 1
    <3>1. g[i] = h[i] /\ i \in 1..n
      BY <2>3
    <3>. HIDE DEF g
    <3>. QED BY <1>1, <2>1, <3>1 DEF IsReplay
  <2>. QED BY <2>2, <2>3
<1>5. IsReplay(g, old, pair, rows, n + 1, recorded)
  <2>. HIDE DEF g
  <2>. QED BY <1>3, <1>4 DEF IsReplay
<1>6. Replays(new, old, pair, rows, n + 1, recorded)
  <2>. HIDE DEF g
  <2>. QED BY <1>3, <1>5 DEF Replays
<1>. QED BY <1>2, <1>6

(* A replay depends on what is recorded of its rows only.                  *)
LEMMA ReplaySame ==
  ASSUME NEW eps, NEW old, NEW pair, NEW rows, NEW n, NEW a, NEW b,
         \A j \in 1..n : Recorded(rows[j], a) <=> Recorded(rows[j], b),
         Replays(eps, old, pair, rows, n, a)
  PROVE  Replays(eps, old, pair, rows, n, b)
<1>1. PICK h : IsReplay(h, old, pair, rows, n, a) /\ h[n] = eps
  BY DEF Replays
<1>2. IsReplay(h, old, pair, rows, n, b)
  BY <1>1 DEF IsReplay
<1>. QED BY <1>1, <1>2 DEF Replays

(* A replay has but one outcome.                                           *)
LEMMA ReplayIs ==
  ASSUME NEW n \in Nat, NEW h, NEW old, NEW pair, NEW rows, NEW recorded,
         IsReplay(h, old, pair, rows, n, recorded),
         NEW f, f[0] = old,
         \A i \in 1..n :
            f[i] = IF rows[i].pair = pair /\ ~Recorded(rows[i], recorded)
                     THEN UpdatePosition(f[i - 1], rows[i]) ELSE f[i - 1]
  PROVE  f[n] = h[n]
<1>. DEFINE Bad == {i \in 0..n : f[i] # h[i]}
<1>1. SUFFICES ASSUME Bad # {} PROVE FALSE
  OBVIOUS
<1>2. PICK i \in Bad : \A j \in Bad : i <= j
  <2>1. IsFiniteSet(0..n)
    <3>1. 0 \in Int /\ n \in Int
      OBVIOUS
    <3>. QED BY <3>1, FS_Interval
  <2>2. Bad \subseteq 0..n /\ Bad \subseteq Int
    OBVIOUS
  <2>. HIDE DEF Bad
  <2>3. IsFiniteSet(Bad)
    BY <2>1, <2>2, FS_Subset
  <2>. QED BY <1>1, <2>2, <2>3, MinIn
<1>3. i \in 1..n
  BY <1>2 DEF IsReplay
<1>4. i - 1 \in 0..n /\ i - 1 \notin Bad
  BY <1>2, <1>3
<1>5. f[i - 1] = h[i - 1]
  BY <1>4
<1>6. f[i] = h[i]
  BY <1>3, <1>5 DEF IsReplay
<1>. QED BY <1>2, <1>6

(* A replay of rows that are all recorded changes nothing.                 *)
LEMMA ReplayNothing ==
  ASSUME NEW n \in Nat, NEW eps, NEW old, NEW pair, NEW rows, NEW recorded,
         \A i \in 1..n : Recorded(rows[i], recorded),
         Replays(eps, old, pair, rows, n, recorded)
  PROVE  eps = old
<1>1. PICK h : IsReplay(h, old, pair, rows, n, recorded) /\ h[n] = eps
  BY DEF Replays
<1>. DEFINE f == [i \in 0..n |-> old]
<1>2. \A i \in 1..n : f[i] = f[i - 1]
  OBVIOUS
<1>3. f[0] = old /\ f[n] = old
  OBVIOUS
<1>4. f[n] = h[n]
  <2>. HIDE DEF f
  <2>. QED BY <1>1, <1>2, <1>3, ReplayIs
<1>. QED BY <1>1, <1>3, <1>4

(* What a statement does to the rows its session has got to.               *)
LEMMA PlaceStep ==
  ASSUME Base, InsertedNew, NEW w \in Writers, StepOf(w),
         pc'[w] \in PastWallet, Payer(w)' # None
  PROVE  /\ Payer(w)' = Payer(w) /\ job'[w].rows = job[w].rows
         /\ positions' = positions /\ trades' = trades
         /\ \/ pc[w] = "wallet" /\ job[w].at = 1 /\ job' = job
            \/ /\ pc[w] \in PastWallet /\ job'[w].at = job[w].at
               /\ job'[w].episodes = job[w].episodes
            \/ /\ pc[w] \in PastWallet /\ job'[w].at = job[w].at + 1
               /\ Recorded(Row(w), trades) \/ Row(w).sol = None
               /\ Row(w) \in Rows
               /\ job'[w].episodes = job[w].episodes
            \/ /\ pc[w] = "write" /\ job'[w].at = job[w].at + 1
               /\ ~Recorded(Row(w), trades) /\ Row(w).sol # None
               /\ Row(w) \in Rows /\ Row(w).pair \in Pairs
               /\ job'[w].episodes = [job[w].episodes EXCEPT
                                         ![Row(w).pair] = UpdatePosition(job[w].held, Row(w))]
<1>0. LedgerTypeOK /\ InProgress /\ pc \in [Writers -> Stages] /\ job \in [Writers -> Jobs]
      /\ InsertedHere(w) /\ Place(w)
  BY DEF Base, LedgerTypeOK, Stages, InsertedNew, InProgress
<1>1. ASSUME NEW t \in Txs, NEW rows \in Outcomes[t], Deliver(w, t, rows)
      PROVE  FALSE
  <2>1. /\ job'[w] = NewJob(t, rows, PoolOf(t))
        /\ pc'[w] = IF t.tx.payer = None THEN "commit" ELSE "wallet"
    BY <1>0, <1>1 DEF Deliver, Goto
  <2>. QED BY <2>1, NewFields DEF PastWallet, Payer
<1>2. CASE Commit(w) \/ Abort(w)
  <2>1. pc'[w] = "idle"
    BY <1>0, <1>2 DEF Commit, Abort, Goto
  <2>. QED BY <2>1 DEF PastWallet
<1>3. CASE UpsertWallet(w)
  <2>1. job' = job /\ positions' = positions /\ trades' = trades /\ pc[w] = "wallet"
    BY <1>3 DEF UpsertWallet
  <2>. QED BY <1>0, <2>1 DEF Place, Payer
<1>4. CASE Refer(w)
  <2>1. /\ job' = job /\ positions' = positions /\ trades' = trades
        /\ pc[w] \in {"token", "pool", "addPool"}
    BY <1>4, ReferDoes
  <2>. QED BY <2>1 DEF Payer, PastWallet
<1>5. CASE InsertTrade(w)
  <2>1. pc[w] = "insert" /\ positions' = positions /\ trades' = trades /\ Row(w) \in Rows
    BY <1>0, <1>5, RowHere DEF InsertTrade
  <2>2. \/ \E inserted : Becomes(w, job[w].at, inserted, job[w].held, job[w].episodes)
        \/ /\ \E inserted : Becomes(w, job[w].at + 1, inserted, job[w].held, job[w].episodes)
           /\ Recorded(Row(w), trades \cup job[w].inserted) \/ Row(w).sol = None
    BY <1>0, <1>5, <2>1, InsertDoes
  <2>3. Recorded(Row(w), trades \cup job[w].inserted) => Recorded(Row(w), trades)
    BY <2>1, RowNotYet, RecordedUnion
  <2>4. job'[w].t = job[w].t /\ job'[w].rows = job[w].rows /\ job'[w].episodes = job[w].episodes
    BY <2>2 DEF Becomes
  <2>5. \/ job'[w].at = job[w].at
        \/ /\ job'[w].at = job[w].at + 1
           /\ Recorded(Row(w), trades) \/ Row(w).sol = None
    BY <2>2, <2>3 DEF Becomes
  <2>. QED BY <2>1, <2>4, <2>5 DEF Payer, PastWallet
<1>6. CASE SelectPosition(w)
  <2>1. pc[w] = "select" /\ positions' = positions /\ trades' = trades
    BY <1>6 DEF SelectPosition
  <2>2. \E held : Becomes(w, job[w].at, job[w].inserted, held, job[w].episodes)
    BY <1>0, <1>6, <2>1, RowHere, SelectDoes
  <2>. QED BY <2>1, <2>2 DEF Becomes, Payer, PastWallet
<1>7. CASE WritePosition(w)
  <2>1. /\ pc[w] = "write" /\ positions' = positions /\ trades' = trades
        /\ Row(w) \in Rows /\ Row(w).pair \in Pairs
    BY <1>0, <1>7, RowHere DEF WritePosition
  <2>2. Row(w) \in job[w].inserted /\ Row(w).sol # None
    BY <1>0, <2>1 DEF InsertedHere
  <2>3. ~Recorded(Row(w), trades)
    BY <2>2, InsertedApart
  <2>4. PICK eps : eps = UpdatePosition(job[w].held, Row(w))
    OBVIOUS
  <2>5. Becomes(w, job[w].at + 1, job[w].inserted, <<>>,
                [job[w].episodes EXCEPT ![Row(w).pair] = eps])
    BY <1>0, <1>7, <2>1, <2>4, WriteDoes
  <2>6. /\ job'[w].t = job[w].t /\ job'[w].rows = job[w].rows /\ job'[w].at = job[w].at + 1
        /\ job'[w].episodes = [job[w].episodes EXCEPT ![Row(w).pair] = eps]
    BY <2>5 DEF Becomes
  <2>. QED BY <2>1, <2>2, <2>3, <2>4, <2>6 DEF Payer
<1>. QED BY <1>1, <1>2, <1>3, <1>4, <1>5, <1>6, <1>7 DEF StepOf

(* Every step keeps a session's writes a replay of its rows.               *)
LEMMA ReplayedNext ==
  ASSUME Base, HeldCurrent, InsertedNew, WritesReplay, LedgerNext
  PROVE  WritesReplay'
<1>1. PICK w \in Writers : StepOf(w)
  BY NextIs
<1>0. LedgerTypeOK /\ InProgress /\ pc \in [Writers -> Stages] /\ job \in [Writers -> Jobs]
  BY DEF Base, LedgerTypeOK, Stages
<1>2. ASSUME NEW o \in Writers, o # w, pc'[o] \in PastWallet, Payer(o)' # None,
             NEW pair \in Pairs, pair[1] = Payer(o)'
      PROVE  Replays(EpisodesSeen(o, pair)', positions'[pair], pair,
                     job'[o].rows, job'[o].at - 1, trades')
  <2>1. job'[o] = job[o] /\ pc'[o] = pc[o] /\ Payer(o)' = Payer(o)
    BY <1>0, <1>1, <1>2, JobStep DEF Payer
  <2>2. /\ positions'[pair] = positions[pair]
        /\ EpisodesSeen(o, pair)' = EpisodesSeen(o, pair)
    BY <1>1, <1>2, <2>1, SeenSame
  <2>3. PICK n, eps, old, rows : /\ n = job[o].at - 1 /\ eps = EpisodesSeen(o, pair)
                                 /\ old = positions[pair] /\ rows = job[o].rows
    OBVIOUS
  <2>4. Replays(eps, old, pair, rows, n, trades)
    BY <1>2, <2>1, <2>3 DEF WritesReplay, Replayed
  <2>5. \A j \in 1..n : Recorded(rows[j], trades) <=> Recorded(rows[j], trades')
    <3>1. job[o].at \in Nat /\ Reached(o) \in {n, n + 1} /\ n \in Int
      BY <1>0, <2>3, JobFields DEF Reached
    <3>2. \A j \in 1..n : j \in 1..Reached(o)
      BY <3>1
    <3>. QED BY <1>1, <1>2, <2>3, <3>2, RecordedSame
  <2>6. Replays(eps, old, pair, rows, n, trades')
    <3>1. PICK after : after = trades'
      OBVIOUS
    <3>2. Replays(eps, old, pair, rows, n, after)
      BY <2>4, <2>5, <3>1, ReplaySame
    <3>. QED BY <3>1, <3>2
  <2>. QED BY <2>1, <2>2, <2>3, <2>6
<1>3. ASSUME pc'[w] \in PastWallet, Payer(w)' # None, NEW pair \in Pairs, pair[1] = Payer(w)'
      PROVE  Replays(EpisodesSeen(w, pair)', positions'[pair], pair,
                     job'[w].rows, job'[w].at - 1, trades')
  <2>1. /\ Payer(w)' = Payer(w) /\ job'[w].rows = job[w].rows
        /\ positions' = positions /\ trades' = trades
    BY <1>1, <1>3, PlaceStep
  <2>2. PICK eps, old, rows : /\ eps = EpisodesSeen(w, pair)
                              /\ old = positions[pair] /\ rows = job[w].rows
    OBVIOUS
  <2>3. PICK n \in Nat : n + 1 = job[w].at
    <3>1. job[w].at \in Nat \ {0}
      BY <1>0, JobFields
    <3>2. job[w].at - 1 \in Nat /\ (job[w].at - 1) + 1 = job[w].at
      BY <3>1
    <3>. QED BY <3>2
  <2>4. pc[w] \in PastWallet => Replays(eps, old, pair, rows, n, trades)
    BY <1>3, <2>1, <2>2, <2>3 DEF WritesReplay, Replayed
  <2>5. Row(w) = rows[n + 1]
    BY <2>2, <2>3 DEF Row
  <2>6. pc[w] \in PastWallet =>
          Replays(IF Row(w).pair = pair /\ ~Recorded(Row(w), trades)
                    THEN UpdatePosition(eps, Row(w)) ELSE eps,
                  old, pair, rows, n + 1, trades)
    BY <2>4, <2>5, ReplayOn
  <2>7. CASE pc[w] = "wallet" /\ job[w].at = 1 /\ job' = job
    <3>1. pair \notin Positioned(w) /\ pair \notin Positioned(w)'
      BY <2>7 DEF Base, WalletLocked, Locks, PastWallet, Positioned
    <3>2. EpisodesSeen(w, pair)' = old
      BY <2>1, <2>2, <3>1 DEF EpisodesSeen
    <3>3. Replays(old, old, pair, rows, 0, trades)
      BY ReplayStart
    <3>4. job'[w].at - 1 = 0
      BY <2>7
    <3>. QED BY <2>1, <2>2, <3>2, <3>3, <3>4
  <2>8. CASE /\ pc[w] \in PastWallet /\ job'[w].at = job[w].at
             /\ job'[w].episodes = job[w].episodes
    <3>1. EpisodesSeen(w, pair)' = eps
      BY <2>1, <2>2, <2>8 DEF EpisodesSeen, Positioned
    <3>2. job'[w].at - 1 = n
      BY <2>3, <2>8
    <3>. QED BY <2>1, <2>2, <2>4, <2>8, <3>1, <3>2
  <2>9. CASE /\ pc[w] \in PastWallet /\ job'[w].at = job[w].at + 1
             /\ Recorded(Row(w), trades) \/ Row(w).sol = None
             /\ Row(w) \in Rows
             /\ job'[w].episodes = job[w].episodes
    <3>1. EpisodesSeen(w, pair)' = eps
      BY <2>1, <2>2, <2>9 DEF EpisodesSeen, Positioned
    <3>2. job'[w].at - 1 = n + 1
      BY <2>3, <2>9
    <3>3. Row(w).sol = None => UpdatePosition(eps, Row(w)) = eps
      BY DEF UpdatePosition
    <3>4. Replays(eps, old, pair, rows, n + 1, trades)
      BY <2>6, <2>9, <3>3
    <3>. QED BY <2>1, <2>2, <3>1, <3>2, <3>4
  <2>10. CASE /\ pc[w] = "write" /\ job'[w].at = job[w].at + 1
              /\ ~Recorded(Row(w), trades) /\ Row(w).sol # None
              /\ Row(w) \in Rows /\ Row(w).pair \in Pairs
              /\ job'[w].episodes = [job[w].episodes EXCEPT
                                        ![Row(w).pair] = UpdatePosition(job[w].held, Row(w))]
    <3>1. job'[w].at - 1 = n + 1 /\ pc[w] \in PastWallet
      BY <2>3, <2>10 DEF PastWallet
    <3>2. job[w].episodes \in [Pairs -> Seq(Positions)] /\ eps \in Seq(Positions)
      BY <1>0, <2>2, JobFields, SeenType
    <3>3. CASE Row(w).pair = pair
      <4>1. PICK new : new = UpdatePosition(eps, Row(w))
        OBVIOUS
      <4>2. job[w].held = eps
        BY <2>2, <2>10, <3>3 DEF HeldCurrent, Current
      <4>3. new # <<>>
        BY <2>10, <3>2, <4>1, UpdateType
      <4>4. job'[w].episodes[pair] = new
        BY <2>10, <3>2, <3>3, <4>1, <4>2
      <4>5. EpisodesSeen(w, pair)' = new
        BY <4>3, <4>4 DEF EpisodesSeen, Positioned
      <4>6. Replays(new, old, pair, rows, n + 1, trades)
        BY <2>6, <2>10, <3>1, <3>3, <4>1
      <4>. QED BY <2>1, <2>2, <3>1, <4>5, <4>6
    <3>4. CASE Row(w).pair # pair
      <4>1. job'[w].episodes[pair] = job[w].episodes[pair]
        BY <2>10, <3>2, <3>4
      <4>2. EpisodesSeen(w, pair)' = eps
        BY <2>1, <2>2, <4>1 DEF EpisodesSeen, Positioned
      <4>3. Replays(eps, old, pair, rows, n + 1, trades)
        BY <2>6, <3>1, <3>4
      <4>. QED BY <2>1, <2>2, <3>1, <4>2, <4>3
    <3>. QED BY <3>3, <3>4
  <2>. QED BY <1>1, <1>3, <2>7, <2>8, <2>9, <2>10, PlaceStep
<1>4. ASSUME NEW o \in Writers PROVE Replayed(o)'
  <2>1. ASSUME pc'[o] \in PastWallet, Payer(o)' # None, NEW pair \in Pairs, pair[1] = Payer(o)'
        PROVE  Replays(EpisodesSeen(o, pair)', positions'[pair], pair,
                       job'[o].rows, job'[o].at - 1, trades')
    BY <1>2, <1>3, <2>1
  <2>. QED BY <2>1 DEF Replayed, Replays, IsReplay, Recorded
<1>. QED BY <1>4 DEF WritesReplay

(* The fold that Record stands for.                                        *)
RecordStep(ps, row, new) == IF row \in new THEN Folded(ps, row) ELSE ps
LOCAL IsRecord(g, base, rows, new) ==
    g = [s \in SUBSET DOMAIN rows |->
           IF s = {} THEN base ELSE RecordStep(g[s \ {Max(s)}], rows[Max(s)], new)]
AllRecorded(base, rows, new) ==
    FoldLeft(LAMBDA ps, r : IF r \in new THEN Folded(ps, r) ELSE ps, base, rows)

(* The abstract fold of a transaction is a chosen function's value.        *)
LEMMA RecordChosen ==
  ASSUME NEW base, NEW rows, NEW new
  PROVE  AllRecorded(base, rows, new) = (CHOOSE g : IsRecord(g, base, rows, new))[DOMAIN rows]
BY DEF AllRecorded, FoldLeft, MapThenFoldSet, IsRecord, RecordStep

(* What a commit must do to be the abstract ledger's Record.               *)
LEMMA RecordSays ==
  ASSUME NEW rows,
         {r \in ToSet(rows) : ~Recorded(r, trades)} # {},
         trades' = trades \cup {r \in ToSet(rows) : ~Recorded(r, trades)},
         positions' = AllRecorded(positions, rows, {r \in ToSet(rows) : ~Recorded(r, trades)})
  PROVE  Record(rows)
BY Zenon DEF Record, AllRecorded

(* The abstract fold exists.                                               *)
LEMMA RecordFolds ==
  ASSUME NEW rows \in Seq(Rows), NEW new, NEW base \in [Pairs -> Seq(Positions)]
  PROVE  \E g \in [SUBSET DOMAIN rows -> [Pairs -> Seq(Positions)]] :
            IsRecord(g, base, rows, new)
<1>. DEFINE D == DOMAIN rows
            V == [Pairs -> Seq(Positions)]
            chosen == [s \in SUBSET D |-> Max(s)]
            more == [p \in (SUBSET D) \X V |->
                       IF p[1] = {} THEN base ELSE RecordStep(p[2], rows[Max(p[1])], new)]
<1>1. /\ IsFiniteSet(D)
      /\ \A s \in SUBSET D : s # {} => Max(s) \in s /\ rows[Max(s)] \in Rows
  <2>1. D = 1..Len(rows) /\ Len(rows) \in Nat
    BY LenProperties
  <2>2. IsFiniteSet(D)
    BY <2>1, FS_Interval
  <2>3. ASSUME NEW s \in SUBSET D, s # {} PROVE Max(s) \in s
    <3>1. IsFiniteSet(s)
      BY <2>2, FS_Subset
    <3>2. s \subseteq Int
      BY <2>1
    <3>. QED BY <2>3, <3>1, <3>2, MaxIn
  <2>4. ASSUME NEW s \in SUBSET D, s # {} PROVE rows[Max(s)] \in Rows
    BY <2>1, <2>3, <2>4, ElementOfSeq
  <2>. QED BY <2>2, <2>3, <2>4
<1>2. \A s \in SUBSET D : s # {} => chosen[s] \in s
  BY <1>1
<1>3. ASSUME NEW ps \in V, NEW row \in Rows
      PROVE  RecordStep(ps, row, new) \in V
  <2>1. row.pair \in Pairs
    BY DEF Rows
  <2>2. UpdatePosition(ps[row.pair], row) \in Seq(Positions)
    BY <2>1, UpdateType
  <2>. QED BY <2>1, <2>2 DEF RecordStep, Folded
<1>4. more \in [(SUBSET D) \X V -> V]
  <2>1. ASSUME NEW s \in SUBSET D, NEW ps \in V, s # {}
        PROVE  RecordStep(ps, rows[Max(s)], new) \in V
    <3>1. PICK row : row = rows[Max(s)]
      OBVIOUS
    <3>2. row \in Rows
      BY <1>1, <2>1, <3>1
    <3>. HIDE DEF V
    <3>. QED BY <1>3, <3>1, <3>2
  <2>2. base \in V
    OBVIOUS
  <2>. HIDE DEF V, D
  <2>. QED BY <2>1, <2>2
<1>5. PICK g : IsFold(g, more, chosen, base, D)
  <2>. HIDE DEF more, chosen, D
  <2>. QED BY <1>1, <1>2, FoldExists
<1>6. g \in [SUBSET D -> V]
  <2>1. base \in V
    OBVIOUS
  <2>. HIDE DEF more, chosen, D, V
  <2>. QED BY <1>1, <1>2, <1>4, <1>5, <2>1, FoldType
<1>7. ASSUME NEW s \in SUBSET D, s # {}
      PROVE  more[<<s, g[s \ {chosen[s]}]>>] = RecordStep(g[s \ {Max(s)}], rows[Max(s)], new)
  <2>1. s \ {Max(s)} \in SUBSET D /\ chosen[s] = Max(s)
    OBVIOUS
  <2>2. g[s \ {Max(s)}] \in V
    <3>. HIDE DEF V
    <3>. QED BY <1>6, <2>1
  <2>. HIDE DEF V
  <2>. QED BY <1>7, <2>1, <2>2
<1>8. g = [s \in SUBSET D |->
             IF s = {} THEN base ELSE RecordStep(g[s \ {Max(s)}], rows[Max(s)], new)]
  <2>1. g = [s \in SUBSET D |->
               IF s = {} THEN base ELSE more[<<s, g[s \ {chosen[s]}]>>]]
    BY <1>5 DEF IsFold
  <2>. HIDE DEF more, chosen, D
  <2>. QED BY <1>7, <2>1
<1>. QED BY <1>6, <1>8 DEF IsRecord

Recording(f, base, rows, new) ==
    /\ f \in [0..Len(rows) -> [Pairs -> Seq(Positions)]] /\ f[0] = base
    /\ \A i \in 1..Len(rows) : f[i] = RecordStep(f[i - 1], rows[i], new)
    /\ AllRecorded(base, rows, new) = f[Len(rows)]

(* And it can be told row by row.                                          *)
LEMMA RecordIs ==
  ASSUME NEW rows \in Seq(Rows), NEW new, NEW base \in [Pairs -> Seq(Positions)]
  PROVE  \E f : Recording(f, base, rows, new)
<1>. DEFINE D == DOMAIN rows
            V == [Pairs -> Seq(Positions)]
<1>1. PICK g : g = (CHOOSE h : IsRecord(h, base, rows, new))
  OBVIOUS
<1>2. IsRecord(g, base, rows, new)
  <2>1. \E h : IsRecord(h, base, rows, new)
    BY RecordFolds
  <2>. QED BY <1>1, <2>1
<1>3. D = 1..Len(rows) /\ Len(rows) \in Nat
  BY LenProperties
<1>. DEFINE f == [i \in 0..Len(rows) |-> g[1..i]]
<1>4. f[0] = base
  <2>1. 1..0 = {} /\ {} \in SUBSET D /\ 0 \in 0..Len(rows)
    BY <1>3
  <2>. QED BY <1>2, <2>1 DEF IsRecord
<1>5. ASSUME NEW i \in 1..Len(rows)
      PROVE  f[i] = RecordStep(f[i - 1], rows[i], new)
  <2>1. 1..i \in SUBSET D /\ 1..i # {} /\ i \in 0..Len(rows) /\ i - 1 \in 0..Len(rows)
    <3>1. i \in Nat /\ 1 <= i /\ i <= Len(rows) /\ Len(rows) \in Nat
      BY <1>3
    <3>2. 1..i \subseteq 1..Len(rows) /\ i \in 1..i
      BY <3>1
    <3>3. i \in 0..Len(rows) /\ i - 1 \in 0..Len(rows)
      BY <3>1
    <3>. QED BY <1>3, <3>2, <3>3
  <2>2. Max(1..i) = i
    <3>1. IsFiniteSet(1..i)
      <4>1. 1 \in Int /\ i \in Int
        OBVIOUS
      <4>. QED BY <4>1, FS_Interval
    <3>2. 1..i \subseteq Int /\ i \in 1..i
      OBVIOUS
    <3>3. Max(1..i) \in 1..i /\ \A x \in 1..i : x <= Max(1..i)
      BY <2>1, <3>1, <3>2, MaxIn
    <3>. QED BY <3>2, <3>3
  <2>3. (1..i) \ {i} = 1..i - 1
    OBVIOUS
  <2>4. g[1..i] = RecordStep(g[(1..i) \ {Max(1..i)}], rows[Max(1..i)], new)
    BY <1>2, <2>1 DEF IsRecord
  <2>5. g[1..i] = RecordStep(g[1..i - 1], rows[i], new)
    BY <2>2, <2>3, <2>4
  <2>. QED BY <2>1, <2>5
<1>6. AllRecorded(base, rows, new) = f[Len(rows)]
  <2>1. Len(rows) \in 0..Len(rows)
    BY <1>3
  <2>2. f[Len(rows)] = g[1..Len(rows)]
    BY <2>1
  <2>3. AllRecorded(base, rows, new) = g[DOMAIN rows]
    BY <1>1, RecordChosen
  <2>. HIDE DEF f
  <2>. QED BY <1>3, <2>2, <2>3
<1>7. f \in [0..Len(rows) -> V]
  <2>1. ASSUME NEW ps \in V, NEW i \in 1..Len(rows) PROVE RecordStep(ps, rows[i], new) \in V
    <3>1. rows[i] \in Rows
      BY ElementOfSeq
    <3>2. rows[i].pair \in Pairs
      BY <3>1 DEF Rows
    <3>3. UpdatePosition(ps[rows[i].pair], rows[i]) \in Seq(Positions)
      BY <3>1, <3>2, UpdateType
    <3>. QED BY <3>2, <3>3 DEF RecordStep, Folded
  <2>. DEFINE Bad == {i \in 0..Len(rows) : f[i] \notin V}
  <2>2. SUFFICES ASSUME Bad # {} PROVE FALSE
    OBVIOUS
  <2>3. PICK i \in Bad : \A j \in Bad : i <= j
    <3>1. IsFiniteSet(0..Len(rows))
      BY <1>3, FS_Interval
    <3>2. Bad \subseteq 0..Len(rows) /\ Bad \subseteq Int
      OBVIOUS
    <3>. HIDE DEF Bad
    <3>3. IsFiniteSet(Bad)
      BY <3>1, <3>2, FS_Subset
    <3>. QED BY <2>2, <3>2, <3>3, MinIn
  <2>4. base \in V
    OBVIOUS
  <2>5. i \in 1..Len(rows)
    <3>. HIDE DEF f, V
    <3>. QED BY <1>3, <1>4, <2>3, <2>4
  <2>6. f[i - 1] \in V
    <3>1. i - 1 \notin Bad /\ i - 1 \in 0..Len(rows)
      BY <1>3, <2>3, <2>5
    <3>. HIDE DEF f, V
    <3>. QED BY <3>1
  <2>. HIDE DEF f, V
  <2>. QED BY <1>5, <2>1, <2>3, <2>5, <2>6
<1>8. Recording(f, base, rows, new)
  BY <1>4, <1>5, <1>6, <1>7 DEF Recording
<1>. HIDE DEF f
<1>. QED BY <1>8

(* Recording rows does to a pair's positions what their replay does.       *)
LEMMA RecordReplays ==
  ASSUME NEW rows \in Seq(Rows), NEW recorded, NEW base \in [Pairs -> Seq(Positions)],
         NEW new, new = {r \in ToSet(rows) : ~Recorded(r, recorded)},
         NEW pair \in Pairs, NEW eps, Replays(eps, base[pair], pair, rows, Len(rows), recorded)
  PROVE  AllRecorded(base, rows, new)[pair] = eps
<1>1. PICK h : IsReplay(h, base[pair], pair, rows, Len(rows), recorded) /\ h[Len(rows)] = eps
  BY DEF Replays
<1>0. PICK f : Recording(f, base, rows, new)
  BY RecordIs
<1>2. /\ f \in [0..Len(rows) -> [Pairs -> Seq(Positions)]] /\ f[0] = base
      /\ \A i \in 1..Len(rows) : f[i] = RecordStep(f[i - 1], rows[i], new)
      /\ AllRecorded(base, rows, new) = f[Len(rows)]
  BY <1>0 DEF Recording
<1>3. Len(rows) \in Nat /\ DOMAIN rows = 1..Len(rows)
  BY LenProperties
<1>. DEFINE one == [i \in 0..Len(rows) |-> f[i][pair]]
<1>4. ASSUME NEW i \in 1..Len(rows)
      PROVE  one[i] = IF rows[i].pair = pair /\ ~Recorded(rows[i], recorded)
                        THEN UpdatePosition(one[i - 1], rows[i]) ELSE one[i - 1]
  <2>1. i \in 0..Len(rows) /\ i - 1 \in 0..Len(rows)
    BY <1>3
  <2>2. rows[i] \in new <=> ~Recorded(rows[i], recorded)
    BY <1>3 DEF ToSet
  <2>3. PICK ps : ps = f[i - 1]
    OBVIOUS
  <2>4. ps \in [Pairs -> Seq(Positions)]
    BY <1>2, <2>1, <2>3
  <2>5. f[i] = RecordStep(ps, rows[i], new)
    BY <1>2, <2>3
  <2>6. f[i][pair] = IF rows[i].pair = pair /\ ~Recorded(rows[i], recorded)
                       THEN UpdatePosition(ps[pair], rows[i]) ELSE ps[pair]
    BY <2>2, <2>4, <2>5 DEF RecordStep, Folded
  <2>7. one[i] = f[i][pair] /\ one[i - 1] = ps[pair]
    BY <2>1, <2>3
  <2>. HIDE DEF one
  <2>. QED BY <2>6, <2>7
<1>5. one[0] = base[pair] /\ one[Len(rows)] = f[Len(rows)][pair]
  BY <1>2, <1>3
<1>6. one[Len(rows)] = h[Len(rows)]
  <2>1. PICK n, old : n = Len(rows) /\ old = base[pair]
    OBVIOUS
  <2>. HIDE DEF one
  <2>2. \A i \in 1..n : one[i] = IF rows[i].pair = pair /\ ~Recorded(rows[i], recorded)
                                   THEN UpdatePosition(one[i - 1], rows[i]) ELSE one[i - 1]
    BY <1>4, <2>1
  <2>3. IsReplay(h, old, pair, rows, n, recorded) /\ n \in Nat /\ one[0] = old
    BY <1>1, <1>3, <1>5, <2>1
  <2>4. one[n] = h[n]
    BY <2>2, <2>3, ReplayIs
  <2>. QED BY <2>1, <2>4
<1>. HIDE DEF one
<1>. QED BY <1>1, <1>2, <1>5, <1>6

(* At its end a session has written its transaction's replay.              *)
LEMMA Committed ==
  ASSUME Base, InsertedNew, WritesReplay, NEW w \in Writers, pc[w] = "commit"
  PROVE  /\ job[w].t \in Txs /\ job[w].rows \in Outcomes[job[w].t] /\ job[w].rows \in Seq(Rows)
         /\ job[w].inserted = {r \in ToSet(job[w].rows) : ~Recorded(r, trades)}
         /\ \A pair \in Pairs :
              Replays(EpisodesSeen(w, pair), positions[pair], pair,
                      job[w].rows, Len(job[w].rows), trades)
<1>1. /\ job[w].t \in Txs /\ job[w].rows \in Outcomes[job[w].t] /\ job[w].rows \in Seq(Rows)
      /\ job[w].at = Len(job[w].rows) + 1
  BY JobFields DEF Base, InProgress, Place
<1>2. PICK rows, n : rows = job[w].rows /\ n = Len(rows)
  OBVIOUS
<1>3. n \in Nat /\ DOMAIN rows = 1..n /\ job[w].at - 1 = n
  BY <1>1, <1>2, LenProperties
<1>4. job[w].inserted = NewRows(rows, n, trades)
  BY <1>2, <1>3 DEF InsertedNew, InsertedHere, Reached
<1>5. job[w].inserted = {r \in ToSet(rows) : ~Recorded(r, trades)}
  BY <1>3, <1>4 DEF NewRows, ToSet
<1>6. ASSUME NEW pair \in Pairs
      PROVE  Replays(EpisodesSeen(w, pair), positions[pair], pair, rows, n, trades)
  <2>1. CASE Payer(w) # None /\ pair[1] = Payer(w)
    BY <1>2, <1>3, <2>1 DEF WritesReplay, Replayed, PastWallet
  <2>2. CASE Payer(w) = None \/ pair[1] # Payer(w)
    <3>1. pair \notin Positioned(w)
      BY <2>2 DEF Base, WalletLocked, Locks
    <3>2. EpisodesSeen(w, pair) = positions[pair]
      BY <3>1 DEF EpisodesSeen
    <3>3. PICK old : old = positions[pair]
      OBVIOUS
    <3>4. \A i \in 1..n : rows[i].pair # pair
      <4>1. /\ \A i \in DOMAIN rows : rows[i].pair[1] = Payer(w)
            /\ Payer(w) = None => rows = <<>>
        BY <1>1, <1>2, OutcomeRows DEF TypedRows, Payer
      <4>2. Payer(w) = None => n = 0
        BY <1>2, <4>1, EmptySeq
      <4>. QED BY <1>3, <2>2, <4>1, <4>2
    <3>. DEFINE h == [i \in 0..n |-> old]
    <3>5. h[0] = old /\ h[n] = old /\ \A i \in 1..n : h[i] = h[i - 1]
      BY <1>3
    <3>6. Replays(old, old, pair, rows, n, trades)
      <4>. HIDE DEF h
      <4>. QED BY <3>4, <3>5 DEF Replays, IsReplay
    <3>. QED BY <3>2, <3>3, <3>6
  <2>. QED BY <2>1, <2>2
<1>. QED BY <1>1, <1>2, <1>5, <1>6

(* A commit records a transaction whole, or changes nothing.               *)
LEMMA CommitRecords ==
  ASSUME Base, InsertedNew, WritesReplay, NEW w \in Writers, Commit(w)
  PROVE  Next \/ UNCHANGED <<trades, positions>>
<1>1. /\ pc[w] = "commit" /\ trades' = trades \cup job[w].inserted
      /\ positions' = [pair \in Pairs |-> EpisodesSeen(w, pair)]
  BY DEF Commit
<1>2. PICK rows, new : rows = job[w].rows /\ new = job[w].inserted
  OBVIOUS
<1>3. /\ job[w].t \in Txs /\ rows \in Outcomes[job[w].t] /\ rows \in Seq(Rows)
      /\ new = {r \in ToSet(rows) : ~Recorded(r, trades)}
  BY <1>1, <1>2, Committed
<1>4. \A pair \in Pairs :
        Replays(EpisodesSeen(w, pair), positions[pair], pair, rows, Len(rows), trades)
  BY <1>1, <1>2, Committed
<1>5. positions \in [Pairs -> Seq(Positions)] /\ \A pair \in Pairs : positions'[pair] = EpisodesSeen(w, pair)
  BY <1>1 DEF Base, LedgerTypeOK
<1>6. CASE new = {}
  <2>1. ASSUME NEW pair \in Pairs PROVE EpisodesSeen(w, pair) = positions[pair]
    <3>1. PICK n, eps, old : n = Len(rows) /\ eps = EpisodesSeen(w, pair) /\ old = positions[pair]
      OBVIOUS
    <3>2. n \in Nat /\ DOMAIN rows = 1..n
      BY <1>3, <3>1, LenProperties
    <3>3. \A i \in 1..n : Recorded(rows[i], trades)
      BY <1>3, <1>6, <3>2 DEF ToSet
    <3>4. Replays(eps, old, pair, rows, n, trades)
      BY <1>4, <3>1
    <3>5. eps = old
      BY <3>2, <3>3, <3>4, ReplayNothing
    <3>. QED BY <3>1, <3>5
  <2>2. positions' = positions
    BY <1>1, <1>5, <2>1
  <2>. QED BY <1>1, <1>2, <1>6, <2>2
<1>7. CASE new # {}
  <2>1. trades' # trades
    <3>1. PICK r \in new : TRUE
      BY <1>7
    <3>2. r \notin trades
      BY <1>3 DEF Recorded, SameTrade
    <3>. QED BY <1>1, <1>2, <3>1, <3>2
  <2>2. ASSUME NEW pair \in Pairs
        PROVE  AllRecorded(positions, rows, new)[pair] = EpisodesSeen(w, pair)
    <3>1. PICK eps, base : eps = EpisodesSeen(w, pair) /\ base = positions
      OBVIOUS
    <3>2. Replays(eps, base[pair], pair, rows, Len(rows), trades)
      BY <1>4, <3>1
    <3>3. AllRecorded(base, rows, new)[pair] = eps
      BY <1>3, <1>5, <3>1, <3>2, RecordReplays
    <3>. QED BY <3>1, <3>3
  <2>3. AllRecorded(positions, rows, new) \in [Pairs -> Seq(Positions)]
    <3>1. PICK base : base = positions
      OBVIOUS
    <3>2. PICK f : Recording(f, base, rows, new)
      BY <1>3, <1>5, <3>1, RecordIs
    <3>3. Len(rows) \in 0..Len(rows)
      <4>1. Len(rows) \in Nat
        BY <1>3, LenProperties
      <4>. QED BY <4>1
    <3>. QED BY <3>1, <3>2, <3>3 DEF Recording
  <2>4. positions' = AllRecorded(positions, rows, new)
    <3>1. PICK all : all = AllRecorded(positions, rows, new)
      OBVIOUS
    <3>2. all \in [Pairs -> Seq(Positions)] /\ \A pair \in Pairs : all[pair] = EpisodesSeen(w, pair)
      BY <2>2, <2>3, <3>1
    <3>3. positions' = all
      BY <1>1, <3>2
    <3>. QED BY <3>1, <3>3
  <2>5. Record(rows)
    BY <1>1, <1>2, <1>3, <1>7, <2>4, RecordSays
  <2>. QED BY <1>3, <2>1, <2>5 DEF Next
<1>. QED BY <1>6, <1>7

(* Concurrent sessions, with their replays, waits and rollbacks, add up to *)
(* transactions recorded one after the other: no update is lost, no trade  *)
(* is folded twice, and none is folded that is not recorded (writer.py     *)
(* insert_trade, update_position).                                         *)
THEOREM ImplementsTradeLedgerHolds == LedgerSpec => ImplementsTradeLedger
<1>1. LedgerInit => Init /\ HeldCurrent /\ InsertedNew /\ WritesReplay
  <2>1. ASSUME LedgerInit PROVE WritesReplay
    BY <2>1 DEF LedgerInit, WritesReplay, Replayed, PastWallet
  <2>. QED BY <2>1, LedgerStarts, InsertedStarts DEF LedgerInit
<1>2. Base /\ HeldCurrent /\ InsertedNew /\ WritesReplay /\ [LedgerNext]_ledgerVars
        => (HeldCurrent /\ InsertedNew /\ WritesReplay)'
  <2>1. ASSUME HeldCurrent, InsertedNew, WritesReplay, UNCHANGED ledgerVars
        PROVE  (HeldCurrent /\ InsertedNew /\ WritesReplay)'
    BY <2>1, InvariantsStutter DEF ledgerVars, sessionVars, WritesReplay, Replayed, EpisodesSeen, Positioned,
                Payer, Replays, IsReplay, Recorded
  <2>. QED BY <2>1, CurrentNext, InsertedNext, ReplayedNext
<1>3. Base /\ InsertedNew /\ WritesReplay /\ [LedgerNext]_ledgerVars
        => [Next]_<<trades, positions>>
  <2>1. ASSUME Base, InsertedNew, WritesReplay, NEW w \in Writers, StepOf(w)
        PROVE  Next \/ UNCHANGED <<trades, positions>>
    <3>1. CASE Commit(w)
      BY <2>1, <3>1, CommitRecords
    <3>2. CASE ~Commit(w)
      BY <2>1, <3>2, CommittedSame
    <3>. QED BY <3>1, <3>2
  <2>. QED BY <2>1, NextIs DEF ledgerVars
<1>4. LedgerSpec => []Base
  BY TypeCorrect DEF Base
<1>. QED BY <1>1, <1>2, <1>3, <1>4, PTL DEF LedgerSpec, ImplementsTradeLedger, Spec

-----------------------------------------------------------------------------
(* Trades.  What the parsers read off a transaction that the chain made of *)
(* a trade: the net changes of the trader's balances are the trade's, for  *)
(* any route, and every parser that applies infers the same events.        *)
TradeTypeOK ==
    /\ intent \in Intents \cup {None}
    /\ route \in Seq(HopKinds)
    /\ tipped \in Nat
    /\ rented \in {0, Rent}
    /\ rented # 0 => intent # None /\ intent.quote = WSOL
    /\ txFailed \in BOOLEAN

(* A step of the trader or of the chain keeps the types.                   *)
LEMMA TradeTypeStep == TradeTypeOK /\ [TradeNext]_tradeVars => TradeTypeOK'
<1>. SUFFICES ASSUME TradeTypeOK, [TradeNext]_tradeVars PROVE TradeTypeOK'
  OBVIOUS
<1>. USE DEF TradeTypeOK
<1>1. ASSUME NEW trade \in Intents, Intend(trade) PROVE TradeTypeOK'
  BY <1>1 DEF Intend
<1>2. ASSUME NEW hop \in HopKinds, TakesHop(hop) PROVE TradeTypeOK'
  <2>1. Append(route, hop) \in Seq(HopKinds)
    BY AppendProperties
  <2>. QED BY <1>2, <2>1 DEF TakesHop
<1>3. CASE PaysTip
  BY <1>3 DEF PaysTip, Tip
<1>4. CASE PaysRent
  BY <1>4 DEF PaysRent
<1>5. CASE TradeFails
  BY <1>5 DEF TradeFails
<1>6. CASE UNCHANGED tradeVars
  BY <1>6 DEF tradeVars
<1>. QED BY <1>1, <1>2, <1>3, <1>4, <1>5, <1>6 DEF TradeNext

(* The places of the transaction's token accounts.                         *)
LOCAL TraderPlaces == {"trader"} \X (1..3)
LOCAL PoolPlaces == Pools \X {0}

(* There are finitely many of them.                                        *)
LEMMA PlacesFinite ==
  ASSUME TradeTypeOK
  PROVE  IsFiniteSet(TraderPlaces) /\ IsFiniteSet(PoolPlaces)
<1>1. DOMAIN route = 1..Len(route) /\ Len(route) \in Nat
  BY LenProperties DEF TradeTypeOK
<1>2. IsFiniteSet(1..Len(route)) /\ IsFiniteSet(1..3)
  <2>1. 1 \in Int /\ 3 \in Int /\ Len(route) \in Int
    BY <1>1
  <2>. QED BY <2>1, FS_Interval
<1>. DEFINE f == [i \in DOMAIN route |-> route[i].account]
            accounts == {f[i] : i \in DOMAIN route}
<1>3. IsFiniteSet(accounts)
  <2>. HIDE DEF f
  <2>. QED BY <1>1, <1>2, ImageFinite
<1>4. Pools \subseteq accounts
  BY DEF Pools
<1>5. IsFiniteSet(Pools)
  <2>. HIDE DEF accounts
  <2>. QED BY <1>3, <1>4, FS_Subset
<1>6. IsFiniteSet({"trader"}) /\ IsFiniteSet({0})
  BY FS_Singleton
<1>. QED BY <1>2, <1>5, <1>6, FS_Product DEF TraderPlaces, PoolPlaces

(* What the trade changes of a mint the trader holds.                      *)
Moves(mint) ==
    (IF mint = intent.token THEN intent.tokens ELSE 0)
      + (IF mint = intent.quote /\ ~intent.native THEN intent.amount ELSE 0)

(* The numbers of a trade.                                                 *)
LEMMA TradeNumbers ==
  ASSUME TradeTypeOK, intent # None
  PROVE  /\ intent \in Intents
         /\ intent.token \in Nat /\ intent.token > USDT
         /\ intent.quote \in Nat \ {0, intent.token}
         /\ intent.tokens \in Int /\ intent.tokens # 0 /\ intent.amount \in Int
         /\ Opposite(intent.amount, intent.tokens)
         /\ intent.native \in BOOLEAN /\ (intent.native => intent.quote = WSOL)
         /\ intent.quote = WSOL => Abs(intent.amount) > MinSolFlow + Rent
<1>1. intent \in Intents
  BY DEF TradeTypeOK
<1>. QED BY <1>1, TradesAreSwaps

(* Of the trader's balances, the token's changes by what was traded, the   *)
(* quote mint's by the price if it is not paid natively, and no other.     *)
LEMMA TraderDelta ==
  ASSUME TradeTypeOK, intent # None, NEW mint \in Nat
  PROVE  TokenDelta(Transaction, "trader", mint) = Moves(mint)
<1>. DEFINE D == TraderPlaces \cup PoolPlaces
            f == [i \in D |->
                    LET a == Transaction.accounts[i] IN
                    IF a.owner = "trader" /\ a.mint = mint THEN a.post - a.pre ELSE 0]
            one == <<"trader", 1>>
            two == <<"trader", 2>>
            three == <<"trader", 3>>
            paid == IF intent.native THEN 0 ELSE intent.amount
<1>1. Transaction.accounts =
        [place \in D |->
           CASE place[2] = 0 -> Account(place[1], intent.token, -intent.tokens)
             [] place[2] = 1 -> Account("trader", intent.token, intent.tokens + 3)
             [] place[2] = 2 -> Account("trader", intent.token, -3)
             [] place[2] = 3 -> Account("trader", intent.quote, paid)]
  BY DEF Transaction, TraderPlaces, PoolPlaces
<1>2. TokenDelta(Transaction, "trader", mint) = SumOver(f, D)
  BY <1>1 DEF TokenDelta
<1>3. TraderPlaces = {one, two, three} /\ one # two /\ one # three /\ two # three
  BY DEF TraderPlaces
<1>4. \A d \in Int : Abs(d) \in Nat /\ (Abs(d) + d) - Abs(d) = d
  BY DEF Abs
<1>5. /\ f[one] = IF mint = intent.token THEN intent.tokens + 3 ELSE 0
      /\ f[two] = IF mint = intent.token THEN -3 ELSE 0
      /\ f[three] = IF mint = intent.quote THEN paid ELSE 0
  <2>1. /\ Transaction.accounts[one] = Account("trader", intent.token, intent.tokens + 3)
        /\ Transaction.accounts[two] = Account("trader", intent.token, -3)
        /\ Transaction.accounts[three] = Account("trader", intent.quote, paid)
    BY <1>1, <1>3
  <2>2. intent.tokens + 3 \in Int /\ -3 \in Int /\ paid \in Int
    BY TradeNumbers
  <2>3. ASSUME NEW d \in Int, NEW m
        PROVE  Account("trader", m, d).owner = "trader" /\ Account("trader", m, d).mint = m
               /\ Account("trader", m, d).post - Account("trader", m, d).pre = d
    BY <1>4, <2>3 DEF Account
  <2>. HIDE DEF paid
  <2>. QED BY <1>3, <2>1, <2>2, <2>3
<1>6. \A i \in PoolPlaces : f[i] = 0
  <2>1. SUFFICES ASSUME NEW i \in PoolPlaces PROVE f[i] = 0
    OBVIOUS
  <2>2. i[2] = 0 /\ i[1] \in Pools
    BY <2>1 DEF PoolPlaces
  <2>3. Transaction.accounts[i] = Account(i[1], intent.token, -intent.tokens)
    BY <1>1, <2>1, <2>2
  <2>4. i[1] # "trader"
    <3>1. \A j \in DOMAIN route : route[j].account # "trader"
      <4>1. \A j \in DOMAIN route : route[j] \in HopKinds
        BY ElementOfSeq, LenProperties DEF TradeTypeOK
      <4>. QED BY <4>1, HopsAreCalls
    <3>. QED BY <2>2, <3>1 DEF Pools
  <2>. QED BY <2>1, <2>3, <2>4 DEF Account
<1>7. /\ f[one] \in Int /\ f[two] \in Int /\ f[three] \in Int
      /\ f[one] + f[two] + f[three] = Moves(mint)
  <2>. HIDE DEF f, one, two, three
  <2>1. intent.tokens \in Int /\ paid \in Int /\ intent.token # intent.quote
    BY TradeNumbers
  <2>2. /\ f[one] \in Int /\ f[two] \in Int /\ f[three] \in Int
        /\ f[one] + f[two] = IF mint = intent.token THEN intent.tokens ELSE 0
    <3>. HIDE DEF paid
    <3>. QED BY <1>5, <2>1
  <2>3. Moves(mint) = IF mint = intent.token THEN intent.tokens
                      ELSE IF mint = intent.quote THEN paid ELSE 0
    BY <2>1 DEF Moves
  <2>. HIDE DEF paid
  <2>. QED BY <1>5, <2>1, <2>2, <2>3
<1>. HIDE DEF f, one, two, three
<1>8. IsFiniteSet(TraderPlaces) /\ IsFiniteSet(PoolPlaces)
  BY PlacesFinite
<1>9. SumOver(f, TraderPlaces) = f[one] + f[two] + f[three]
  <2>1. SumOver(f, {three}) = f[three]
    BY <1>7, SumSingle
  <2>2. IsFiniteSet({three}) /\ IsFiniteSet({three} \cup {two})
    BY <1>3, <1>8, FS_Subset
  <2>3. SumOver(f, {three} \cup {two}) = f[two] + f[three]
    BY <1>3, <1>7, <2>1, <2>2, SumAdd
  <2>4. SumOver(f, ({three} \cup {two}) \cup {one}) = f[one] + (f[two] + f[three])
    BY <1>3, <1>7, <2>2, <2>3, SumAdd
  <2>5. TraderPlaces = ({three} \cup {two}) \cup {one}
    BY <1>3
  <2>6. SumOver(f, TraderPlaces) = f[one] + (f[two] + f[three])
    BY <2>4, <2>5
  <2>. QED BY <1>7, <2>6
<1>10. SumOver(f, PoolPlaces) = 0
  BY <1>6, <1>8, SumZero
<1>11. TraderPlaces \cap PoolPlaces = {}
  BY DEF TraderPlaces, PoolPlaces
<1>12. \A i \in TraderPlaces \cup PoolPlaces : f[i] \in Int
  BY <1>3, <1>6, <1>7
<1>13. SumOver(f, D) = SumOver(f, TraderPlaces) + SumOver(f, PoolPlaces)
  BY <1>8, <1>11, <1>12, SumUnion
<1>. QED BY <1>2, <1>7, <1>9, <1>10, <1>13

(* The tokens that moved are those of the trade.                           *)
LEMMA MovedIs ==
  ASSUME TradeTypeOK, intent # None
  PROVE  MovedTokens(Transaction, "trader")
           = IF intent.quote \in QuoteMints THEN {intent.token} ELSE {intent.token, intent.quote}
<1>. DEFINE D == TraderPlaces \cup PoolPlaces
            mints == {Transaction.accounts[i].mint : i \in DOMAIN Transaction.accounts}
            paid == IF intent.native THEN 0 ELSE intent.amount
<1>1. Transaction.accounts =
        [place \in D |->
           CASE place[2] = 0 -> Account(place[1], intent.token, -intent.tokens)
             [] place[2] = 1 -> Account("trader", intent.token, intent.tokens + 3)
             [] place[2] = 2 -> Account("trader", intent.token, -3)
             [] place[2] = 3 -> Account("trader", intent.quote, paid)]
  BY DEF Transaction, TraderPlaces, PoolPlaces
<1>2. mints = {intent.token, intent.quote}
  <2>1. \A i \in D : i[2] \in 0..3
    BY DEF TraderPlaces, PoolPlaces
  <2>2. \A i \in D : Transaction.accounts[i].mint \in {intent.token, intent.quote}
    BY <1>1, <2>1 DEF Account
  <2>3. <<"trader", 1>> \in D /\ <<"trader", 3>> \in D
    BY DEF TraderPlaces
  <2>4. /\ Transaction.accounts[<<"trader", 1>>].mint = intent.token
        /\ Transaction.accounts[<<"trader", 3>>].mint = intent.quote
    BY <1>1, <2>3 DEF Account
  <2>5. DOMAIN Transaction.accounts = D
    BY <1>1
  <2>. HIDE DEF D
  <2>. QED BY <2>2, <2>3, <2>4, <2>5
<1>3. \A mint \in Nat : TokenDelta(Transaction, "trader", mint) = Moves(mint)
  BY TraderDelta
<1>4. Moves(intent.token) # 0 /\ (intent.quote \notin QuoteMints => Moves(intent.quote) # 0)
  BY TradeNumbers DEF Moves, Opposite, QuoteMints, WSOL
<1>5. intent.token \notin QuoteMints /\ intent.token \in Nat /\ intent.quote \in Nat
  BY TradeNumbers DEF QuoteMints, StableMints, WSOL, USDC, USDT
<1>6. MovedTokens(Transaction, "trader")
        = {mint \in mints \ QuoteMints : TokenDelta(Transaction, "trader", mint) # 0}
  BY DEF MovedTokens
<1>. HIDE DEF mints
<1>. QED BY <1>2, <1>3, <1>4, <1>5, <1>6

(* The trader's lamports, fee and tip put back.                            *)
LEMMA NativeIs ==
  ASSUME TradeTypeOK, intent # None
  PROVE  NativeSolDelta(Transaction) = (IF intent.native THEN intent.amount ELSE 0) - rented
<1>1. /\ Transaction.lamports = Lamports
      /\ Transaction.fee = Fee /\ Transaction.tips = tipped
  BY DEF Transaction
<1>2. rented \in Int /\ tipped \in Int /\ Fee \in Int
  BY DEF TradeTypeOK, Rent, Fee
<1>. QED BY <1>1, <1>2, TradeNumbers DEF NativeSolDelta, Lamports

(* An event that shows a trade of the trader.                              *)
Shows(e, token, tokens, quote, amount) ==
    /\ {"wallet", "venue", "side", "token", "quote", "tokens", "paid", "aggregator"}
         \subseteq DOMAIN e
    /\ e.wallet = "trader" /\ Parsed(e, token, tokens, quote, amount)
ShowsTrade(e) == Shows(e, intent.token, intent.tokens, intent.quote, intent.amount)
ShowsPrice(e) == Shows(e, intent.quote, intent.amount, intent.token, intent.tokens)

(* So does an event with the trade's own numbers.                          *)
LEMMA EventShows ==
  ASSUME NEW venue, NEW token, NEW tokens, NEW quote, NEW amount, NEW paid,
         Abs(Abs(paid) - Abs(amount)) <= rented
  PROVE  /\ Shows(Event(Transaction, venue, token, tokens, quote, paid), token, tokens,
                  quote, amount)
         /\ Event(Transaction, venue, token, tokens, quote, paid).venue = venue
<1>1. Transaction.payer = "trader"
  BY DEF Transaction
<1>2. PICK d, p : d = Abs(tokens) /\ p = Abs(paid)
  OBVIOUS
<1>3. Abs(p - Abs(amount)) <= rented
  BY <1>2
<1>. QED BY <1>1, <1>2, <1>3 DEF Shows, Event, Parsed

(* A price in SOL is the leg that counts, and off by the rent at most.     *)
LEMMA LegIs ==
  ASSUME TradeTypeOK, intent # None, intent.quote = WSOL,
         NEW legs, legs = SolLegs(Transaction, intent.tokens)
  PROVE  legs # {} /\ Abs(Abs(TradeLeg(legs)) - Abs(intent.amount)) <= rented
<1>. DEFINE wrapped == TokenDelta(Transaction, "trader", WSOL)
            native == NativeSolDelta(Transaction)
            counted == IF Abs(native) >= MinSolFlow THEN native ELSE 0
<1>1. legs = {flow \in {wrapped, counted} : Opposite(flow, intent.tokens)}
  BY DEF SolLegs, Transaction
<1>2. wrapped = IF intent.native THEN 0 ELSE intent.amount
  BY TraderDelta, TradeNumbers DEF Moves, WSOL, USDT
<1>3. native = (IF intent.native THEN intent.amount ELSE 0) - rented
  BY NativeIs
<1>4. /\ intent.amount \in Int /\ intent.tokens \in Int /\ Opposite(intent.amount, intent.tokens)
      /\ Abs(intent.amount) > MinSolFlow + Rent /\ MinSolFlow \in Nat
      /\ rented \in Nat /\ rented <= Rent /\ Rent = 2
  BY TradeNumbers, ParsingUnits DEF TradeTypeOK, Rent
<1>5. PICK a, n : a = intent.amount /\ n = intent.tokens
  OBVIOUS
<1>. DEFINE chosen == IF intent.native THEN a - rented ELSE a
<1>6. chosen \in legs /\ \A leg \in legs : leg = chosen \/ Abs(leg) < Abs(chosen)
  <2>1. CASE intent.native
    <3>1. native = a - rented /\ wrapped = 0
      BY <1>2, <1>3, <1>5, <2>1
    <3>2. /\ Abs(a - rented) >= MinSolFlow
          /\ Opposite(a - rented, n) /\ ~Opposite(0, n)
      BY <1>4, <1>5 DEF Abs, Opposite
    <3>3. counted = chosen /\ chosen = a - rented
      BY <2>1, <3>1, <3>2
    <3>. HIDE DEF counted, wrapped, chosen
    <3>. QED BY <1>1, <1>5, <3>1, <3>2, <3>3
  <2>2. CASE ~intent.native
    <3>1. native = 0 - rented /\ wrapped = a /\ chosen = a
      BY <1>2, <1>3, <1>5, <2>2
    <3>2. counted = 0 \/ counted = 0 - rented
      BY <3>1
    <3>3. Abs(0) < Abs(a) /\ Abs(0 - rented) < Abs(a)
      BY <1>4, <1>5 DEF Abs
    <3>. HIDE DEF counted, wrapped, chosen
    <3>. QED BY <1>1, <1>4, <1>5, <3>1, <3>2, <3>3
  <2>. QED BY <2>1, <2>2
<1>7. \A leg \in legs : leg = chosen \/ (Abs(leg) \in Nat /\ Abs(leg) < Abs(chosen))
  <2>1. \A leg \in legs : leg \in Int
    <3>1. wrapped \in Int /\ native \in Int
      BY <1>2, <1>3, <1>4
    <3>. QED BY <1>1, <3>1
  <2>2. \A x \in Int : Abs(x) \in Nat
    BY AbsType
  <2>. HIDE DEF chosen
  <2>. QED BY <1>6, <2>1, <2>2
<1>8. TradeLeg(legs) = chosen
  <2>1. chosen \in Int /\ Abs(chosen) \in Nat
    BY <1>4, <1>5, AbsType
  <2>. HIDE DEF chosen
  <2>2. \A other \in legs : Abs(other) <= Abs(chosen)
    BY <1>7, <2>1
  <2>3. PICK leg : leg = TradeLeg(legs)
    OBVIOUS
  <2>4. leg \in legs /\ \A other \in legs : Abs(other) <= Abs(leg)
    BY <1>6, <2>2, <2>3 DEF TradeLeg
  <2>5. leg = chosen
    BY <1>6, <1>7, <2>1, <2>4
  <2>. QED BY <2>3, <2>5
<1>9. Abs(Abs(chosen) - Abs(a)) <= rented
  BY <1>4, <1>5 DEF Abs
<1>. HIDE DEF chosen
<1>. QED BY <1>5, <1>6, <1>8, <1>9

(* A price in stable units is found in whatever order the stable mints are *)
(* looked at, and no leg in SOL is seen next to it.                        *)
LEMMA StableIs ==
  ASSUME TradeTypeOK, intent # None, intent.quote \in StableMints,
         NEW stables \in StableOrders, NEW counter,
         counter = {i \in DOMAIN stables :
                      Opposite(TokenDelta(Transaction, "trader", stables[i]), intent.tokens)}
  PROVE  /\ SolLegs(Transaction, intent.tokens) = {}
         /\ counter # {} /\ stables[Min(counter)] = intent.quote
         /\ TokenDelta(Transaction, "trader", intent.quote) = intent.amount
<1>1. /\ intent.quote \in {2, 3} /\ intent.token \in Nat /\ intent.token > 3
      /\ ~intent.native /\ rented = 0
      /\ intent.amount \in Int /\ intent.tokens \in Int
      /\ Opposite(intent.amount, intent.tokens)
  BY TradeNumbers DEF TradeTypeOK, StableMints, USDC, USDT, WSOL
<1>2. \A mint \in 1..3 : TokenDelta(Transaction, "trader", mint)
                           = IF mint = intent.quote THEN intent.amount ELSE 0
  <2>1. SUFFICES ASSUME NEW mint \in 1..3
                 PROVE  TokenDelta(Transaction, "trader", mint)
                           = IF mint = intent.quote THEN intent.amount ELSE 0
    OBVIOUS
  <2>2. TokenDelta(Transaction, "trader", mint) = Moves(mint)
    BY TraderDelta
  <2>. QED BY <1>1, <2>2 DEF Moves
<1>3. SolLegs(Transaction, intent.tokens) = {}
  <2>1. NativeSolDelta(Transaction) = 0
    BY <1>1, NativeIs
  <2>2. TokenDelta(Transaction, "trader", WSOL) = 0
    BY <1>1, <1>2 DEF WSOL
  <2>3. Transaction.payer = "trader"
    BY DEF Transaction
  <2>. QED BY <2>1, <2>2, <2>3 DEF SolLegs, Opposite
<1>4. stables = <<2, 3>> \/ stables = <<3, 2>>
  BY DEF StableOrders, USDC, USDT
<1>5. PICK k \in DOMAIN stables : stables[k] = intent.quote
  BY <1>1, <1>4
<1>6. k \in Int /\ counter = {k}
  <2>1. \A i \in DOMAIN stables : stables[i] \in 1..3 /\ (stables[i] = intent.quote <=> i = k)
    BY <1>1, <1>4, <1>5
  <2>2. ~Opposite(0, intent.tokens)
    BY DEF Opposite
  <2>3. k \in Int
    BY <1>4, <1>5
  <2>. QED BY <1>1, <1>2, <1>5, <2>1, <2>2, <2>3
<1>7. Min({k}) = k
  <2>1. IsFiniteSet({k}) /\ {k} \subseteq Int /\ {k} # {}
    BY <1>6, FS_Singleton
  <2>. QED BY <2>1, MinIn
<1>8. TokenDelta(Transaction, "trader", intent.quote) = intent.amount
  BY <1>1, <1>2
<1>. QED BY <1>3, <1>5, <1>6, <1>7, <1>8

(* What is shown of the trade: events of it, and of its price if that is a *)
(* token, whose venue and pool are certain.                                *)
TradeEvent(e) ==
    /\ PoolCertain(e) /\ "venue" \in DOMAIN e
    /\ ShowsTrade(e) \/ (intent.quote \notin QuoteMints /\ ShowsPrice(e))
TradeEvents(s) ==
    /\ \E V : s \in Seq(V) /\ \A e \in V : TradeEvent(e)
    /\ s # <<>> =>
         /\ \E i \in DOMAIN s : ShowsTrade(s[i])
         /\ intent.quote \notin QuoteMints => \E i \in DOMAIN s : ShowsPrice(s[i])

(* An event of the inference, for a venue whose pool is certain.           *)
LEMMA InferredIs ==
  ASSUME TradeTypeOK, intent # None, NEW stables \in StableOrders, NEW program, NEW pool,
         NEW venue, venue = [dex |-> DexOf(program), program |-> program, pool |-> pool],
         \A e : e.venue = venue => PoolCertain(e)
  PROVE  LET s == InferSwapEvents(Transaction, program, pool, stables)
         IN  TradeEvents(s) /\ s # <<>>
<1>. DEFINE s == InferSwapEvents(Transaction, program, pool, stables)
            t == intent.token
            n == intent.tokens
            q == intent.quote
            a == intent.amount
<1>1. Transaction.payer = "trader"
  BY DEF Transaction
<1>2. /\ t \in Nat /\ t > 3 /\ q \in Nat /\ q # t /\ n \in Int /\ n # 0 /\ a \in Int
      /\ Opposite(a, n) /\ rented \in Nat
  BY TradeNumbers DEF USDT, TradeTypeOK, Rent
<1>3. TokenDelta(Transaction, "trader", t) = n
  BY <1>2, TraderDelta DEF Moves
<1>4. CASE q \in QuoteMints
  <2>1. MovedTokens(Transaction, "trader") = {t}
    BY <1>4, MovedIs
  <2>2. s = TokenSwap(Transaction, venue, t, stables)
    <3>. DEFINE moved == MovedTokens(Transaction, "trader")
    <3>1. Cardinality(moved) = 1
      BY <2>1, FS_Singleton
    <3>2. s = TokenSwap(Transaction, venue, CHOOSE x \in moved : TRUE, stables)
      BY <1>1, <3>1 DEF InferSwapEvents
    <3>3. (CHOOSE x \in moved : TRUE) = t
      BY <2>1
    <3>. HIDE DEF moved, s, t
    <3>. QED BY <3>2, <3>3
  <2>3. \E e : s = <<e>> /\ e.venue = venue /\ ShowsTrade(e)
    <3>1. CASE q = WSOL
      <4>1. PICK legs : legs = SolLegs(Transaction, n)
        OBVIOUS
      <4>2. legs # {} /\ Abs(Abs(TradeLeg(legs)) - Abs(a)) <= rented
        BY <3>1, <4>1, LegIs
      <4>3. s = <<Event(Transaction, venue, t, n, WSOL, TradeLeg(legs))>>
        <5>. HIDE DEF s, t, n
        <5>. QED BY <1>1, <1>3, <2>2, <4>1, <4>2 DEF TokenSwap
      <4>4. Shows(Event(Transaction, venue, t, n, q, TradeLeg(legs)), t, n, q, a)
            /\ Event(Transaction, venue, t, n, q, TradeLeg(legs)).venue = venue
        <5>. HIDE DEF t, n, q, a
        <5>. QED BY <4>2, EventShows
      <4>. HIDE DEF s
      <4>. QED BY <3>1, <4>3, <4>4 DEF ShowsTrade
    <3>2. CASE q \in StableMints
      <4>1. PICK counter : counter = {i \in DOMAIN stables :
                             Opposite(TokenDelta(Transaction, "trader", stables[i]), n)}
        OBVIOUS
      <4>2. /\ SolLegs(Transaction, n) = {}
            /\ counter # {} /\ stables[Min(counter)] = q
            /\ TokenDelta(Transaction, "trader", q) = a
        BY <3>2, <4>1, StableIs
      <4>3. s = <<Event(Transaction, venue, t, n, q, a)>>
        <5>. HIDE DEF s, t, n, q, a
        <5>. QED BY <1>1, <1>3, <2>2, <4>1, <4>2 DEF TokenSwap
      <4>4. Abs(Abs(a) - Abs(a)) <= rented
        BY <1>2 DEF Abs
      <4>5. Shows(Event(Transaction, venue, t, n, q, a), t, n, q, a)
            /\ Event(Transaction, venue, t, n, q, a).venue = venue
        <5>. HIDE DEF t, n, q, a
        <5>. QED BY <4>4, EventShows
      <4>. HIDE DEF s
      <4>. QED BY <4>3, <4>5 DEF ShowsTrade
    <3>. QED BY <1>4, <3>1, <3>2 DEF QuoteMints
  <2>4. PICK e : s = <<e>> /\ e.venue = venue /\ ShowsTrade(e)
    BY <2>3
  <2>5. TradeEvent(e)
    BY <2>4 DEF TradeEvent, ShowsTrade, Shows
  <2>. HIDE DEF s
  <2>6. s \in Seq({e}) /\ s # <<>> /\ 1 \in DOMAIN s /\ s[1] = e
    BY <2>4
  <2>7. TradeEvents(s)
    <3>1. \E V : s \in Seq(V) /\ \A x \in V : TradeEvent(x)
      BY <2>5, <2>6
    <3>2. \E i \in DOMAIN s : ShowsTrade(s[i])
      BY <2>4, <2>6
    <3>. QED BY <1>4, <3>1, <3>2 DEF TradeEvents
  <2>. QED BY <2>6, <2>7 DEF s
<1>5. CASE q \notin QuoteMints
  <2>1. MovedTokens(Transaction, "trader") = {t, q}
    BY <1>5, MovedIs
  <2>2. TokenDelta(Transaction, "trader", q) = a
    BY <1>2, <1>5, TradeNumbers, TraderDelta DEF Moves, QuoteMints
  <2>3. PICK lo, hi : lo = Min({t, q}) /\ hi = Max({t, q})
    OBVIOUS
  <2>4. /\ IsFiniteSet({t, q}) /\ Cardinality({t, q}) = 2
        /\ {lo, hi} = {t, q}
    <3>2. IsFiniteSet({t, q}) /\ Cardinality({t, q}) = 2
      <4>1. t # q
        BY <1>2
      <4>. HIDE DEF t, q
      <4>. QED BY <4>1, PairCounts
    <3>4. {t, q} \subseteq Int /\ {t, q} # {}
      BY <1>2
    <3>5. /\ lo \in {t, q} /\ \A x \in {t, q} : lo <= x
          /\ hi \in {t, q} /\ \A x \in {t, q} : x <= hi
      <4>. HIDE DEF t, q
      <4>. QED BY <2>3, <3>2, <3>4, MinIn, MaxIn
    <3>. QED BY <1>2, <3>2, <3>5
  <2>5. s = TokenToToken(Transaction, venue, lo, hi)
    <3>. HIDE DEF t, q
    <3>. QED BY <1>1, <2>1, <2>3, <2>4 DEF InferSwapEvents
  <2>. DEFINE one == Event(Transaction, venue, t, n, q, a)
              two == Event(Transaction, venue, q, a, t, n)
  <2>6. s = <<one, two>> \/ s = <<two, one>>
    <3>1. Opposite(a, n) /\ Opposite(n, a)
      BY <1>2 DEF Opposite
    <3>2. (lo = t /\ hi = q) \/ (lo = q /\ hi = t)
      BY <1>2, <2>4
    <3>. HIDE DEF s, t, n, q, a
    <3>. QED BY <1>1, <1>3, <2>2, <2>5, <3>1, <3>2 DEF TokenToToken
  <2>7. ShowsTrade(one) /\ one.venue = venue /\ ShowsPrice(two) /\ two.venue = venue
    <3>1. Abs(Abs(a) - Abs(a)) <= rented /\ Abs(Abs(n) - Abs(n)) <= rented
      BY <1>2 DEF Abs
    <3>2. /\ Shows(one, t, n, q, a) /\ one.venue = venue
          /\ Shows(two, q, a, t, n) /\ two.venue = venue
      <4>. HIDE DEF t, n, q, a
      <4>. QED BY <3>1, EventShows
    <3>. HIDE DEF one, two
    <3>. QED BY <3>2 DEF ShowsTrade, ShowsPrice
  <2>. HIDE DEF one, two, s
  <2>8. TradeEvent(one) /\ TradeEvent(two)
    BY <1>5, <2>7 DEF TradeEvent, ShowsTrade, ShowsPrice, Shows
  <2>9. /\ s \in Seq({one, two}) /\ s # <<>> /\ 1 \in DOMAIN s /\ 2 \in DOMAIN s
        /\ (s[1] = one /\ s[2] = two) \/ (s[1] = two /\ s[2] = one)
    <3>1. ASSUME NEW x, NEW y, s = <<x, y>>
          PROVE  /\ s \in Seq({x, y}) /\ s # <<>> /\ 1 \in DOMAIN s /\ 2 \in DOMAIN s
                 /\ s[1] = x /\ s[2] = y
      BY <3>1
    <3>2. {two, one} = {one, two}
      OBVIOUS
    <3>. QED BY <2>6, <3>1, <3>2
  <2>10. TradeEvents(s)
    <3>1. \E V : s \in Seq(V) /\ \A e \in V : TradeEvent(e)
      BY <2>8, <2>9
    <3>2. (\E i \in DOMAIN s : ShowsTrade(s[i])) /\ (\E i \in DOMAIN s : ShowsPrice(s[i]))
      BY <2>7, <2>9
    <3>. QED BY <3>1, <3>2 DEF TradeEvents
  <2>. QED BY <2>9, <2>10 DEF s
<1>. QED BY <1>4, <1>5

(* No events are fine, and so are those of two parsers together.           *)
LEMMA TradeEventsJoin ==
  ASSUME NEW s, NEW t, TradeEvents(s), TradeEvents(t)
  PROVE  TradeEvents(s \o t) /\ (s \o t = <<>> <=> s = <<>> /\ t = <<>>)
<1>1. PICK V : s \in Seq(V) /\ \A e \in V : TradeEvent(e)
  BY DEF TradeEvents
<1>2. PICK W : t \in Seq(W) /\ \A e \in W : TradeEvent(e)
  BY DEF TradeEvents
<1>3. s \in Seq(V \cup W) /\ t \in Seq(V \cup W)
  BY <1>1, <1>2, SeqDef
<1>4. /\ s \o t \in Seq(V \cup W)
      /\ Len(s) \in Nat /\ Len(t) \in Nat /\ Len(s \o t) = Len(s) + Len(t)
      /\ DOMAIN s = 1..Len(s) /\ DOMAIN t = 1..Len(t) /\ DOMAIN (s \o t) = 1..(Len(s) + Len(t))
      /\ \A i \in DOMAIN s : (s \o t)[i] = s[i]
      /\ \A i \in DOMAIN t : (s \o t)[Len(s) + i] = t[i]
  BY <1>3, ConcatProperties, LenProperties
<1>5. s \o t = <<>> <=> s = <<>> /\ t = <<>>
  BY <1>3, <1>4, EmptySeq
<1>6. \E V2 : s \o t \in Seq(V2) /\ \A e \in V2 : TradeEvent(e)
  BY <1>1, <1>2, <1>4
<1>7. ASSUME s \o t # <<>>
      PROVE  /\ \E i \in DOMAIN (s \o t) : ShowsTrade((s \o t)[i])
             /\ intent.quote \notin QuoteMints
                  => \E i \in DOMAIN (s \o t) : ShowsPrice((s \o t)[i])
  <2>1. \A i \in DOMAIN s : i \in DOMAIN (s \o t)
    BY <1>4
  <2>2. \A i \in DOMAIN t : Len(s) + i \in DOMAIN (s \o t)
    BY <1>4
  <2>3. CASE s # <<>>
    BY <1>4, <2>1, <2>3 DEF TradeEvents
  <2>4. CASE t # <<>>
    BY <1>4, <2>2, <2>4 DEF TradeEvents
  <2>. QED BY <1>5, <1>7, <2>3, <2>4
<1>. QED BY <1>5, <1>6, <1>7 DEF TradeEvents

(* None of them are fine too.                                              *)
LEMMA NoTradeEvents == TradeEvents(<<>>)
<1>1. PICK s, V : s = <<>> /\ V = {}
  OBVIOUS
<1>2. s \in Seq(V) /\ \A e \in V : TradeEvent(e)
  BY <1>1, EmptySeq
<1>. QED BY <1>1, <1>2 DEF TradeEvents

(* The calls of the route are of the known kinds.                          *)
LEMMA RouteIs ==
  ASSUME TradeTypeOK
  PROVE  /\ Transaction.calls = route /\ DOMAIN route = 1..Len(route) /\ Len(route) \in Nat
         /\ \A i \in DOMAIN route :
              /\ route[i].program \in PumpPrograms \cup RaydiumPrograms \cup JupiterPrograms
                                        \cup {"orca", "unknown"}
              /\ route[i].form = "swap" => route[i].account # None
<1>1. DOMAIN route = 1..Len(route) /\ Len(route) \in Nat
  BY LenProperties DEF TradeTypeOK
<1>2. \A i \in DOMAIN route : route[i] \in HopKinds
  BY <1>1, ElementOfSeq DEF TradeTypeOK
<1>. QED BY <1>1, <1>2, HopsAreCalls DEF Transaction

(* Some of the route's calls have a first one.                             *)
LEMMA FirstCall ==
  ASSUME TradeTypeOK, NEW calls, calls \subseteq DOMAIN route, calls # {}
  PROVE  Min(calls) \in calls
<1>1. IsFiniteSet(1..Len(route)) /\ calls \subseteq 1..Len(route) /\ calls \subseteq Int
  <2>1. DOMAIN route = 1..Len(route) /\ Len(route) \in Int /\ 1 \in Int
    BY RouteIs
  <2>2. IsFiniteSet(1..Len(route))
    BY <2>1, FS_Interval
  <2>. QED BY <2>1, <2>2
<1>. QED BY <1>1, FS_Subset, MinIn

(* A parser recognises the transaction if it calls one of its programs,    *)
(* and then tells the trade.                                               *)
Recognised(s, programs) ==
    TradeEvents(s) /\ (s = <<>> <=> Calls(Transaction, programs) = {})

(* An event without a certain pool says nothing wrong about it.            *)
LEMMA PoollessCertain ==
  ASSUME NEW e, e.venue.pool = None \/ e.venue.program \in PumpPrograms
  PROVE  PoolCertain(e)
BY DEF PoolCertain

(* pump.fun.                                                               *)
LEMMA PumpParses ==
  ASSUME TradeTypeOK, intent # None, NEW stables \in StableOrders
  PROVE  Recognised(ParsePump(Transaction, stables), PumpPrograms)
<1>. DEFINE program == PumpProgram(Transaction)
            pool == PumpPool(Transaction, program)
            venue == [dex |-> DexOf(program), program |-> program, pool |-> pool]
<1>1. CASE Calls(Transaction, PumpPrograms) = {}
  BY <1>1, NoTradeEvents DEF ParsePump, Recognised
<1>2. CASE Calls(Transaction, PumpPrograms) # {}
  <2>1. \A e : e.venue = venue => PoolCertain(e)
    <3>1. program \in PumpPrograms
      BY DEF PumpProgram, PumpPrograms
    <3>. HIDE DEF program, pool
    <3>2. venue.program = program
      OBVIOUS
    <3>. HIDE DEF venue
    <3>. QED BY <3>1, <3>2, PoollessCertain
  <2>2. ParsePump(Transaction, stables) = InferSwapEvents(Transaction, program, pool, stables)
    BY <1>2 DEF ParsePump
  <2>3. /\ TradeEvents(InferSwapEvents(Transaction, program, pool, stables))
        /\ InferSwapEvents(Transaction, program, pool, stables) # <<>>
    <3>. HIDE DEF program, pool
    <3>. QED BY <2>1, InferredIs
  <2>. HIDE DEF program, pool
  <2>. QED BY <1>2, <2>2, <2>3 DEF Recognised
<1>. QED BY <1>1, <1>2

(* Jupiter.                                                                *)
LEMMA JupiterParses ==
  ASSUME TradeTypeOK, intent # None, NEW stables \in StableOrders
  PROVE  Recognised(ParseJupiter(Transaction, stables), JupiterPrograms)
<1>. DEFINE program == JupiterProgram(Transaction)
            venue == [dex |-> DexOf(program), program |-> program, pool |-> None]
<1>1. CASE Calls(Transaction, JupiterPrograms) = {}
  BY <1>1, NoTradeEvents DEF ParseJupiter, Recognised
<1>2. CASE Calls(Transaction, JupiterPrograms) # {}
  <2>1. \A e : e.venue = venue => PoolCertain(e)
    <3>. HIDE DEF program
    <3>1. venue.pool = None
      OBVIOUS
    <3>. HIDE DEF venue
    <3>. QED BY <3>1, PoollessCertain
  <2>2. ParseJupiter(Transaction, stables) = InferSwapEvents(Transaction, program, None, stables)
    BY <1>2 DEF ParseJupiter
  <2>3. /\ TradeEvents(InferSwapEvents(Transaction, program, None, stables))
        /\ InferSwapEvents(Transaction, program, None, stables) # <<>>
    <3>. HIDE DEF program
    <3>. QED BY <2>1, InferredIs
  <2>. HIDE DEF program
  <2>. QED BY <1>2, <2>2, <2>3 DEF Recognised
<1>. QED BY <1>1, <1>2

(* Raydium: if its swaps agree, the pool is that of each.                  *)
LEMMA RaydiumParses ==
  ASSUME TradeTypeOK, intent # None, NEW stables \in StableOrders
  PROVE  Recognised(ParseRaydium(Transaction, stables), RaydiumPrograms)
<1>. DEFINE ours == Calls(Transaction, RaydiumPrograms)
            swaps == {i \in ours : Transaction.calls[i].form = "swap"}
            first == Min(IF swaps # {} THEN swaps ELSE ours)
            program == Transaction.calls[first].program
            pool == RaydiumPool(Transaction, swaps)
            venue == [dex |-> DexOf(program), program |-> program, pool |-> pool]
<1>1. CASE ours = {}
  BY <1>1, NoTradeEvents DEF ParseRaydium, Recognised
<1>2. CASE ours # {}
  <2>1. ours \subseteq DOMAIN route /\ swaps \subseteq DOMAIN route /\ Transaction.calls = route
    BY RouteIs DEF Calls
  <2>2. program \in RaydiumPrograms
    <3>1. first \in ours
      <4>. HIDE DEF ours
      <4>. QED BY <1>2, <2>1, FirstCall
    <3>. HIDE DEF first
    <3>. QED BY <3>1 DEF Calls
  <2>3. pool # None => \A i \in swaps : route[i].account = pool
    <3>. DEFINE f == [i \in DOMAIN route |-> <<route[i].program, route[i].account>>]
                used == {f[i] : i \in swaps}
    <3>1. used = {<<Transaction.calls[i].program, Transaction.calls[i].account>> : i \in swaps}
      BY <2>1
    <3>2. CASE Cardinality(used) = 1 /\ swaps # {}
      <4>1. IsFiniteSet(used)
        <5>1. IsFiniteSet(swaps)
          <6>1. IsFiniteSet(DOMAIN route)
            BY RouteIs, FS_Interval
          <6>. HIDE DEF swaps
          <6>. QED BY <2>1, <6>1, FS_Subset
        <5>. HIDE DEF f, swaps
        <5>. QED BY <5>1, ImageFinite
      <4>2. PICK x : used = {x}
        <5>. HIDE DEF used
        <5>. QED BY <3>2, <4>1, FS_Singleton
      <4>3. Min(swaps) \in swaps
        <5>. HIDE DEF swaps
        <5>. QED BY <2>1, <3>2, FirstCall
      <4>4. pool = route[Min(swaps)].account
        <5>1. pool = Transaction.calls[Min(swaps)].account
          <6>. HIDE DEF swaps
          <6>. QED BY <3>1, <3>2 DEF RaydiumPool
        <5>. HIDE DEF pool, swaps
        <5>. QED BY <2>1, <5>1
      <4>5. \A i \in swaps : f[i] = x /\ f[i] = <<route[i].program, route[i].account>>
        <5>. HIDE DEF swaps
        <5>. QED BY <2>1, <4>2
      <4>. HIDE DEF pool, swaps, f
      <4>. QED BY <4>3, <4>4, <4>5
    <3>3. CASE Cardinality(used) # 1
      <4>1. pool = None
        <5>. HIDE DEF swaps
        <5>. QED BY <3>1, <3>3 DEF RaydiumPool
      <4>. QED BY <4>1
    <3>4. CASE swaps = {}
      BY <3>4
    <3>. QED BY <3>2, <3>3, <3>4
  <2>4. \A e : e.venue = venue => PoolCertain(e)
    <3>1. SUFFICES ASSUME NEW e, e.venue = venue, pool # None PROVE PoolCertain(e)
      <4>. HIDE DEF program
      <4>1. venue.pool = pool
        OBVIOUS
      <4>. HIDE DEF venue, pool
      <4>. QED BY <4>1, PoollessCertain
    <3>2. DexOf(program) = program
      <4>. HIDE DEF program
      <4>. QED BY <2>2 DEF DexOf, RaydiumPrograms, JupiterPrograms
    <3>3. e.venue.dex \in RaydiumPrograms /\ e.venue.pool = pool
      <4>1. venue.dex = DexOf(program) /\ venue.pool = pool
        OBVIOUS
      <4>. HIDE DEF program, pool, venue
      <4>. QED BY <2>2, <3>1, <3>2, <4>1
    <3>4. \A i \in ours : route[i].form = "swap" => route[i].account = pool
      <4>. HIDE DEF pool, ours
      <4>. QED BY <2>1, <2>3, <3>1
    <3>. HIDE DEF pool, program, venue
    <3>. QED BY <3>3, <3>4 DEF PoolCertain
  <2>5. ParseRaydium(Transaction, stables) = InferSwapEvents(Transaction, program, pool, stables)
    BY <1>2 DEF ParseRaydium
  <2>6. /\ TradeEvents(InferSwapEvents(Transaction, program, pool, stables))
        /\ InferSwapEvents(Transaction, program, pool, stables) # <<>>
    <3>. HIDE DEF program, pool
    <3>. QED BY <2>4, InferredIs
  <2>. HIDE DEF program, pool
  <2>. QED BY <1>2, <2>5, <2>6 DEF Recognised
<1>. QED BY <1>1, <1>2

(* Orca: the pool is that of every swap.                                   *)
LEMMA OrcaParses ==
  ASSUME TradeTypeOK, intent # None, NEW stables \in StableOrders
  PROVE  Recognised(ParseOrca(Transaction, stables), {"orca"})
<1>. DEFINE ours == Calls(Transaction, {"orca"})
            swaps == {i \in ours : Transaction.calls[i].form = "swap"}
            named == {Transaction.calls[i].account : i \in swaps} \ {None}
            pool == OrcaPool(Transaction)
            venue == [dex |-> DexOf("orca"), program |-> "orca", pool |-> pool]
<1>1. CASE ours = {}
  BY <1>1, NoTradeEvents DEF ParseOrca, Recognised
<1>2. CASE ours # {}
  <2>1. swaps \subseteq DOMAIN route /\ Transaction.calls = route
    BY RouteIs DEF Calls
  <2>2. pool # None => \A i \in swaps : route[i].account = pool
    <3>1. SUFFICES ASSUME pool # None PROVE \A i \in swaps : route[i].account = pool
      OBVIOUS
    <3>2. Cardinality(named) = 1 /\ pool = CHOOSE p \in named : TRUE
      BY <3>1 DEF OrcaPool
    <3>3. IsFiniteSet(named)
      <4>. DEFINE f == [i \in DOMAIN route |-> route[i].account]
                  accounts == {f[i] : i \in DOMAIN route}
      <4>1. IsFiniteSet(DOMAIN route)
        BY RouteIs, FS_Interval
      <4>2. IsFiniteSet(accounts)
        <5>. HIDE DEF f
        <5>. QED BY <4>1, ImageFinite
      <4>3. named \subseteq accounts
        <5>. HIDE DEF swaps
        <5>. QED BY <2>1
      <4>. HIDE DEF accounts, named
      <4>. QED BY <4>2, <4>3, FS_Subset
    <3>4. PICK x : named = {x}
      <4>. HIDE DEF named
      <4>. QED BY <3>2, <3>3, FS_Singleton
    <3>5. pool = x
      <4>. HIDE DEF named, pool
      <4>. QED BY <3>2, <3>4
    <3>6. \A i \in swaps : route[i].account # None
      BY <2>1, RouteIs
    <3>7. \A i \in swaps : route[i].account \in named
      BY <2>1, <3>6
    <3>. HIDE DEF named, pool, swaps
    <3>. QED BY <3>4, <3>5, <3>7
  <2>3. \A e : e.venue = venue => PoolCertain(e)
    <3>1. SUFFICES ASSUME NEW e, e.venue = venue, pool # None PROVE PoolCertain(e)
      <4>1. venue.pool = pool
        OBVIOUS
      <4>. HIDE DEF venue, pool
      <4>. QED BY <4>1, PoollessCertain
    <3>2. /\ e.venue.dex = "orca" /\ e.venue.program = "orca" /\ e.venue.pool = pool
          /\ "orca" \notin RaydiumPrograms
      <4>. HIDE DEF pool
      <4>. QED BY <3>1 DEF DexOf, JupiterPrograms, RaydiumPrograms
    <3>3. \A i \in ours : route[i].form = "swap" => route[i].account = pool
      <4>. HIDE DEF pool, ours
      <4>. QED BY <2>1, <2>2, <3>1
    <3>. HIDE DEF pool, venue
    <3>. QED BY <3>2, <3>3 DEF PoolCertain
  <2>4. ParseOrca(Transaction, stables) = InferSwapEvents(Transaction, "orca", pool, stables)
    BY <1>2 DEF ParseOrca
  <2>5. /\ TradeEvents(InferSwapEvents(Transaction, "orca", pool, stables))
        /\ InferSwapEvents(Transaction, "orca", pool, stables) # <<>>
    <3>. HIDE DEF pool
    <3>. QED BY <2>3, InferredIs
  <2>. HIDE DEF pool
  <2>. QED BY <1>2, <2>4, <2>5 DEF Recognised
<1>. QED BY <1>1, <1>2

(* A route that some parser knows.                                         *)
Known == \E i \in DOMAIN route : route[i].program # "unknown"

(* All venues together tell the trade if one of them is known.             *)
LEMMA VenuesTell ==
  ASSUME TradeTypeOK, intent # None, NEW stables \in StableOrders
  PROVE  /\ TradeEvents(VenueEvents(Transaction, stables))
         /\ VenueEvents(Transaction, stables) = <<>> <=> ~Known
<1>. DEFINE tx == Transaction
            pump == ParsePump(tx, stables)
            raydium == ParseRaydium(tx, stables)
            orca == ParseOrca(tx, stables)
            jupiter == ParseJupiter(tx, stables)
            venues == pump \o raydium \o orca
<1>1. /\ Recognised(pump, PumpPrograms) /\ Recognised(raydium, RaydiumPrograms)
      /\ Recognised(orca, {"orca"}) /\ Recognised(jupiter, JupiterPrograms)
  BY PumpParses, RaydiumParses, OrcaParses, JupiterParses
<1>2. VenueEvents(tx, stables) = IF venues # <<>> THEN venues ELSE jupiter
  BY DEF VenueEvents
<1>3. Known <=> \/ Calls(tx, PumpPrograms) # {} \/ Calls(tx, RaydiumPrograms) # {}
                \/ Calls(tx, {"orca"}) # {} \/ Calls(tx, JupiterPrograms) # {}
  <2>1. \A programs : Calls(tx, programs) = {i \in DOMAIN route : route[i].program \in programs}
    BY RouteIs DEF Calls
  <2>2. "unknown" \notin PumpPrograms \cup RaydiumPrograms \cup JupiterPrograms \cup {"orca"}
    BY DEF PumpPrograms, RaydiumPrograms, JupiterPrograms
  <2>3. \A i \in DOMAIN route : route[i].program \in PumpPrograms \cup RaydiumPrograms
                                   \cup JupiterPrograms \cup {"orca", "unknown"}
    BY RouteIs
  <2>. HIDE DEF tx
  <2>. QED BY <2>1, <2>2, <2>3 DEF Known
<1>. HIDE DEF pump, raydium, orca, jupiter, tx
<1>4. TradeEvents(pump \o raydium) /\ (pump \o raydium = <<>> <=> pump = <<>> /\ raydium = <<>>)
  BY <1>1, TradeEventsJoin DEF Recognised
<1>5. TradeEvents(venues) /\ (venues = <<>> <=> pump \o raydium = <<>> /\ orca = <<>>)
  BY <1>1, <1>4, TradeEventsJoin DEF Recognised
<1>. HIDE DEF venues
<1>6. Known <=> pump # <<>> \/ raydium # <<>> \/ orca # <<>> \/ jupiter # <<>>
  <2>1. /\ pump = <<>> <=> Calls(tx, PumpPrograms) = {}
        /\ raydium = <<>> <=> Calls(tx, RaydiumPrograms) = {}
        /\ orca = <<>> <=> Calls(tx, {"orca"}) = {}
        /\ jupiter = <<>> <=> Calls(tx, JupiterPrograms) = {}
    BY <1>1 DEF Recognised, tx
  <2>. QED BY <1>3, <2>1
<1>7. /\ TradeEvents(VenueEvents(tx, stables))
      /\ VenueEvents(tx, stables) = <<>> <=> ~Known
  <2>1. CASE venues = <<>>
    <3>1. VenueEvents(tx, stables) = jupiter
      BY <1>2, <2>1
    <3>2. Known <=> jupiter # <<>>
      BY <1>4, <1>5, <1>6, <2>1
    <3>. QED BY <1>1, <3>1, <3>2 DEF Recognised
  <2>2. CASE venues # <<>>
    <3>1. VenueEvents(tx, stables) = venues
      BY <1>2, <2>2
    <3>2. Known
      BY <1>4, <1>5, <1>6, <2>2
    <3>. QED BY <1>5, <2>2, <3>1, <3>2
  <2>. QED BY <2>1, <2>2
<1>. QED BY <1>7 DEF tx

(* The trade and its price have keys of their own.                         *)
LEMMA KeysAre ==
  ASSUME TradeTypeOK, intent # None, NEW e, NEW g
  PROVE  /\ ShowsTrade(e) /\ ShowsTrade(g) => SwapKey(e) = SwapKey(g)
         /\ ShowsPrice(e) /\ ShowsPrice(g) => SwapKey(e) = SwapKey(g)
         /\ ~(ShowsTrade(e) /\ ShowsPrice(g) /\ SwapKey(e) = SwapKey(g))
<1>1. intent.quote # intent.token
  BY TradeNumbers
<1>. QED BY <1>1 DEF ShowsTrade, ShowsPrice, Shows, Parsed, SwapKey

(* What is left when equal swaps are removed: the trade once, and its      *)
(* price once if that is a token.                                          *)
Told(s) ==
    /\ \A i \in DOMAIN s : TradeEvent(s[i])
    /\ IF intent.quote \in QuoteMints THEN Len(s) = 1 /\ ShowsTrade(s[1])
       ELSE Len(s) = 2 /\ \E i \in {1, 2} : ShowsTrade(s[i]) /\ ShowsPrice(s[3 - i])

(* Removing equal swaps leaves just that.                                  *)
LEMMA DedupTells ==
  ASSUME TradeTypeOK, intent # None, NEW events, TradeEvents(events), NEW kept,
         kept = Deduped(events)
  PROVE  /\ \E V : kept \in Seq(V)
         /\ IF events = <<>> THEN kept = <<>> ELSE Told(kept)
<1>1. PICK V : events \in Seq(V) /\ \A e \in V : TradeEvent(e)
  BY DEF TradeEvents
<1>2. /\ kept \in Seq(V)
      /\ \A n \in DOMAIN kept : \E i \in DOMAIN events : kept[n] = events[i]
      /\ \A m, n \in DOMAIN kept : SwapKey(kept[m]) = SwapKey(kept[n]) => m = n
      /\ \A i \in DOMAIN events : \E n \in DOMAIN kept : SwapKey(kept[n]) = SwapKey(events[i])
  BY <1>1, DedupIs
<1>3. /\ DOMAIN kept = 1..Len(kept) /\ Len(kept) \in Nat
      /\ DOMAIN events = 1..Len(events) /\ Len(events) \in Nat
  BY <1>1, <1>2, LenProperties
<1>4. CASE events = <<>>
  <2>1. DOMAIN events = {}
    BY <1>4
  <2>2. DOMAIN kept = {}
    BY <1>2, <2>1
  <2>3. Len(kept) = 0
    BY <1>3, <2>2
  <2>4. kept = <<>>
    BY <1>2, <2>3, EmptySeq
  <2>. QED BY <1>2, <1>4, <2>4
<1>5. CASE events # <<>>
  <2>1. \A n \in DOMAIN kept : TradeEvent(kept[n])
    <3>1. \A n \in DOMAIN kept : kept[n] \in V
      BY <1>2, <1>3, ElementOfSeq
    <3>. QED BY <1>1, <3>1
  <2>2. PICK i \in DOMAIN events : ShowsTrade(events[i])
    BY <1>5 DEF TradeEvents
  <2>3. PICK a \in DOMAIN kept : SwapKey(kept[a]) = SwapKey(events[i])
    BY <1>2
  <2>4. \A n \in DOMAIN kept :
           ShowsTrade(kept[n]) \/ (intent.quote \notin QuoteMints /\ ShowsPrice(kept[n]))
    BY <2>1 DEF TradeEvent
  <2>5. ShowsTrade(kept[a])
    BY <2>2, <2>3, <2>4, KeysAre
  <2>6. \A n \in DOMAIN kept : ShowsTrade(kept[n]) => n = a
    BY <1>2, <2>5, KeysAre
  <2>7. CASE intent.quote \in QuoteMints
    <3>1. \A n \in DOMAIN kept : n = a
      BY <2>4, <2>6, <2>7
    <3>2. 1 \in DOMAIN kept /\ Len(kept) \in DOMAIN kept
      BY <1>3
    <3>3. a = 1 /\ Len(kept) = 1
      BY <3>1, <3>2
    <3>4. Told(kept)
      BY <2>1, <2>5, <2>7, <3>3 DEF Told
    <3>. QED BY <1>2, <1>5, <3>4
  <2>8. CASE intent.quote \notin QuoteMints
    <3>1. PICK j \in DOMAIN events : ShowsPrice(events[j])
      BY <1>5, <2>8 DEF TradeEvents
    <3>2. PICK b \in DOMAIN kept : SwapKey(kept[b]) = SwapKey(events[j])
      BY <1>2
    <3>3. ShowsPrice(kept[b])
      BY <2>4, <3>1, <3>2, KeysAre
    <3>4. \A n \in DOMAIN kept : n = a \/ n = b
      BY <1>2, <2>4, <2>6, <3>3, KeysAre
    <3>5. a # b
      BY <2>5, <3>3, KeysAre
    <3>6. Len(kept) = 2 /\ a \in {1, 2} /\ b = 3 - a
      <4>1. Len(kept) >= 2
        BY <1>3, <3>5
      <4>2. 1 \in DOMAIN kept /\ 2 \in DOMAIN kept /\ Len(kept) \in DOMAIN kept
        BY <1>3, <4>1
      <4>. QED BY <1>3, <3>4, <3>5, <4>2
    <3>7. Told(kept)
      BY <2>1, <2>5, <2>8, <3>3, <3>6 DEF Told
    <3>. QED BY <1>2, <1>5, <3>7
  <2>. QED BY <2>7, <2>8
<1>. QED BY <1>4, <1>5

(* Naming the aggregator changes nothing of that.                          *)
LEMMA TaggedTells ==
  ASSUME NEW V, NEW kept \in Seq(V), Told(kept), NEW tag, NEW s, s = Tagged(kept, tag)
  PROVE  Told(s)
<1>1. DOMAIN kept = 1..Len(kept) /\ Len(kept) \in Nat
  BY LenProperties
<1>2. DOMAIN s = DOMAIN kept /\ \A i \in DOMAIN s : s[i] = [kept[i] EXCEPT !.aggregator = tag]
  BY DEF Tagged
<1>3. s = [i \in 1..Len(kept) |-> s[i]]
  BY <1>1 DEF Tagged
<1>4. Len(s) = Len(kept)
  <2>1. s \in Seq({s[i] : i \in 1..Len(kept)})
    BY <1>1, <1>3, SeqDef
  <2>2. DOMAIN s = 1..Len(s) /\ Len(s) \in Nat
    BY <2>1, LenProperties
  <2>. QED BY <1>1, <1>2, <2>2
<1>5. ASSUME NEW e, NEW g, g = [e EXCEPT !.aggregator = tag], TradeEvent(e)
      PROVE  TradeEvent(g) /\ (ShowsTrade(e) => ShowsTrade(g)) /\ (ShowsPrice(e) => ShowsPrice(g))
  <2>1. {"wallet", "venue", "side", "token", "quote", "tokens", "paid"} \subseteq DOMAIN e
        /\ DOMAIN g = DOMAIN e
    BY <1>5 DEF TradeEvent, ShowsTrade, ShowsPrice, Shows
  <2>2. /\ g.wallet = e.wallet /\ g.venue = e.venue /\ g.side = e.side /\ g.token = e.token
        /\ g.quote = e.quote /\ g.tokens = e.tokens /\ g.paid = e.paid
    BY <1>5, <2>1
  <2>3. PoolCertain(g)
    BY <1>5, <2>2 DEF PoolCertain, TradeEvent
  <2>4. (ShowsTrade(e) => ShowsTrade(g)) /\ (ShowsPrice(e) => ShowsPrice(g))
    BY <2>1, <2>2 DEF ShowsTrade, ShowsPrice, Shows, Parsed
  <2>. QED BY <1>5, <2>1, <2>3, <2>4 DEF TradeEvent
<1>6. \A i \in DOMAIN s :
        /\ TradeEvent(s[i])
        /\ ShowsTrade(kept[i]) => ShowsTrade(s[i])
        /\ ShowsPrice(kept[i]) => ShowsPrice(s[i])
  BY <1>2, <1>5 DEF Told
<1>7. CASE intent.quote \in QuoteMints
  BY <1>1, <1>2, <1>4, <1>6, <1>7 DEF Told
<1>8. CASE intent.quote \notin QuoteMints
  <2>1. Len(kept) = 2 /\ DOMAIN s = 1..2
    BY <1>1, <1>2, <1>8 DEF Told
  <2>2. PICK i \in {1, 2} : ShowsTrade(kept[i]) /\ ShowsPrice(kept[3 - i])
    BY <1>8 DEF Told
  <2>3. i \in DOMAIN s /\ 3 - i \in DOMAIN s
    BY <2>1
  <2>4. ShowsTrade(s[i]) /\ ShowsPrice(s[3 - i])
    BY <1>6, <2>2, <2>3
  <2>. QED BY <1>4, <1>6, <1>8, <2>1, <2>4 DEF Told
<1>. QED BY <1>7, <1>8

(* What is read off the transaction is the trade.                          *)
LEMMA TradeRead ==
  ASSUME TradeTypeOK
  PROVE  TradeRecovered
<1>. SUFFICES ASSUME intent # None, NEW stables \in StableOrders, NEW events,
                     events = ParseTransaction(Transaction, stables)
              PROVE  /\ \A i \in DOMAIN events : PoolCertain(events[i])
                     /\ IF txFailed \/ ~Known THEN events = <<>>
                        ELSE IF intent.quote \in QuoteMints
                        THEN /\ Len(events) = 1
                             /\ Parsed(events[1], intent.token, intent.tokens, intent.quote,
                                       intent.amount)
                        ELSE /\ Len(events) = 2
                             /\ \E i \in {1, 2} :
                                  /\ Parsed(events[i], intent.token, intent.tokens,
                                            intent.quote, intent.amount)
                                  /\ Parsed(events[3 - i], intent.quote, intent.amount,
                                            intent.token, intent.tokens)
  BY DEF TradeRecovered, Known
<1>1. Transaction.failed = txFailed /\ Transaction.payer = "trader" /\ "trader" # None
  BY HopsAreCalls DEF Transaction
<1>2. CASE txFailed
  BY <1>1, <1>2 DEF ParseTransaction
<1>3. CASE ~txFailed
  <2>1. PICK found : found = VenueEvents(Transaction, stables)
    OBVIOUS
  <2>2. TradeEvents(found) /\ (found = <<>> <=> ~Known)
    BY <2>1, VenuesTell
  <2>3. PICK kept : kept = Deduped(found)
    OBVIOUS
  <2>4. PICK tag : tag = Aggregator(Transaction)
    OBVIOUS
  <2>5. events = Tagged(kept, tag)
    BY <1>1, <1>3, <2>1, <2>3, <2>4 DEF ParseTransaction
  <2>6. PICK V : kept \in Seq(V)
    BY <2>2, <2>3, DedupTells
  <2>7. CASE ~Known
    <3>1. kept = <<>>
      BY <2>2, <2>3, <2>7, DedupTells
    <3>2. events = <<>>
      BY <2>5, <3>1 DEF Tagged
    <3>. QED BY <2>7, <3>2
  <2>8. CASE Known
    <3>1. Told(kept)
      BY <2>2, <2>3, <2>8, DedupTells
    <3>2. Told(events)
      BY <2>5, <2>6, <3>1, TaggedTells
    <3>. QED BY <1>3, <2>8, <3>2 DEF Told, TradeEvent, ShowsTrade, ShowsPrice, Shows
  <2>. QED BY <2>7, <2>8
<1>. QED BY <1>2, <1>3

(* parsers/__init__.py reads a trade off the balances of whoever paid for  *)
(* the transaction: over any route, through any venues, with a tip and the *)
(* rent of an account, the events are the trade, once, with the exact      *)
(* amount of its token and a price off by the rent at most; a failed       *)
(* transaction has none, and a pool is named only if every swap of its     *)
(* venue went through it.                                                  *)
THEOREM TradeRecoveredHolds == TradeInit /\ [][TradeNext]_tradeVars => []TradeRecovered
<1>1. TradeInit => TradeTypeOK
  <2>1. SUFFICES ASSUME TradeInit PROVE TradeTypeOK
    OBVIOUS
  <2>2. <<>> \in Seq(HopKinds)
    BY EmptySeq
  <2>. QED BY <2>1, <2>2 DEF TradeInit, TradeTypeOK
<1>. QED BY <1>1, TradeTypeStep, TradeRead, PTL

=============================================================================
