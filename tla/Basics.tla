------------------------------- MODULE Basics -------------------------------
(* What the models of the background services share.                       *)
EXTENDS Integers, Sequences, SequencesExt, FiniteSets, FiniteSetsExt, Sums, TLC

CONSTANT None   \* an absent value: SQL NULL, Python None, a missing key

Abs(x) == IF x < 0 THEN -x ELSE x
Clamp(x, lo, hi) == IF x < lo THEN lo ELSE IF x > hi THEN hi ELSE x

(* Where x lies between lo and hi, in percent.                             *)
Linear(x, lo, hi) == Clamp((100 * (x - lo)) \div (hi - lo), 0, 100)

(* An amount that is absent counts as nothing.                             *)
OrZero(x) == IF x = None THEN 0 ELSE x

Sum(S, f(_)) == FoldSet(LAMBDA x, acc : f(x) + acc, 0, S)
Total(s) == SumOver(s, DOMAIN s)
Ending(s, n) == SubSeq(s, Max({1, Len(s) - n + 1}), Len(s))

(* The nth smallest of a set of numbers.                                   *)
Nth(S, n) == CHOOSE i \in S : Cardinality({j \in S : j <= i}) = n

(* The elements of a sequence at some places, in order.                    *)
At(s, places) == [n \in 1..Cardinality(places) |-> s[Nth(places, n)]]

Mean(s) == Total(s) \div Len(s)
Median(s) ==
    LET ordered == SortSeq(s, LAMBDA a, b : a < b)
        mid == Len(s) \div 2
    IN  IF Len(s) % 2 = 1 THEN ordered[mid + 1] ELSE (ordered[mid] + ordered[mid + 1]) \div 2
Rounded(a, b) == (2 * a + b) \div (2 * b)
Root(x) == CHOOSE r \in 0..x : r * r <= x /\ x < (r + 1) * (r + 1)
Deviation(s) == Root(Mean([i \in DOMAIN s |-> (s[i] - Mean(s)) * (s[i] - Mean(s))]))
=============================================================================
