------------------------- MODULE PointerTableProofs -------------------------
(* What the pointer shift leaves behind, what a search loop finds, and     *)
(* induction over the slots of a table.                                    *)
EXTENDS PointerTable, WellFoundedInduction, TLAPS

(* The pointer shift of RemoveSession yields a table that is one shorter   *)
(* and holds the elements on either side of the removed one.               *)
LEMMA ShiftFacts ==
    ASSUME NEW S, NEW seq \in Seq(S), NEW i \in 1 .. Len(seq)
    PROVE  /\ Shift(seq, i) \in Seq(S)
           /\ Len(Shift(seq, i)) = Len(seq) - 1
           /\ \A j \in 1 .. Len(seq) - 1 :
                 Shift(seq, i)[j] = IF j < i THEN seq[j] ELSE seq[j + 1]
<1> DEFINE n == Len(seq) - 1
           f == Shift(seq, i)
<1>1. n \in Nat /\ Len(seq) \in Nat
  OBVIOUS
<1>2. f = [j \in 1 .. n |-> IF j < i THEN seq[j] ELSE seq[j + 1]]
  BY DEF Shift
<1>3. \A j \in 1 .. n : f[j] = IF j < i THEN seq[j] ELSE seq[j + 1]
  BY <1>2, Zenon
<1>4. \A j \in 1 .. n : f[j] \in S
  BY <1>1, <1>3
<1>5. f \in [1 .. n -> S]
  BY <1>2, <1>4, Zenon
<1>6. f \in Seq(S) /\ Len(f) = n
  BY <1>1, <1>5
<1> QED
  BY <1>3, <1>6

(* A set of natural numbers has a least element.                           *)
LEMMA LeastExists ==
    ASSUME NEW S, S \subseteq Nat, S # {}
    PROVE  \E m \in S : \A k \in S : m <= k
<1>1. IsWellFoundedOn(OpToRel(<, Nat), Nat)
  BY NatLessThanWellFounded
<1>2. PICK m \in S : \A k \in S : ~(<<k, m>> \in OpToRel(<, Nat))
  BY <1>1, WFMin
<1>3. \A k \in S : ~(k < m)
  BY <1>2 DEF OpToRel
<1> QED
  BY <1>3

(* A search loop that finds anything stops at the least slot that fits.    *)
LEMMA FirstFacts ==
    ASSUME NEW S, S \subseteq Nat, S # {}
    PROVE  First(S) \in S /\ \A k \in S : First(S) <= k
BY LeastExists DEF First

(* Induction up to n, for what a set of numbers expresses.  (The library's *)
(* induction rules take an operator; this one follows from LeastExists.)   *)
LEMMA CountUp ==
    ASSUME NEW n \in Nat, NEW S, 0 \in S, \A k \in 1 .. n : k - 1 \in S => k \in S
    PROVE  \A k \in 0 .. n : k \in S
<1> SUFFICES ASSUME NEW b \in 0 .. n, b \notin S PROVE FALSE
  OBVIOUS
<1> DEFINE Out == {k \in 0 .. n : k \notin S}
<1>1. Out \subseteq Nat /\ b \in Out
  OBVIOUS
<1> HIDE DEF Out
<1>2. PICK m \in Out : \A k \in Out : m <= k
  BY <1>1, LeastExists
<1> QED
  BY <1>2 DEF Out
=============================================================================
