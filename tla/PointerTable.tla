---------------------------- MODULE PointerTable ----------------------------
(* The pointer arrays in which the session manager, the aliaser and the    *)
(* continuer keep their entries, in use from slot 0 to Count - 1.          *)
EXTENDS Naturals, Sequences

(* The pointers behind slot i move down by one.                            *)
Shift(seq, i) == [j \in 1 .. Len(seq) - 1 |-> IF j < i THEN seq[j]
                                                       ELSE seq[j + 1]]

(* The search loops stop at the first slot that satisfies the comparison.  *)
First(S) == CHOOSE i \in S : \A j \in S : i <= j
=============================================================================
