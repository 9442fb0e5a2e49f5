----------------------------- MODULE Continuer -----------------------------
(***************************************************************************)
(* The table of continuation points (Continuer.c).  Only the network       *)
(* thread uses it, so an operation is one step.  Its mutex is recursive.   *)
(***************************************************************************)
EXTENDS Naturals, Sequences, PointerTable

CONSTANTS Tokens,       \* authentication tokens of sessions
          Counters,     \* what malloc may leave in InternalCounter
          MaxAdded      \* bound: continuation points ever created

ASSUME ContinuerAssumption ==
    /\ Counters \subseteq Nat
    /\ MaxAdded \in Nat

VARIABLES points,     \* ContinuationPoints[0 .. NoOfElements-1]
          counter,    \* InternalCounter
          depth,      \* how often ContinuationMutex is locked
          added       \* bound: points created so far

pointVars == <<points, counter, depth, added>>

(* ID_Continuer_Create leaves InternalCounter as malloc returned it.       *)
ContinuerInit ==
    /\ points = <<>>
    /\ counter \in Counters
    /\ depth = 0
    /\ added = 0

-----------------------------------------------------------------------------
(* The identifier of the n-th point: the loop that counts the digits of n  *)
(* divides n down to its leading digit, and that is what is printed into a *)
(* zero-filled buffer with room for all digits.                            *)
Digits(n) == CHOOSE d \in 1 .. 10 : n < 10 ^ d /\ (d = 1 \/ n >= 10 ^ (d - 1))
Identifier(n) == [lead |-> n \div 10 ^ (Digits(n) - 1), length |-> Digits(n)]

(* ID_Continuer_AddContinuationPoint and the caller's SessionId: the point *)
(* keeps node, direction and batch size, while the reference type filter   *)
(* of the request is reset to null before it is copied.                    *)
AddContinuationPoint(p) ==
    /\ added < MaxAdded
    /\ points' = Append(points, p)
    /\ counter' = counter + 1
    /\ added' = added + 1
    /\ UNCHANGED depth

(* The slots that hold an identifier.                                      *)
Holding(seq, id) == {i \in 1 .. Len(seq) : seq[i].id = id}

(* ID_Continuer_GetContinuationPoint: the slot, or 0.                      *)
GetContinuationPoint(id) ==
    IF Holding(points, id) = {} THEN 0 ELSE First(Holding(points, id))

(* ID_Continuer_RemoveContinuationPoint on the table seq.                  *)
Without(seq, id) == IF Holding(seq, id) = {} THEN seq
                    ELSE Shift(seq, First(Holding(seq, id)))

(* Mutant: returns without unlocking.                                      *)
RemoveContinuationPointLocked(id) ==
    /\ points' = Without(points, id)
    /\ depth' = depth + 1
    /\ UNCHANGED <<counter, added>>

(* The mutex stays locked when no point has the identifier.                *)
RemoveContinuationPoint(id) ==
    /\ points' = Without(points, id)
    /\ depth' = IF Holding(points, id) = {} THEN depth + 1 ELSE depth
    /\ UNCHANGED <<counter, added>>

(* Mutant: the slots are visited in ascending order.                       *)
PurgedUpward(s) ==
    LET n == Len(points)
        After[k \in 0 .. n] ==
            IF k = 0 THEN points
            ELSE LET seq == After[k - 1]
                 IN  IF k <= Len(seq) /\ seq[k].sess = s
                     THEN Without(seq, seq[k].id) ELSE seq
    IN  After[n]

(* ID_Continuer_RemoveContinuationPointWithSession: from the last slot     *)
(* down, a slot of the session removes the first point that has its        *)
(* identifier.                                                             *)
Purged(s) ==
    LET n == Len(points)
        After[k \in 0 .. n] ==      \* the table when k slots were looked at
            IF k = 0 THEN points
            ELSE LET seq == After[k - 1]
                     i == n - k + 1
                 IN  IF seq[i].sess = s THEN Without(seq, seq[i].id) ELSE seq
    IN  After[n]

RemoveContinuationPointWithSession(s) ==
    /\ points' = Purged(s)
    /\ UNCHANGED <<counter, depth, added>>
=============================================================================
