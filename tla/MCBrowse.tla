------------------------------ MODULE MCBrowse ------------------------------
(* Instances of Browse for TLC: one node with five references of two types *)
(* in both directions, and one without references.                         *)
EXTENDS Browse, TLC

CONSTANTS n1, n2, organizes, property

MCReferences ==
    (n1 :> <<[type |-> property, dir |-> "forward"],
             [type |-> organizes, dir |-> "inverse"],
             [type |-> property, dir |-> "inverse"],
             [type |-> property, dir |-> "inverse"],
             [type |-> organizes, dir |-> "inverse"]>>)
    @@ (n2 :> <<>>)
MCCovers == (property :> {property})
Symmetry == Permutations(Tokens)
=============================================================================
