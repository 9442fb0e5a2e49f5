---------------------------- MODULE MCTranslate ----------------------------
(* Three nodes, two of one name, and a reference type with a subtype.      *)
EXTENDS Translate

CONSTANTS n1, n2, n3, references, component, same, different

MCNodes == {n1, n2, n3}
MCName == n1 :> same @@ n2 :> same @@ n3 :> different
MCSupertype == references :> NoNode @@ component :> references
MCMayRegister == {n1}
=============================================================================
