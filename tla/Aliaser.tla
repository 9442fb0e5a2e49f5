------------------------------ MODULE Aliaser ------------------------------
(***************************************************************************)
(* The table behind RegisterNodes and UnregisterNodes (Aliaser.c): a node  *)
(* that is registered gets a number in the alias namespace, by which       *)
(* clients may name it until somebody unregisters that number.             *)
(***************************************************************************)
EXTENDS Naturals, Sequences, PointerTable

CONSTANTS Nodes,   \* NodeIds of the address space
          NoNode   \* the null pointer

ASSUME NoNodeAssumption == NoNode \notin Nodes

VARIABLES table,   \* the slots of aliasNodes and originalNodes
          lifo     \* ghost: only the last entry was ever removed

aliasVars == <<table, lifo>>

Entry == [alias : Nat, original : Nodes]

Slots == 1 .. Len(table)

AliasInit == table = <<>> /\ lifo = TRUE

(* Mutant: the comparison stops at type and namespace of the id.           *)
GetOriginalAnyNumber(a) == IF a \in Nat /\ table # <<>>
                           THEN table[1].original ELSE NoNode

(* ID_Aliaser_GetOriginal.                                                 *)
GetOriginal(a) ==
    LET hits == {i \in Slots : table[i].alias = a}
    IN  IF hits = {} THEN NoNode ELSE table[First(hits)].original

(* The services use the id as it came when it is no alias.                 *)
Resolved(id) == IF GetOriginal(id) # NoNode THEN GetOriginal(id) ELSE id

Registered(n) == \E i \in Slots : table[i].original = n

(* Mutant: the table is not searched first.                                *)
RegisterNodeAgain(n) ==
    /\ Len(table) < 4
    /\ table' = Append(table, [alias |-> Len(table) + 1, original |-> n])
    /\ UNCHANGED lifo

(* ID_UA_RegisterNodes with a node of the address space: the alias it      *)
(* already has, or Count + 1.  Any other id is handed back as it came.     *)
RegisterNode(n) ==
    /\ table' = IF Registered(n) THEN table
                ELSE Append(table, [alias |-> Len(table) + 1, original |-> n])
    /\ UNCHANGED lifo

(* ID_UA_UnregisterNodes: the first entry with the alias, whoever asked    *)
(* for it, leaves the table.                                               *)
UnregisterNode(a) ==
    LET hits == {i \in Slots : table[i].alias = a}
    IN  /\ hits # {}
        /\ \E i \in hits : /\ \A j \in hits : i <= j
                           /\ table' = Shift(table, i)
                           /\ lifo' = (lifo /\ i = Len(table))

AliasNext == \/ \E n \in Nodes : RegisterNode(n)
             \/ \E i \in Slots : UnregisterNode(table[i].alias)

AliasSpec == AliasInit /\ [][AliasNext]_aliasVars

-----------------------------------------------------------------------------
AliasTypeOK == table \in Seq(Entry) /\ lifo \in BOOLEAN

(* However registrations and removals interleave, a node is in the table   *)
(* at most once, so registering it twice yields one alias.                 *)
OneAliasPerNode == \A i, j \in Slots :
                      table[i].original = table[j].original => i = j

(* As long as only the most recent alias is ever unregistered, every alias *)
(* in the table leads to the node it was handed out for.                   *)
AliasResolves == \A i \in Slots :
                    GetOriginal(table[i].alias) = table[i].original
LifoAliasesResolve == lifo => AliasResolves

(* Slot i holds alias i while removals are last in, first out.             *)
AliasInv == /\ AliasTypeOK
            /\ OneAliasPerNode
            /\ lifo => \A i \in Slots : table[i].alias = i
=============================================================================
