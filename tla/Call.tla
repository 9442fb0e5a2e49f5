-------------------------------- MODULE Call --------------------------------
(***************************************************************************)
(* Call (Access.c) on top of the alias table: the way from the method and  *)
(* the object that a client names to the function that runs.  The address  *)
(* space is what start-up has built.  A request lists entries, one method  *)
(* each, that are handled one after the other; every one of them is given  *)
(* the InputArgumentResults of the first.                                  *)
(***************************************************************************)
EXTENDS Aliaser

CONSTANTS Space,        \* for each node its class, references and attributes
          Registrable,  \* nodes that clients register (bound)
          Counts,       \* numbers of arguments that clients send (bound)
          UnknownId,      \* an id that names nothing
          NullId        \* the null NodeId

ASSUME CallAssumption ==
    /\ DOMAIN Space = Nodes
    /\ Registrable \subseteq Nodes
    /\ Counts \subseteq Nat
    /\ {UnknownId, NullId} \cap Nodes = {} /\ UnknownId # NullId

VARIABLES result,  \* the last CallMethodRequest, what came of it, and what ran
          codes    \* the InputArgumentResults[0] of the first entry

callVars == <<table, lifo, result, codes>>

Ids == Nodes \cup {UnknownId, NullId} \cup {table[i].alias : i \in Slots}

NoResult == [method |-> NullId, object |-> NullId, args |-> 0, status |-> "None", ran |-> NoNode]

CallInit == AliasInit /\ result = NoResult /\ codes = "None"

-----------------------------------------------------------------------------
(* The target of a node's first reference of a type and direction.         *)
Target(n, type, inverse) ==
    LET hits == {k \in DOMAIN Space[n].refs : /\ Space[n].refs[k].type = type
                                              /\ Space[n].refs[k].inverse = inverse}
    IN  IF hits = {} THEN NoNode ELSE Space[n].refs[First(hits)].target

(* Mutant: the parents of the parent are not looked at.                    *)
IsTypeASubtypeofBOnce(sub, parent) ==
    sub \in Nodes /\ (sub = parent \/ Target(sub, "HasSubtype", TRUE) = parent)

(* ID_AddressSpace_IsTypeASubtypeofB climbs from parent to parent.         *)
IsTypeASubtypeofB(sub, parent) ==
    LET climbs[n \in Nodes \cup {NoNode}] ==
          n # NoNode /\ (n = parent \/ climbs[Target(n, "HasSubtype", TRUE)])
    IN  sub \in Nodes /\ parent \in Nodes /\ climbs[sub]

(* ID_GetInputArguments: the property of that name, if the method has one. *)
InputArguments(m) ==
    {Space[m].refs[k].target : k \in {j \in DOMAIN Space[m].refs :
        /\ Space[m].refs[j].type = "HasProperty" /\ ~Space[m].refs[j].inverse
        /\ Space[Space[m].refs[j].target].name = "InputArguments"}}

(* The nodes that have a method as a component.                            *)
Owners(m) ==
    {Space[m].refs[k].target : k \in {j \in DOMAIN Space[m].refs :
        Space[m].refs[j].type = "HasComponent" /\ Space[m].refs[j].inverse}}

Types == {n \in Nodes :
            Space[n].class \in {"ObjectType", "VariableType", "ReferenceType", "DataType"}}

(* The address space that start-up has built.  Aliases have a namespace of *)
(* their own.  Subtypes are added below types that exist; a method becomes *)
(* a component of one node, gets one list of arguments, and is executable  *)
(* once it has its function.                                               *)
ASSUME BuiltAssumption ==
    /\ \A n \in Nodes : n \notin Nat /\ DOMAIN Space[n].refs \subseteq Nat /\ Space[n].length \in Nat
    /\ \A n \in Nodes : Target(n, "HasSubtype", TRUE) # NoNode =>
                          n \in Types /\ Target(n, "HasSubtype", TRUE) \in Types
    /\ \A S \in SUBSET Types : S # {} => \E n \in S : Target(n, "HasSubtype", TRUE) \notin S
    /\ \A m \in Nodes : Space[m].class = "Method" =>
          /\ Owners(m) \subseteq Nodes /\ \A o, p \in Owners(m) : o = p
          /\ InputArguments(m) \subseteq Nodes /\ \A v, w \in InputArguments(m) : v = w
          /\ Space[m].executable => Space[m].function

(* The type of the object, searched by the id that the client has sent.    *)
SuppliedObjType(id) == IF Space[id].class = "Object" THEN Target(id, "HasTypeDefinition", FALSE)
                       ELSE NoNode

(* Mutant: an object of any type will do.                                  *)
OwnsAnyType(object, type, owner) ==
    object = owner \/ IsTypeASubtypeofB(object, owner) \/ type # NoNode

Owns(object, type, owner) == \/ object = owner
                             \/ IsTypeASubtypeofB(object, owner)
                             \/ IsTypeASubtypeofB(type, owner)

(* One entry of ID_UA_Call, from the checks on the method over those on    *)
(* the arguments to the function.  An object that FindNodeWithID does not  *)
(* know is dereferenced all the same, and a function that meets an         *)
(* argument of the wrong type notes that in the array of the first entry,  *)
(* which has none if it was refused.                                       *)
CallMethod(method, object, args, mistyped) ==
    LET m == Resolved(method)
        first == codes = "None"
        given == IF first THEN "Good" ELSE codes
        Answer(status, ran) == result' = [method |-> method, object |-> object, args |-> args,
                                         status |-> status, ran |-> ran]
        Refuse(status) == Answer(status, NoNode) /\ codes' = IF first THEN "Null" ELSE codes
        owner == Target(m, "HasComponent", TRUE)
        inputs == InputArguments(m)
        declared == Space[CHOOSE v \in inputs : TRUE].length
    IN  IF m \notin Nodes \/ Space[m].class # "Method" THEN Refuse("BadMethodInvalid")
        ELSE IF ~Space[m].executable /\ ~Space[m].userExecutable THEN Refuse("BadUserAccessDenied")
        ELSE IF ~Space[m].function THEN Refuse("BadNotImplemented")
        ELSE IF owner = NoNode \/ object = NullId THEN Refuse("BadNodeIdInvalid")
        ELSE IF object \notin Nodes THEN Refuse("Crash")
        ELSE IF ~Owns(Resolved(object), SuppliedObjType(object), owner) THEN Refuse("BadTypeMismatch")
        ELSE IF inputs = {} \/ declared > args THEN Refuse("BadArgumentsMissing")
        ELSE IF declared < args THEN Refuse("BadTooManyArguments")
        ELSE IF args = 0 \/ ~mistyped THEN Answer("Ran", m) /\ codes' = given
        ELSE IF given = "Null" THEN Answer("Crash", m) /\ codes' = codes
        ELSE Answer("Ran", m) /\ codes' = "BadTypeMismatch"

Idle == result = NoResult /\ codes = "None"

Answered == result.status \notin {"None", "Crash"}

CallEntry == /\ result = NoResult
             /\ \E method, object \in Ids, args \in Counts, mistyped \in BOOLEAN :
                   CallMethod(method, object, args, mistyped)
             /\ UNCHANGED aliasVars

NextEntry == /\ Answered
             /\ result' = NoResult
             /\ UNCHANGED <<aliasVars, codes>>

Sent == /\ Answered
        /\ result' = NoResult /\ codes' = "None"
        /\ UNCHANGED aliasVars

RegisterNodes == Idle /\ (\E n \in Registrable : RegisterNode(n)) /\ UNCHANGED <<result, codes>>

UnregisterNodes == /\ Idle /\ (\E i \in Slots : UnregisterNode(table[i].alias))
                   /\ UNCHANGED <<result, codes>>

CallNext == CallEntry \/ NextEntry \/ Sent \/ RegisterNodes \/ UnregisterNodes

CallSpec == CallInit /\ [][CallNext]_callVars

-----------------------------------------------------------------------------
(* Properties.                                                             *)

(* What an id stands for: a node, or what some entry of the table says.    *)
StandsFor(id, n) == id = n \/ \E i \in Slots : table[i].alias = id /\ table[i].original = n

(* A type is a subtype of every type that no set closed under parents,     *)
(* with the first in it, can leave out.                                    *)
Closed(S) == \A n \in S : Target(n, "HasSubtype", TRUE) \in S \cup {NoNode}
Is(n, type) == n = type \/ (n \in Types /\ \A S \in SUBSET Types : n \in S /\ Closed(S) => type \in S)

(* A method may be called on the object that has it as a component, and,   *)
(* if that is a type, on its subtypes and on objects of any of them.       *)
Entitled(object, m) ==
    \E owner \in Owners(m) :
       \/ Is(object, owner)
       \/ Space[object].class = "Object" /\ Is(Target(object, "HasTypeDefinition", FALSE), owner)

(* Whatever ids and aliases a client sends, a function runs only for a     *)
(* method that the id stands for, on an object that is entitled to it, and *)
(* with as many arguments as the method declares, whichever entries came   *)
(* before it in the request.                                               *)
RunsOnlyEntitled ==
    result.ran # NoNode =>
       /\ StandsFor(result.method, result.ran)
       /\ Space[result.ran].function
       /\ Space[result.ran].executable \/ Space[result.ran].userExecutable
       /\ Entitled(result.object, result.ran)
       /\ \A v \in InputArguments(result.ran) : Space[v].length = result.args

(* The other way round, for methods that declare arguments: a request that *)
(* names node, object and arguments as it should is not refused.           *)
EntitledRuns ==
    result.status \notin {"None", "Ran", "Crash"} /\ {result.method, result.object} \subseteq Nodes
       /\ Space[result.method].class = "Method" /\ Space[result.method].executable
       /\ Entitled(result.object, result.method) /\ InputArguments(result.method) # {}
    => \A v \in InputArguments(result.method) : Space[v].length # result.args

(* README.md:105 ends a sequence of calls with "SQLDisconnect()": a method *)
(* that declares no arguments runs when it is called without any.          *)
PlainCallRuns ==
    ~(/\ result.status = "BadArgumentsMissing"
      /\ {result.method, result.object} \subseteq Nodes
      /\ InputArguments(result.method) = {} /\ result.args = 0)

(* Aliaser.h:20 says "Adds an alias for Original nodeid": an alias of the  *)
(* object serves as well as its id.                                        *)
AliasNamesObject ==
    result.status = "Crash" /\ result.ran = NoNode => ~\E n \in Nodes : StandsFor(result.object, n)
=============================================================================
