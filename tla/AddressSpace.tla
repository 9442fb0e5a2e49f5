---------------------------- MODULE AddressSpace ----------------------------
(***************************************************************************)
(* The nodes of the server and the references between them: how the tables *)
(* of UASpace build them when the server starts (AddressSpaceHelper), how  *)
(* an instance inherits the references of its type (InheritReferences and  *)
(* CloneNode, whose recursion is a stack of frames here, one step for each *)
(* reference), where fresh identifiers come from (Indexer), and what       *)
(* RemoveNode leaves behind once the server is running.  Start-up runs on  *)
(* one thread; NodeTable is about the threads of the running server.       *)
(***************************************************************************)
EXTENDS Naturals, Sequences, PointerTable

CONSTANTS Standard,       \* identifiers of namespace 0 the tables still give out
          Reserved,       \* indices kept for the nodes of the database
          Indices,        \* the indices handed out (bound)
          Names,          \* browse names the tables give to children
          TableRules,     \* modelling rules the tables give
          TableLinks,     \* kinds of references they hang objects and methods by
          BuildTypes,     \* kinds of nodes a folder is made to organize
          OptionalProps,  \* optional properties a component is given
          MaxNodes,       \* nodes of the space before a table adds to it (bound)
          MaxSessions,    \* session nodes (bound)
          MaxRemoved      \* nodes removed while the server runs (bound)

VARIABLES nodes,      \* allNodes[0 .. count - 1]
          nextIndex,  \* the Indexer's nextIndex
          frames,     \* the calls of InheritReferences under way, the last on top
          pending,    \* properties the current helper has still to create
          build,      \* BuildReferencesOfTypeToNode under way, or <<>>
          running,    \* start-up is over
          removing,   \* RemoveNode under way, or <<>>
          sessions,   \* how many session nodes were created
          removed     \* how many nodes were removed

spaceVars == <<nodes, nextIndex, frames, pending, build, running, removing, sessions, removed>>

NoId == <<>>
NoName == <<>>
PropertyType == <<0, 68>>
Mandatory    == <<0, 78>>
Optional     == <<0, 80>>
Placeholder  == <<0, 83>>   \* for the two placeholder rules and ExposesItsArray
Rules        == {Mandatory, Optional, Placeholder}
Types        == {"ObjectType", "VariableType"}
Ids          == ({0} \X (Standard \cup {68, 78, 80, 83})) \cup ({1} \X (Reserved \cup Indices))

RefTypes == {"HasProperty", "HasComponent", "HasTypeDefinition", "HasSubtype",
             "HasModellingRule", "Organizes", "Other"}
Refs == [type : RefTypes, target : Ids, inverse : BOOLEAN]

ASSUME SpaceAssumption == /\ Standard \subseteq Nat /\ Reserved \subseteq Nat
                          /\ Indices \subseteq Nat
                          /\ {68, 78, 80, 83} \cap Standard = {}
                          /\ TableRules \subseteq Rules
                          /\ TableLinks \subseteq RefTypes \ {"HasModellingRule"}
                          /\ OptionalProps \in Seq(STRING)

-----------------------------------------------------------------------------
NewNode(id, type, name) == [id |-> id, type |-> type, name |-> name, refs |-> <<>>]
Ref(type, target, inverse) == [type |-> type, target |-> target, inverse |-> inverse]

Exists(ns, id) == \E i \in DOMAIN ns : ns[i].id = id

(* FindNodeWithID walks from the last node to the first.                   *)
FindNode(ns, id) ==
  CHOOSE i \in DOMAIN ns : ns[i].id = id /\ \A j \in DOMAIN ns : ns[j].id = id => j <= i

Node(ns, id) == ns[FindNode(ns, id)]

AddUniReference(ns, source, target, type, inverse) ==
  [ns EXCEPT ![FindNode(ns, source)].refs = Append(@, Ref(type, target, inverse))]

AddBiReference(ns, source, target, type) ==
  AddUniReference(AddUniReference(ns, source, target, type, FALSE),
                  target, source, type, TRUE)

(* A property hangs under its parent with its type and its modelling rule. *)
CreateProperty(ns, parent, id, name, rule) ==
  LET created == Append(ns, NewNode(id, "Variable", name))
      typed   == AddBiReference(created, id, PropertyType, "HasTypeDefinition")
      ruled   == AddUniReference(typed, id, rule, "HasModellingRule", FALSE)
  IN  AddBiReference(ruled, parent, id, "HasProperty")

(* Some reference of the node, of whatever kind, leads to that BrowseName. *)
NameTaken(ns, id, name) ==
  LET refs == Node(ns, id).refs
  IN  \E k \in DOMAIN refs : Exists(ns, refs[k].target) /\ Node(ns, refs[k].target).name = name

(* Mutant: the reserved indices are not stepped over.                      *)
NextIndexPlain(last) == {n \in Indices : n = last + 1}

(* GetNextIndex: the least index above the last one that is not reserved.  *)
NextIndex(last) == {n \in Indices : /\ n > last /\ n \notin Reserved
                                    /\ \A m \in last + 1 .. n - 1 : m \in Reserved}

(* The reciprocals of the references of old, modelling rules left out, are *)
(* pointed at new; then the node itself changes its identifier.            *)
MapNodeToId(ns, old, new) ==
  LET at == FindNode(ns, old)
      Reciprocal(r, holder) == \E k \in DOMAIN ns[at].refs :
          /\ ns[at].refs[k].type = r.type /\ r.type # "HasModellingRule"
          /\ ns[at].refs[k].target = holder
          /\ ns[at].refs[k].inverse # r.inverse
      Retarget(r, holder) ==
          IF r.target = old /\ Reciprocal(r, holder) THEN [r EXCEPT !.target = new] ELSE r
  IN  [i \in DOMAIN ns |->
         [ns[i] EXCEPT !.id = IF i = at THEN new ELSE @,
                       !.refs = [k \in DOMAIN @ |-> Retarget(@[k], ns[i].id)]]]

-----------------------------------------------------------------------------
SpaceInit == /\ nodes = <<NewNode(PropertyType, "VariableType", <<0, "PropertyType">>)>>
             /\ nextIndex = 0
             /\ frames = <<>> /\ pending = <<>> /\ build = <<>>
             /\ running = FALSE
             /\ removing = <<>> /\ sessions = 0 /\ removed = 0

Quiet == frames = <<>> /\ pending = <<>> /\ build = <<>> /\ removing = <<>>

(* A table of UASpace calls the next helper.                               *)
StartUp == ~running /\ Quiet /\ Len(nodes) < MaxNodes

(* The tables use every identifier once: the next one of theirs.           *)
Given(ns, S) == LET unused == {k \in S : ~Exists(nodes, <<ns, k>>)}
                IN  {<<ns, k>> : k \in {k \in unused : \A m \in unused : k <= m}}

(* A property whose identifier is the index n.                             *)
IndexedProperty(ns, parent, n, name, rule) == CreateProperty(ns, parent, <<1, n>>, <<0, name>>, rule)

CallInherit(source, target, then) ==
  frames' = Append(frames, [source |-> source, target |-> target, i |-> 1, then |-> then])

(* CreateVariableTypeNode.                                                 *)
CreateVariableType(id, parent) ==
  LET created == Append(nodes, NewNode(id, "VariableType", <<0, "VariableType">>))
      Versioned(n) == IndexedProperty(created, id, n, "NodeVersion", Mandatory)
  IN  /\ StartUp
      /\ \E n \in NextIndex(nextIndex) :
           /\ nodes' = IF parent = NoId THEN Versioned(n)
                       ELSE AddBiReference(Versioned(n), parent, id, "HasSubtype")
           /\ nextIndex' = n
      /\ UNCHANGED <<frames, pending, build, running, removing, sessions, removed>>

(* CreateObjectType without a parent, and with one, whose clone it is.     *)
CreateBaseObjectType(id) ==
  LET created == Append(nodes, NewNode(id, "ObjectType", <<0, "ObjectType">>))
      Iconed(n) == IndexedProperty(created, id, n, "Icon", Mandatory)
  IN  /\ StartUp
      /\ \E n \in NextIndex(nextIndex) : \E m \in NextIndex(n) :
           /\ nodes' = IndexedProperty(Iconed(n), id, m, "NodeVersion", Mandatory)
           /\ nextIndex' = m
      /\ UNCHANGED <<frames, pending, build, running, removing, sessions, removed>>

CreateObjectSubtype(id, parent) ==
  /\ StartUp
  /\ nodes' = Append(nodes, NewNode(id, "ObjectType", Node(nodes, parent).name))
  /\ CallInherit(parent, id, [op |-> "subtype", name |-> <<0, "Subtype">>])
  /\ UNCHANGED <<nextIndex, pending, build, running, removing, sessions, removed>>

(* CreateMethodNode, with the arguments (input or output) if there are any.*)
CreateMethod(id, arguments) ==
  LET created == Append(nodes, NewNode(id, "Method", <<0, "Method">>))
      Versioned(n) == IndexedProperty(created, id, n, "NodeVersion", Mandatory)
  IN  /\ StartUp
      /\ \E n \in NextIndex(nextIndex) :
           /\ nodes' = IF arguments = NoId THEN Versioned(n)
                       ELSE CreateProperty(Versioned(n), id, arguments, <<0, "Arguments">>, Mandatory)
           /\ nextIndex' = n
      /\ UNCHANGED <<frames, pending, build, running, removing, sessions, removed>>

(* A row of a table of properties, then a row of a table of components.    *)
AddProperty(id, parent, name, rule) ==
  /\ StartUp
  /\ nodes' = CreateProperty(nodes, parent, id, <<0, name>>, rule)
  /\ UNCHANGED <<nextIndex, frames, pending, build, running, removing, sessions, removed>>

CreateComponent(id, parent, type, name, rule) ==
  /\ StartUp
  /\ nodes' = Append(nodes, NewNode(id, "Variable", <<0, name>>))
  /\ CallInherit(type, id, [op |-> "component", name |-> <<0, name>>, parent |-> parent,
                            rule |-> rule, props |-> <<"NodeVersion">> \o OptionalProps])
  /\ UNCHANGED <<nextIndex, pending, build, running, removing, sessions, removed>>

(* CreateVariable: as a component, without the properties of its own; it   *)
(* is named, as objects and cloned methods are, when it has inherited.     *)
CreateVariable(id, parent, type, name, rule) ==
  /\ StartUp
  /\ nodes' = Append(nodes, NewNode(id, "Variable", NoName))
  /\ CallInherit(type, id, [op |-> "component", name |-> <<0, name>>, parent |-> parent,
                            rule |-> rule, props |-> <<>>])
  /\ UNCHANGED <<nextIndex, pending, build, running, removing, sessions, removed>>

CreateObjectFromObjectType(id, type, name) ==
  /\ StartUp
  /\ nodes' = Append(nodes, NewNode(id, "Object", NoName))
  /\ CallInherit(type, id, [op |-> "object", name |-> name])
  /\ UNCHANGED <<nextIndex, pending, build, running, removing, sessions, removed>>

CloneMethod(id, method, arguments, name) ==
  /\ StartUp
  /\ nodes' = Append(nodes, NewNode(id, "Method", NoName))
  /\ CallInherit(method, id, [op |-> "method", name |-> name, arguments |-> arguments])
  /\ UNCHANGED <<nextIndex, pending, build, running, removing, sessions, removed>>

(* A table hangs an object or a method under a parent made before it and   *)
(* gives it a modelling rule.                                              *)
Hung(node) == \E k \in DOMAIN node.refs : node.refs[k].inverse

Attach(parent, child, link, rule) ==
  /\ StartUp
  /\ FindNode(nodes, parent) < FindNode(nodes, child)
  /\ ~Hung(Node(nodes, child))
  /\ nodes' = AddBiReference(AddUniReference(nodes, child, rule, "HasModellingRule", FALSE),
                             parent, child, link)
  /\ UNCHANGED <<nextIndex, frames, pending, build, running, removing, sessions, removed>>

-----------------------------------------------------------------------------
(* CreateComponentProperties: "if not exists" is asked of namespace 1, the *)
(* property is created in namespace 0.                                     *)
PropertyExists(parent, name) == NameTaken(nodes, parent, <<1, name>>)

CreateNextProperty ==
  LET p == Head(pending)
  IN  /\ pending # <<>> /\ frames = <<>>
      /\ \E n \in NextIndex(nextIndex) :
           IF PropertyExists(p.parent, p.name) THEN UNCHANGED <<nodes, nextIndex>>
           ELSE /\ nodes' = IndexedProperty(nodes, p.parent, n, p.name, p.rule)
                /\ nextIndex' = n
      /\ pending' = Tail(pending)
      /\ UNCHANGED <<frames, build, running, removing, sessions, removed>>

-----------------------------------------------------------------------------
(* InheritReferences: the reference the loop of the call on top looks at.  *)
Top == frames[Len(frames)]
SourceRefs == Node(nodes, Top.source).refs
AtReference == frames # <<>> /\ Top.i <= Len(SourceRefs)
Current == SourceRefs[Top.i]
Advance == frames' = [frames EXCEPT ![Len(frames)].i = @ + 1]

ChildLink(type) == type \in {"HasProperty", "HasComponent"}

(* Only a mandatory child is inherited, and by a type a placeholder too.   *)
ShouldInherit(child, type) ==
  LET refs == Node(nodes, child).refs
  IN  \E k \in DOMAIN refs :
        /\ refs[k].type = "HasModellingRule"
        /\ \/ refs[k].target = Mandatory
           \/ type \in Types /\ refs[k].target = Placeholder

(* Mutant: the BrowseNames of the target are not looked at.                *)
WantedAlways == ~Current.inverse /\ ShouldInherit(Current.target, Node(nodes, Top.target).type)

Wanted == /\ ~Current.inverse
          /\ ShouldInherit(Current.target, Node(nodes, Top.target).type)
          /\ ~NameTaken(nodes, Top.target, Node(nodes, Current.target).name)

Linked == \/ Current.type = "HasTypeDefinition" /\ ~Current.inverse
          \/ Current.type = "Other"
          \/ /\ Current.type = "Organizes"
             /\ Node(nodes, Top.source).type = Node(nodes, Top.target).type

InheritRule ==
  /\ AtReference /\ Current.type = "HasModellingRule"
  /\ nodes' = AddUniReference(nodes, Top.target, Current.target, Current.type, Current.inverse)
  /\ Advance
  /\ UNCHANGED <<nextIndex, pending, build, running, removing, sessions, removed>>

(* A new node, a copy of the child, that inherits from the child in turn.  *)
CloneChild ==
  /\ AtReference /\ ChildLink(Current.type) /\ Wanted
  /\ \E n \in NextIndex(nextIndex) :
       /\ nodes' = Append(nodes, NewNode(<<1, n>>, Node(nodes, Current.target).type,
                                                   Node(nodes, Current.target).name))
       /\ CallInherit(Current.target, <<1, n>>, [op |-> "clone"])
       /\ nextIndex' = n
  /\ UNCHANGED <<pending, build, running, removing, sessions, removed>>

InheritLink ==
  /\ AtReference /\ Linked
  /\ nodes' = IF Current.inverse
              THEN AddBiReference(nodes, Current.target, Top.target, Current.type)
              ELSE AddBiReference(nodes, Top.target, Current.target, Current.type)
  /\ Advance
  /\ UNCHANGED <<nextIndex, pending, build, running, removing, sessions, removed>>

SkipReference ==
  /\ AtReference /\ Current.type # "HasModellingRule"
  /\ ~(ChildLink(Current.type) /\ Wanted) /\ ~Linked
  /\ Advance
  /\ UNCHANGED <<nodes, nextIndex, pending, build, running, removing, sessions, removed>>

-----------------------------------------------------------------------------
(* InheritReferences returns to whoever called it.                         *)
Return == frames # <<>> /\ Top.i > Len(SourceRefs)
Pop == frames' = SubSeq(frames, 1, Len(frames) - 1)
Named == [nodes EXCEPT ![FindNode(nodes, Top.target)].name = Top.then.name]

(* To itself, through CloneNode: the clone becomes a child of the target.  *)
CloneReturns ==
  LET caller == frames[Len(frames) - 1]
  IN  /\ Return /\ Top.then.op = "clone"
      /\ nodes' = AddBiReference(nodes, caller.target, Top.target,
                                 Node(nodes, caller.source).refs[caller.i].type)
      /\ frames' = [SubSeq(frames, 1, Len(frames) - 1)
                      EXCEPT ![Len(frames) - 1].i = caller.i + 1]
      /\ UNCHANGED <<nextIndex, pending, build, running, removing, sessions, removed>>

ObjectReturns ==
  /\ Return /\ Top.then.op = "object"
  /\ nodes' = AddBiReference(Named, Top.target, Top.source, "HasTypeDefinition")
  /\ Pop
  /\ UNCHANGED <<nextIndex, pending, build, running, removing, sessions, removed>>

SubtypeReturns ==
  /\ Return /\ Top.then.op = "subtype"
  /\ nodes' = AddBiReference(Named, Top.source, Top.target, "HasSubtype")
  /\ Pop
  /\ UNCHANGED <<nextIndex, pending, build, running, removing, sessions, removed>>

ComponentReturns ==
  LET typed == AddBiReference(Named, Top.target, Top.source, "HasTypeDefinition")
      ruled == AddUniReference(typed, Top.target, Top.then.rule, "HasModellingRule", FALSE)
      props == Top.then.props
  IN  /\ Return /\ Top.then.op = "component"
      /\ nodes' = AddBiReference(ruled, Top.then.parent, Top.target, "HasComponent")
      /\ pending' = [k \in DOMAIN props |->
                       [parent |-> Top.target, name |-> props[k],
                        rule |-> IF props[k] = "NodeVersion" THEN Mandatory ELSE Optional]]
      /\ Pop
      /\ UNCHANGED <<nextIndex, build, running, removing, sessions, removed>>

(* CloneMethod gives the inherited arguments the identifier of the table.  *)
Arguments == {k \in DOMAIN Node(nodes, Top.target).refs :
                LET r == Node(nodes, Top.target).refs[k]
                IN  /\ r.type = "HasProperty" /\ ~r.inverse
                    /\ Exists(nodes, r.target)
                    /\ Node(nodes, r.target).name = <<0, "Arguments">>}

MethodReturns ==
  /\ Return /\ Top.then.op = "method"
  /\ nodes' = IF Top.then.arguments = NoId \/ Arguments = {} THEN Named
              ELSE MapNodeToId(Named, Node(nodes, Top.target).refs[First(Arguments)].target,
                               Top.then.arguments)
  /\ Pop
  /\ UNCHANGED <<nextIndex, pending, build, running, removing, sessions, removed>>

-----------------------------------------------------------------------------
(* BuildReferencesOfTypeToNode: from the last node to the first, target    *)
(* organizes those of the type that have no such reference to it yet.      *)
Missing(node, type, target) ==
  /\ node.type = type /\ node.id # target
  /\ ~\E k \in DOMAIN node.refs : node.refs[k].type = "Organizes" /\ node.refs[k].target = target

BuildReferences(type, target) ==
  /\ StartUp
  /\ \E i \in DOMAIN nodes : Missing(nodes[i], type, target)
  /\ build' = <<[type |-> type, target |-> target, i |-> Len(nodes)]>>
  /\ UNCHANGED <<nodes, nextIndex, frames, pending, running, removing, sessions, removed>>

BuildNext ==
  LET b == build[1]
      node == nodes[b.i]
  IN  /\ build # <<>>
      /\ IF b.i = 0 THEN build' = <<>> /\ UNCHANGED nodes
         ELSE /\ build' = <<[b EXCEPT !.i = @ - 1]>>
              /\ nodes' = IF Missing(node, b.type, b.target)
                          THEN AddBiReference(nodes, b.target, node.id, "Organizes")
                          ELSE nodes
      /\ UNCHANGED <<nextIndex, frames, pending, running, removing, sessions, removed>>

-----------------------------------------------------------------------------
StartServer == /\ ~running /\ Quiet
               /\ running' = TRUE
               /\ UNCHANGED <<nodes, nextIndex, frames, pending, build, removing, sessions, removed>>

(* AddSession: an index for the token, the next for the node.              *)
AddSessionNode ==
  /\ running /\ removing = <<>>
  /\ sessions < MaxSessions /\ sessions' = sessions + 1
  /\ \E t \in NextIndex(nextIndex) : \E n \in NextIndex(t) :
       /\ nodes' = Append(nodes, NewNode(<<1, n>>, "Object", <<1, "Session">>))
       /\ nextIndex' = n
  /\ UNCHANGED <<frames, pending, build, running, removing, removed>>

(* RemoveNode walks the nodes from the first to the last: the node itself  *)
(* is destroyed and the gap closed, the others lose their references to    *)
(* it, one in each step.  The server removes session nodes; the interface  *)
(* (RemoveObjectNode and the like) offers it for any node.                 *)
RemoveNode(id) ==
  /\ running /\ removing = <<>> /\ removed < MaxRemoved
  /\ removing' = <<[id |-> id, i |-> 1, deleted |-> FALSE]>>
  /\ removed' = removed + 1
  /\ UNCHANGED <<nodes, nextIndex, frames, pending, build, running, sessions>>

Walk == removing[1]
Walking == removing # <<>> /\ Walk.i <= Len(nodes)
AtRemoved == nodes[Walk.i].id = Walk.id /\ ~Walk.deleted

(* Mutant: only the forward references to the node are taken out.          *)
PointingForward == {k \in DOMAIN nodes[Walk.i].refs :
                      /\ nodes[Walk.i].refs[k].target = Walk.id
                      /\ ~nodes[Walk.i].refs[k].inverse}

Pointing == {k \in DOMAIN nodes[Walk.i].refs : nodes[Walk.i].refs[k].target = Walk.id}

DestroyNode ==
  /\ Walking /\ AtRemoved
  /\ nodes' = Shift(nodes, Walk.i)
  /\ removing' = <<[Walk EXCEPT !.deleted = TRUE]>>
  /\ UNCHANGED <<nextIndex, frames, pending, build, running, sessions, removed>>

(* RemoveReferencesToNodeId.                                               *)
RemoveReference ==
  /\ Walking /\ ~AtRemoved /\ Pointing # {}
  /\ nodes' = [nodes EXCEPT ![Walk.i].refs = Shift(@, First(Pointing))]
  /\ UNCHANGED <<nextIndex, frames, pending, build, running, removing, sessions, removed>>

(* Mutant: the walk wraps around.                                          *)
NextNodeAround ==
  /\ Walking /\ ~AtRemoved /\ Pointing = {}
  /\ removing' = <<[Walk EXCEPT !.i = IF @ = Len(nodes) THEN 1 ELSE @ + 1]>>
  /\ UNCHANGED <<nodes, nextIndex, frames, pending, build, running, sessions, removed>>

NextNode ==
  /\ Walking /\ ~AtRemoved /\ Pointing = {}
  /\ removing' = <<[Walk EXCEPT !.i = @ + 1]>>
  /\ UNCHANGED <<nodes, nextIndex, frames, pending, build, running, sessions, removed>>

RemoveReturns ==
  /\ removing # <<>> /\ ~Walking
  /\ removing' = <<>>
  /\ UNCHANGED <<nodes, nextIndex, frames, pending, build, running, sessions, removed>>

-----------------------------------------------------------------------------
NodesOf(T) == {nodes[i].id : i \in {i \in DOMAIN nodes : nodes[i].type \in T}}

(* The calls the tables make; PropertyType is the type of properties only. *)
VariableTypes == NodesOf({"VariableType"}) \ {PropertyType}

Tables ==
  \/ \E id \in Given(0, Standard) :
       \/ \E p \in VariableTypes \cup {NoId} : CreateVariableType(id, p)
       \/ CreateBaseObjectType(id)
       \/ \E p \in NodesOf({"ObjectType"}) : CreateObjectSubtype(id, p)
       \/ \E p \in VariableTypes \cup NodesOf({"ObjectType"}), name \in Names, rule \in TableRules :
            \/ AddProperty(id, p, name, rule)
            \/ \E t \in VariableTypes :
                 CreateComponent(id, p, t, name, rule) \/ CreateVariable(id, p, t, name, rule)
       \/ \E arguments \in Given(0, Standard \ {id[2]}) \cup {NoId} :
            \/ CreateMethod(id, arguments)
            \/ \E m \in NodesOf({"Method"}) : CloneMethod(id, m, arguments, <<0, "Open">>)
  \/ \E id \in Given(0, Standard) \cup Given(1, Reserved), t \in NodesOf({"ObjectType"}) :
       CreateObjectFromObjectType(id, t, <<0, "Object">>)
  \/ \E p \in NodesOf({"ObjectType", "Object"}), c \in NodesOf({"Object", "Method"}) :
       \E rule \in TableRules, link \in TableLinks :
          Attach(p, c, link, rule)
  \/ \E type \in BuildTypes, target \in NodesOf({"Object"}) :
       BuildReferences(type, target)

Inherit == \/ InheritRule \/ CloneChild \/ InheritLink \/ SkipReference
           \/ CloneReturns \/ ObjectReturns \/ SubtypeReturns \/ ComponentReturns \/ MethodReturns

Remove == DestroyNode \/ RemoveReference \/ NextNode \/ RemoveReturns

Steps == Inherit \/ CreateNextProperty \/ BuildNext \/ Remove

SpaceNext == \/ Tables \/ Steps
             \/ StartServer \/ AddSessionNode \/ \E i \in DOMAIN nodes : RemoveNode(nodes[i].id)

SpaceSpec == SpaceInit /\ [][SpaceNext]_spaceVars

(* A server that waits for its next call.                                  *)
Idle == running /\ Quiet /\ UNCHANGED spaceVars

(* Nothing blocks a call that is under way: its steps go on for as long as *)
(* it has not returned.  This is weak fairness of Steps, for the check for *)
(* deadlock shows that a step is enabled in every state that is not quiet. *)
StepsGoOn == <>[]~Quiet => []<><<Steps>>_spaceVars

LiveSpaceSpec == SpaceInit /\ [][SpaceNext \/ Idle]_spaceVars /\ StepsGoOn

-----------------------------------------------------------------------------
(* Types, and the identifiers of the calls that are under way exist.       *)
SpaceTypeOK ==
  /\ \A i \in DOMAIN nodes : nodes[i].id \in Ids /\ nodes[i].refs \in Seq(Refs)
  /\ nextIndex \in Nat
  /\ \A k \in DOMAIN frames : /\ Exists(nodes, frames[k].source)
                              /\ Exists(nodes, frames[k].target)
                              /\ frames[k].i \in Nat \ {0}
  /\ \A k \in DOMAIN pending : Exists(nodes, pending[k].parent)

(* No two nodes share an identifier, whichever way their identifiers were  *)
(* given: by the tables, by the indexer, by remapping an argument.         *)
UniqueNodeIds == \A i, j \in DOMAIN nodes : nodes[i].id = nodes[j].id => i = j

(* Every reference but a modelling rule leads to a node of the space that  *)
(* holds the opposite reference, however the space was built and whatever  *)
(* was removed from it, a node whose removal is under way left aside.      *)
Opposite(r, holder, s) == s.type = r.type /\ s.target = holder /\ s.inverse # r.inverse
BeingRemoved(id) == removing # <<>> /\ id = Walk.id
ReferencesReciprocal ==
  \A i \in DOMAIN nodes : \A k \in DOMAIN nodes[i].refs :
    LET r == nodes[i].refs[k]
    IN  \/ r.type = "HasModellingRule" \/ BeingRemoved(nodes[i].id) \/ BeingRemoved(r.target)
        \/ \E j \in DOMAIN nodes : /\ nodes[j].id = r.target
                                   /\ \E m \in DOMAIN nodes[j].refs :
                                         Opposite(r, nodes[i].id, nodes[j].refs[m])

(* Forward properties and components of a node.                            *)
ChildrenOf(node) == {k \in DOMAIN node.refs : ChildLink(node.refs[k].type) /\ ~node.refs[k].inverse}

(* When InheritReferences returns, the target has every mandatory child of *)
(* its source under the same BrowseName, and no two of one BrowseName.     *)
InheritedOnce ==
  LET source == Node(nodes, Top.source)
      target == Node(nodes, Top.target)
      NameOf(r) == Node(nodes, r.target).name
  IN  Return =>
        /\ \A k \in ChildrenOf(source) : ShouldInherit(source.refs[k].target, target.type) =>
             \E m \in DOMAIN target.refs : Exists(nodes, target.refs[m].target)
                                           /\ NameOf(target.refs[m]) = NameOf(source.refs[k])
        /\ \A k, m \in ChildrenOf(target) :
             NameOf(target.refs[k]) = NameOf(target.refs[m]) => k = m

(* Create a property if it does not exist: once a component is complete it *)
(* has one property of each name.                                          *)
PropertiesOnce ==
  Quiet => \A i \in DOMAIN nodes : nodes[i].type = "Variable" =>
    \A k, m \in ChildrenOf(nodes[i]) :
      Node(nodes, nodes[i].refs[k].target).name = Node(nodes, nodes[i].refs[m].target).name => k = m

(* Every helper the tables call and every removal comes to its end.        *)
OperationsEnd == ~Quiet ~> Quiet
=============================================================================
