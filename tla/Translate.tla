------------------------------ MODULE Translate ------------------------------
(***************************************************************************)
(* TranslateBrowsePathsToNodeIds (Access.c): follows the elements of a     *)
(* relative path from a node, by reference type, direction and browse      *)
(* name, and collects the nodes at its end.  Start-up builds the graph of  *)
(* references, one in each direction at a time; requests come after it.  A *)
(* request for several paths is as many requests for one, in that order.   *)
(***************************************************************************)
EXTENDS Aliaser, FiniteSets, SequencesExt

CONSTANTS Name,         \* Name[n]: the browse name of node n
          Supertype,    \* Supertype[r]: the parent of reference type r, or NoNode
          Wanted,       \* browse names that clients ask for; NoName is none at all
          NoName,
          MayRegister,  \* nodes that clients register (bound)
          MaxEdges,     \* references built at start-up, both ways as one (bound)
          MaxPath,      \* elements of a path (bound)
          UnknownStart  \* an id that names nothing

ASSUME TranslateAssumption ==
    /\ DOMAIN Name = Nodes /\ MayRegister \subseteq Nodes
    /\ MaxEdges \in Nat /\ MaxPath \in Nat /\ UnknownStart \notin Nodes

RefTypes == DOMAIN Supertype

(* Start-up creates a reference type below one that exists.                *)
ASSUME SupertypeAssumption ==
    /\ NoNode \notin RefTypes /\ Supertype \in [RefTypes -> RefTypes \cup {NoNode}]
    /\ \A S \in SUBSET RefTypes : S # {} => \E t \in S : Supertype[t] \notin S

VARIABLES refs,       \* the reference list of each node
          built,      \* how many references start-up has added, none any more once it is Done
          pathResult  \* the last BrowsePath and its BrowsePathResult

translateVars == <<table, lifo, refs, built, pathResult>>

Done == MaxEdges + 1
Elements == [type : RefTypes \cup {NoNode}, subtypes : BOOLEAN, inverse : BOOLEAN, name : Wanted]
Paths == UNION {[1 .. k -> Elements] : k \in 0 .. MaxPath}

NoPathResult == [start |-> UnknownStart, path |-> <<>>, status |-> "None", targets |-> <<>>]

TranslateInit == /\ AliasInit
                 /\ refs = [n \in Nodes |-> <<>>] /\ built = 0
                 /\ pathResult = NoPathResult

-----------------------------------------------------------------------------
(* ID_AddressSpace_AddBiReference.                                         *)
AddBiReference(source, target, type) ==
    refs' = [n \in Nodes |->
               refs[n]
               \o (IF n = source THEN <<[type |-> type, inverse |-> FALSE, target |-> target]>> ELSE <<>>)
               \o (IF n = target THEN <<[type |-> type, inverse |-> TRUE, target |-> source]>> ELSE <<>>)]

StartUp == /\ built < MaxEdges
           /\ \E s, t \in Nodes, type \in RefTypes : s # t /\ AddBiReference(s, t, type)
           /\ built' = built + 1
           /\ UNCHANGED <<table, lifo, pathResult>>

StartUpEnds == built < Done /\ built' = Done /\ UNCHANGED <<table, lifo, refs, pathResult>>

-----------------------------------------------------------------------------
(* ID_AddressSpace_IsTypeASubtypeofB on reference types.                   *)
IsSubtype(r, type) == LET climbs[t \in RefTypes \cup {NoNode}] ==
                            t # NoNode /\ (t = type \/ climbs[Supertype[t]])
                      IN  climbs[r]

(* Mutant: subtypes are always included.                                   *)
FollowsSubtypes(element, r) ==
    /\ element.inverse = r.inverse
    /\ element.type = NoNode \/ IsSubtype(r.type, element.type)
    /\ Name[r.target] = element.name

(* A reference that an element of the path names.                          *)
Follows(element, r) ==
    /\ element.inverse = r.inverse
    /\ \/ element.type = NoNode
       \/ element.type = r.type
       \/ element.subtypes /\ IsSubtype(r.type, element.type)
    /\ Name[r.target] = element.name

(* ID_UA_TranscribeBrowseResults calls itself on each node it comes to;    *)
(* past the last element that node is a target.  found[d][n]: the targets  *)
(* from n when d elements are left.                                        *)
TranscribeBrowseResults(path, start) ==
    LET found[d \in 0 .. Len(path)] == [n \in Nodes |->
          IF d = 0 THEN <<n>>
          ELSE FlattenSeq([i \in DOMAIN refs[n] |->
                 IF Follows(path[Len(path) - d + 1], refs[n][i])
                 THEN found[d - 1][refs[n][i].target] ELSE <<>>])]
    IN  found[Len(path)][start]

TranslateBrowsePath(id, path) ==
    LET targets == TranscribeBrowseResults(path, Resolved(id))
        Answer(status, found) == pathResult' = [start |-> id, path |-> path,
                                                status |-> status, targets |-> found]
    IN  IF Resolved(id) \notin Nodes THEN Answer("BadNodeIdUnknown", <<>>)
        ELSE IF path = <<>> THEN Answer("BadNothingToDo", <<>>)
        ELSE IF \E k \in DOMAIN path : path[k].name = NoName THEN Answer("BadBrowseNameInvalid", <<>>)
        ELSE IF targets = <<>> THEN Answer("BadNoMatch", <<>>)
        ELSE Answer("Good", targets)

Ready == built = Done /\ pathResult = NoPathResult

TranslateRequest ==
    /\ Ready
    /\ \E id \in Nodes \cup {UnknownStart} \cup {table[i].alias : i \in Slots}, path \in Paths :
         TranslateBrowsePath(id, path)
    /\ UNCHANGED <<table, lifo, refs, built>>

PathResultSent == /\ pathResult # NoPathResult /\ pathResult' = NoPathResult
                  /\ UNCHANGED <<table, lifo, refs, built>>

AliasAdded == Ready /\ (\E n \in MayRegister : RegisterNode(n)) /\ UNCHANGED <<refs, built, pathResult>>

AliasRemoved == /\ Ready
              /\ \E i \in Slots : UnregisterNode(table[i].alias)
              /\ UNCHANGED <<refs, built, pathResult>>

TranslateNext == StartUp \/ StartUpEnds \/ TranslateRequest \/ PathResultSent \/ AliasAdded \/ AliasRemoved

TranslateSpec == TranslateInit /\ [][TranslateNext]_translateVars

-----------------------------------------------------------------------------
(* Properties.                                                             *)

(* The walks in the graph that spell a path: one reference per element,    *)
(* each starting where the one before ended.                               *)
Hops == UNION {{n} \X DOMAIN refs[n] : n \in Nodes}
Hop(h) == refs[h[1]][h[2]]

(* Type r is type or below it: no set that is closed under supertypes has  *)
(* r and leaves out type.                                                  *)
Includes(type, r) == \A S \in SUBSET (RefTypes \cup {NoNode}) :
    r \in S /\ (\A t \in S \ {NoNode} : Supertype[t] \in S) => type \in S

Walks(start, path) ==
    {w \in [DOMAIN path -> Hops] :
        /\ w[1][1] = start
        /\ \A k \in DOMAIN path : /\ k > 1 => w[k][1] = Hop(w[k - 1]).target
                                  /\ Hop(w[k]).inverse = path[k].inverse
                                  /\ Name[Hop(w[k]).target] = path[k].name
                                  /\ IF path[k].subtypes THEN Includes(path[k].type, Hop(w[k]).type)
                                     ELSE path[k].type \in {NoNode, Hop(w[k]).type}}

(* In every graph that start-up can build, the targets of a named path     *)
(* from a node are the ends of the walks that spell it, each as often as   *)
(* there are such walks; the search neither misses one nor turns back.     *)
TargetsAreWalks ==
    pathResult.status \in {"Good", "BadNoMatch"} =>
       LET walks == Walks(Resolved(pathResult.start), pathResult.path)
           Ends(t) == {w \in walks : Hop(w[Len(pathResult.path)]).target = t}
       IN  \A t \in Nodes :
              Cardinality({k \in DOMAIN pathResult.targets : pathResult.targets[k] = t}) = Cardinality(Ends(t))
=============================================================================
