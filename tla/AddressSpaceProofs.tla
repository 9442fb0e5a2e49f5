------------------------- MODULE AddressSpaceProofs -------------------------
(***************************************************************************)
(* However the tables build the address space and whatever RemoveNode      *)
(* takes out of it, no two nodes share an identifier, every reference but  *)
(* a modelling rule has its opposite, and InheritReferences leaves every   *)
(* mandatory child once.                                                   *)
(***************************************************************************)
EXTENDS AddressSpace, PointerTableProofs

NodeTypes == {"Object", "ObjectType", "Variable", "VariableType", "Method"}
Texts     == Names \cup {OptionalProps[k] : k \in 1 .. Len(OptionalProps)}
             \cup {"PropertyType", "VariableType", "ObjectType", "Subtype", "Method", "Open", "Object",
                   "Session", "NodeVersion", "Icon", "Arguments"}
NodeNames == {NoName} \cup ({0, 1} \X Texts)
NodeRec   == [id : Ids, type : NodeTypes, name : NodeNames, refs : Seq(Refs)]

UniqueIn(ns) == \A i, j \in DOMAIN ns : ns[i].id = ns[j].id => i = j

(* The reference r that a node of identifier holder has is answered.       *)
Answered(ns, r, holder) ==
  \E j \in DOMAIN ns : /\ ns[j].id = r.target
                       /\ \E m \in DOMAIN ns[j].refs : Opposite(r, holder, ns[j].refs[m])

(* References are answered, those from and to the identifiers gone aside.  *)
ReciprocalBut(ns, gone) ==
  \A i \in DOMAIN ns : \A k \in DOMAIN ns[i].refs :
    \/ ns[i].refs[k].type = "HasModellingRule"
    \/ ns[i].id \in gone \/ ns[i].refs[k].target \in gone
    \/ Answered(ns, ns[i].refs[k], ns[i].id)

Good(ns) == ns \in Seq(NodeRec) /\ UniqueIn(ns) /\ ReciprocalBut(ns, {})

(* What a call of InheritReferences returns to.                            *)
Thens == [op : {"clone"}]
         \cup [op : {"object", "subtype"}, name : NodeNames]
         \cup [op : {"component"}, name : NodeNames, parent : Ids, rule : Rules, props : Seq(Texts)]
         \cup [op : {"method"}, name : NodeNames, arguments : Ids \cup {NoId}]

Frames == [source : Ids, target : Ids, i : Nat \ {0}, then : Thens]

-----------------------------------------------------------------------------
(* The inductive invariant.  Fresh identifiers: an index above the last    *)
(* has not been used, nor has the identifier a cloned method's arguments   *)
(* are to be given.                                                        *)
IndexInv == /\ nextIndex \in Nat
            /\ \A n \in Indices \ Reserved : Exists(nodes, <<1, n>>) => n <= nextIndex

(* The calls under way speak of nodes that exist; only a method's          *)
(* arguments are named by an identifier that does not exist yet.           *)
FrameOK(ns, f) ==
  /\ Exists(ns, f.source) /\ Exists(ns, f.target) /\ f.target # PropertyType
  /\ f.then.op = "component" => Exists(ns, f.then.parent)
  /\ f.then.op = "method" /\ f.then.arguments # NoId =>
       /\ f.then.arguments \in {0} \X Standard
       /\ ~Exists(ns, f.then.arguments)

FramesOK(ns, fs) ==
  /\ fs \in Seq(Frames)
  /\ \A k \in 1 .. Len(fs) : FrameOK(ns, fs[k]) /\ (fs[k].then.op = "clone" <=> k > 1)
  /\ \A k \in 1 .. Len(fs) : k < Len(fs) => fs[k].i <= Len(Node(ns, fs[k].source).refs)

PendingOK(ns, ps) ==
  /\ ps \in Seq([parent : Ids, name : Texts, rule : Rules])
  /\ \A k \in 1 .. Len(ps) : Exists(ns, ps[k].parent)

BuildOK(ns, b) ==
  b # <<>> => /\ b = <<b[1]>>
              /\ b[1] \in [type : BuildTypes, target : Ids, i : 0 .. Len(ns)]
              /\ Exists(ns, b[1].target)

(* One helper at a time.                                                   *)
CallsInv == /\ FramesOK(nodes, frames) /\ PendingOK(nodes, pending) /\ BuildOK(nodes, build)
            /\ frames # <<>> => pending = <<>> /\ build = <<>>
            /\ pending # <<>> => build = <<>>

(* Start-up has the type of properties; the running server builds nothing. *)
PhaseInv ==
  /\ ~running => removing = <<>>
                 /\ \E i \in DOMAIN nodes : nodes[i].id = PropertyType /\ nodes[i].name # <<0, "Arguments">>
  /\ running => frames = <<>> /\ pending = <<>> /\ build = <<>>

(* RemoveNode: the nodes behind the walk have no reference to the node,    *)
(* which is still ahead until it is destroyed.                             *)
Walks == [id : Ids, i : Nat \ {0}, deleted : BOOLEAN]

RemoveInv ==
  removing # <<>> =>
    /\ removing = <<Walk>> /\ Walk \in Walks
    /\ \A i \in DOMAIN nodes : i < Walk.i => \A k \in DOMAIN nodes[i].refs : nodes[i].refs[k].target # Walk.id
    /\ \A i \in DOMAIN nodes : nodes[i].id = Walk.id => i >= Walk.i /\ ~Walk.deleted
    /\ ~Walk.deleted => Exists(nodes, Walk.id)

GraphInv == /\ nodes \in Seq(NodeRec) /\ UniqueIn(nodes)
            /\ ReciprocalBut(nodes, IF removing = <<>> THEN {} ELSE {Walk.id})

SpaceInv == GraphInv /\ IndexInv /\ CallsInv /\ PhaseInv /\ RemoveInv

-----------------------------------------------------------------------------
LEMMA IdFacts ==
  /\ PropertyType \in Ids /\ Rules \subseteq Ids
  /\ \A k \in Standard : <<0, k>> \in Ids /\ <<0, k>> # PropertyType
  /\ \A n \in Indices \cup Reserved : <<1, n>> \in Ids
  /\ \A k, n : <<0, k>> # <<1, n>>
BY SpaceAssumption DEF Ids, Rules, Mandatory, Optional, Placeholder, PropertyType

LEMMA NodeFacts ==
  ASSUME NEW ns \in Seq(NodeRec)
  PROVE  /\ DOMAIN ns = 1 .. Len(ns) /\ Len(ns) \in Nat
         /\ \A i \in 1 .. Len(ns) : /\ ns[i] \in NodeRec /\ ns[i].id \in Ids
                                    /\ ns[i].type \in NodeTypes /\ ns[i].name \in NodeNames
                                    /\ ns[i].refs \in Seq(Refs)
                                    /\ DOMAIN ns[i].refs = 1 .. Len(ns[i].refs)
                                    /\ Len(ns[i].refs) \in Nat
<1>1. DOMAIN ns = 1 .. Len(ns) /\ Len(ns) \in Nat /\ \A i \in 1 .. Len(ns) : ns[i] \in NodeRec
  OBVIOUS
<1>2. \A n \in NodeRec : /\ n.id \in Ids /\ n.type \in NodeTypes /\ n.name \in NodeNames
                         /\ n.refs \in Seq(Refs)
  BY DEF NodeRec
<1> QED
  BY <1>1, <1>2

(* The walk of FindNodeWithID finds the one node of that identifier.       *)
LEMMA FindFacts ==
  ASSUME NEW ns \in Seq(NodeRec), UniqueIn(ns), NEW id, Exists(ns, id)
  PROVE  /\ FindNode(ns, id) \in 1 .. Len(ns)
         /\ \A i \in 1 .. Len(ns) : ns[i].id = id <=> i = FindNode(ns, id)
<1>1. PICK i \in 1 .. Len(ns) : ns[i].id = id
  BY NodeFacts DEF Exists
<1>2. \A j \in DOMAIN ns : ns[j].id = id => j = i
  BY <1>1, NodeFacts DEF UniqueIn
<1>3. i \in DOMAIN ns /\ ns[i].id = id /\ \A j \in DOMAIN ns : ns[j].id = id => j <= i
  BY <1>1, <1>2, NodeFacts
<1>4. FindNode(ns, id) \in DOMAIN ns /\ ns[FindNode(ns, id)].id = id
  BY <1>3 DEF FindNode
<1> QED
  BY <1>1, <1>2, <1>4, NodeFacts

(* out has the nodes of ns where they were, with all their references.     *)
Keeps(ns, out) ==
  /\ Len(ns) <= Len(out)
  /\ \A i \in 1 .. Len(ns) :
       /\ out[i].id = ns[i].id /\ out[i].type = ns[i].type /\ out[i].name = ns[i].name
       /\ Len(ns[i].refs) <= Len(out[i].refs)
       /\ \A k \in 1 .. Len(ns[i].refs) : out[i].refs[k] = ns[i].refs[k]

LEMMA KeepsTransitive ==
  ASSUME NEW a \in Seq(NodeRec), NEW b \in Seq(NodeRec), NEW c \in Seq(NodeRec),
         Keeps(a, b), Keeps(b, c)
  PROVE  Keeps(a, c)
<1>1. Len(a) <= Len(c) /\ Len(a) <= Len(b)
  BY NodeFacts DEF Keeps
<1> SUFFICES ASSUME NEW i \in 1 .. Len(a)
             PROVE  /\ c[i].id = a[i].id /\ c[i].type = a[i].type /\ c[i].name = a[i].name
                    /\ Len(a[i].refs) <= Len(c[i].refs)
                    /\ \A k \in 1 .. Len(a[i].refs) : c[i].refs[k] = a[i].refs[k]
  BY <1>1 DEF Keeps
<1>2. i \in 1 .. Len(b) /\ i \in 1 .. Len(c)
  BY <1>1, NodeFacts
<1>3. Len(a[i].refs) \in Nat /\ Len(b[i].refs) \in Nat /\ Len(c[i].refs) \in Nat
  BY <1>2, NodeFacts
<1>4. Len(a[i].refs) <= Len(b[i].refs) /\ Len(b[i].refs) <= Len(c[i].refs)
  BY <1>2 DEF Keeps
<1>5. \A k \in 1 .. Len(a[i].refs) : b[i].refs[k] = a[i].refs[k] /\ k \in 1 .. Len(b[i].refs)
  BY <1>3, <1>4 DEF Keeps
<1>6. \A k \in 1 .. Len(b[i].refs) : c[i].refs[k] = b[i].refs[k]
  BY <1>2 DEF Keeps
<1>7. c[i].id = a[i].id /\ c[i].type = a[i].type /\ c[i].name = a[i].name
  BY <1>2 DEF Keeps
<1>8. Len(a[i].refs) <= Len(c[i].refs)
  <2>1. \A x, y, z \in Nat : x <= y /\ y <= z => x <= z
    OBVIOUS
  <2> QED
    BY <1>3, <1>4, <2>1, Zenon
<1>9. \A k \in 1 .. Len(a[i].refs) : c[i].refs[k] = a[i].refs[k]
  BY <1>5, <1>6
<1> QED
  BY <1>7, <1>8, <1>9

LEMMA AnsweredStays ==
  ASSUME NEW ns \in Seq(NodeRec), NEW out \in Seq(NodeRec), Keeps(ns, out),
         NEW r, NEW holder, Answered(ns, r, holder)
  PROVE  Answered(out, r, holder)
<1>1. PICK j \in 1 .. Len(ns) : /\ ns[j].id = r.target
                                /\ \E m \in DOMAIN ns[j].refs : Opposite(r, holder, ns[j].refs[m])
  BY NodeFacts DEF Answered
<1>2. PICK m \in 1 .. Len(ns[j].refs) : Opposite(r, holder, ns[j].refs[m])
  BY <1>1, NodeFacts
<1>3. j \in 1 .. Len(out) /\ out[j].id = r.target
  BY <1>1, NodeFacts DEF Keeps
<1>4. m \in 1 .. Len(out[j].refs) /\ out[j].refs[m] = ns[j].refs[m]
  BY <1>3, NodeFacts DEF Keeps
<1> QED
  BY <1>2, <1>3, <1>4, NodeFacts DEF Answered

(* The one reference that AddUniReference appends.                         *)
Added(ns, out, source, r) ==
  /\ out \in Seq(NodeRec) /\ Len(out) = Len(ns) /\ UniqueIn(out)
  /\ \A i \in 1 .. Len(ns) :
       /\ out[i].id = ns[i].id /\ out[i].type = ns[i].type /\ out[i].name = ns[i].name
       /\ out[i].refs = IF ns[i].id = source THEN Append(ns[i].refs, r) ELSE ns[i].refs

LEMMA AddUniFacts ==
  ASSUME NEW ns \in Seq(NodeRec), UniqueIn(ns), NEW source, Exists(ns, source),
         NEW target, NEW type, NEW inverse, Ref(type, target, inverse) \in Refs
  PROVE  Added(ns, AddUniReference(ns, source, target, type, inverse), source,
               Ref(type, target, inverse))
<1> DEFINE r == Ref(type, target, inverse)
           at == FindNode(ns, source)
           out == AddUniReference(ns, source, target, type, inverse)
           new == [ns[at] EXCEPT !.refs = Append(@, r)]
<1>1. at \in 1 .. Len(ns) /\ \A i \in 1 .. Len(ns) : ns[i].id = source <=> i = at
  BY FindFacts
<1>2. out = [ns EXCEPT ![at] = new]
  BY DEF AddUniReference
<1>3. ns[at] \in NodeRec /\ ns[at].refs \in Seq(Refs)
  BY <1>1, NodeFacts
<1> HIDE DEF r, at
<1>4. Append(ns[at].refs, r) \in Seq(Refs)
  BY <1>3 DEF r
<1>5. /\ new \in NodeRec /\ new.id = ns[at].id /\ new.type = ns[at].type /\ new.name = ns[at].name
      /\ new.refs = Append(ns[at].refs, r)
  BY <1>3, <1>4 DEF NodeRec
<1> HIDE DEF new, out
<1>6. out \in Seq(NodeRec) /\ Len(out) = Len(ns)
  BY <1>1, <1>2, <1>5
<1>7. \A i \in 1 .. Len(ns) : out[i] = IF i = at THEN new ELSE ns[i]
  BY <1>1, <1>2
<1>8. \A i \in 1 .. Len(ns) : out[i].id = ns[i].id
  BY <1>5, <1>7
<1>9. UniqueIn(out)
  BY <1>6, <1>8, NodeFacts DEF UniqueIn
<1> QED
  BY <1>1, <1>5, <1>6, <1>7, <1>9 DEF Added, r, out

LEMMA AddedKeeps ==
  ASSUME NEW ns \in Seq(NodeRec), NEW out, NEW source, NEW r, Added(ns, out, source, r)
  PROVE  /\ out \in Seq(NodeRec) /\ UniqueIn(out) /\ Len(out) = Len(ns) /\ Keeps(ns, out)
         /\ \A id : Exists(out, id) <=> Exists(ns, id)
<1>1. out \in Seq(NodeRec) /\ UniqueIn(out) /\ Len(out) = Len(ns) /\ Len(ns) \in Nat
  BY DEF Added
<1>2. \A id : Exists(out, id) <=> Exists(ns, id)
  BY <1>1, NodeFacts DEF Added, Exists
<1> SUFFICES ASSUME NEW i \in 1 .. Len(ns)
             PROVE  /\ Len(ns[i].refs) <= Len(out[i].refs)
                    /\ \A k \in 1 .. Len(ns[i].refs) : out[i].refs[k] = ns[i].refs[k]
  BY <1>1, <1>2 DEF Keeps, Added
<1>3. ns[i].refs \in Seq(Refs) /\ Len(ns[i].refs) \in Nat
  BY NodeFacts
<1>4. out[i].refs = Append(ns[i].refs, r) \/ out[i].refs = ns[i].refs
  BY DEF Added
<1> DEFINE s == ns[i].refs
<1> HIDE DEF s
<1>5. s \in Seq(Refs) /\ Len(s) \in Nat
  BY <1>3 DEF s
<1>6. /\ Len(Append(s, r)) = Len(s) + 1
      /\ \A k \in 1 .. Len(s) : Append(s, r)[k] = s[k]
  BY <1>5
<1>7. CASE out[i].refs = Append(s, r)
  BY <1>5, <1>6, <1>7 DEF s
<1>8. CASE out[i].refs = s
  BY <1>5, <1>8 DEF s
<1> QED
  BY <1>4, <1>7, <1>8 DEF s

(* Every reference of out is one of ns, in its place, or the one appended. *)
LEMMA AddedOrigin ==
  ASSUME NEW ns \in Seq(NodeRec), NEW out, NEW source, NEW r, Added(ns, out, source, r),
         NEW i \in 1 .. Len(ns), NEW k \in 1 .. Len(out[i].refs)
  PROVE  \/ k \in 1 .. Len(ns[i].refs) /\ out[i].refs[k] = ns[i].refs[k]
         \/ ns[i].id = source /\ out[i].refs[k] = r
<1>1. ns[i].refs \in Seq(Refs) /\ Len(ns[i].refs) \in Nat
  BY NodeFacts
<1>2. CASE ns[i].id = source
  <2>1. out[i].refs = Append(ns[i].refs, r)
    BY <1>2 DEF Added
  <2> QED
    BY <1>1, <1>2, <2>1
<1>3. CASE ns[i].id # source
  BY <1>3 DEF Added
<1> QED
  BY <1>2, <1>3

LEMMA AddedHolds ==
  ASSUME NEW ns \in Seq(NodeRec), NEW out, NEW source, NEW r, Added(ns, out, source, r),
         Exists(ns, source)
  PROVE  \E i \in 1 .. Len(out) : out[i].id = source /\ \E k \in 1 .. Len(out[i].refs) : out[i].refs[k] = r
<1>1. PICK i \in 1 .. Len(ns) : ns[i].id = source
  BY NodeFacts DEF Exists
<1>2. ns[i].refs \in Seq(Refs) /\ out[i].refs = Append(ns[i].refs, r) /\ i \in 1 .. Len(out)
      /\ out[i].id = source
  BY <1>1, NodeFacts DEF Added
<1>3. Len(out[i].refs) \in 1 .. Len(out[i].refs) /\ out[i].refs[Len(out[i].refs)] = r
  BY <1>2
<1> QED
  BY <1>2, <1>3

(* out is a good space that has the nodes of ns, with their references,    *)
(* and new nodes of the identifiers ids.                                   *)
Enlarges(ns, out, ids) ==
  /\ Good(out) /\ Keeps(ns, out)
  /\ \A id : Exists(out, id) <=> Exists(ns, id) \/ id \in ids

LEMMA EnlargesTwice ==
  ASSUME NEW a, NEW b, NEW c, NEW S, NEW T, Good(a), Enlarges(a, b, S), Enlarges(b, c, T)
  PROVE  Enlarges(a, c, S \cup T)
<1>1. Keeps(a, c)
  BY KeepsTransitive DEF Enlarges, Good
<1> QED
  BY <1>1 DEF Enlarges

LEMMA RuleAdded ==
  ASSUME NEW ns, Good(ns), NEW source, Exists(ns, source), NEW rule \in Ids, NEW inverse \in BOOLEAN
  PROVE  Enlarges(ns, AddUniReference(ns, source, rule, "HasModellingRule", inverse), {})
<1> DEFINE r == Ref("HasModellingRule", rule, inverse)
           out == AddUniReference(ns, source, rule, "HasModellingRule", inverse)
<1>1. ns \in Seq(NodeRec) /\ UniqueIn(ns) /\ ReciprocalBut(ns, {})
  BY DEF Good
<1>2. r \in Refs /\ r.type = "HasModellingRule"
  BY DEF Ref, Refs, RefTypes
<1>3. Added(ns, out, source, r)
  BY <1>1, <1>2, AddUniFacts
<1> HIDE DEF r, out
<1>4. out \in Seq(NodeRec) /\ UniqueIn(out) /\ Len(out) = Len(ns)
  BY <1>3 DEF Added
<1>5. Keeps(ns, out) /\ \A id : Exists(out, id) <=> Exists(ns, id)
  BY <1>1, <1>3, AddedKeeps
<1>6. ASSUME NEW i \in 1 .. Len(out), NEW k \in 1 .. Len(out[i].refs),
             out[i].refs[k].type # "HasModellingRule"
      PROVE  Answered(out, out[i].refs[k], out[i].id)
  <2>1. k \in 1 .. Len(ns[i].refs) /\ out[i].refs[k] = ns[i].refs[k]
    BY <1>1, <1>2, <1>3, <1>4, <1>6, AddedOrigin
  <2>2. Answered(ns, ns[i].refs[k], ns[i].id)
    BY <1>1, <1>4, <1>6, <2>1, NodeFacts DEF ReciprocalBut
  <2>3. Answered(out, ns[i].refs[k], ns[i].id)
    BY <1>1, <1>4, <1>5, <2>2, AnsweredStays
  <2>4. out[i].id = ns[i].id
    BY <1>3, <1>4 DEF Added
  <2> QED
    BY <2>1, <2>3, <2>4
<1>7. ReciprocalBut(out, {})
  BY <1>4, <1>6, NodeFacts DEF ReciprocalBut
<1> QED
  BY <1>4, <1>5, <1>7 DEF Enlarges, Good, out

LEMMA BiAdded ==
  ASSUME NEW ns, Good(ns), NEW source, Exists(ns, source), NEW target, Exists(ns, target),
         NEW type \in RefTypes
  PROVE  /\ Enlarges(ns, AddBiReference(ns, source, target, type), {})
         /\ Len(AddBiReference(ns, source, target, type)) = Len(ns)
<1> DEFINE r == Ref(type, target, FALSE)
           s == Ref(type, source, TRUE)
           mid == AddUniReference(ns, source, target, type, FALSE)
           out == AddUniReference(mid, target, source, type, TRUE)
<1>0. out = AddBiReference(ns, source, target, type)
  BY DEF AddBiReference
<1>1. ns \in Seq(NodeRec) /\ UniqueIn(ns) /\ ReciprocalBut(ns, {})
  BY DEF Good
<1>2. source \in Ids /\ target \in Ids
  BY <1>1, NodeFacts DEF Exists
<1>3. /\ r \in Refs /\ s \in Refs /\ Opposite(r, source, s) /\ Opposite(s, target, r)
      /\ r.target = target /\ s.target = source
  BY <1>2 DEF Ref, Refs, Opposite
<1>4. Added(ns, mid, source, r)
  BY <1>1, <1>3, AddUniFacts
<1> HIDE DEF mid
<1>5. /\ mid \in Seq(NodeRec) /\ UniqueIn(mid) /\ Len(mid) = Len(ns) /\ Keeps(ns, mid)
      /\ \A id : Exists(mid, id) <=> Exists(ns, id)
  BY <1>1, <1>4, AddedKeeps
<1>6. Added(mid, out, target, s)
  BY <1>3, <1>5, AddUniFacts
<1> HIDE DEF out, r, s
<1>7. /\ out \in Seq(NodeRec) /\ UniqueIn(out) /\ Len(out) = Len(ns) /\ Keeps(mid, out)
      /\ \A id : Exists(out, id) <=> Exists(ns, id)
  BY <1>5, <1>6, AddedKeeps
<1>8. Keeps(ns, out)
  BY <1>1, <1>5, <1>7, KeepsTransitive
<1>9. Answered(out, s, target)
  <2>1. PICK i \in 1 .. Len(mid) : mid[i].id = source /\ \E k \in 1 .. Len(mid[i].refs) : mid[i].refs[k] = r
    BY <1>1, <1>4, AddedHolds
  <2>2. Answered(mid, s, target)
    BY <1>3, <1>5, <2>1, NodeFacts DEF Answered
  <2> QED
    BY <1>5, <1>7, <2>2, AnsweredStays
<1>10. Answered(out, r, source)
  <2>1. PICK i \in 1 .. Len(out) : out[i].id = target /\ \E k \in 1 .. Len(out[i].refs) : out[i].refs[k] = s
    BY <1>5, <1>6, AddedHolds
  <2> QED
    BY <1>3, <1>7, <2>1, NodeFacts DEF Answered
<1>11. ASSUME NEW i \in 1 .. Len(out), NEW k \in 1 .. Len(out[i].refs),
              out[i].refs[k].type # "HasModellingRule"
       PROVE  Answered(out, out[i].refs[k], out[i].id)
  <2>0. i \in 1 .. Len(ns) /\ i \in 1 .. Len(mid) /\ out[i].id = ns[i].id /\ mid[i].id = ns[i].id
    BY <1>4, <1>5, <1>6, <1>7 DEF Added
  <2>1. CASE mid[i].id = target /\ out[i].refs[k] = s
    BY <1>9, <2>0, <2>1
  <2>2. CASE k \in 1 .. Len(mid[i].refs) /\ out[i].refs[k] = mid[i].refs[k]
    <3>1. CASE ns[i].id = source /\ mid[i].refs[k] = r
      BY <1>10, <2>0, <2>2, <3>1
    <3>2. CASE k \in 1 .. Len(ns[i].refs) /\ mid[i].refs[k] = ns[i].refs[k]
      <4>1. Answered(ns, ns[i].refs[k], ns[i].id)
        BY <1>1, <1>11, <2>0, <2>2, <3>2, NodeFacts DEF ReciprocalBut
      <4>2. Answered(out, ns[i].refs[k], ns[i].id)
        BY <1>1, <1>7, <1>8, <4>1, AnsweredStays
      <4> QED
        BY <2>0, <2>2, <3>2, <4>2
    <3> QED
      BY <1>1, <1>4, <2>0, <2>2, <3>1, <3>2, AddedOrigin
  <2> QED
    BY <1>5, <1>6, <2>0, <2>1, <2>2, AddedOrigin
<1>12. ReciprocalBut(out, {})
  BY <1>7, <1>11, NodeFacts DEF ReciprocalBut
<1> QED
  BY <1>0, <1>7, <1>8, <1>12 DEF Enlarges, Good

(* A node that is created has no references.                               *)
LEMMA NodeAdded ==
  ASSUME NEW ns, Good(ns), NEW id \in Ids, ~Exists(ns, id), NEW type \in NodeTypes, NEW name \in NodeNames
  PROVE  Enlarges(ns, Append(ns, NewNode(id, type, name)), {id})
<1> DEFINE new == NewNode(id, type, name)
           out == Append(ns, new)
           n == Len(ns)
<1>1. ns \in Seq(NodeRec) /\ UniqueIn(ns) /\ ReciprocalBut(ns, {}) /\ n \in Nat
  BY DEF Good
<1>2. new \in NodeRec /\ new.id = id /\ new.refs = <<>>
  BY DEF NewNode, NodeRec
<1> HIDE DEF new
<1>3. /\ out \in Seq(NodeRec) /\ Len(out) = n + 1 /\ out[n + 1] = new
      /\ \A i \in 1 .. n : out[i] = ns[i]
  BY <1>1, <1>2
<1> HIDE DEF out
<1>4. Keeps(ns, out)
  BY <1>1, <1>3, NodeFacts DEF Keeps
<1>5. \A x : Exists(out, x) <=> Exists(ns, x) \/ x \in {id}
  <2>1. DOMAIN out = 1 .. n + 1 /\ DOMAIN ns = 1 .. n
    BY <1>1, <1>3
  <2>2. \A x : Exists(ns, x) => Exists(out, x)
    BY <1>1, <1>3, <2>1 DEF Exists
  <2>3. Exists(out, id)
    BY <1>1, <1>2, <1>3, <2>1 DEF Exists
  <2>4. \A x : Exists(out, x) => Exists(ns, x) \/ x = id
    BY <1>1, <1>2, <1>3, <2>1 DEF Exists
  <2> QED
    BY <2>2, <2>3, <2>4
<1>6. \A i \in 1 .. n : ns[i].id # id
  BY <1>1 DEF Exists
<1>7. UniqueIn(out)
  <2> SUFFICES ASSUME NEW i \in 1 .. n + 1, NEW j \in 1 .. n + 1, out[i].id = out[j].id PROVE i = j
    BY <1>3, NodeFacts DEF UniqueIn
  <2>1. CASE i = n + 1 /\ j # n + 1
    BY <1>1, <1>2, <1>3, <1>6, <2>1
  <2>2. CASE i # n + 1 /\ j = n + 1
    BY <1>1, <1>2, <1>3, <1>6, <2>2
  <2>3. CASE i # n + 1 /\ j # n + 1
    BY <1>1, <1>3, <2>3 DEF UniqueIn
  <2> QED
    BY <2>1, <2>2, <2>3
<1>8. ASSUME NEW i \in 1 .. n + 1, NEW k \in 1 .. Len(out[i].refs), out[i].refs[k].type # "HasModellingRule"
      PROVE  Answered(out, out[i].refs[k], out[i].id)
  <2>1. i \in 1 .. n /\ out[i] = ns[i]
    BY <1>1, <1>2, <1>3
  <2>2. Answered(ns, ns[i].refs[k], ns[i].id)
    BY <1>1, <1>8, <2>1, NodeFacts DEF ReciprocalBut
  <2> QED
    BY <1>1, <1>3, <1>4, <2>1, <2>2, AnsweredStays
<1>9. ReciprocalBut(out, {})
  BY <1>3, <1>8, NodeFacts DEF ReciprocalBut
<1> QED
  BY <1>3, <1>4, <1>5, <1>7, <1>9 DEF Enlarges, Good, out, new

LEMMA PropertyAdded ==
  ASSUME NEW ns, Good(ns), NEW parent, Exists(ns, parent), NEW id \in Ids, ~Exists(ns, id),
         NEW name \in NodeNames, NEW rule \in Rules, Exists(ns, PropertyType)
  PROVE  Enlarges(ns, CreateProperty(ns, parent, id, name, rule), {id})
<1> DEFINE created == Append(ns, NewNode(id, "Variable", name))
           typed   == AddBiReference(created, id, PropertyType, "HasTypeDefinition")
           ruled   == AddUniReference(typed, id, rule, "HasModellingRule", FALSE)
           out     == AddBiReference(ruled, parent, id, "HasProperty")
<1> USE DEF Enlarges
<1>0. out = CreateProperty(ns, parent, id, name, rule)
  BY DEF CreateProperty
<1>1. "Variable" \in NodeTypes /\ "HasTypeDefinition" \in RefTypes /\ "HasProperty" \in RefTypes
      /\ rule \in Ids
  BY IdFacts DEF NodeTypes, RefTypes
<1>2. Enlarges(ns, created, {id})
  BY <1>1, NodeAdded
<1> HIDE DEF created
<1>3. Enlarges(created, typed, {})
  BY <1>1, <1>2, BiAdded
<1> HIDE DEF typed
<1>4. Enlarges(typed, ruled, {})
  BY <1>1, <1>2, <1>3, RuleAdded
<1> HIDE DEF ruled
<1>5. Enlarges(ruled, out, {})
  BY <1>1, <1>2, <1>3, <1>4, BiAdded
<1> HIDE DEF out, Enlarges
<1>6. Good(created) /\ Good(typed) /\ Good(ruled)
  BY <1>2, <1>3, <1>4 DEF Enlarges
<1>7. Enlarges(ns, typed, {id} \cup {})
  BY <1>2, <1>3, EnlargesTwice
<1>8. Enlarges(ns, ruled, ({id} \cup {}) \cup {})
  BY <1>4, <1>7, EnlargesTwice
<1>9. Enlarges(ns, out, (({id} \cup {}) \cup {}) \cup {})
  BY <1>5, <1>8, EnlargesTwice
<1>10. (({id} \cup {}) \cup {}) \cup {} = {id}
  OBVIOUS
<1> QED
  BY <1>0, <1>9, <1>10

-----------------------------------------------------------------------------
(* A node is found again, with its references, in a larger space.          *)
LEMMA NodeKept ==
  ASSUME NEW ns, NEW out, NEW ids, Good(ns), Enlarges(ns, out, ids), NEW id, Exists(ns, id)
  PROVE  /\ FindNode(out, id) = FindNode(ns, id)
         /\ Node(ns, id) \in NodeRec /\ Node(ns, id).id = id
         /\ Node(out, id).type = Node(ns, id).type /\ Node(out, id).name = Node(ns, id).name
         /\ Len(Node(ns, id).refs) \in Nat /\ Len(Node(out, id).refs) \in Nat
         /\ Len(Node(ns, id).refs) <= Len(Node(out, id).refs)
         /\ \A k \in 1 .. Len(Node(ns, id).refs) : Node(out, id).refs[k] = Node(ns, id).refs[k]
<1> DEFINE i == FindNode(ns, id)
<1>1. ns \in Seq(NodeRec) /\ UniqueIn(ns) /\ out \in Seq(NodeRec) /\ UniqueIn(out)
      /\ Keeps(ns, out) /\ Exists(out, id)
  BY DEF Enlarges, Good
<1>2. i \in 1 .. Len(ns) /\ ns[i].id = id
  BY <1>1, FindFacts
<1> HIDE DEF i
<1>3. i \in 1 .. Len(out) /\ out[i].id = id
  BY <1>1, <1>2, NodeFacts DEF Keeps
<1>4. FindNode(out, id) = i
  BY <1>1, <1>3, FindFacts
<1>5. Node(ns, id) = ns[i] /\ Node(out, id) = out[i]
  BY <1>4 DEF Node, i
<1>6. ns[i] \in NodeRec /\ Len(ns[i].refs) \in Nat /\ Len(out[i].refs) \in Nat
  BY <1>1, <1>2, <1>3, NodeFacts
<1> QED
  BY <1>1, <1>2, <1>4, <1>5, <1>6 DEF Keeps, i

LEMMA NodeType ==
  ASSUME NEW ns, Good(ns), NEW id, Exists(ns, id)
  PROVE  /\ Node(ns, id) \in NodeRec /\ Node(ns, id).id = id /\ id \in Ids
         /\ Node(ns, id).type \in NodeTypes /\ Node(ns, id).name \in NodeNames
         /\ Node(ns, id).refs \in Seq(Refs)
         /\ FindNode(ns, id) \in 1 .. Len(ns)
BY FindFacts, NodeFacts DEF Good, Node

LEMMA FramesStay ==
  ASSUME NEW ns, NEW out, NEW ids, Good(ns), Enlarges(ns, out, ids), NEW fs, FramesOK(ns, fs),
         \A k \in Standard : <<0, k>> \notin ids
  PROVE  FramesOK(out, fs)
<1>1. \A id : Exists(ns, id) => Exists(out, id)
  BY DEF Enlarges
<1>2. \A id \in {0} \X Standard : ~Exists(ns, id) => ~Exists(out, id)
  <2> TAKE id \in {0} \X Standard
  <2>1. PICK k \in Standard : id = <<0, k>>
    OBVIOUS
  <2> QED
    BY <2>1 DEF Enlarges
<1>3. ASSUME NEW k \in 1 .. Len(fs) PROVE FrameOK(out, fs[k])
  BY <1>1, <1>2 DEF FramesOK, FrameOK
<1>4. ASSUME NEW k \in 1 .. Len(fs), k < Len(fs) PROVE fs[k].i <= Len(Node(out, fs[k].source).refs)
  <2>0. fs[k] \in Frames
    BY DEF FramesOK
  <2>1. fs[k].i <= Len(Node(ns, fs[k].source).refs) /\ Exists(ns, fs[k].source) /\ fs[k].i \in Nat
    BY <1>4, <2>0 DEF FramesOK, FrameOK, Frames
  <2>2. Len(Node(ns, fs[k].source).refs) <= Len(Node(out, fs[k].source).refs)
        /\ Len(Node(ns, fs[k].source).refs) \in Nat /\ Len(Node(out, fs[k].source).refs) \in Nat
    BY <2>1, NodeKept
  <2> QED
    BY <2>1, <2>2
<1> QED
  BY <1>3, <1>4 DEF FramesOK

LEMMA FramesPush ==
  ASSUME NEW ns, NEW fs, FramesOK(ns, fs), NEW f \in Frames, FrameOK(ns, f),
         f.then.op = "clone" <=> fs # <<>>,
         fs # <<>> => fs[Len(fs)].i <= Len(Node(ns, fs[Len(fs)].source).refs)
  PROVE  FramesOK(ns, Append(fs, f))
<1> DEFINE n == Len(fs)
           g == Append(fs, f)
<1>1. fs \in Seq(Frames) /\ n \in Nat /\ (fs # <<>> <=> n > 0)
  BY DEF FramesOK
<1>2. g \in Seq(Frames) /\ Len(g) = n + 1 /\ g[n + 1] = f /\ \A k \in 1 .. n : g[k] = fs[k]
  BY <1>1
<1> HIDE DEF g
<1>3. \A k \in 1 .. n : FrameOK(ns, g[k]) /\ (g[k].then.op = "clone" <=> k > 1)
  BY <1>2 DEF FramesOK
<1>4. FrameOK(ns, g[n + 1]) /\ (g[n + 1].then.op = "clone" <=> n + 1 > 1)
  BY <1>1, <1>2
<1>5. \A k \in 1 .. n : k < n => g[k].i <= Len(Node(ns, g[k].source).refs)
  BY <1>2 DEF FramesOK
<1>6. n \in 1 .. n => g[n].i <= Len(Node(ns, g[n].source).refs)
  BY <1>1, <1>2
<1>7. \A k \in 1 .. n + 1 : k = n + 1 \/ (k \in 1 .. n /\ (k < n \/ k = n))
  BY <1>1
<1>8. \A k \in 1 .. n + 1 : FrameOK(ns, g[k]) /\ (g[k].then.op = "clone" <=> k > 1)
  BY <1>3, <1>4, <1>7
<1>9. \A k \in 1 .. n + 1 : k < n + 1 => g[k].i <= Len(Node(ns, g[k].source).refs)
  BY <1>1, <1>5, <1>6, <1>7
<1> QED
  BY <1>2, <1>8, <1>9 DEF FramesOK, g

LEMMA FramesPop ==
  ASSUME NEW ns, NEW fs, FramesOK(ns, fs), fs # <<>>
  PROVE  /\ FramesOK(ns, SubSeq(fs, 1, Len(fs) - 1))
         /\ Len(SubSeq(fs, 1, Len(fs) - 1)) = Len(fs) - 1
         /\ \A k \in 1 .. Len(fs) - 1 : SubSeq(fs, 1, Len(fs) - 1)[k] = fs[k]
<1> DEFINE n == Len(fs)
           g == SubSeq(fs, 1, n - 1)
<1>1. fs \in Seq(Frames) /\ n \in Nat /\ n > 0
  BY DEF FramesOK
<1>2. g \in Seq(Frames) /\ Len(g) = n - 1 /\ \A k \in 1 .. n - 1 : g[k] = fs[k]
  <2> DEFINE m == n - 1
  <2>1. m \in Nat /\ m = Len(fs) - 1
    BY <1>1
  <2> HIDE DEF m
  <2>2. SubSeq(fs, 1, m) \in Seq(Frames)
    BY <1>1, <2>1
  <2>3. Len(SubSeq(fs, 1, m)) = m /\ \A i \in 1 .. m : SubSeq(fs, 1, m)[i] = fs[i]
    BY <1>1, <2>1
  <2> QED
    BY <2>2, <2>3 DEF m
<1> HIDE DEF g
<1>3. \A k \in 1 .. n - 1 : k \in 1 .. n /\ k < n
  BY <1>1
<1>4. \A k \in 1 .. n - 1 : FrameOK(ns, g[k]) /\ (g[k].then.op = "clone" <=> k > 1)
  BY <1>2, <1>3 DEF FramesOK
<1>5. \A k \in 1 .. n - 1 : g[k].i <= Len(Node(ns, g[k].source).refs)
  BY <1>2, <1>3 DEF FramesOK
<1> QED
  BY <1>2, <1>4, <1>5 DEF FramesOK, g

LEMMA FramesAdvance ==
  ASSUME NEW ns, NEW fs, FramesOK(ns, fs), fs # <<>>
  PROVE  FramesOK(ns, [fs EXCEPT ![Len(fs)].i = @ + 1])
<1> DEFINE n == Len(fs)
           f == [fs[n] EXCEPT !.i = @ + 1]
           g == [fs EXCEPT ![n] = f]
<1>1. fs \in Seq(Frames) /\ n \in Nat /\ n \in 1 .. n /\ fs[n] \in Frames
  BY DEF FramesOK
<1>2. f \in Frames /\ f.source = fs[n].source /\ f.target = fs[n].target /\ f.then = fs[n].then
  BY <1>1 DEF Frames
<1>3. g = [fs EXCEPT ![Len(fs)].i = @ + 1]
  OBVIOUS
<1> HIDE DEF f
<1>4. g \in Seq(Frames) /\ Len(g) = n /\ \A k \in 1 .. n : g[k] = IF k = n THEN f ELSE fs[k]
  BY <1>1, <1>2
<1> HIDE DEF g
<1>5. \A k \in 1 .. n : FrameOK(ns, g[k]) /\ (g[k].then.op = "clone" <=> k > 1)
  BY <1>1, <1>2, <1>4 DEF FramesOK, FrameOK
<1>6. \A k \in 1 .. n : k < n => g[k].i <= Len(Node(ns, g[k].source).refs)
  BY <1>1, <1>4 DEF FramesOK
<1> QED
  BY <1>3, <1>4, <1>5, <1>6 DEF FramesOK

-----------------------------------------------------------------------------
(* Where fresh identifiers come from.                                      *)
LEMMA NextIndexFresh ==
  ASSUME IndexInv, NEW n \in NextIndex(nextIndex)
  PROVE  /\ n \in Indices \ Reserved /\ n \in Nat /\ n > nextIndex
         /\ <<1, n>> \in Ids /\ ~Exists(nodes, <<1, n>>)
<1>1. n \in Indices \ Reserved /\ n \in Nat /\ n > nextIndex
  BY SpaceAssumption DEF NextIndex
<1> QED
  BY <1>1, IdFacts DEF IndexInv

LEMMA NextIndexAbove ==
  ASSUME NEW m \in Nat, NEW n \in NextIndex(m)
  PROVE  n \in Indices \ Reserved /\ n \in Nat /\ n > m /\ <<1, n>> \in Ids
BY SpaceAssumption, IdFacts DEF NextIndex

LEMMA GivenFacts ==
  ASSUME NEW a, NEW S, NEW id \in Given(a, S)
  PROVE  \E k \in S : id = <<a, k>> /\ ~Exists(nodes, id)
BY DEF Given

LEMMA NodesOfExist ==
  ASSUME NEW T, NEW id \in NodesOf(T)
  PROVE  Exists(nodes, id)
BY DEF NodesOf, Exists

(* A step of start-up that enlarges the space, indices being used up.      *)
LEMMA Grow ==
  ASSUME SpaceInv, ~running, UNCHANGED <<running, removing>>,
         NEW ids, Enlarges(nodes, nodes', ids), nextIndex' \in Nat, nextIndex <= nextIndex',
         \A n \in Indices \ Reserved : <<1, n>> \in ids => n <= nextIndex'
  PROVE  GraphInv' /\ IndexInv' /\ PhaseInv' /\ RemoveInv'
<1>1. removing = <<>> /\ removing' = <<>> /\ ~running'
  BY DEF SpaceInv, PhaseInv
<1>2. GraphInv'
  BY <1>1 DEF GraphInv, Enlarges, Good
<1>3. IndexInv'
  <2>1. \A n \in Indices \ Reserved : n \in Nat /\ (Exists(nodes, <<1, n>>) => n <= nextIndex)
    BY SpaceAssumption DEF SpaceInv, IndexInv
  <2>2. \A n \in Indices \ Reserved : Exists(nodes, <<1, n>>)' => Exists(nodes, <<1, n>>) \/ <<1, n>> \in ids
    BY DEF Enlarges
  <2>3. nextIndex \in Nat
    BY DEF SpaceInv, IndexInv
  <2> QED
    BY <2>1, <2>2, <2>3 DEF IndexInv
<1>4. PhaseInv'
  <2>1. PICK i \in DOMAIN nodes : nodes[i].id = PropertyType /\ nodes[i].name # <<0, "Arguments">>
    BY DEF SpaceInv, PhaseInv
  <2>2. i \in 1 .. Len(nodes) /\ Len(nodes) \in Nat
    BY NodeFacts DEF SpaceInv, GraphInv
  <2>3. i \in 1 .. Len(nodes') /\ Len(nodes') \in Nat /\ DOMAIN nodes' = 1 .. Len(nodes')
    BY <2>2, NodeFacts DEF Enlarges, Keeps, Good
  <2>4. nodes'[i].id = nodes[i].id /\ nodes'[i].name = nodes[i].name
    BY <2>2 DEF Enlarges, Keeps
  <2> QED
    BY <1>1, <2>1, <2>3, <2>4 DEF PhaseInv
<1>5. RemoveInv'
  BY <1>1 DEF RemoveInv
<1> QED
  BY <1>2, <1>3, <1>4, <1>5

LEMMA GoodNodes == SpaceInv /\ removing = <<>> => Good(nodes)
BY DEF SpaceInv, GraphInv, Good

LEMMA StartUpFacts ==
  ASSUME SpaceInv, StartUp
  PROVE  /\ Good(nodes) /\ ~running /\ Exists(nodes, PropertyType)
         /\ frames = <<>> /\ pending = <<>> /\ build = <<>> /\ removing = <<>>
<1>1. ~running /\ frames = <<>> /\ pending = <<>> /\ build = <<>> /\ removing = <<>>
  BY DEF StartUp, Quiet
<1>2. Exists(nodes, PropertyType)
  BY <1>1 DEF SpaceInv, PhaseInv, Exists
<1> QED
  BY <1>1, <1>2, GoodNodes

LEMMA NoCalls == \A ns : FramesOK(ns, <<>>) /\ PendingOK(ns, <<>>) /\ BuildOK(ns, <<>>)
BY DEF FramesOK, PendingOK, BuildOK

(* A helper that makes what it makes in one step.                          *)
LEMMA QuietGrow ==
  ASSUME SpaceInv, StartUp, UNCHANGED <<frames, pending, build, running, removing>>,
         NEW ids, Enlarges(nodes, nodes', ids), nextIndex' \in Nat, nextIndex <= nextIndex',
         \A n \in Indices \ Reserved : <<1, n>> \in ids => n <= nextIndex'
  PROVE  SpaceInv'
<1>1. ~running /\ frames' = <<>> /\ pending' = <<>> /\ build' = <<>>
  BY StartUpFacts
<1>2. CallsInv'
  BY <1>1, NoCalls DEF CallsInv
<1>3. GraphInv' /\ IndexInv' /\ PhaseInv' /\ RemoveInv'
  BY <1>1, Grow
<1> QED
  BY <1>2, <1>3 DEF SpaceInv

(* A helper that creates a node and has it inherit.                        *)
LEMMA CallGrow ==
  ASSUME SpaceInv, StartUp, UNCHANGED <<nextIndex, pending, build, running, removing>>,
         NEW id \in Ids, ~Exists(nodes, id), id # PropertyType,
         \A n \in Indices \ Reserved : id # <<1, n>>,
         NEW type \in NodeTypes, NEW name \in NodeNames,
         nodes' = Append(nodes, NewNode(id, type, name)),
         NEW source, Exists(nodes, source), NEW then \in Thens, then.op # "clone",
         then.op = "component" => Exists(nodes, then.parent),
         then.op = "method" /\ then.arguments # NoId =>
            then.arguments \in {0} \X Standard /\ ~Exists(nodes, then.arguments) /\ then.arguments # id,
         CallInherit(source, id, then)
  PROVE  SpaceInv'
<1> DEFINE f == [source |-> source, target |-> id, i |-> 1, then |-> then]
<1>1. /\ Good(nodes) /\ ~running /\ frames = <<>> /\ pending' = <<>> /\ build' = <<>>
  BY StartUpFacts
<1>2. Enlarges(nodes, nodes', {id})
  BY <1>1, NodeAdded
<1>3. GraphInv' /\ IndexInv' /\ PhaseInv' /\ RemoveInv'
  <2>1. nextIndex' \in Nat /\ nextIndex <= nextIndex'
    BY DEF SpaceInv, IndexInv
  <2>2. \A n \in Indices \ Reserved : <<1, n>> \in {id} => n <= nextIndex'
    OBVIOUS
  <2> QED
    BY <1>1, <1>2, <2>1, <2>2, Grow
<1>4. source \in Ids
  BY <1>1, NodeType
<1>5. f \in Frames /\ f.source = source /\ f.target = id /\ f.then = then
  BY <1>4 DEF Frames
<1>6. frames' = Append(frames, f)
  BY DEF CallInherit
<1> HIDE DEF f
<1>7. \A x : Exists(nodes, x)' <=> Exists(nodes, x) \/ x = id
  BY <1>2 DEF Enlarges
<1>8. FrameOK(nodes', f)
  BY <1>5, <1>7 DEF FrameOK
<1>9. FramesOK(nodes', frames')
  BY <1>1, <1>5, <1>6, <1>8, NoCalls, FramesPush
<1>10. CallsInv'
  BY <1>1, <1>9, NoCalls DEF CallsInv
<1> QED
  BY <1>3, <1>10 DEF SpaceInv

-----------------------------------------------------------------------------
(* The helpers that the tables call.                                       *)
LEMMA NameFacts == NoName \in NodeNames /\ \A s \in Texts : <<0, s>> \in NodeNames /\ <<1, s>> \in NodeNames
BY DEF NodeNames

LEMMA Indexed ==
  ASSUME NEW ns, Good(ns), NEW parent, Exists(ns, parent), Exists(ns, PropertyType),
         NEW n, <<1, n>> \in Ids, ~Exists(ns, <<1, n>>), NEW name \in Texts, NEW rule \in Rules
  PROVE  Enlarges(ns, IndexedProperty(ns, parent, n, name, rule), {<<1, n>>})
BY PropertyAdded, NameFacts DEF IndexedProperty

(* A node that the tables name, and its property.                          *)
LEMMA Versioned ==
  ASSUME SpaceInv, StartUp, NEW id \in Ids, ~Exists(nodes, id), \A k : id # <<1, k>>,
         NEW type \in NodeTypes, NEW name \in NodeNames, NEW n \in NextIndex(nextIndex), NEW prop \in Texts,
         NEW out, out = IndexedProperty(Append(nodes, NewNode(id, type, name)), id, n, prop, Mandatory)
  PROVE  /\ Enlarges(nodes, out, {id, <<1, n>>}) /\ Good(out)
         /\ Exists(out, id) /\ Exists(out, PropertyType)
<1> DEFINE created == Append(nodes, NewNode(id, type, name))
<1>1. Good(nodes) /\ Exists(nodes, PropertyType)
  BY StartUpFacts
<1>2. Enlarges(nodes, created, {id})
  BY <1>1, NodeAdded
<1>3. <<1, n>> \in Ids /\ ~Exists(nodes, <<1, n>>)
  BY NextIndexFresh DEF SpaceInv
<1> HIDE DEF created
<1>4. Good(created) /\ Exists(created, PropertyType) /\ Exists(created, id) /\ ~Exists(created, <<1, n>>)
  BY <1>1, <1>2, <1>3 DEF Enlarges
<1>5. Mandatory \in Rules
  BY DEF Rules
<1>6. Enlarges(created, out, {<<1, n>>})
  BY <1>3, <1>4, <1>5, Indexed DEF created
<1>7. Enlarges(nodes, out, {id} \cup {<<1, n>>})
  BY <1>1, <1>2, <1>6, EnlargesTwice
<1>8. {id} \cup {<<1, n>>} = {id, <<1, n>>}
  OBVIOUS
<1>9. Enlarges(nodes, out, {id, <<1, n>>})
  BY <1>7, <1>8
<1>10. Good(out) /\ Exists(out, id) /\ Exists(out, PropertyType)
  BY <1>1, <1>9 DEF Enlarges
<1> QED
  BY <1>9, <1>10

LEMMA CreateVariableTypeKeeps ==
  ASSUME SpaceInv, NEW id \in Ids, ~Exists(nodes, id), \A k : id # <<1, k>>, NEW parent,
         parent # NoId => Exists(nodes, parent), CreateVariableType(id, parent)
  PROVE  SpaceInv'
<1> DEFINE created == Append(nodes, NewNode(id, "VariableType", <<0, "VariableType">>))
<1>1. PICK n \in NextIndex(nextIndex) :
        /\ nodes' = IF parent = NoId THEN IndexedProperty(created, id, n, "NodeVersion", Mandatory)
                    ELSE AddBiReference(IndexedProperty(created, id, n, "NodeVersion", Mandatory),
                                        parent, id, "HasSubtype")
        /\ nextIndex' = n
  BY DEF CreateVariableType
<1> DEFINE mid == IndexedProperty(created, id, n, "NodeVersion", Mandatory)
<1>2. StartUp /\ UNCHANGED <<frames, pending, build, running, removing>>
  BY DEF CreateVariableType
<1>3. "VariableType" \in NodeTypes /\ <<0, "VariableType">> \in NodeNames /\ "NodeVersion" \in Texts
  BY NameFacts DEF NodeTypes, Texts
<1>a. mid = IndexedProperty(Append(nodes, NewNode(id, "VariableType", <<0, "VariableType">>)), id, n,
                            "NodeVersion", Mandatory)
  OBVIOUS
<1> HIDE DEF mid
<1>4. Enlarges(nodes, mid, {id, <<1, n>>}) /\ Good(mid) /\ Exists(mid, id)
  BY <1>2, <1>3, <1>a, Versioned
<1>5. n \in Nat /\ n > nextIndex
  BY NextIndexFresh DEF SpaceInv
<1>6. nextIndex' \in Nat /\ nextIndex <= nextIndex' /\ nextIndex \in Nat
  BY <1>1, <1>5 DEF SpaceInv, IndexInv
<1>7. \A k \in Indices \ Reserved : <<1, k>> \in {id, <<1, n>>} => k <= nextIndex'
  BY <1>1, <1>5
<1>8. Enlarges(nodes, nodes', {id, <<1, n>>})
  <2>1. CASE parent = NoId
    BY <1>1, <1>4, <2>1 DEF mid
  <2>2. CASE parent # NoId
    <3>1. nodes' = AddBiReference(mid, parent, id, "HasSubtype")
      BY <1>1, <2>2 DEF mid
    <3>2. Exists(mid, parent) /\ "HasSubtype" \in RefTypes
      BY <1>4, <2>2 DEF Enlarges, RefTypes
    <3>3. Enlarges(mid, nodes', {})
      BY <1>4, <3>1, <3>2, BiAdded
    <3>4. Enlarges(nodes, nodes', {id, <<1, n>>} \cup {})
      BY <1>2, <1>4, <3>3, EnlargesTwice, StartUpFacts
    <3>5. {id, <<1, n>>} \cup {} = {id, <<1, n>>}
      OBVIOUS
    <3> QED
      BY <3>4, <3>5
  <2> QED
    BY <2>1, <2>2
<1> QED
  BY <1>2, <1>6, <1>7, <1>8, QuietGrow

LEMMA CreateBaseObjectTypeKeeps ==
  ASSUME SpaceInv, NEW id \in Ids, ~Exists(nodes, id), \A k : id # <<1, k>>, CreateBaseObjectType(id)
  PROVE  SpaceInv'
<1> DEFINE created == Append(nodes, NewNode(id, "ObjectType", <<0, "ObjectType">>))
<1>0. PICK n \in NextIndex(nextIndex) : \E m \in NextIndex(n) :
        /\ nodes' = IndexedProperty(IndexedProperty(created, id, n, "Icon", Mandatory), id, m,
                                    "NodeVersion", Mandatory)
        /\ nextIndex' = m
  BY DEF CreateBaseObjectType
<1>1. PICK m \in NextIndex(n) :
        /\ nodes' = IndexedProperty(IndexedProperty(created, id, n, "Icon", Mandatory), id, m,
                                    "NodeVersion", Mandatory)
        /\ nextIndex' = m
  BY <1>0
<1> DEFINE mid == IndexedProperty(created, id, n, "Icon", Mandatory)
<1>2. StartUp /\ UNCHANGED <<frames, pending, build, running, removing>>
  BY DEF CreateBaseObjectType
<1>3. /\ "ObjectType" \in NodeTypes /\ <<0, "ObjectType">> \in NodeNames /\ "Icon" \in Texts
      /\ "NodeVersion" \in Texts /\ Mandatory \in Rules
  BY NameFacts DEF NodeTypes, Rules, Texts
<1>a. mid = IndexedProperty(Append(nodes, NewNode(id, "ObjectType", <<0, "ObjectType">>)), id, n,
                            "Icon", Mandatory)
  OBVIOUS
<1> HIDE DEF mid
<1>4. Enlarges(nodes, mid, {id, <<1, n>>}) /\ Good(mid) /\ Exists(mid, id) /\ Exists(mid, PropertyType)
  BY <1>2, <1>3, <1>a, Versioned
<1>5. /\ n \in Nat /\ n > nextIndex /\ nextIndex \in Nat /\ ~Exists(nodes, <<1, n>>)
      /\ m \in Nat /\ m > n /\ <<1, m>> \in Ids /\ m \in Indices \ Reserved
  <2>1. n \in Nat /\ n > nextIndex /\ ~Exists(nodes, <<1, n>>)
    BY NextIndexFresh DEF SpaceInv
  <2>2. m \in Nat /\ m > n /\ <<1, m>> \in Ids /\ m \in Indices \ Reserved
    BY <2>1, NextIndexAbove
  <2> QED
    BY <2>1, <2>2 DEF SpaceInv, IndexInv
<1>6. ~Exists(mid, <<1, m>>)
  <2>1. ~Exists(nodes, <<1, m>>)
    BY <1>5 DEF SpaceInv, IndexInv
  <2>2. <<1, m>> # id /\ <<1, m>> # <<1, n>>
    BY <1>5
  <2> QED
    BY <1>4, <2>1, <2>2 DEF Enlarges
<1>7. Enlarges(mid, nodes', {<<1, m>>})
  BY <1>1, <1>3, <1>4, <1>5, <1>6, Indexed DEF mid
<1>8. Enlarges(nodes, nodes', {id, <<1, n>>} \cup {<<1, m>>})
  BY <1>2, <1>4, <1>7, EnlargesTwice, StartUpFacts
<1>9. \A k \in Indices \ Reserved : <<1, k>> \in {id, <<1, n>>} \cup {<<1, m>>} => k <= nextIndex'
  BY <1>1, <1>5
<1>10. nextIndex' \in Nat /\ nextIndex <= nextIndex'
  BY <1>1, <1>5
<1> QED
  BY <1>2, <1>8, <1>9, <1>10, QuietGrow

(* The next identifier of a table is a new one.                            *)
LEMMA TableId ==
  ASSUME NEW S \in SUBSET Standard, NEW id \in Given(0, S)
  PROVE  /\ id \in Ids /\ id \in {0} \X S /\ ~Exists(nodes, id) /\ id # PropertyType
         /\ \A n : id # <<1, n>>
<1>1. PICK k \in S : id = <<0, k>> /\ ~Exists(nodes, id)
  BY GivenFacts
<1> QED
  BY <1>1, IdFacts

LEMMA ThenFacts ==
  /\ [op |-> "clone"] \in Thens
  /\ \A name \in NodeNames : /\ [op |-> "object", name |-> name] \in Thens
                             /\ [op |-> "subtype", name |-> name] \in Thens
  /\ \A name \in NodeNames, parent \in Ids, rule \in Rules, props \in Seq(Texts) :
       [op |-> "component", name |-> name, parent |-> parent, rule |-> rule, props |-> props] \in Thens
  /\ \A name \in NodeNames, arguments \in Ids \cup {NoId} :
       [op |-> "method", name |-> name, arguments |-> arguments] \in Thens
BY DEF Thens

LEMMA PropsFacts == <<"NodeVersion">> \o OptionalProps \in Seq(Texts)
<1>1. OptionalProps \in Seq(STRING)
  BY SpaceAssumption
<1>2. \A k \in 1 .. Len(OptionalProps) : OptionalProps[k] \in Texts
  BY DEF Texts
<1>3. OptionalProps \in Seq(Texts)
  BY <1>1, <1>2
<1>4. <<"NodeVersion">> \in Seq(Texts)
  BY DEF Texts
<1> QED
  BY <1>3, <1>4

LEMMA CreateObjectSubtypeKeeps ==
  ASSUME SpaceInv, NEW id \in Given(0, Standard), NEW parent, Exists(nodes, parent),
         CreateObjectSubtype(id, parent)
  PROVE  SpaceInv'
<1> DEFINE then == [op |-> "subtype", name |-> <<0, "Subtype">>]
<1>1. StartUp /\ UNCHANGED <<nextIndex, pending, build, running, removing>> /\ CallInherit(parent, id, then)
  BY DEF CreateObjectSubtype
<1>2. /\ nodes' = Append(nodes, NewNode(id, "ObjectType", Node(nodes, parent).name))
      /\ "ObjectType" \in NodeTypes /\ Node(nodes, parent).name \in NodeNames
  BY <1>1, StartUpFacts, NodeType DEF CreateObjectSubtype, NodeTypes
<1>3. id \in Ids /\ ~Exists(nodes, id) /\ id # PropertyType /\ \A n \in Indices \ Reserved : id # <<1, n>>
  BY TableId
<1>4. then \in Thens /\ then.op = "subtype"
  BY ThenFacts, NameFacts DEF Texts
<1> HIDE DEF then
<1> QED
  BY <1>1, <1>2, <1>3, <1>4, CallGrow

LEMMA CreateComponentKeeps ==
  ASSUME SpaceInv, NEW id \in Given(0, Standard), NEW parent, Exists(nodes, parent),
         NEW type, Exists(nodes, type), NEW name \in Names, NEW rule \in TableRules,
         CreateComponent(id, parent, type, name, rule) \/ CreateVariable(id, parent, type, name, rule)
  PROVE  SpaceInv'
<1>0. StartUp /\ UNCHANGED <<nextIndex, pending, build, running, removing>>
  BY DEF CreateComponent, CreateVariable
<1>1. /\ id \in Ids /\ ~Exists(nodes, id) /\ id # PropertyType /\ \A n \in Indices \ Reserved : id # <<1, n>>
      /\ "Variable" \in NodeTypes
  BY TableId DEF NodeTypes
<1>2. /\ <<0, name>> \in NodeNames /\ NoName \in NodeNames /\ rule \in Rules /\ parent \in Ids
      /\ <<>> \in Seq(Texts)
  <2>1. name \in Texts
    BY DEF Texts
  <2>2. Good(nodes)
    BY <1>0, StartUpFacts
  <2>3. parent \in Ids
    BY <2>2, NodeType
  <2>4. rule \in Rules
    BY SpaceAssumption
  <2>5. <<>> \in Seq(Texts)
    OBVIOUS
  <2> QED
    BY <2>1, <2>3, <2>4, <2>5, NameFacts
<1>3. CASE CreateComponent(id, parent, type, name, rule)
  <2> DEFINE then == [op |-> "component", name |-> <<0, name>>, parent |-> parent, rule |-> rule,
                      props |-> <<"NodeVersion">> \o OptionalProps]
  <2>1. CallInherit(type, id, then) /\ nodes' = Append(nodes, NewNode(id, "Variable", <<0, name>>))
    BY <1>3 DEF CreateComponent
  <2>2. then \in Thens
    BY <1>2, ThenFacts, PropsFacts
  <2>3. then.op = "component" /\ then.parent = parent
    OBVIOUS
  <2> HIDE DEF then
  <2> QED
    BY <1>0, <1>1, <1>2, <2>1, <2>2, <2>3, CallGrow
<1>4. CASE CreateVariable(id, parent, type, name, rule)
  <2> DEFINE then == [op |-> "component", name |-> <<0, name>>, parent |-> parent, rule |-> rule,
                      props |-> <<>>]
  <2>1. CallInherit(type, id, then) /\ nodes' = Append(nodes, NewNode(id, "Variable", NoName))
    BY <1>4 DEF CreateVariable
  <2>2. then \in Thens
    BY <1>2, ThenFacts
  <2>3. then.op = "component" /\ then.parent = parent
    OBVIOUS
  <2> HIDE DEF then
  <2> QED
    BY <1>0, <1>1, <1>2, <2>1, <2>2, <2>3, CallGrow
<1> QED
  BY <1>3, <1>4

LEMMA CreateObjectKeeps ==
  ASSUME SpaceInv, NEW id \in Given(0, Standard) \cup Given(1, Reserved), NEW type, Exists(nodes, type),
         CreateObjectFromObjectType(id, type, <<0, "Object">>)
  PROVE  SpaceInv'
<1> DEFINE then == [op |-> "object", name |-> <<0, "Object">>]
<1>1. /\ StartUp /\ UNCHANGED <<nextIndex, pending, build, running, removing>>
      /\ CallInherit(type, id, then) /\ nodes' = Append(nodes, NewNode(id, "Object", NoName))
  BY DEF CreateObjectFromObjectType
<1>2. id \in Ids /\ ~Exists(nodes, id) /\ id # PropertyType /\ \A n \in Indices \ Reserved : id # <<1, n>>
  <2>1. CASE id \in Given(0, Standard)
    BY <2>1, TableId
  <2>2. CASE id \in Given(1, Reserved)
    <3>1. PICK k \in Reserved : id = <<1, k>> /\ ~Exists(nodes, id)
      BY <2>2, GivenFacts
    <3>2. id # PropertyType
      BY <3>1 DEF PropertyType
    <3> QED
      BY <3>1, <3>2, IdFacts
  <2> QED
    BY <2>1, <2>2
<1>3. then \in Thens /\ then.op = "object" /\ "Object" \in NodeTypes /\ NoName \in NodeNames
  BY ThenFacts, NameFacts DEF Texts, NodeTypes
<1> HIDE DEF then
<1> QED
  BY <1>1, <1>2, <1>3, CallGrow

LEMMA CloneMethodKeeps ==
  ASSUME SpaceInv, NEW id \in Given(0, Standard), NEW method, Exists(nodes, method),
         NEW arguments \in Given(0, Standard \ {id[2]}) \cup {NoId},
         CloneMethod(id, method, arguments, <<0, "Open">>)
  PROVE  SpaceInv'
<1> DEFINE then == [op |-> "method", name |-> <<0, "Open">>, arguments |-> arguments]
<1>1. /\ StartUp /\ UNCHANGED <<nextIndex, pending, build, running, removing>>
      /\ CallInherit(method, id, then) /\ nodes' = Append(nodes, NewNode(id, "Method", NoName))
  BY DEF CloneMethod
<1>2. id \in Ids /\ ~Exists(nodes, id) /\ id # PropertyType /\ \A n \in Indices \ Reserved : id # <<1, n>>
  BY TableId
<1>3. arguments # NoId => /\ arguments \in {0} \X Standard /\ ~Exists(nodes, arguments)
                          /\ arguments # id /\ arguments \in Ids
  <2>1. ASSUME arguments # NoId
        PROVE  arguments \in {0} \X (Standard \ {id[2]}) /\ ~Exists(nodes, arguments) /\ arguments \in Ids
    BY <2>1, TableId
  <2> QED
    BY <2>1
<1>4. then \in Thens /\ then.op = "method" /\ then.arguments = arguments
  BY <1>3, ThenFacts, NameFacts DEF Texts
<1>5. "Method" \in NodeTypes /\ NoName \in NodeNames
  BY NameFacts DEF NodeTypes
<1> HIDE DEF then
<1> QED
  BY <1>1, <1>2, <1>3, <1>4, <1>5, CallGrow

LEMMA CreateMethodKeeps ==
  ASSUME SpaceInv, NEW id \in Given(0, Standard),
         NEW arguments \in Given(0, Standard \ {id[2]}) \cup {NoId}, CreateMethod(id, arguments)
  PROVE  SpaceInv'
<1> DEFINE created == Append(nodes, NewNode(id, "Method", <<0, "Method">>))
<1>1. PICK n \in NextIndex(nextIndex) :
        /\ nodes' = IF arguments = NoId THEN IndexedProperty(created, id, n, "NodeVersion", Mandatory)
                    ELSE CreateProperty(IndexedProperty(created, id, n, "NodeVersion", Mandatory),
                                        id, arguments, <<0, "Arguments">>, Mandatory)
        /\ nextIndex' = n
  BY DEF CreateMethod
<1> DEFINE mid == IndexedProperty(created, id, n, "NodeVersion", Mandatory)
<1>2. StartUp /\ UNCHANGED <<frames, pending, build, running, removing>>
  BY DEF CreateMethod
<1>3. /\ "Method" \in NodeTypes /\ <<0, "Method">> \in NodeNames /\ "NodeVersion" \in Texts
      /\ <<0, "Arguments">> \in NodeNames /\ Mandatory \in Rules
  BY NameFacts DEF NodeTypes, Texts, Rules
<1>4. mid = IndexedProperty(Append(nodes, NewNode(id, "Method", <<0, "Method">>)), id, n,
                            "NodeVersion", Mandatory)
  OBVIOUS
<1> HIDE DEF mid
<1>5. id \in Ids /\ ~Exists(nodes, id) /\ \A k : id # <<1, k>>
  BY TableId
<1>6. Enlarges(nodes, mid, {id, <<1, n>>}) /\ Good(mid) /\ Exists(mid, id) /\ Exists(mid, PropertyType)
  BY <1>2, <1>3, <1>4, <1>5, Versioned
<1>7. n \in Nat /\ n > nextIndex
  BY NextIndexFresh DEF SpaceInv
<1>8. nextIndex' \in Nat /\ nextIndex <= nextIndex' /\ nextIndex \in Nat
  BY <1>1, <1>7 DEF SpaceInv, IndexInv
<1>9. CASE arguments = NoId
  <2>1. Enlarges(nodes, nodes', {id, <<1, n>>})
    BY <1>1, <1>6, <1>9 DEF mid
  <2>2. \A k \in Indices \ Reserved : <<1, k>> \in {id, <<1, n>>} => k <= nextIndex'
    BY <1>1, <1>5, <1>7
  <2> QED
    BY <1>2, <1>8, <2>1, <2>2, QuietGrow
<1>10. CASE arguments # NoId
  <2>1. nodes' = CreateProperty(mid, id, arguments, <<0, "Arguments">>, Mandatory)
    BY <1>1, <1>10 DEF mid
  <2>2. /\ arguments \in {0} \X (Standard \ {id[2]}) /\ ~Exists(nodes, arguments) /\ arguments \in Ids
        /\ \A k : arguments # <<1, k>>
    BY <1>10, TableId
  <2>3. ~Exists(mid, arguments)
    BY <1>6, <2>2 DEF Enlarges
  <2>4. Enlarges(mid, nodes', {arguments})
    BY <1>3, <1>6, <2>1, <2>2, <2>3, PropertyAdded
  <2>5. Enlarges(nodes, nodes', {id, <<1, n>>} \cup {arguments})
    BY <1>2, <1>6, <2>4, EnlargesTwice, StartUpFacts
  <2>6. \A k \in Indices \ Reserved : <<1, k>> \in {id, <<1, n>>} \cup {arguments} => k <= nextIndex'
    BY <1>1, <1>5, <1>7, <2>2
  <2> QED
    BY <1>2, <1>8, <2>5, <2>6, QuietGrow
<1> QED
  BY <1>9, <1>10

LEMMA AddPropertyKeeps ==
  ASSUME SpaceInv, NEW id \in Given(0, Standard), NEW parent, Exists(nodes, parent), NEW name \in Names,
         NEW rule \in TableRules, AddProperty(id, parent, name, rule)
  PROVE  SpaceInv'
<1>1. /\ StartUp /\ UNCHANGED <<nextIndex, frames, pending, build, running, removing>>
      /\ nodes' = CreateProperty(nodes, parent, id, <<0, name>>, rule)
  BY DEF AddProperty
<1>2. id \in Ids /\ ~Exists(nodes, id) /\ \A n : id # <<1, n>>
  BY TableId
<1>3. <<0, name>> \in NodeNames /\ rule \in Rules
  <2>1. name \in Texts
    BY DEF Texts
  <2> QED
    BY <2>1, NameFacts, SpaceAssumption
<1>4. Good(nodes) /\ Exists(nodes, PropertyType)
  BY <1>1, StartUpFacts
<1>5. Enlarges(nodes, nodes', {id})
  BY <1>1, <1>2, <1>3, <1>4, PropertyAdded
<1>6. nextIndex' \in Nat /\ nextIndex <= nextIndex'
  BY <1>1 DEF SpaceInv, IndexInv
<1> QED
  BY <1>1, <1>2, <1>5, <1>6, QuietGrow

LEMMA AttachKeeps ==
  ASSUME SpaceInv, NEW parent, Exists(nodes, parent), NEW child, Exists(nodes, child),
         NEW link \in TableLinks, NEW rule \in TableRules, Attach(parent, child, link, rule)
  PROVE  SpaceInv'
<1> DEFINE ruled == AddUniReference(nodes, child, rule, "HasModellingRule", FALSE)
<1>1. /\ StartUp /\ UNCHANGED <<nextIndex, frames, pending, build, running, removing>>
      /\ nodes' = AddBiReference(ruled, parent, child, link)
  BY DEF Attach
<1>2. Good(nodes) /\ rule \in Ids /\ link \in RefTypes
  BY <1>1, StartUpFacts, SpaceAssumption, IdFacts
<1>3. Enlarges(nodes, ruled, {})
  BY <1>2, RuleAdded
<1> HIDE DEF ruled
<1>4. Good(ruled) /\ Exists(ruled, parent) /\ Exists(ruled, child)
  BY <1>3 DEF Enlarges
<1>5. Enlarges(ruled, nodes', {})
  BY <1>1, <1>2, <1>4, BiAdded
<1>6. Enlarges(nodes, nodes', {} \cup {})
  BY <1>2, <1>3, <1>5, EnlargesTwice
<1>7. nextIndex' \in Nat /\ nextIndex <= nextIndex'
  BY <1>1 DEF SpaceInv, IndexInv
<1> QED
  BY <1>1, <1>6, <1>7, QuietGrow

(* BuildReferencesOfTypeToNode.                                            *)
LEMMA BuildReferencesKeeps ==
  ASSUME SpaceInv, NEW type \in BuildTypes, NEW target, Exists(nodes, target), BuildReferences(type, target)
  PROVE  SpaceInv'
<1> DEFINE b == [type |-> type, target |-> target, i |-> Len(nodes)]
<1>1. StartUp /\ UNCHANGED <<nodes, nextIndex, frames, pending, running, removing>> /\ build' = <<b>>
  BY DEF BuildReferences
<1>2. /\ Good(nodes) /\ ~running /\ frames = <<>> /\ pending = <<>>
  BY <1>1, StartUpFacts
<1>3. Len(nodes) \in Nat /\ target \in Ids
  BY <1>2, NodeType DEF Good
<1>4. b \in [type : BuildTypes, target : Ids, i : 0 .. Len(nodes)] /\ b.target = target
  BY <1>3
<1> HIDE DEF b
<1>5. build'[1] = b
  BY <1>1
<1>6. BuildOK(nodes', build')
  BY <1>1, <1>4, <1>5 DEF BuildOK
<1>7. CallsInv'
  BY <1>1, <1>2, <1>6, NoCalls DEF CallsInv
<1>8. GraphInv' /\ IndexInv' /\ PhaseInv' /\ RemoveInv'
  BY <1>1, <1>2 DEF SpaceInv, GraphInv, IndexInv, PhaseInv, RemoveInv, Walk
<1> QED
  BY <1>7, <1>8 DEF SpaceInv

LEMMA BuildNextKeeps == SpaceInv /\ BuildNext => SpaceInv'
<1> SUFFICES ASSUME SpaceInv, BuildNext PROVE SpaceInv'
  OBVIOUS
<1> DEFINE b == build[1]
           node == nodes[b.i]
<1>1. build # <<>> /\ UNCHANGED <<nextIndex, frames, pending, running, removing>>
  BY DEF BuildNext
<1>2. frames = <<>> /\ pending = <<>> /\ ~running /\ removing = <<>> /\ removing' = <<>>
  BY <1>1 DEF SpaceInv, CallsInv, PhaseInv
<1>3. Good(nodes)
  BY <1>2, GoodNodes
<1>4. b \in [type : BuildTypes, target : Ids, i : 0 .. Len(nodes)] /\ Exists(nodes, b.target)
  BY <1>1 DEF SpaceInv, CallsInv, BuildOK
<1>5. CASE b.i = 0
  <2>1. build' = <<>> /\ nodes' = nodes
    BY <1>5 DEF BuildNext
  <2>2. CallsInv'
    BY <1>1, <1>2, <2>1, NoCalls DEF CallsInv
  <2>3. GraphInv' /\ IndexInv' /\ PhaseInv' /\ RemoveInv'
    BY <1>1, <1>2, <2>1 DEF SpaceInv, GraphInv, IndexInv, PhaseInv, RemoveInv
  <2> QED
    BY <2>2, <2>3 DEF SpaceInv
<1>6. CASE b.i # 0
  <2> DEFINE c == [b EXCEPT !.i = @ - 1]
  <2>1. /\ build' = <<c>>
        /\ nodes' = IF Missing(node, b.type, b.target)
                    THEN AddBiReference(nodes, b.target, node.id, "Organizes") ELSE nodes
    BY <1>6 DEF BuildNext
  <2>2. Len(nodes) \in Nat /\ b.i \in 1 .. Len(nodes)
    BY <1>3, <1>4, <1>6 DEF Good
  <2>3. Exists(nodes, node.id)
    BY <1>3, <2>2 DEF Exists, Good
  <2>4. Enlarges(nodes, nodes', {}) /\ Len(nodes') = Len(nodes)
    <3>1. "Organizes" \in RefTypes
      BY DEF RefTypes
    <3>2. CASE Missing(node, b.type, b.target)
      BY <1>3, <1>4, <2>1, <2>3, <3>1, <3>2, BiAdded
    <3>3. CASE ~Missing(node, b.type, b.target)
      <4>1. nodes' = nodes
        BY <2>1, <3>3
      <4>2. Keeps(nodes, nodes)
        BY <1>3, NodeFacts DEF Keeps, Good
      <4> QED
        BY <1>3, <4>1, <4>2 DEF Enlarges
    <3> QED
      BY <3>2, <3>3
  <2>5. c \in [type : BuildTypes, target : Ids, i : 0 .. Len(nodes)] /\ c.target = b.target
    BY <1>4, <2>2
  <2> HIDE DEF c, b
  <2>6. build'[1] = c
    BY <2>1
  <2>7. BuildOK(nodes', build')
    BY <1>4, <2>1, <2>4, <2>5, <2>6 DEF BuildOK, Enlarges
  <2>8. CallsInv'
    BY <1>1, <1>2, <2>7, NoCalls DEF CallsInv
  <2>9. nextIndex' \in Nat /\ nextIndex <= nextIndex'
    BY <1>1 DEF SpaceInv, IndexInv
  <2>10. GraphInv' /\ IndexInv' /\ PhaseInv' /\ RemoveInv'
    BY <1>1, <1>2, <2>4, <2>9, Grow
  <2> QED
    BY <2>8, <2>10 DEF SpaceInv
<1> QED
  BY <1>5, <1>6

(* CreateComponentProperties.                                              *)
LEMMA CreateNextPropertyKeeps == SpaceInv /\ CreateNextProperty => SpaceInv'
<1> SUFFICES ASSUME SpaceInv, CreateNextProperty PROVE SpaceInv'
  OBVIOUS
<1> DEFINE p == Head(pending)
<1>1. /\ pending # <<>> /\ frames = <<>> /\ pending' = Tail(pending)
      /\ UNCHANGED <<frames, build, running, removing>>
  BY DEF CreateNextProperty
<1>2. ~running /\ removing = <<>> /\ build = <<>> /\ Exists(nodes, PropertyType)
  BY <1>1 DEF SpaceInv, CallsInv, PhaseInv, Exists
<1>3. Good(nodes)
  BY <1>2, GoodNodes
<1>4. PendingOK(nodes, pending)
  BY DEF SpaceInv, CallsInv
<1>5. /\ p \in [parent : Ids, name : Texts, rule : Rules] /\ Exists(nodes, p.parent)
      /\ pending' \in Seq([parent : Ids, name : Texts, rule : Rules])
      /\ \A k \in 1 .. Len(pending') : Exists(nodes, pending'[k].parent)
  <2> DEFINE R == [parent : Ids, name : Texts, rule : Rules]
  <2>1. pending \in Seq(R) /\ \A k \in 1 .. Len(pending) : Exists(nodes, pending[k].parent)
    BY <1>4 DEF PendingOK
  <2> HIDE DEF R
  <2>2. Len(pending) \in Nat /\ Len(pending) > 0 /\ p = pending[1] /\ pending[1] \in R
    BY <1>1, <2>1
  <2>3. Tail(pending) \in Seq(R) /\ Len(Tail(pending)) = Len(pending) - 1
        /\ \A k \in 1 .. Len(pending) - 1 : Tail(pending)[k] = pending[k + 1]
    BY <1>1, <2>1, <2>2
  <2>4. \A k \in 1 .. Len(pending) - 1 : k + 1 \in 1 .. Len(pending)
    BY <2>2
  <2> QED
    BY <1>1, <2>1, <2>2, <2>3, <2>4 DEF R
<1>6. PICK n \in NextIndex(nextIndex) :
        IF PropertyExists(p.parent, p.name) THEN UNCHANGED <<nodes, nextIndex>>
        ELSE nodes' = IndexedProperty(nodes, p.parent, n, p.name, p.rule) /\ nextIndex' = n
  BY DEF CreateNextProperty
<1>7. n \in Nat /\ n > nextIndex /\ <<1, n>> \in Ids /\ ~Exists(nodes, <<1, n>>) /\ nextIndex \in Nat
  BY NextIndexFresh DEF SpaceInv, IndexInv
<1> HIDE DEF p
<1>8. CASE PropertyExists(p.parent, p.name)
  <2>1. UNCHANGED <<nodes, nextIndex>>
    BY <1>6, <1>8
  <2>2. CallsInv'
    BY <1>1, <1>2, <1>5, <2>1, NoCalls DEF CallsInv, PendingOK
  <2>3. GraphInv' /\ IndexInv' /\ RemoveInv' /\ PhaseInv'
    BY <1>1, <1>2, <2>1 DEF SpaceInv, GraphInv, IndexInv, RemoveInv, PhaseInv
  <2> QED
    BY <2>2, <2>3 DEF SpaceInv
<1>9. CASE ~PropertyExists(p.parent, p.name)
  <2>1. nodes' = IndexedProperty(nodes, p.parent, n, p.name, p.rule) /\ nextIndex' = n
    BY <1>6, <1>9
  <2>2. Enlarges(nodes, nodes', {<<1, n>>})
    BY <1>2, <1>3, <1>5, <1>7, <2>1, Indexed
  <2>3. CallsInv'
    <3>1. PendingOK(nodes', pending')
      BY <1>5, <2>2 DEF PendingOK, Enlarges
    <3> QED
      BY <1>1, <1>2, <3>1, NoCalls DEF CallsInv
  <2>4. \A k \in Indices \ Reserved : <<1, k>> \in {<<1, n>>} => k <= nextIndex'
    BY <1>7, <2>1
  <2>5. GraphInv' /\ IndexInv' /\ PhaseInv' /\ RemoveInv'
    BY <1>1, <1>2, <1>7, <2>1, <2>2, <2>4, Grow
  <2> QED
    BY <2>3, <2>5 DEF SpaceInv
<1> QED
  BY <1>8, <1>9

-----------------------------------------------------------------------------
(* InheritReferences: what is known while a call is under way.             *)
LEMMA TopFacts ==
  ASSUME SpaceInv, frames # <<>>
  PROVE  /\ Good(nodes) /\ ~running /\ removing = <<>> /\ pending = <<>> /\ build = <<>>
         /\ FramesOK(nodes, frames) /\ Len(frames) \in Nat /\ Len(frames) \in 1 .. Len(frames)
         /\ Top \in Frames /\ FrameOK(nodes, Top)
         /\ Top.then.op = "clone" <=> Len(frames) > 1
<1>1. pending = <<>> /\ build = <<>> /\ FramesOK(nodes, frames)
  BY DEF SpaceInv, CallsInv
<1>2. ~running /\ removing = <<>>
  BY DEF SpaceInv, PhaseInv
<1>3. Good(nodes)
  BY <1>2, GoodNodes
<1>4. Len(frames) \in Nat /\ Len(frames) \in 1 .. Len(frames) /\ frames[Len(frames)] \in Frames
  BY <1>1 DEF FramesOK
<1> QED
  BY <1>1, <1>2, <1>3, <1>4 DEF FramesOK, Top

LEMMA RefFacts ==
  ASSUME NEW ns, Good(ns), NEW id, Exists(ns, id), NEW k \in 1 .. Len(Node(ns, id).refs)
  PROVE  /\ Node(ns, id).refs[k] \in Refs /\ Node(ns, id).refs[k].type \in RefTypes
         /\ Node(ns, id).refs[k].target \in Ids /\ Node(ns, id).refs[k].inverse \in BOOLEAN
         /\ Node(ns, id).refs[k].type # "HasModellingRule" => Exists(ns, Node(ns, id).refs[k].target)
<1> DEFINE i == FindNode(ns, id)
           r == Node(ns, id).refs[k]
<1>1. /\ Node(ns, id).refs \in Seq(Refs) /\ i \in 1 .. Len(ns) /\ Node(ns, id) = ns[i]
      /\ ns \in Seq(NodeRec) /\ ReciprocalBut(ns, {})
  BY NodeType DEF Node, Good
<1>2. r \in Refs
  BY <1>1
<1>3. ASSUME r.type # "HasModellingRule" PROVE Exists(ns, r.target)
  <2>1. Answered(ns, r, ns[i].id)
    BY <1>1, <1>3, NodeFacts DEF ReciprocalBut
  <2> QED
    BY <2>1 DEF Answered, Exists
<1> HIDE DEF r, i
<1>4. r.type \in RefTypes /\ r.target \in Ids /\ r.inverse \in BOOLEAN
  BY <1>2 DEF Refs
<1> QED
  BY <1>2, <1>3, <1>4 DEF r

LEMMA CurrentFacts ==
  ASSUME SpaceInv, AtReference
  PROVE  /\ frames # <<>> /\ Current.type \in RefTypes
         /\ Current.target \in Ids /\ Current.inverse \in BOOLEAN
         /\ Current.type # "HasModellingRule" => Exists(nodes, Current.target)
<1>1. frames # <<>> /\ Top.i <= Len(Node(nodes, Top.source).refs)
  BY DEF AtReference, SourceRefs
<1>2. Good(nodes) /\ Top.i \in Nat \ {0} /\ Exists(nodes, Top.source)
  BY <1>1, TopFacts DEF Frames, FrameOK
<1>3. Len(Node(nodes, Top.source).refs) \in Nat
  BY <1>2, NodeType
<1>4. Top.i \in 1 .. Len(Node(nodes, Top.source).refs)
  BY <1>1, <1>2, <1>3
<1> QED
  BY <1>1, <1>2, <1>4, RefFacts DEF Current, SourceRefs

LEMMA FramesGrow ==
  ASSUME SpaceInv, frames # <<>>, UNCHANGED <<pending, build, running, removing>>,
         NEW ids, Enlarges(nodes, nodes', ids), nextIndex' \in Nat, nextIndex <= nextIndex',
         \A n \in Indices \ Reserved : <<1, n>> \in ids => n <= nextIndex',
         FramesOK(nodes', frames')
  PROVE  SpaceInv'
<1>1. ~running /\ pending' = <<>> /\ build' = <<>>
  BY TopFacts
<1>2. CallsInv'
  BY <1>1, NoCalls DEF CallsInv
<1>3. GraphInv' /\ IndexInv' /\ PhaseInv' /\ RemoveInv'
  BY <1>1, Grow
<1> QED
  BY <1>2, <1>3 DEF SpaceInv

(* A step of the loop that adds references, if any.                        *)
LEMMA AdvanceGrow ==
  ASSUME SpaceInv, frames # <<>>, Advance, UNCHANGED <<nextIndex, pending, build, running, removing>>,
         Enlarges(nodes, nodes', {})
  PROVE  SpaceInv'
<1>1. FramesOK(nodes, frames')
  BY TopFacts, FramesAdvance DEF Advance
<1>2. Good(nodes)
  BY TopFacts
<1>3. FramesOK(nodes', frames')
  BY <1>1, <1>2, FramesStay
<1>4. nextIndex' \in Nat /\ nextIndex <= nextIndex'
  BY DEF SpaceInv, IndexInv
<1> QED
  BY <1>3, <1>4, FramesGrow

LEMMA InheritRuleKeeps == SpaceInv /\ InheritRule => SpaceInv'
<1> SUFFICES ASSUME SpaceInv, InheritRule PROVE SpaceInv'
  OBVIOUS
<1>1. /\ AtReference /\ Advance /\ UNCHANGED <<nextIndex, pending, build, running, removing>>
      /\ nodes' = AddUniReference(nodes, Top.target, Current.target, "HasModellingRule", Current.inverse)
  BY DEF InheritRule
<1>2. frames # <<>> /\ Current.target \in Ids /\ Current.inverse \in BOOLEAN
  BY <1>1, CurrentFacts
<1>3. Good(nodes) /\ Exists(nodes, Top.target)
  BY <1>2, TopFacts DEF FrameOK
<1>4. Enlarges(nodes, nodes', {})
  BY <1>1, <1>2, <1>3, RuleAdded
<1> QED
  BY <1>1, <1>2, <1>4, AdvanceGrow

LEMMA InheritLinkKeeps == SpaceInv /\ InheritLink => SpaceInv'
<1> SUFFICES ASSUME SpaceInv, InheritLink PROVE SpaceInv'
  OBVIOUS
<1>1. /\ AtReference /\ Linked /\ Advance /\ UNCHANGED <<nextIndex, pending, build, running, removing>>
      /\ nodes' = IF Current.inverse
                  THEN AddBiReference(nodes, Current.target, Top.target, Current.type)
                  ELSE AddBiReference(nodes, Top.target, Current.target, Current.type)
  BY DEF InheritLink
<1>2. Current.type # "HasModellingRule"
  BY <1>1 DEF Linked
<1>3. frames # <<>> /\ Current.type \in RefTypes /\ Exists(nodes, Current.target)
  BY <1>1, <1>2, CurrentFacts
<1>4. Good(nodes) /\ Exists(nodes, Top.target)
  BY <1>3, TopFacts DEF FrameOK
<1>5. Enlarges(nodes, nodes', {})
  <2>1. CASE Current.inverse
    BY <1>1, <1>3, <1>4, <2>1, BiAdded
  <2>2. CASE ~Current.inverse
    BY <1>1, <1>3, <1>4, <2>2, BiAdded
  <2> QED
    BY <2>1, <2>2
<1> QED
  BY <1>1, <1>3, <1>5, AdvanceGrow

LEMMA SameSpace == \A ns : Good(ns) => Enlarges(ns, ns, {})
<1> SUFFICES ASSUME NEW ns, Good(ns) PROVE Enlarges(ns, ns, {})
  OBVIOUS
<1>1. Keeps(ns, ns)
  BY NodeFacts DEF Keeps, Good
<1> QED
  BY <1>1 DEF Enlarges

LEMMA SkipReferenceKeeps == SpaceInv /\ SkipReference => SpaceInv'
<1> SUFFICES ASSUME SpaceInv, SkipReference PROVE SpaceInv'
  OBVIOUS
<1>1. frames # <<>> /\ Advance /\ UNCHANGED <<nodes, nextIndex, pending, build, running, removing>>
  BY DEF SkipReference, AtReference
<1>2. Enlarges(nodes, nodes', {})
  BY <1>1, TopFacts, SameSpace
<1> QED
  BY <1>1, <1>2, AdvanceGrow

LEMMA CloneChildKeeps == SpaceInv /\ CloneChild => SpaceInv'
<1> SUFFICES ASSUME SpaceInv, CloneChild PROVE SpaceInv'
  OBVIOUS
<1> DEFINE child == Node(nodes, Current.target)
<1>1. AtReference /\ ChildLink(Current.type) /\ UNCHANGED <<pending, build, running, removing>>
  BY DEF CloneChild
<1>2. PICK n \in NextIndex(nextIndex) :
        /\ nodes' = Append(nodes, NewNode(<<1, n>>, child.type, child.name))
        /\ CallInherit(Current.target, <<1, n>>, [op |-> "clone"])
        /\ nextIndex' = n
  BY DEF CloneChild
<1> DEFINE f == [source |-> Current.target, target |-> <<1, n>>, i |-> 1, then |-> [op |-> "clone"]]
<1>3. Current.type # "HasModellingRule"
  BY <1>1 DEF ChildLink
<1>4. frames # <<>> /\ Exists(nodes, Current.target) /\ Current.target \in Ids
  BY <1>1, <1>3, CurrentFacts
<1>5. Good(nodes) /\ FramesOK(nodes, frames) /\ FrameOK(nodes, Top)
  BY <1>4, TopFacts
<1>6. child.type \in NodeTypes /\ child.name \in NodeNames
  BY <1>4, <1>5, NodeType
<1>7. /\ n \in Nat /\ n > nextIndex /\ <<1, n>> \in Ids /\ ~Exists(nodes, <<1, n>>)
      /\ nextIndex \in Nat /\ <<1, n>> # PropertyType /\ \A k \in Standard : <<0, k>> # <<1, n>>
  BY NextIndexFresh, IdFacts DEF SpaceInv, IndexInv, PropertyType
<1>8. Enlarges(nodes, nodes', {<<1, n>>})
  BY <1>2, <1>5, <1>6, <1>7, NodeAdded
<1>9. FramesOK(nodes', frames)
  BY <1>5, <1>7, <1>8, FramesStay
<1>10. /\ f \in Frames /\ f.source = Current.target /\ f.target = <<1, n>> /\ f.then.op = "clone"
  BY <1>4, <1>7, ThenFacts DEF Frames
<1>11. frames' = Append(frames, f)
  BY <1>2 DEF CallInherit
<1> HIDE DEF f
<1>12. FrameOK(nodes', f)
  BY <1>4, <1>7, <1>8, <1>10 DEF FrameOK, Enlarges
<1>13. Top.i <= Len(Node(nodes', Top.source).refs)
  <2>1. Exists(nodes, Top.source) /\ Top.i \in Nat /\ Top.i <= Len(Node(nodes, Top.source).refs)
    BY <1>1, <1>4, TopFacts DEF AtReference, SourceRefs, FrameOK, Frames
  <2>2. /\ Len(Node(nodes, Top.source).refs) <= Len(Node(nodes', Top.source).refs)
        /\ Len(Node(nodes, Top.source).refs) \in Nat /\ Len(Node(nodes', Top.source).refs) \in Nat
    BY <1>5, <1>8, <2>1, NodeKept
  <2> QED
    BY <2>1, <2>2
<1>14. FramesOK(nodes', frames')
  BY <1>4, <1>9, <1>10, <1>11, <1>12, <1>13, FramesPush DEF Top
<1>15. \A k \in Indices \ Reserved : <<1, k>> \in {<<1, n>>} => k <= nextIndex'
  BY <1>2, <1>7
<1> QED
  BY <1>1, <1>2, <1>4, <1>7, <1>8, <1>14, <1>15, FramesGrow

LEMMA CloneReturnsKeeps == SpaceInv /\ CloneReturns => SpaceInv'
<1> SUFFICES ASSUME SpaceInv, CloneReturns PROVE SpaceInv'
  OBVIOUS
<1> DEFINE n == Len(frames)
           caller == frames[n - 1]
           g == SubSeq(frames, 1, n - 1)
<1>1. /\ frames # <<>> /\ Top.then.op = "clone"
      /\ nodes' = AddBiReference(nodes, caller.target, Top.target,
                                 Node(nodes, caller.source).refs[caller.i].type)
      /\ frames' = [g EXCEPT ![n - 1].i = caller.i + 1]
      /\ UNCHANGED <<nextIndex, pending, build, running, removing>>
  BY DEF CloneReturns, Return
<1>2. Good(nodes) /\ FramesOK(nodes, frames) /\ n \in Nat /\ n > 1 /\ Exists(nodes, Top.target)
  BY <1>1, TopFacts DEF FrameOK
<1>3. /\ n - 1 \in 1 .. n /\ caller \in Frames /\ FrameOK(nodes, caller)
      /\ caller.i <= Len(Node(nodes, caller.source).refs)
  BY <1>2 DEF FramesOK
<1>4. Exists(nodes, caller.source) /\ Exists(nodes, caller.target) /\ caller.i \in Nat \ {0}
  BY <1>3 DEF FrameOK, Frames
<1>5. Len(Node(nodes, caller.source).refs) \in Nat
  BY <1>2, <1>4, NodeType
<1>6. caller.i \in 1 .. Len(Node(nodes, caller.source).refs)
  BY <1>3, <1>4, <1>5
<1>7. Node(nodes, caller.source).refs[caller.i].type \in RefTypes
  BY <1>2, <1>4, <1>6, RefFacts
<1>8. Enlarges(nodes, nodes', {})
  BY <1>1, <1>2, <1>4, <1>7, BiAdded
<1>9. FramesOK(nodes, g) /\ Len(g) = n - 1 /\ g[n - 1] = caller
  <2>1. FramesOK(nodes, g) /\ Len(g) = n - 1 /\ \A k \in 1 .. n - 1 : g[k] = frames[k]
    BY <1>1, <1>2, FramesPop
  <2> QED
    BY <1>2, <2>1
<1> HIDE DEF g
<1>10. g # <<>>
  BY <1>2, <1>9
<1>11. frames' = [g EXCEPT ![Len(g)].i = @ + 1]
  BY <1>1, <1>9
<1>12. FramesOK(nodes, frames')
  BY <1>9, <1>10, <1>11, FramesAdvance
<1>13. FramesOK(nodes', frames')
  BY <1>2, <1>8, <1>12, FramesStay
<1>14. nextIndex' \in Nat /\ nextIndex <= nextIndex'
  BY <1>1 DEF SpaceInv, IndexInv
<1> QED
  BY <1>1, <1>8, <1>13, <1>14, FramesGrow

-----------------------------------------------------------------------------
(* Returning to a helper, which names its node.                            *)
HasPropertyType(ns) == \E i \in DOMAIN ns : ns[i].id = PropertyType /\ ns[i].name # <<0, "Arguments">>

LEMMA PropertyTypeStays ==
  ASSUME NEW ns, Good(ns), NEW out, NEW ids, Enlarges(ns, out, ids), HasPropertyType(ns)
  PROVE  HasPropertyType(out)
<1>1. ns \in Seq(NodeRec) /\ out \in Seq(NodeRec) /\ Keeps(ns, out)
  BY DEF Good, Enlarges
<1>2. PICK i \in DOMAIN ns : ns[i].id = PropertyType /\ ns[i].name # <<0, "Arguments">>
  BY DEF HasPropertyType
<1>3. i \in 1 .. Len(ns) /\ i \in 1 .. Len(out) /\ DOMAIN out = 1 .. Len(out)
  BY <1>1, <1>2, NodeFacts DEF Keeps
<1>4. out[i].id = ns[i].id /\ out[i].name = ns[i].name
  BY <1>1, <1>3 DEF Keeps
<1> QED
  BY <1>2, <1>3, <1>4 DEF HasPropertyType

(* out is ns with one node renamed.                                        *)
Renames(ns, out) ==
  /\ Good(out) /\ Len(out) = Len(ns)
  /\ \A i \in 1 .. Len(ns) : /\ out[i].id = ns[i].id /\ out[i].type = ns[i].type
                             /\ out[i].refs = ns[i].refs
  /\ \A id : Exists(out, id) <=> Exists(ns, id)

LEMMA NamedFacts ==
  ASSUME SpaceInv, frames # <<>>, Top.then.name \in NodeNames
  PROVE  Renames(nodes, Named) /\ HasPropertyType(Named)
<1> DEFINE at == FindNode(nodes, Top.target)
           out == Named
           new == [nodes[at] EXCEPT !.name = Top.then.name]
<1>1. /\ nodes \in Seq(NodeRec) /\ UniqueIn(nodes) /\ ReciprocalBut(nodes, {}) /\ ~running
      /\ Exists(nodes, Top.target) /\ Top.target # PropertyType
  BY TopFacts DEF Good, FrameOK
<1>2. at \in 1 .. Len(nodes) /\ nodes[at].id = Top.target
  BY <1>1, FindFacts
<1>3. out = [nodes EXCEPT ![at] = new]
  BY DEF Named
<1>4. nodes[at] \in NodeRec
  BY <1>1, <1>2, NodeFacts
<1>5. new \in NodeRec /\ new.id = nodes[at].id /\ new.type = nodes[at].type /\ new.refs = nodes[at].refs
  BY <1>4 DEF NodeRec
<1> HIDE DEF at, new, out
<1>6. /\ out \in Seq(NodeRec) /\ Len(out) = Len(nodes)
      /\ \A i \in 1 .. Len(nodes) : out[i] = IF i = at THEN new ELSE nodes[i]
  BY <1>1, <1>2, <1>3, <1>5
<1>7. \A i \in 1 .. Len(nodes) : out[i].id = nodes[i].id /\ out[i].type = nodes[i].type
                                 /\ out[i].refs = nodes[i].refs
  BY <1>5, <1>6
<1>8. \A id : Exists(out, id) <=> Exists(nodes, id)
  BY <1>1, <1>6, <1>7, NodeFacts DEF Exists
<1>9. DOMAIN out = 1 .. Len(nodes) /\ DOMAIN nodes = 1 .. Len(nodes)
  BY <1>1, <1>6, NodeFacts
<1>10. UniqueIn(out)
  BY <1>1, <1>7, <1>9 DEF UniqueIn
<1>11. ASSUME NEW r, NEW holder, Answered(nodes, r, holder) PROVE Answered(out, r, holder)
  BY <1>7, <1>9, <1>11 DEF Answered
<1>12. ReciprocalBut(out, {})
  BY <1>1, <1>7, <1>9, <1>11 DEF ReciprocalBut
<1>13. HasPropertyType(out)
  <2>1. PICK i \in DOMAIN nodes : nodes[i].id = PropertyType /\ nodes[i].name # <<0, "Arguments">>
    BY <1>1 DEF SpaceInv, PhaseInv
  <2>2. i # at /\ i \in 1 .. Len(nodes)
    BY <1>1, <1>2, <1>9, <2>1
  <2> QED
    BY <1>6, <1>9, <2>1, <2>2 DEF HasPropertyType
<1> QED
  BY <1>6, <1>7, <1>8, <1>10, <1>12, <1>13 DEF Renames, Good, out

(* The helper ends, all of its calls having returned.                      *)
LEMMA Settle ==
  ASSUME SpaceInv, frames # <<>>, frames' = <<>>, PendingOK(nodes', pending'),
         UNCHANGED <<nextIndex, build, running, removing>>, Good(nodes'), HasPropertyType(nodes'),
         \A n \in Indices \ Reserved : Exists(nodes', <<1, n>>) => Exists(nodes, <<1, n>>)
  PROVE  SpaceInv'
<1>1. ~running' /\ removing' = <<>> /\ build' = <<>>
  BY TopFacts
<1>2. CallsInv'
  BY <1>1, NoCalls DEF CallsInv
<1>3. GraphInv'
  BY <1>1 DEF GraphInv, Good
<1>4. IndexInv'
  BY DEF SpaceInv, IndexInv
<1>5. PhaseInv' /\ RemoveInv'
  BY <1>1 DEF PhaseInv, RemoveInv, HasPropertyType
<1> QED
  BY <1>2, <1>3, <1>4, <1>5 DEF SpaceInv

LEMMA LastPop ==
  ASSUME SpaceInv, frames # <<>>, Top.then.op # "clone", Pop
  PROVE  frames' = <<>>
<1>1. Len(frames) = 1 /\ FramesOK(nodes, frames)
  BY TopFacts
<1>2. Len(frames') = 0 /\ frames' \in Seq(Frames)
  <2>1. FramesOK(nodes, frames') /\ Len(frames') = Len(frames) - 1
    BY <1>1, FramesPop DEF Pop
  <2> QED
    BY <1>1, <2>1 DEF FramesOK
<1> QED
  BY <1>2

LEMMA ThenTypes ==
  ASSUME NEW t \in Thens
  PROVE  /\ t.op \in {"object", "subtype", "component", "method"} => t.name \in NodeNames
         /\ t.op = "component" => t.rule \in Rules /\ t.props \in Seq(Texts)
         /\ t.op = "method" => t.arguments \in Ids \cup {NoId}
BY DEF Thens

LEMMA ObjectReturnsKeeps == SpaceInv /\ (ObjectReturns \/ SubtypeReturns) => SpaceInv'
<1> SUFFICES ASSUME SpaceInv, ObjectReturns \/ SubtypeReturns PROVE SpaceInv'
  OBVIOUS
<1>1. /\ frames # <<>> /\ Top.then.op \in {"object", "subtype"} /\ Pop
      /\ UNCHANGED <<nextIndex, pending, build, running, removing>>
      /\ \/ nodes' = AddBiReference(Named, Top.target, Top.source, "HasTypeDefinition")
         \/ nodes' = AddBiReference(Named, Top.source, Top.target, "HasSubtype")
  BY DEF ObjectReturns, SubtypeReturns, Return
<1>2. /\ Exists(nodes, Top.source) /\ Exists(nodes, Top.target) /\ Top.then \in Thens
      /\ pending' = <<>>
  BY <1>1, TopFacts DEF FrameOK, Frames
<1>3. Renames(nodes, Named) /\ HasPropertyType(Named)
  BY <1>1, <1>2, ThenTypes, NamedFacts
<1>4. Good(Named) /\ Exists(Named, Top.source) /\ Exists(Named, Top.target)
  BY <1>2, <1>3 DEF Renames
<1>5. Enlarges(Named, nodes', {})
  BY <1>1, <1>4, BiAdded DEF RefTypes
<1>6. Good(nodes') /\ HasPropertyType(nodes') /\ \A id : Exists(nodes', id) <=> Exists(nodes, id)
  <2>1. HasPropertyType(nodes')
    BY <1>3, <1>4, <1>5, PropertyTypeStays
  <2> QED
    BY <1>3, <1>5, <2>1 DEF Enlarges, Renames
<1>7. frames' = <<>>
  BY <1>1, LastPop
<1> QED
  BY <1>1, <1>2, <1>6, <1>7, NoCalls, Settle

LEMMA ComponentReturnsKeeps == SpaceInv /\ ComponentReturns => SpaceInv'
<1> SUFFICES ASSUME SpaceInv, ComponentReturns PROVE SpaceInv'
  OBVIOUS
<1> DEFINE typed == AddBiReference(Named, Top.target, Top.source, "HasTypeDefinition")
           ruled == AddUniReference(typed, Top.target, Top.then.rule, "HasModellingRule", FALSE)
           props == Top.then.props
           R == [parent : Ids, name : Texts, rule : Rules]
           p(k) == [parent |-> Top.target, name |-> props[k],
                    rule |-> IF props[k] = "NodeVersion" THEN Mandatory ELSE Optional]
<1>1. /\ frames # <<>> /\ Top.then.op = "component" /\ Pop
      /\ UNCHANGED <<nextIndex, build, running, removing>>
      /\ nodes' = AddBiReference(ruled, Top.then.parent, Top.target, "HasComponent")
      /\ pending' = [k \in DOMAIN props |-> p(k)]
  BY DEF ComponentReturns, Return
<1>2. /\ Exists(nodes, Top.source) /\ Exists(nodes, Top.target) /\ Top.then \in Thens
      /\ Exists(nodes, Top.then.parent) /\ Top.target \in Ids
  BY <1>1, TopFacts DEF FrameOK, Frames
<1>3. Top.then.name \in NodeNames /\ Top.then.rule \in Rules /\ props \in Seq(Texts)
  BY <1>1, <1>2, ThenTypes
<1>4. Renames(nodes, Named) /\ HasPropertyType(Named)
  BY <1>1, <1>3, NamedFacts
<1>5. /\ "HasTypeDefinition" \in RefTypes /\ "HasComponent" \in RefTypes /\ Top.then.rule \in Ids
      /\ Mandatory \in Rules /\ Optional \in Rules
  BY <1>3, IdFacts DEF RefTypes, Rules
<1>6. Good(Named) /\ \A id : Exists(nodes, id) <=> Exists(Named, id)
  BY <1>4 DEF Renames
<1>7. Enlarges(Named, typed, {})
  BY <1>2, <1>5, <1>6, BiAdded
<1> HIDE DEF typed
<1>8. Good(typed) /\ \A id : Exists(nodes, id) <=> Exists(typed, id)
  BY <1>6, <1>7 DEF Enlarges
<1>9. Enlarges(typed, ruled, {})
  BY <1>2, <1>5, <1>8, RuleAdded
<1> HIDE DEF ruled
<1>10. Good(ruled) /\ \A id : Exists(nodes, id) <=> Exists(ruled, id)
  BY <1>8, <1>9 DEF Enlarges
<1>11. Enlarges(ruled, nodes', {})
  BY <1>1, <1>2, <1>5, <1>10, BiAdded
<1>12. Good(nodes') /\ \A id : Exists(nodes', id) <=> Exists(nodes, id)
  BY <1>10, <1>11 DEF Enlarges
<1>13. HasPropertyType(nodes')
  BY <1>4, <1>6, <1>7, <1>8, <1>9, <1>10, <1>11, PropertyTypeStays
<1>14. PendingOK(nodes', pending')
  <2> HIDE DEF props
  <2>1. \A k \in DOMAIN props : p(k) \in R /\ p(k).parent = Top.target
    BY <1>2, <1>3, <1>5
  <2> HIDE DEF p, R
  <2>2. DOMAIN props = 1 .. Len(props) /\ Len(props) \in Nat
    BY <1>3
  <2>3. /\ pending' \in Seq(R) /\ Len(pending') = Len(props)
        /\ \A k \in 1 .. Len(props) : pending'[k] = p(k)
    BY <1>1, <2>1, <2>2
  <2> QED
    BY <1>2, <1>12, <2>1, <2>2, <2>3 DEF PendingOK, R
<1>15. frames' = <<>>
  BY <1>1, LastPop
<1> QED
  BY <1>1, <1>12, <1>13, <1>14, <1>15, Settle

(* MapNodeToId: every reference to the node that has a reciprocal follows  *)
(* its new identifier.                                                     *)
LEMMA MapFacts ==
  ASSUME NEW ns, Good(ns), NEW old, Exists(ns, old), NEW new \in Ids, ~Exists(ns, new),
         NEW out, out = MapNodeToId(ns, old, new)
  PROVE  /\ Good(out) /\ Len(out) = Len(ns)
         /\ \A i \in 1 .. Len(ns) : /\ out[i].name = ns[i].name
                                    /\ out[i].id = IF ns[i].id = old THEN new ELSE ns[i].id
<1> DEFINE at == FindNode(ns, old)
           Re(r, holder) == \E k \in DOMAIN ns[at].refs :
              /\ ns[at].refs[k].type = r.type /\ r.type # "HasModellingRule"
              /\ ns[at].refs[k].target = holder
              /\ ns[at].refs[k].inverse # r.inverse
           To(r, holder) == IF r.target = old /\ Re(r, holder) THEN [r EXCEPT !.target = new] ELSE r
           refs(i) == [k \in DOMAIN ns[i].refs |-> To(ns[i].refs[k], ns[i].id)]
           node(i) == [ns[i] EXCEPT !.id = IF i = at THEN new ELSE @, !.refs = refs(i)]
           n == Len(ns)
           In(id) == IF id = old THEN new ELSE id
<1>1. ns \in Seq(NodeRec) /\ UniqueIn(ns) /\ ReciprocalBut(ns, {}) /\ n \in Nat /\ DOMAIN ns = 1 .. n
  BY NodeFacts DEF Good
<1>2. at \in 1 .. n /\ \A i \in 1 .. n : ns[i].id = old <=> i = at
  BY <1>1, FindFacts
<1>3. \A i \in 1 .. n : /\ ns[i] \in NodeRec /\ ns[i].id \in Ids /\ ns[i].refs \in Seq(Refs)
                        /\ DOMAIN ns[i].refs = 1 .. Len(ns[i].refs) /\ Len(ns[i].refs) \in Nat
  BY <1>1, NodeFacts
<1>4. out = [i \in 1 .. n |-> node(i)]
  BY <1>1 DEF MapNodeToId
<1> HIDE DEF at, n
<1>5. \A r \in Refs : \A holder : /\ To(r, holder) \in Refs /\ To(r, holder).type = r.type
                                  /\ To(r, holder).inverse = r.inverse
                                  /\ To(r, holder).target \in {r.target, new}
  BY DEF Refs
<1>6. \A i \in 1 .. n : \A k \in 1 .. Len(ns[i].refs) : ns[i].refs[k] \in Refs
  BY <1>3
<1> HIDE DEF To
<1>7. ASSUME NEW i \in 1 .. n
      PROVE  refs(i) \in Seq(Refs) /\ Len(refs(i)) = Len(ns[i].refs)
  BY <1>3, <1>5, <1>6
<1> HIDE DEF refs
<1>8. ASSUME NEW i \in 1 .. n
      PROVE  /\ node(i) \in NodeRec /\ node(i).refs = refs(i) /\ node(i).name = ns[i].name
             /\ node(i).id = In(ns[i].id)
  BY <1>2, <1>3, <1>7 DEF NodeRec
<1> HIDE DEF node
<1>9. out \in Seq(NodeRec) /\ Len(out) = n /\ DOMAIN out = 1 .. n /\ \A i \in 1 .. n : out[i] = node(i)
  BY <1>1, <1>4, <1>8
<1>10. \A i \in 1 .. n : /\ out[i].id = In(ns[i].id) /\ out[i].name = ns[i].name
                         /\ DOMAIN out[i].refs = DOMAIN ns[i].refs
                         /\ \A k \in DOMAIN ns[i].refs : out[i].refs[k] = To(ns[i].refs[k], ns[i].id)
  <2> TAKE i \in 1 .. n
  <2>1. out[i].id = In(ns[i].id) /\ out[i].name = ns[i].name /\ out[i].refs = refs(i)
    BY <1>8, <1>9
  <2>2. DOMAIN refs(i) = DOMAIN ns[i].refs /\ \A k \in DOMAIN ns[i].refs : refs(i)[k] = To(ns[i].refs[k], ns[i].id)
    BY DEF refs
  <2> QED
    BY <2>1, <2>2
<1>11. \A i \in 1 .. n : ns[i].id # new
  BY <1>1 DEF Exists
<1>12. UniqueIn(out)
  BY <1>1, <1>9, <1>10, <1>11 DEF UniqueIn
<1>13. ASSUME NEW i \in 1 .. n, NEW k \in DOMAIN ns[i].refs, ns[i].refs[k].type # "HasModellingRule"
       PROVE  /\ Answered(ns, ns[i].refs[k], ns[i].id)
              /\ out[i].refs[k].type = ns[i].refs[k].type
              /\ out[i].refs[k].inverse = ns[i].refs[k].inverse
              /\ out[i].refs[k].target = In(ns[i].refs[k].target)
  <2> DEFINE r == ns[i].refs[k]
  <2>1. Answered(ns, r, ns[i].id)
    BY <1>1, <1>13 DEF ReciprocalBut
  <2>2. r \in Refs /\ out[i].refs[k] = To(r, ns[i].id)
    BY <1>3, <1>6, <1>10, <1>13
  <2> HIDE DEF r
  <2>3. ASSUME r.target = old PROVE Re(r, ns[i].id)
    <3>1. PICK j \in 1 .. n : ns[j].id = old /\ \E m \in DOMAIN ns[j].refs : Opposite(r, ns[i].id, ns[j].refs[m])
      BY <1>1, <2>1, <2>3 DEF Answered
    <3>2. j = at
      BY <1>2, <3>1
    <3> QED
      BY <1>13, <3>1, <3>2 DEF Opposite, r
  <2>4. To(r, ns[i].id).target = In(r.target)
    BY <2>2, <2>3 DEF To, Refs
  <2> QED
    BY <1>5, <2>1, <2>2, <2>4 DEF r
<1>14. ASSUME NEW i \in 1 .. n, NEW k \in DOMAIN ns[i].refs, ns[i].refs[k].type # "HasModellingRule"
       PROVE  Answered(out, out[i].refs[k], out[i].id)
  <2> DEFINE r == ns[i].refs[k]
  <2>1. PICK j \in 1 .. n : ns[j].id = r.target /\ \E m \in DOMAIN ns[j].refs : Opposite(r, ns[i].id, ns[j].refs[m])
    BY <1>1, <1>13, <1>14 DEF Answered
  <2>2. PICK m \in DOMAIN ns[j].refs : Opposite(r, ns[i].id, ns[j].refs[m])
    BY <2>1
  <2>3. /\ ns[j].refs[m].type = r.type /\ ns[j].refs[m].target = ns[i].id
        /\ ns[j].refs[m].inverse # r.inverse
    BY <2>2 DEF Opposite
  <2>4. /\ out[j].refs[m].type = r.type /\ out[j].refs[m].inverse = ns[j].refs[m].inverse
        /\ out[j].refs[m].target = In(ns[i].id)
    BY <1>13, <1>14, <2>3
  <2>5. /\ out[i].refs[k].type = r.type /\ out[i].refs[k].inverse = r.inverse
        /\ out[i].refs[k].target = In(r.target)
    BY <1>13, <1>14
  <2>6. out[j].id = out[i].refs[k].target /\ out[i].id = In(ns[i].id) /\ m \in DOMAIN out[j].refs
    BY <1>10, <2>1, <2>5
  <2>7. Opposite(out[i].refs[k], out[i].id, out[j].refs[m])
    BY <2>3, <2>4, <2>5, <2>6 DEF Opposite
  <2> QED
    BY <1>9, <2>6, <2>7 DEF Answered
<1>15. ReciprocalBut(out, {})
  <2> SUFFICES ASSUME NEW i \in 1 .. n, NEW k \in DOMAIN ns[i].refs, out[i].refs[k].type # "HasModellingRule"
               PROVE  Answered(out, out[i].refs[k], out[i].id)
    BY <1>9, <1>10 DEF ReciprocalBut
  <2>1. ns[i].refs[k].type # "HasModellingRule"
    BY <1>3, <1>5, <1>6, <1>10
  <2> QED
    BY <1>14, <2>1
<1> QED
  BY <1>9, <1>10, <1>12, <1>15 DEF Good, n

LEMMA MethodReturnsKeeps == SpaceInv /\ MethodReturns => SpaceInv'
<1> SUFFICES ASSUME SpaceInv, MethodReturns PROVE SpaceInv'
  OBVIOUS
<1> DEFINE new == Top.then.arguments
           old == Node(nodes, Top.target).refs[First(Arguments)].target
<1>1. /\ frames # <<>> /\ Top.then.op = "method" /\ Pop
      /\ UNCHANGED <<nextIndex, pending, build, running, removing>>
      /\ nodes' = IF new = NoId \/ Arguments = {} THEN Named ELSE MapNodeToId(Named, old, new)
  BY DEF MethodReturns, Return
<1>2. /\ Good(nodes) /\ ~running /\ Exists(nodes, Top.target) /\ Top.then \in Thens /\ pending' = <<>>
      /\ new # NoId => new \in {0} \X Standard /\ ~Exists(nodes, new)
  BY <1>1, TopFacts DEF FrameOK, Frames
<1>3. Renames(nodes, Named) /\ HasPropertyType(Named)
  BY <1>1, <1>2, ThenTypes, NamedFacts
<1>4. frames' = <<>>
  BY <1>1, LastPop
<1>5. CASE new = NoId \/ Arguments = {}
  <2>1. nodes' = Named
    BY <1>1, <1>5
  <2>2. Good(nodes') /\ HasPropertyType(nodes') /\ \A id : Exists(nodes', id) <=> Exists(nodes, id)
    BY <1>3, <2>1 DEF Renames
  <2> QED
    BY <1>1, <1>2, <1>4, <2>2, NoCalls, Settle
<1>6. CASE ~(new = NoId \/ Arguments = {})
  <2>1. nodes' = MapNodeToId(Named, old, new)
    BY <1>1, <1>6
  <2>2. Arguments \subseteq Nat
    <3>1. Node(nodes, Top.target).refs \in Seq(Refs)
      BY <1>2, NodeType
    <3>2. DOMAIN Node(nodes, Top.target).refs \subseteq Nat
      BY <3>1
    <3> QED
      BY <3>2 DEF Arguments
  <2>3. First(Arguments) \in Arguments
    BY <1>6, <2>2, FirstFacts
  <2>4. Exists(nodes, old) /\ Node(nodes, old).name = <<0, "Arguments">>
    BY <2>3 DEF Arguments
  <2> HIDE DEF old, new
  <2>5. new \in {0} \X Standard /\ ~Exists(nodes, new)
    BY <1>2, <1>6
  <2>6. new \in Ids /\ \A n : new # <<1, n>>
    BY <2>5, IdFacts
  <2>7. Good(Named) /\ Exists(Named, old) /\ ~Exists(Named, new)
    BY <1>3, <2>4, <2>5 DEF Renames
  <2>8. /\ Good(nodes') /\ Len(nodes') = Len(Named)
        /\ \A i \in 1 .. Len(Named) : /\ nodes'[i].name = Named[i].name
                                      /\ nodes'[i].id = IF Named[i].id = old THEN new ELSE Named[i].id
    BY <2>1, <2>6, <2>7, MapFacts
  <2>9. DOMAIN nodes' = 1 .. Len(Named) /\ DOMAIN Named = 1 .. Len(Named)
    BY <2>7, <2>8 DEF Good
  <2>10. old # PropertyType
    <3>1. PICK i \in DOMAIN nodes : nodes[i].id = PropertyType /\ nodes[i].name # <<0, "Arguments">>
      BY <1>2 DEF SpaceInv, PhaseInv
    <3>2. ASSUME old = PropertyType PROVE FALSE
      <4>1. nodes \in Seq(NodeRec) /\ UniqueIn(nodes) /\ i \in 1 .. Len(nodes)
        BY <1>2, <3>1, NodeFacts DEF Good
      <4>2. i = FindNode(nodes, old)
        BY <2>4, <3>1, <3>2, <4>1, FindFacts
      <4> QED
        BY <2>4, <3>1, <4>2 DEF Node
    <3> QED
      BY <3>2
  <2>11. HasPropertyType(nodes')
    <3>1. PICK i \in DOMAIN Named : Named[i].id = PropertyType /\ Named[i].name # <<0, "Arguments">>
      BY <1>3 DEF HasPropertyType
    <3> QED
      BY <2>8, <2>9, <2>10, <3>1 DEF HasPropertyType
  <2>12. \A n \in Indices \ Reserved : Exists(nodes', <<1, n>>) => Exists(nodes, <<1, n>>)
    <3> SUFFICES ASSUME NEW n \in Indices \ Reserved, Exists(nodes', <<1, n>>) PROVE Exists(Named, <<1, n>>)
      BY <1>3 DEF Renames
    <3>1. PICK i \in 1 .. Len(Named) : nodes'[i].id = <<1, n>>
      BY <2>9 DEF Exists
    <3>2. Named[i].id = <<1, n>>
      BY <2>6, <2>8, <3>1
    <3> QED
      BY <2>9, <3>2 DEF Exists
  <2> QED
    BY <1>1, <1>2, <1>4, <2>8, <2>11, <2>12, NoCalls, Settle
<1> QED
  BY <1>5, <1>6

-----------------------------------------------------------------------------
(* The running server.                                                     *)
LEMMA RunningFacts ==
  ASSUME SpaceInv, running
  PROVE  /\ frames = <<>> /\ pending = <<>> /\ build = <<>>
         /\ nodes \in Seq(NodeRec) /\ UniqueIn(nodes) /\ Len(nodes) \in Nat /\ DOMAIN nodes = 1 .. Len(nodes)
BY NodeFacts DEF SpaceInv, PhaseInv, GraphInv

LEMMA RunningStep ==
  ASSUME SpaceInv, running, UNCHANGED <<frames, pending, build, running>>,
         GraphInv', IndexInv', RemoveInv'
  PROVE  SpaceInv'
<1>1. frames' = <<>> /\ pending' = <<>> /\ build' = <<>> /\ running'
  BY RunningFacts
<1>2. CallsInv' /\ PhaseInv'
  BY <1>1, NoCalls DEF CallsInv, PhaseInv
<1> QED
  BY <1>2 DEF SpaceInv

LEMMA StartServerKeeps == SpaceInv /\ StartServer => SpaceInv'
<1> SUFFICES ASSUME SpaceInv, StartServer PROVE SpaceInv'
  OBVIOUS
<1>1. /\ frames' = <<>> /\ pending' = <<>> /\ build' = <<>> /\ removing = <<>>
      /\ UNCHANGED <<nodes, nextIndex, removing>> /\ running'
  BY DEF StartServer, Quiet
<1>2. CallsInv' /\ PhaseInv'
  BY <1>1, NoCalls DEF CallsInv, PhaseInv
<1>3. GraphInv' /\ IndexInv' /\ RemoveInv'
  BY <1>1 DEF SpaceInv, GraphInv, IndexInv, RemoveInv
<1> QED
  BY <1>2, <1>3 DEF SpaceInv

LEMMA AddSessionNodeKeeps == SpaceInv /\ AddSessionNode => SpaceInv'
<1> SUFFICES ASSUME SpaceInv, AddSessionNode PROVE SpaceInv'
  OBVIOUS
<1>1. running /\ removing = <<>> /\ removing' = <<>> /\ UNCHANGED <<frames, pending, build, running>>
  BY DEF AddSessionNode
<1>2. PICK t \in NextIndex(nextIndex) : \E n \in NextIndex(t) :
        /\ nodes' = Append(nodes, NewNode(<<1, n>>, "Object", <<1, "Session">>))
        /\ nextIndex' = n
  BY DEF AddSessionNode
<1>3. PICK n \in NextIndex(t) :
        /\ nodes' = Append(nodes, NewNode(<<1, n>>, "Object", <<1, "Session">>))
        /\ nextIndex' = n
  BY <1>2
<1>4. t \in Nat /\ t > nextIndex /\ nextIndex \in Nat
  BY NextIndexFresh DEF SpaceInv, IndexInv
<1>5. n \in Nat /\ n > t /\ <<1, n>> \in Ids /\ n \in Indices \ Reserved
  BY <1>4, NextIndexAbove
<1>6. ~Exists(nodes, <<1, n>>)
  BY <1>4, <1>5 DEF SpaceInv, IndexInv
<1>7. "Object" \in NodeTypes /\ <<1, "Session">> \in NodeNames
  BY NameFacts DEF NodeTypes, Texts
<1>8. Enlarges(nodes, nodes', {<<1, n>>})
  BY <1>1, <1>3, <1>5, <1>6, <1>7, GoodNodes, NodeAdded
<1>9. GraphInv' /\ RemoveInv'
  BY <1>1, <1>8 DEF GraphInv, RemoveInv, Enlarges, Good
<1>10. IndexInv'
  <2>1. \A k \in Indices \ Reserved : k \in Nat /\ (Exists(nodes, <<1, k>>) => k <= nextIndex)
    BY SpaceAssumption DEF SpaceInv, IndexInv
  <2>2. \A k \in Indices \ Reserved : Exists(nodes', <<1, k>>) => Exists(nodes, <<1, k>>) \/ k = n
    BY <1>8 DEF Enlarges
  <2> QED
    BY <1>3, <1>4, <1>5, <2>1, <2>2 DEF IndexInv
<1> QED
  BY <1>1, <1>9, <1>10, RunningStep

LEMMA RemoveNodeKeeps ==
  ASSUME SpaceInv, NEW i \in DOMAIN nodes, RemoveNode(nodes[i].id)
  PROVE  SpaceInv'
<1> DEFINE w == [id |-> nodes[i].id, i |-> 1, deleted |-> FALSE]
<1>1. /\ running /\ removing = <<>> /\ removing' = <<w>>
      /\ UNCHANGED <<nodes, nextIndex, frames, pending, build, running>>
  BY DEF RemoveNode
<1>2. nodes \in Seq(NodeRec) /\ UniqueIn(nodes) /\ DOMAIN nodes = 1 .. Len(nodes) /\ Len(nodes) \in Nat
  BY <1>1, RunningFacts
<1>3. nodes[i].id \in Ids
  BY <1>2, NodeFacts
<1>4. w \in Walks /\ w.id = nodes[i].id /\ w.i = 1 /\ w.deleted = FALSE
  BY <1>3 DEF Walks
<1> HIDE DEF w
<1>5. Walk' = w /\ removing' # <<>>
  BY <1>1 DEF Walk
<1>6. ReciprocalBut(nodes, {})
  BY <1>1 DEF SpaceInv, GraphInv
<1>7. ReciprocalBut(nodes, {w.id})
  BY <1>6 DEF ReciprocalBut
<1>8. GraphInv'
  BY <1>1, <1>2, <1>5, <1>7 DEF GraphInv
<1>9. IndexInv'
  BY <1>1 DEF SpaceInv, IndexInv
<1>10. Exists(nodes, w.id)
  BY <1>4 DEF Exists
<1>11. \A j \in DOMAIN nodes : ~(j < 1) /\ j >= 1
  BY <1>2
<1>12. RemoveInv'
  BY <1>1, <1>4, <1>5, <1>10, <1>11 DEF RemoveInv
<1> QED
  BY <1>1, <1>8, <1>9, <1>12, RunningStep

LEMMA WalkFacts ==
  ASSUME SpaceInv, removing # <<>>
  PROVE  /\ running /\ removing = <<Walk>> /\ Walk \in Walks
         /\ Walk.id \in Ids /\ Walk.i \in Nat \ {0} /\ Walk.deleted \in BOOLEAN
         /\ nodes \in Seq(NodeRec) /\ UniqueIn(nodes) /\ Len(nodes) \in Nat /\ DOMAIN nodes = 1 .. Len(nodes)
         /\ ReciprocalBut(nodes, {Walk.id})
         /\ \A i \in 1 .. Len(nodes) : i < Walk.i =>
              \A k \in DOMAIN nodes[i].refs : nodes[i].refs[k].target # Walk.id
         /\ \A i \in 1 .. Len(nodes) : nodes[i].id = Walk.id => i >= Walk.i /\ ~Walk.deleted
         /\ ~Walk.deleted => Exists(nodes, Walk.id)
<1>1. running
  BY DEF SpaceInv, PhaseInv
<1>2. nodes \in Seq(NodeRec) /\ UniqueIn(nodes) /\ Len(nodes) \in Nat /\ DOMAIN nodes = 1 .. Len(nodes)
  BY <1>1, RunningFacts
<1>3. Walk \in Walks
  BY DEF SpaceInv, RemoveInv
<1>4. Walk.id \in Ids /\ Walk.i \in Nat \ {0} /\ Walk.deleted \in BOOLEAN
  BY <1>3 DEF Walks
<1>5. ReciprocalBut(nodes, {Walk.id})
  BY DEF SpaceInv, GraphInv
<1> QED
  BY <1>1, <1>2, <1>3, <1>4, <1>5 DEF SpaceInv, RemoveInv

LEMMA DestroyNodeKeeps == SpaceInv /\ DestroyNode => SpaceInv'
<1> SUFFICES ASSUME SpaceInv, DestroyNode PROVE SpaceInv'
  OBVIOUS
<1> DEFINE w == Walk.i
           id == Walk.id
           n == Len(nodes)
           out == Shift(nodes, w)
           v == [Walk EXCEPT !.deleted = TRUE]
           From(i) == IF i < w THEN i ELSE i + 1
<1>1. /\ removing # <<>> /\ w <= n /\ nodes[w].id = id /\ nodes' = out /\ removing' = <<v>>
      /\ UNCHANGED <<nextIndex, frames, pending, build, running>>
  BY DEF DestroyNode, Walking, AtRemoved
<1>2. /\ running /\ Walk \in Walks /\ id \in Ids /\ w \in Nat \ {0}
      /\ nodes \in Seq(NodeRec) /\ UniqueIn(nodes) /\ n \in Nat /\ DOMAIN nodes = 1 .. n
      /\ ReciprocalBut(nodes, {id})
      /\ \A i \in 1 .. n : i < w => \A k \in DOMAIN nodes[i].refs : nodes[i].refs[k].target # id
  BY <1>1, WalkFacts
<1>3. v \in Walks /\ v.id = id /\ v.i = w /\ v.deleted = TRUE
  BY <1>2 DEF Walks
<1>4. Walk' = v /\ removing' # <<>>
  BY <1>1 DEF Walk
<1> HIDE DEF v, w, id, n
<1>5. w \in 1 .. n
  BY <1>1, <1>2
<1>6. out \in Seq(NodeRec) /\ Len(out) = n - 1 /\ \A i \in 1 .. n - 1 : out[i] = nodes[From(i)]
  BY <1>2, <1>5, ShiftFacts DEF n
<1>7. DOMAIN out = 1 .. n - 1
  BY <1>6
<1> HIDE DEF out
<1>8. \A i \in 1 .. n - 1 : From(i) \in 1 .. n /\ From(i) # w
  BY <1>2, <1>5
<1>9. \A i \in 1 .. n : i # w => \E j \in 1 .. n - 1 : From(j) = i
  <2> SUFFICES ASSUME NEW i \in 1 .. n, i # w PROVE \E j \in 1 .. n - 1 : From(j) = i
    OBVIOUS
  <2>1. CASE i < w
    <3>1. i \in 1 .. n - 1 /\ From(i) = i
      BY <1>2, <1>5, <2>1
    <3> QED
      BY <3>1
  <2>2. CASE i > w
    <3>1. i - 1 \in 1 .. n - 1 /\ From(i - 1) = i
      BY <1>2, <1>5, <2>2
    <3> QED
      BY <3>1
  <2> QED
    BY <1>2, <1>5, <2>1, <2>2
<1>10. \A i, j \in 1 .. n - 1 : From(i) = From(j) => i = j
  BY <1>2, <1>5
<1> HIDE DEF From
<1>11. UniqueIn(out)
  BY <1>2, <1>6, <1>7, <1>8, <1>10 DEF UniqueIn
<1>12. ReciprocalBut(out, {id})
  <2> SUFFICES ASSUME NEW i \in 1 .. n - 1, NEW k \in DOMAIN out[i].refs,
                      out[i].refs[k].type # "HasModellingRule", out[i].id # id, out[i].refs[k].target # id
               PROVE  Answered(out, out[i].refs[k], out[i].id)
    BY <1>7 DEF ReciprocalBut
  <2>1. Answered(nodes, out[i].refs[k], out[i].id)
    BY <1>2, <1>6, <1>8 DEF ReciprocalBut
  <2>2. PICK j \in 1 .. n : /\ nodes[j].id = out[i].refs[k].target
                            /\ \E m \in DOMAIN nodes[j].refs : Opposite(out[i].refs[k], out[i].id, nodes[j].refs[m])
    BY <1>2, <2>1 DEF Answered
  <2>3. PICK l \in 1 .. n - 1 : From(l) = j
    BY <1>1, <1>9, <2>2
  <2>4. l \in DOMAIN out /\ out[l] = nodes[j]
    BY <1>6, <1>7, <2>3
  <2> QED
    BY <2>2, <2>4 DEF Answered
<1>13. GraphInv'
  BY <1>1, <1>3, <1>4, <1>6, <1>11, <1>12 DEF GraphInv
<1>14. IndexInv'
  <2>1. \A x : Exists(out, x) => Exists(nodes, x)
    BY <1>2, <1>6, <1>7, <1>8 DEF Exists
  <2> QED
    BY <1>1, <2>1 DEF SpaceInv, IndexInv
<1>15. RemoveInv'
  <2>1. \A i \in DOMAIN out : out[i].id # id
    <3>1. \A i \in 1 .. n : nodes[i].id = id => i = w
      BY <1>1, <1>2, <1>5 DEF UniqueIn
    <3> QED
      BY <1>6, <1>7, <1>8, <3>1
  <2>2. \A i \in DOMAIN out : i < w => \A k \in DOMAIN out[i].refs : out[i].refs[k].target # id
    <3> SUFFICES ASSUME NEW i \in DOMAIN out, i < w PROVE \A k \in DOMAIN out[i].refs : out[i].refs[k].target # id
      OBVIOUS
    <3>1. i \in 1 .. n /\ out[i] = nodes[i]
      BY <1>2, <1>6, <1>7 DEF From
    <3> QED
      BY <1>2, <3>1
  <2> QED
    BY <1>1, <1>3, <1>4, <2>1, <2>2 DEF RemoveInv
<1> QED
  BY <1>1, <1>2, <1>13, <1>14, <1>15, RunningStep

LEMMA RemoveReferenceKeeps == SpaceInv /\ RemoveReference => SpaceInv'
<1> SUFFICES ASSUME SpaceInv, RemoveReference PROVE SpaceInv'
  OBVIOUS
<1> DEFINE w == Walk.i
           id == Walk.id
           n == Len(nodes)
           refs == nodes[w].refs
           f == First(Pointing)
           new == [nodes[w] EXCEPT !.refs = Shift(@, f)]
           out == [nodes EXCEPT ![w] = new]
           From(k) == IF k < f THEN k ELSE k + 1
<1>1. /\ removing # <<>> /\ w <= n /\ ~AtRemoved /\ Pointing # {}
      /\ UNCHANGED <<nextIndex, frames, pending, build, running, removing>>
  BY DEF RemoveReference, Walking
<1>2. nodes' = out
  BY DEF RemoveReference
<1>3. /\ running /\ removing = <<Walk>> /\ Walk \in Walks /\ id \in Ids /\ w \in Nat \ {0}
      /\ nodes \in Seq(NodeRec) /\ UniqueIn(nodes) /\ n \in Nat /\ DOMAIN nodes = 1 .. n
      /\ ReciprocalBut(nodes, {id})
      /\ \A i \in 1 .. n : i < w => \A k \in DOMAIN nodes[i].refs : nodes[i].refs[k].target # id
      /\ \A i \in 1 .. n : nodes[i].id = id => i >= w /\ ~Walk.deleted
      /\ ~Walk.deleted => Exists(nodes, id)
  BY <1>1, WalkFacts
<1>4. Walk' = Walk
  BY <1>1 DEF Walk
<1>5. w \in 1 .. n /\ nodes[w] \in NodeRec
  BY <1>1, <1>3, NodeFacts
<1>6. refs \in Seq(Refs) /\ DOMAIN refs = 1 .. Len(refs) /\ Len(refs) \in Nat
  BY <1>3, <1>5, NodeFacts
<1>7. f \in 1 .. Len(refs) /\ refs[f].target = id
  <2>1. Pointing \subseteq Nat
    BY <1>6 DEF Pointing
  <2>2. f \in Pointing
    BY <1>1, <2>1, FirstFacts
  <2> QED
    BY <1>6, <2>2 DEF Pointing
<1> HIDE DEF w, id, n, refs, f
<1>8. /\ Shift(refs, f) \in Seq(Refs) /\ Len(Shift(refs, f)) = Len(refs) - 1
      /\ \A k \in 1 .. Len(refs) - 1 : Shift(refs, f)[k] = refs[From(k)]
  BY <1>6, <1>7, ShiftFacts
<1>9. new \in NodeRec /\ new.id = nodes[w].id /\ new.refs = Shift(refs, f)
  BY <1>5, <1>8 DEF NodeRec, refs
<1> HIDE DEF new
<1>10. /\ out \in Seq(NodeRec) /\ Len(out) = n /\ DOMAIN out = 1 .. n
       /\ \A i \in 1 .. n : out[i] = IF i = w THEN new ELSE nodes[i]
  BY <1>3, <1>5, <1>9 DEF n
<1> HIDE DEF out
<1>11. \A i \in 1 .. n : out[i].id = nodes[i].id
  BY <1>9, <1>10
<1>12. DOMAIN new.refs = 1 .. Len(refs) - 1
  BY <1>6, <1>8, <1>9
<1>13. \A k \in 1 .. Len(refs) - 1 : From(k) \in 1 .. Len(refs)
  BY <1>6, <1>7
<1>14. \A k \in 1 .. Len(refs) : k # f => \E m \in 1 .. Len(refs) - 1 : From(m) = k
  <2> SUFFICES ASSUME NEW k \in 1 .. Len(refs), k # f PROVE \E m \in 1 .. Len(refs) - 1 : From(m) = k
    OBVIOUS
  <2>1. CASE k < f
    <3>1. k \in 1 .. Len(refs) - 1 /\ From(k) = k
      BY <1>6, <1>7, <2>1
    <3> QED
      BY <3>1
  <2>2. CASE k > f
    <3>1. k - 1 \in 1 .. Len(refs) - 1 /\ From(k - 1) = k
      BY <1>6, <1>7, <2>2
    <3> QED
      BY <3>1
  <2> QED
    BY <1>6, <1>7, <2>1, <2>2
<1> HIDE DEF From
<1>15. ASSUME NEW i \in 1 .. n, NEW k \in DOMAIN out[i].refs
       PROVE  \E m \in DOMAIN nodes[i].refs : out[i].refs[k] = nodes[i].refs[m]
  <2>1. CASE i = w
    <3>1. k \in 1 .. Len(refs) - 1 /\ out[i].refs = Shift(refs, f)
      BY <1>9, <1>10, <1>12, <1>15, <2>1
    <3>2. From(k) \in DOMAIN refs /\ out[i].refs[k] = refs[From(k)]
      BY <1>6, <1>8, <1>13, <3>1
    <3> QED
      BY <2>1, <3>2 DEF refs
  <2>2. CASE i # w
    BY <1>10, <1>15, <2>2
  <2> QED
    BY <2>1, <2>2
<1>16. ASSUME NEW j \in 1 .. n, NEW m \in DOMAIN nodes[j].refs, nodes[j].refs[m].target # id
       PROVE  \E k \in DOMAIN out[j].refs : out[j].refs[k] = nodes[j].refs[m]
  <2>1. CASE j = w
    <3>1. m \in 1 .. Len(refs) /\ m # f
      BY <1>6, <1>7, <1>16, <2>1 DEF refs
    <3>2. PICK k \in 1 .. Len(refs) - 1 : From(k) = m
      BY <1>14, <3>1
    <3>3. out[j].refs = Shift(refs, f) /\ k \in DOMAIN out[j].refs
      BY <1>9, <1>10, <1>12, <2>1
    <3>4. out[j].refs[k] = refs[m]
      BY <1>8, <3>2, <3>3
    <3> QED
      BY <2>1, <3>3, <3>4 DEF refs
  <2>2. CASE j # w
    BY <1>10, <1>16, <2>2
  <2> QED
    BY <2>1, <2>2
<1>17. UniqueIn(out)
  BY <1>3, <1>10, <1>11 DEF UniqueIn
<1>18. ReciprocalBut(out, {id})
  <2> SUFFICES ASSUME NEW i \in 1 .. n, NEW k \in DOMAIN out[i].refs,
                      out[i].refs[k].type # "HasModellingRule", out[i].id # id, out[i].refs[k].target # id
               PROVE  Answered(out, out[i].refs[k], out[i].id)
    BY <1>10 DEF ReciprocalBut
  <2> DEFINE r == out[i].refs[k]
  <2>1. PICK l \in DOMAIN nodes[i].refs : r = nodes[i].refs[l]
    BY <1>15
  <2>2. Answered(nodes, r, nodes[i].id)
    BY <1>3, <1>11, <2>1 DEF ReciprocalBut
  <2>3. PICK j \in 1 .. n : /\ nodes[j].id = r.target
                            /\ \E m \in DOMAIN nodes[j].refs : Opposite(r, nodes[i].id, nodes[j].refs[m])
    BY <1>3, <2>2 DEF Answered
  <2>4. PICK m \in DOMAIN nodes[j].refs : Opposite(r, nodes[i].id, nodes[j].refs[m])
    BY <2>3
  <2>5. nodes[j].refs[m].target # id
    BY <1>11, <2>4 DEF Opposite
  <2>6. PICK p \in DOMAIN out[j].refs : out[j].refs[p] = nodes[j].refs[m]
    BY <1>16, <2>5
  <2>7. j \in DOMAIN out /\ out[j].id = r.target /\ Opposite(r, out[i].id, out[j].refs[p])
    BY <1>10, <1>11, <2>3, <2>4, <2>6
  <2> QED
    BY <2>7 DEF Answered
<1>19. GraphInv'
  BY <1>1, <1>2, <1>4, <1>10, <1>17, <1>18 DEF GraphInv, id
<1>20. \A x : Exists(out, x) <=> Exists(nodes, x)
  BY <1>3, <1>10, <1>11 DEF Exists
<1>21. IndexInv'
  BY <1>1, <1>2, <1>20 DEF SpaceInv, IndexInv
<1>22. \A i \in DOMAIN out : i < w => \A k \in DOMAIN out[i].refs : out[i].refs[k].target # id
  BY <1>3, <1>10, <1>15
<1>23. \A i \in DOMAIN out : out[i].id = id => i >= w /\ ~Walk.deleted
  BY <1>3, <1>10, <1>11
<1>24. RemoveInv'
  BY <1>1, <1>2, <1>3, <1>4, <1>20, <1>22, <1>23 DEF RemoveInv, w, id
<1> QED
  BY <1>1, <1>3, <1>19, <1>21, <1>24, RunningStep

LEMMA NextNodeKeeps == SpaceInv /\ NextNode => SpaceInv'
<1> SUFFICES ASSUME SpaceInv, NextNode PROVE SpaceInv'
  OBVIOUS
<1> DEFINE v == [Walk EXCEPT !.i = @ + 1]
<1>1. /\ removing # <<>> /\ Walk.i <= Len(nodes) /\ ~AtRemoved /\ Pointing = {} /\ removing' = <<v>>
      /\ UNCHANGED <<nodes, nextIndex, frames, pending, build, running>>
  BY DEF NextNode, Walking
<1>2. /\ running /\ Walk \in Walks /\ Walk.i \in Nat \ {0} /\ Len(nodes) \in Nat
      /\ nodes \in Seq(NodeRec) /\ UniqueIn(nodes) /\ DOMAIN nodes = 1 .. Len(nodes)
      /\ ReciprocalBut(nodes, {Walk.id})
      /\ \A i \in 1 .. Len(nodes) : i < Walk.i =>
           \A k \in DOMAIN nodes[i].refs : nodes[i].refs[k].target # Walk.id
      /\ \A i \in 1 .. Len(nodes) : nodes[i].id = Walk.id => i >= Walk.i /\ ~Walk.deleted
      /\ ~Walk.deleted => Exists(nodes, Walk.id)
  BY <1>1, WalkFacts
<1>3. v \in Walks /\ v.id = Walk.id /\ v.i = Walk.i + 1 /\ v.deleted = Walk.deleted
  BY <1>2 DEF Walks
<1>4. Walk' = v /\ removing' # <<>>
  BY <1>1 DEF Walk
<1> HIDE DEF v
<1>5. GraphInv' /\ IndexInv'
  BY <1>1, <1>2, <1>3, <1>4 DEF SpaceInv, GraphInv, IndexInv
<1>6. \A k \in DOMAIN nodes[Walk.i].refs : nodes[Walk.i].refs[k].target # Walk.id
  BY <1>1 DEF Pointing
<1>7. Walk.i \in 1 .. Len(nodes) /\ nodes[Walk.i].id # Walk.id
  BY <1>1, <1>2 DEF AtRemoved
<1>8. \A i \in 1 .. Len(nodes) : i < v.i => \A k \in DOMAIN nodes[i].refs : nodes[i].refs[k].target # v.id
  <2> TAKE i \in 1 .. Len(nodes)
  <2>1. i < v.i => i < Walk.i \/ i = Walk.i
    BY <1>2, <1>3
  <2> QED
    BY <1>2, <1>3, <1>6, <2>1
<1>9. \A i \in 1 .. Len(nodes) : nodes[i].id = v.id => i >= v.i /\ ~v.deleted
  BY <1>2, <1>3, <1>7
<1>10. RemoveInv'
  BY <1>1, <1>2, <1>3, <1>4, <1>8, <1>9 DEF RemoveInv
<1> QED
  BY <1>1, <1>2, <1>5, <1>10, RunningStep

LEMMA RemoveReturnsKeeps == SpaceInv /\ RemoveReturns => SpaceInv'
<1> SUFFICES ASSUME SpaceInv, RemoveReturns PROVE SpaceInv'
  OBVIOUS
<1>1. /\ removing # <<>> /\ ~(Walk.i <= Len(nodes)) /\ removing' = <<>>
      /\ UNCHANGED <<nodes, nextIndex, frames, pending, build, running>>
  BY DEF RemoveReturns, Walking
<1>2. /\ running /\ Walk.i \in Nat \ {0} /\ Len(nodes) \in Nat
      /\ nodes \in Seq(NodeRec) /\ UniqueIn(nodes) /\ DOMAIN nodes = 1 .. Len(nodes)
      /\ ReciprocalBut(nodes, {Walk.id})
      /\ \A i \in 1 .. Len(nodes) : i < Walk.i =>
           \A k \in DOMAIN nodes[i].refs : nodes[i].refs[k].target # Walk.id
      /\ \A i \in 1 .. Len(nodes) : nodes[i].id = Walk.id => i >= Walk.i /\ ~Walk.deleted
  BY <1>1, WalkFacts
<1>3. \A i \in 1 .. Len(nodes) : i < Walk.i /\ ~(i >= Walk.i)
  BY <1>1, <1>2
<1>4. \A i \in 1 .. Len(nodes) : /\ nodes[i].id # Walk.id
                                 /\ \A k \in DOMAIN nodes[i].refs : nodes[i].refs[k].target # Walk.id
  BY <1>2, <1>3
<1>5. ReciprocalBut(nodes, {})
  BY <1>2, <1>4 DEF ReciprocalBut
<1>6. GraphInv' /\ IndexInv' /\ RemoveInv'
  BY <1>1, <1>2, <1>5 DEF SpaceInv, GraphInv, IndexInv, RemoveInv
<1> QED
  BY <1>1, <1>2, <1>6, RunningStep

-----------------------------------------------------------------------------
LEMMA TablesKeep == SpaceInv /\ Tables => SpaceInv'
<1> SUFFICES ASSUME SpaceInv, Tables PROVE SpaceInv'
  OBVIOUS
<1> DEFINE Parents == VariableTypes \cup NodesOf({"ObjectType"})
<1>1. /\ \A p \in VariableTypes : Exists(nodes, p)
      /\ \A p \in Parents : Exists(nodes, p)
      /\ \A T : \A p \in NodesOf(T) : Exists(nodes, p)
  BY NodesOfExist DEF VariableTypes
<1>2. \A id \in Given(0, Standard) : id \in Ids /\ ~Exists(nodes, id) /\ \A n : id # <<1, n>>
  BY TableId
<1>3. ASSUME NEW id \in Given(0, Standard), NEW p \in VariableTypes \cup {NoId}, CreateVariableType(id, p)
      PROVE  SpaceInv'
  BY <1>1, <1>2, <1>3, CreateVariableTypeKeeps
<1>4. ASSUME NEW id \in Given(0, Standard), CreateBaseObjectType(id) PROVE SpaceInv'
  BY <1>2, <1>4, CreateBaseObjectTypeKeeps
<1>5. ASSUME NEW id \in Given(0, Standard), NEW p \in NodesOf({"ObjectType"}), CreateObjectSubtype(id, p)
      PROVE  SpaceInv'
  BY <1>1, <1>5, CreateObjectSubtypeKeeps
<1>6. ASSUME NEW id \in Given(0, Standard), NEW p \in Parents, NEW name \in Names, NEW rule \in TableRules,
             AddProperty(id, p, name, rule)
      PROVE  SpaceInv'
  BY <1>1, <1>6, AddPropertyKeeps
<1>7. ASSUME NEW id \in Given(0, Standard), NEW p \in Parents, NEW name \in Names, NEW rule \in TableRules,
             NEW t \in VariableTypes,
             CreateComponent(id, p, t, name, rule) \/ CreateVariable(id, p, t, name, rule)
      PROVE  SpaceInv'
  BY <1>1, <1>7, CreateComponentKeeps
<1>8. ASSUME NEW id \in Given(0, Standard), NEW arguments \in Given(0, Standard \ {id[2]}) \cup {NoId},
             \/ CreateMethod(id, arguments)
             \/ \E m \in NodesOf({"Method"}) : CloneMethod(id, m, arguments, <<0, "Open">>)
      PROVE  SpaceInv'
  BY <1>1, <1>8, CreateMethodKeeps, CloneMethodKeeps
<1>9. ASSUME NEW id \in Given(0, Standard) \cup Given(1, Reserved), NEW t \in NodesOf({"ObjectType"}),
             CreateObjectFromObjectType(id, t, <<0, "Object">>)
      PROVE  SpaceInv'
  BY <1>1, <1>9, CreateObjectKeeps
<1>10. ASSUME NEW p \in NodesOf({"ObjectType", "Object"}), NEW c \in NodesOf({"Object", "Method"}),
              NEW rule \in TableRules, NEW link \in TableLinks, Attach(p, c, link, rule)
       PROVE  SpaceInv'
  BY <1>1, <1>10, AttachKeeps
<1>11. ASSUME NEW type \in BuildTypes, NEW target \in NodesOf({"Object"}), BuildReferences(type, target)
       PROVE  SpaceInv'
  BY <1>1, <1>11, BuildReferencesKeeps
<1> QED
  BY <1>3, <1>4, <1>5, <1>6, <1>7, <1>8, <1>9, <1>10, <1>11 DEF Tables

LEMMA StepsKeep == SpaceInv /\ Steps => SpaceInv'
<1>1. SpaceInv /\ Inherit => SpaceInv'
  BY InheritRuleKeeps, CloneChildKeeps, InheritLinkKeeps, SkipReferenceKeeps, CloneReturnsKeeps,
     ObjectReturnsKeeps, ComponentReturnsKeeps, MethodReturnsKeeps DEF Inherit
<1>2. SpaceInv /\ Remove => SpaceInv'
  BY DestroyNodeKeeps, RemoveReferenceKeeps, NextNodeKeeps, RemoveReturnsKeeps DEF Remove
<1> QED
  BY <1>1, <1>2, CreateNextPropertyKeeps, BuildNextKeeps DEF Steps

LEMMA SpaceInitial == SpaceInit => SpaceInv
<1> SUFFICES ASSUME SpaceInit PROVE SpaceInv
  OBVIOUS
<1> DEFINE root == NewNode(PropertyType, "VariableType", <<0, "PropertyType">>)
<1>1. /\ nodes = <<root>> /\ nextIndex = 0 /\ frames = <<>> /\ pending = <<>> /\ build = <<>>
      /\ running = FALSE /\ removing = <<>>
  BY DEF SpaceInit
<1>2. <<0, "PropertyType">> \in NodeNames /\ "VariableType" \in NodeTypes
  BY NameFacts DEF Texts, NodeTypes
<1>3. /\ root \in NodeRec /\ root.id = PropertyType /\ root.name = <<0, "PropertyType">>
      /\ root.refs = <<>>
  BY <1>2, IdFacts DEF NewNode, NodeRec
<1> HIDE DEF root
<1>4. nodes \in Seq(NodeRec) /\ DOMAIN nodes = {1} /\ nodes[1] = root
  BY <1>1, <1>3
<1>5. GraphInv
  BY <1>1, <1>3, <1>4 DEF GraphInv, UniqueIn, ReciprocalBut
<1>6. IndexInv
  BY <1>1, <1>3, <1>4, IdFacts DEF IndexInv, Exists, PropertyType
<1>7. CallsInv
  BY <1>1, NoCalls DEF CallsInv
<1>8. PhaseInv /\ RemoveInv
  BY <1>1, <1>3, <1>4 DEF PhaseInv, RemoveInv
<1> QED
  BY <1>5, <1>6, <1>7, <1>8 DEF SpaceInv

(* The inductive invariant holds of the specification, whatever the tables *)
(* build, however InheritReferences recurses and whatever is removed.      *)
THEOREM SpaceInvariant == SpaceSpec => []SpaceInv
<1>1. SpaceInv /\ [SpaceNext]_spaceVars => SpaceInv'
  <2> SUFFICES ASSUME SpaceInv, [SpaceNext]_spaceVars PROVE SpaceInv'
    OBVIOUS
  <2>1. CASE Tables \/ Steps
    BY <2>1, TablesKeep, StepsKeep
  <2>2. CASE StartServer \/ AddSessionNode
    BY <2>2, StartServerKeeps, AddSessionNodeKeeps
  <2>3. CASE \E i \in DOMAIN nodes : RemoveNode(nodes[i].id)
    BY <2>3, RemoveNodeKeeps
  <2>4. CASE UNCHANGED spaceVars
    BY <2>4 DEF spaceVars, SpaceInv, GraphInv, IndexInv, CallsInv, PhaseInv, RemoveInv, Walk
  <2> QED
    BY <2>1, <2>2, <2>3, <2>4 DEF SpaceNext
<1> QED
  BY <1>1, SpaceInitial, PTL DEF SpaceSpec

(* The identifiers of the nodes, the sequences of their references and the *)
(* nodes that the calls under way speak of.                                *)
THEOREM SpaceTypes == SpaceSpec => []SpaceTypeOK
<1>1. SpaceInv => SpaceTypeOK
  <2> SUFFICES ASSUME SpaceInv PROVE SpaceTypeOK
    OBVIOUS
  <2>1. \A i \in DOMAIN nodes : nodes[i].id \in Ids /\ nodes[i].refs \in Seq(Refs)
    BY NodeFacts DEF SpaceInv, GraphInv
  <2>2. nextIndex \in Nat
    BY DEF SpaceInv, IndexInv
  <2>3. frames \in Seq(Frames) /\ \A k \in 1 .. Len(frames) : FrameOK(nodes, frames[k])
    BY DEF SpaceInv, CallsInv, FramesOK
  <2>4. \A k \in DOMAIN frames : k \in 1 .. Len(frames) /\ frames[k] \in Frames
    BY <2>3
  <2>5. \A k \in DOMAIN frames : /\ Exists(nodes, frames[k].source) /\ Exists(nodes, frames[k].target)
                                 /\ frames[k].i \in Nat \ {0}
    BY <2>3, <2>4 DEF FrameOK, Frames
  <2>6. \A k \in DOMAIN pending : Exists(nodes, pending[k].parent)
    BY DEF SpaceInv, CallsInv, PendingOK
  <2> QED
    BY <2>1, <2>2, <2>5, <2>6 DEF SpaceTypeOK
<1> QED
  BY <1>1, SpaceInvariant, PTL

(* No two nodes ever share an identifier, whether a table gave it, the     *)
(* indexer, or MapNodeToId.                                                *)
THEOREM IdsAreUnique == SpaceSpec => []UniqueNodeIds
<1>1. SpaceInv => UniqueNodeIds
  BY DEF SpaceInv, GraphInv, UniqueIn, UniqueNodeIds
<1> QED
  BY <1>1, SpaceInvariant, PTL

(* Every reference but a modelling rule has its opposite at the node it    *)
(* leads to, a node whose removal is under way left aside.                 *)
THEOREM ReferencesAreReciprocal == SpaceSpec => []ReferencesReciprocal
<1>1. SpaceInv => ReferencesReciprocal
  <2> SUFFICES ASSUME SpaceInv, NEW i \in DOMAIN nodes, NEW k \in DOMAIN nodes[i].refs
               PROVE  \/ nodes[i].refs[k].type = "HasModellingRule"
                      \/ BeingRemoved(nodes[i].id) \/ BeingRemoved(nodes[i].refs[k].target)
                      \/ Answered(nodes, nodes[i].refs[k], nodes[i].id)
    BY DEF ReferencesReciprocal, Answered
  <2>1. CASE removing = <<>>
    BY <2>1 DEF SpaceInv, GraphInv, ReciprocalBut
  <2>2. CASE removing # <<>>
    BY <2>2 DEF SpaceInv, GraphInv, ReciprocalBut, BeingRemoved
  <2> QED
    BY <2>1, <2>2
<1> QED
  BY <1>1, SpaceInvariant, PTL

(* The specification with fairness, which the model checker runs, is one   *)
(* of those the theorems speak of: a server that waits stutters.           *)
THEOREM LiveSpaceIsSpace == LiveSpaceSpec => SpaceSpec
<1>1. [SpaceNext \/ Idle]_spaceVars => [SpaceNext]_spaceVars
  BY DEF Idle
<1> QED
  BY <1>1, PTL DEF LiveSpaceSpec, SpaceSpec

-----------------------------------------------------------------------------
(* What InheritReferences has done so far.  Reference k of a node is a     *)
(* forward property or component; where it leads, and to which BrowseName. *)
ChildAt(ns, id, k) == ChildLink(Node(ns, id).refs[k].type) /\ ~Node(ns, id).refs[k].inverse
ToAt(ns, id, k)    == Node(ns, id).refs[k].target
NameAt(ns, id, k)  == Node(ns, ToAt(ns, id, k)).name
Slots(ns, id)      == 1 .. Len(Node(ns, id).refs)

(* ShouldInherit, of a child in the space ns.                              *)
Mandated(ns, child, type) ==
  \E k \in Slots(ns, child) :
    /\ Node(ns, child).refs[k].type = "HasModellingRule"
    /\ \/ ToAt(ns, child, k) = Mandatory
       \/ type \in Types /\ ToAt(ns, child, k) = Placeholder

(* The references the loop is past: each mandatory child has its name at   *)
(* the target.                                                             *)
PassedInherited(ns, f) ==
  \A k \in 1 .. f.i - 1 :
    /\ k \in Slots(ns, f.source)
    /\ ChildAt(ns, f.source, k) /\ Mandated(ns, ToAt(ns, f.source, k), Node(ns, f.target).type)
       => NameTaken(ns, f.target, NameAt(ns, f.source, k))

NamesOnce(ns, id) ==
  \A k, l \in Slots(ns, id) :
    ChildAt(ns, id, k) /\ ChildAt(ns, id, l) /\ NameAt(ns, id, k) = NameAt(ns, id, l) => k = l

(* The call g makes a clone of the child that the loop of f is at, and the *)
(* target of f has no child of that name yet.                              *)
ClonesFor(ns, f, g) ==
  /\ f.i \in Slots(ns, f.source) /\ ChildAt(ns, f.source, f.i)
  /\ g.source = ToAt(ns, f.source, f.i) /\ Node(ns, g.target).name = Node(ns, g.source).name
  /\ \A k \in Slots(ns, f.target) : ChildAt(ns, f.target, k) => NameAt(ns, f.target, k) # Node(ns, g.target).name

(* The targets of the calls are nobody's children yet, and different.      *)
TargetsApart(ns, fs) ==
  /\ \A id \in Ids : Exists(ns, id) => \A k \in Slots(ns, id) :
       ChildAt(ns, id, k) => \A m \in 1 .. Len(fs) : ToAt(ns, id, k) # fs[m].target
  /\ \A m, l \in 1 .. Len(fs) : fs[m].target = fs[l].target => m = l

InheritOK(ns, fs) ==
  /\ TargetsApart(ns, fs)
  /\ \A m \in 1 .. Len(fs) : PassedInherited(ns, fs[m]) /\ NamesOnce(ns, fs[m].target)
  /\ \A m \in 1 .. Len(fs) : m < Len(fs) => ClonesFor(ns, fs[m], fs[m + 1])

InheritInv == InheritOK(nodes, frames)

(* Reference k of a node is one out has and ns has not.                    *)
NewAt(ns, id, k) == ~(Exists(ns, id) /\ k \in Slots(ns, id))

(* The new references are no modelling rules but of the nodes T.           *)
RulesOf(ns, out, T) ==
  \A id \in Ids : Exists(out, id) => \A k \in Slots(out, id) :
    NewAt(ns, id, k) /\ Node(out, id).refs[k].type = "HasModellingRule" => id \in T

(* The node has no new children.                                           *)
Childless(ns, out, id) ==
  \A k \in Slots(out, id) : NewAt(ns, id, k) => ~ChildAt(out, id, k)

Plain(ns, out, T) == RulesOf(ns, out, T) /\ \A id \in Ids : Exists(out, id) => Childless(ns, out, id)

LEMMA ChildFacts ==
  ASSUME NEW ns, Good(ns), NEW id, Exists(ns, id), NEW k \in Slots(ns, id)
  PROVE  /\ id \in Ids /\ ToAt(ns, id, k) \in Ids
         /\ ChildAt(ns, id, k) => Exists(ns, ToAt(ns, id, k))
<1>1. k \in 1 .. Len(Node(ns, id).refs)
  BY DEF Slots
<1>2. ToAt(ns, id, k) \in Ids
  BY <1>1, RefFacts DEF ToAt
<1>3. ASSUME ChildAt(ns, id, k) PROVE Exists(ns, ToAt(ns, id, k))
  <2>1. Node(ns, id).refs[k].type # "HasModellingRule"
    BY <1>3 DEF ChildAt, ChildLink
  <2> QED
    BY <1>1, <2>1, RefFacts DEF ToAt
<1>4. id \in Ids
  BY NodeType
<1> QED
  BY <1>2, <1>3, <1>4

LEMMA SlotKept ==
  ASSUME NEW ns, Good(ns), NEW out, NEW ids, Enlarges(ns, out, ids), NEW id, Exists(ns, id),
         NEW k \in Slots(ns, id)
  PROVE  /\ k \in Slots(out, id) /\ Node(out, id).refs[k] = Node(ns, id).refs[k]
         /\ ChildAt(out, id, k) <=> ChildAt(ns, id, k)
         /\ ToAt(out, id, k) = ToAt(ns, id, k)
         /\ Exists(ns, ToAt(ns, id, k)) => NameAt(out, id, k) = NameAt(ns, id, k)
<1>1. k \in Slots(out, id) /\ Node(out, id).refs[k] = Node(ns, id).refs[k]
  <2>1. /\ Len(Node(ns, id).refs) \in Nat /\ Len(Node(out, id).refs) \in Nat
        /\ Len(Node(ns, id).refs) <= Len(Node(out, id).refs)
        /\ \A j \in 1 .. Len(Node(ns, id).refs) : Node(out, id).refs[j] = Node(ns, id).refs[j]
    BY NodeKept
  <2> QED
    BY <2>1 DEF Slots
<1>2. ToAt(out, id, k) = ToAt(ns, id, k) /\ (ChildAt(out, id, k) <=> ChildAt(ns, id, k))
  BY <1>1 DEF ToAt, ChildAt
<1>3. ASSUME Exists(ns, ToAt(ns, id, k)) PROVE NameAt(out, id, k) = NameAt(ns, id, k)
  BY <1>2, <1>3, NodeKept DEF NameAt
<1> QED
  BY <1>1, <1>2, <1>3

LEMMA ChildKept ==
  ASSUME NEW ns, Good(ns), NEW out, NEW ids, Enlarges(ns, out, ids),
         NEW id, Exists(ns, id), Childless(ns, out, id), NEW k \in Slots(out, id), ChildAt(out, id, k)
  PROVE  /\ k \in Slots(ns, id) /\ ChildAt(ns, id, k) /\ ToAt(out, id, k) = ToAt(ns, id, k)
         /\ NameAt(out, id, k) = NameAt(ns, id, k)
<1>2. k \in Slots(ns, id)
  BY DEF Childless, NewAt
<1>3. ChildAt(ns, id, k) /\ ToAt(out, id, k) = ToAt(ns, id, k)
  BY <1>2, SlotKept
<1>4. Exists(ns, ToAt(ns, id, k))
  BY <1>2, <1>3, ChildFacts
<1> QED
  BY <1>2, <1>3, <1>4, SlotKept

LEMMA MandatedBefore ==
  ASSUME NEW ns, Good(ns), NEW out, NEW ids, Enlarges(ns, out, ids), NEW T, RulesOf(ns, out, T),
         NEW id, Exists(ns, id), id \notin T, NEW type, Mandated(out, id, type)
  PROVE  Mandated(ns, id, type)
<1>1. PICK k \in Slots(out, id) :
        /\ Node(out, id).refs[k].type = "HasModellingRule"
        /\ ToAt(out, id, k) = Mandatory \/ (type \in Types /\ ToAt(out, id, k) = Placeholder)
  BY DEF Mandated
<1>2. id \in Ids /\ Exists(out, id)
  BY NodeType DEF Enlarges
<1>3. k \in Slots(ns, id)
  BY <1>1, <1>2 DEF RulesOf, NewAt
<1>4. Node(out, id).refs[k] = Node(ns, id).refs[k] /\ ToAt(out, id, k) = ToAt(ns, id, k)
  BY <1>3, SlotKept
<1> QED
  BY <1>1, <1>3, <1>4 DEF Mandated

LEMMA NameTakenStays ==
  ASSUME NEW ns, Good(ns), NEW out, NEW ids, Enlarges(ns, out, ids), NEW id, Exists(ns, id),
         NEW name, NameTaken(ns, id, name)
  PROVE  NameTaken(out, id, name)
<1>1. DOMAIN Node(ns, id).refs = Slots(ns, id) /\ DOMAIN Node(out, id).refs = Slots(out, id)
  <2>1. Good(out) /\ Exists(out, id)
    BY DEF Enlarges
  <2>2. Node(ns, id).refs \in Seq(Refs) /\ Node(out, id).refs \in Seq(Refs)
    BY <2>1, NodeType
  <2> QED
    BY <2>2 DEF Slots
<1>2. PICK k \in Slots(ns, id) : Exists(ns, ToAt(ns, id, k)) /\ NameAt(ns, id, k) = name
  BY <1>1 DEF NameTaken, ToAt, NameAt
<1>3. /\ k \in Slots(out, id) /\ ToAt(out, id, k) = ToAt(ns, id, k) /\ NameAt(out, id, k) = name
      /\ Exists(out, ToAt(ns, id, k))
  BY <1>2, SlotKept DEF Enlarges
<1> QED
  BY <1>1, <1>3 DEF NameTaken, ToAt, NameAt

(* What the calls have done stays done if only the target of the last one  *)
(* has new children, none of them a target.                                *)
LEMMA InheritGrow ==
  ASSUME NEW ns, Good(ns), NEW out, NEW ids, Enlarges(ns, out, ids),
         NEW fs, FramesOK(ns, fs), InheritOK(ns, fs),
         NEW T, RulesOf(ns, out, T), \A id \in T : \E m \in 1 .. Len(fs) : fs[m].target = id,
         \A id \in Ids : Exists(out, id) => \A k \in Slots(out, id) :
            NewAt(ns, id, k) /\ ChildAt(out, id, k) => \A m \in 1 .. Len(fs) : ToAt(out, id, k) # fs[m].target,
         \A m \in 1 .. Len(fs) : m < Len(fs) => Childless(ns, out, fs[m].target),
         fs # <<>> => NamesOnce(out, fs[Len(fs)].target)
  PROVE  InheritOK(out, fs)
<1>1. \A m \in 1 .. Len(fs) : /\ Exists(ns, fs[m].source) /\ Exists(ns, fs[m].target)
                              /\ fs[m].i \in Nat \ {0}
  <2> TAKE m \in 1 .. Len(fs)
  <2>1. fs[m] \in Frames /\ FrameOK(ns, fs[m])
    BY DEF FramesOK
  <2> QED
    BY <2>1 DEF FrameOK, Frames
<1>2. TargetsApart(out, fs)
  <2>1. ASSUME NEW id \in Ids, Exists(out, id), NEW k \in Slots(out, id), ChildAt(out, id, k),
               NEW m \in 1 .. Len(fs)
        PROVE  ToAt(out, id, k) # fs[m].target
    <3>1. CASE NewAt(ns, id, k)
      BY <2>1, <3>1
    <3>2. CASE ~NewAt(ns, id, k)
      <4>1. Exists(ns, id) /\ k \in Slots(ns, id)
        BY <3>2 DEF NewAt
      <4>2. ChildAt(ns, id, k) /\ ToAt(out, id, k) = ToAt(ns, id, k)
        BY <2>1, <4>1, SlotKept
      <4> QED
        BY <4>1, <4>2 DEF InheritOK, TargetsApart
    <3> QED
      BY <3>1, <3>2
  <2> QED
    BY <2>1 DEF InheritOK, TargetsApart
<1>3. ASSUME NEW m \in 1 .. Len(fs) PROVE PassedInherited(out, fs[m])
  <2> DEFINE f == fs[m]
  <2>0. Exists(ns, f.source) /\ Exists(ns, f.target) /\ PassedInherited(ns, f)
    BY <1>1 DEF InheritOK
  <2>1. Node(out, f.target).type = Node(ns, f.target).type
    BY <2>0, NodeKept
  <2> SUFFICES ASSUME NEW k \in 1 .. f.i - 1
               PROVE  /\ k \in Slots(out, f.source)
                      /\ ChildAt(out, f.source, k)
                         /\ Mandated(out, ToAt(out, f.source, k), Node(out, f.target).type)
                         => NameTaken(out, f.target, NameAt(out, f.source, k))
    BY DEF PassedInherited
  <2>2. k \in Slots(ns, f.source)
    BY <2>0 DEF PassedInherited
  <2>3. k \in Slots(out, f.source)
    BY <2>0, <2>2, SlotKept
  <2>4. ASSUME ChildAt(out, f.source, k), Mandated(out, ToAt(out, f.source, k), Node(out, f.target).type)
        PROVE  NameTaken(out, f.target, NameAt(out, f.source, k))
    <3>1. ChildAt(ns, f.source, k) /\ ToAt(out, f.source, k) = ToAt(ns, f.source, k)
      BY <2>0, <2>2, <2>4, SlotKept
    <3>2. Exists(ns, ToAt(ns, f.source, k)) /\ f.source \in Ids
      BY <2>0, <2>2, <3>1, ChildFacts
    <3>3. /\ ChildAt(ns, f.source, k) /\ ToAt(out, f.source, k) = ToAt(ns, f.source, k)
          /\ NameAt(out, f.source, k) = NameAt(ns, f.source, k)
      BY <2>0, <2>2, <3>1, <3>2, SlotKept
    <3>4. ToAt(ns, f.source, k) \notin T
      BY <2>0, <2>2, <3>3, <3>2 DEF InheritOK, TargetsApart
    <3>5. Mandated(ns, ToAt(ns, f.source, k), Node(ns, f.target).type)
      BY <2>1, <2>4, <3>3, <3>2, <3>4, MandatedBefore
    <3>6. NameTaken(ns, f.target, NameAt(ns, f.source, k))
      BY <2>0, <3>3, <3>5 DEF PassedInherited
    <3> QED
      BY <2>0, <3>3, <3>6, NameTakenStays
  <2> QED
    BY <2>3, <2>4
<1>4. ASSUME NEW m \in 1 .. Len(fs), m < Len(fs) PROVE NamesOnce(out, fs[m].target)
  <2> DEFINE id == fs[m].target
  <2>1. Exists(ns, id) /\ NamesOnce(ns, id) /\ Childless(ns, out, id)
    BY <1>1, <1>4 DEF InheritOK
  <2> SUFFICES ASSUME NEW k \in Slots(out, id), NEW l \in Slots(out, id), ChildAt(out, id, k),
                      ChildAt(out, id, l), NameAt(out, id, k) = NameAt(out, id, l)
               PROVE  k = l
    BY DEF NamesOnce
  <2> HIDE DEF id
  <2>2. k \in Slots(ns, id) /\ ChildAt(ns, id, k) /\ NameAt(out, id, k) = NameAt(ns, id, k)
    BY <2>1, ChildKept
  <2>3. l \in Slots(ns, id) /\ ChildAt(ns, id, l) /\ NameAt(out, id, l) = NameAt(ns, id, l)
    BY <2>1, ChildKept
  <2> QED
    BY <2>1, <2>2, <2>3 DEF NamesOnce
<1>5. ASSUME NEW m \in 1 .. Len(fs), m < Len(fs) PROVE ClonesFor(out, fs[m], fs[m + 1])
  <2> DEFINE f == fs[m]
             g == fs[m + 1]
  <2>0. m + 1 \in 1 .. Len(fs)
    BY <1>5 DEF FramesOK
  <2>1. /\ Exists(ns, f.source) /\ Exists(ns, f.target) /\ Exists(ns, g.source) /\ Exists(ns, g.target)
        /\ ClonesFor(ns, f, g) /\ Childless(ns, out, f.target)
    BY <1>1, <1>5, <2>0 DEF InheritOK
  <2> HIDE DEF f, g
  <2>2. f.i \in Slots(ns, f.source) /\ ChildAt(ns, f.source, f.i) /\ g.source = ToAt(ns, f.source, f.i)
    BY <2>1 DEF ClonesFor
  <2>3. f.i \in Slots(out, f.source) /\ ChildAt(out, f.source, f.i) /\ g.source = ToAt(out, f.source, f.i)
    BY <2>1, <2>2, SlotKept
  <2>4. /\ Node(out, g.target).name = Node(ns, g.target).name
        /\ Node(out, g.source).name = Node(ns, g.source).name
    BY <2>1, NodeKept
  <2>5. ASSUME NEW k \in Slots(out, f.target), ChildAt(out, f.target, k)
        PROVE  NameAt(out, f.target, k) # Node(out, g.target).name
    <3>1. /\ k \in Slots(ns, f.target) /\ ChildAt(ns, f.target, k)
          /\ NameAt(out, f.target, k) = NameAt(ns, f.target, k)
      BY <2>1, <2>5, ChildKept
    <3> QED
      BY <2>1, <2>4, <3>1 DEF ClonesFor
  <2>6. Node(out, g.target).name = Node(out, g.source).name
    BY <2>1, <2>4 DEF ClonesFor
  <2>7. ClonesFor(out, f, g)
    BY <2>3, <2>5, <2>6 DEF ClonesFor
  <2> QED
    BY <2>7 DEF f, g
<1>6. \A m \in 1 .. Len(fs) : fs # <<>> /\ (m < Len(fs) \/ m = Len(fs))
  BY DEF FramesOK
<1> QED
  BY <1>2, <1>3, <1>4, <1>5, <1>6 DEF InheritOK

LEMMA PlainGrow ==
  ASSUME NEW ns, Good(ns), NEW out, NEW ids, Enlarges(ns, out, ids),
         NEW fs, FramesOK(ns, fs), InheritOK(ns, fs),
         NEW T, Plain(ns, out, T), \A id \in T : \E m \in 1 .. Len(fs) : fs[m].target = id
  PROVE  InheritOK(out, fs)
<1>1. \A m \in 1 .. Len(fs) : Exists(ns, fs[m].target) /\ Childless(ns, out, fs[m].target)
  <2> TAKE m \in 1 .. Len(fs)
  <2>1. Exists(ns, fs[m].target)
    BY DEF FramesOK, FrameOK
  <2>2. fs[m].target \in Ids /\ Exists(out, fs[m].target)
    BY <2>1, NodeType DEF Enlarges
  <2> QED
    BY <2>1, <2>2 DEF Plain
<1>2. ASSUME fs # <<>> PROVE NamesOnce(out, fs[Len(fs)].target)
  <2> DEFINE id == fs[Len(fs)].target
  <2>1. Len(fs) \in 1 .. Len(fs)
    BY <1>2 DEF FramesOK
  <2>2. Exists(ns, id) /\ Childless(ns, out, id) /\ NamesOnce(ns, id)
    BY <1>1, <2>1 DEF InheritOK
  <2> HIDE DEF id
  <2> SUFFICES ASSUME NEW k \in Slots(out, id), NEW l \in Slots(out, id), ChildAt(out, id, k),
                      ChildAt(out, id, l), NameAt(out, id, k) = NameAt(out, id, l)
               PROVE  k = l
    BY DEF NamesOnce, id
  <2>3. k \in Slots(ns, id) /\ ChildAt(ns, id, k) /\ NameAt(out, id, k) = NameAt(ns, id, k)
    BY <2>2, ChildKept
  <2>4. l \in Slots(ns, id) /\ ChildAt(ns, id, l) /\ NameAt(out, id, l) = NameAt(ns, id, l)
    BY <2>2, ChildKept
  <2> QED
    BY <2>2, <2>3, <2>4 DEF NamesOnce
<1>3. RulesOf(ns, out, T)
  BY DEF Plain
<1>4. \A id \in Ids : Exists(out, id) => \A k \in Slots(out, id) : ~(NewAt(ns, id, k) /\ ChildAt(out, id, k))
  BY DEF Plain, Childless
<1> QED
  BY <1>1, <1>2, <1>3, <1>4, InheritGrow

(* Where the references of a node come from, node by node.                 *)
LEMMA AddedAt ==
  ASSUME NEW ns \in Seq(NodeRec), UniqueIn(ns), NEW out, NEW source, NEW r, Added(ns, out, source, r),
         NEW id, Exists(ns, id)
  PROVE  Node(out, id).refs = IF id = source THEN Append(Node(ns, id).refs, r) ELSE Node(ns, id).refs
<1> DEFINE i == FindNode(ns, id)
<1>1. i \in 1 .. Len(ns) /\ ns[i].id = id
  BY FindFacts
<1>2. out \in Seq(NodeRec) /\ UniqueIn(out) /\ Len(out) = Len(ns) /\ Exists(out, id)
  BY AddedKeeps
<1> HIDE DEF i
<1>3. out[i].id = id /\ out[i].refs = IF id = source THEN Append(ns[i].refs, r) ELSE ns[i].refs
  BY <1>1 DEF Added
<1>4. FindNode(out, id) = i
  BY <1>1, <1>2, <1>3, FindFacts
<1> QED
  BY <1>3, <1>4 DEF Node, i

LEMMA RuleAt ==
  ASSUME NEW ns, Good(ns), NEW source, Exists(ns, source), NEW rule \in Ids, NEW inverse \in BOOLEAN,
         NEW out, out = AddUniReference(ns, source, rule, "HasModellingRule", inverse)
  PROVE  Plain(ns, out, {source})
<1> DEFINE r == Ref("HasModellingRule", rule, inverse)
<1>1. ns \in Seq(NodeRec) /\ UniqueIn(ns)
  BY DEF Good
<1>2. r \in Refs /\ r.type = "HasModellingRule"
  BY DEF Ref, Refs, RefTypes
<1>3. Added(ns, out, source, r)
  BY <1>1, <1>2, AddUniFacts
<1> HIDE DEF r
<1>4. \A id : Exists(out, id) <=> Exists(ns, id)
  BY <1>1, <1>3, AddedKeeps
<1>5. ASSUME NEW id \in Ids, Exists(out, id), NEW k \in Slots(out, id), NewAt(ns, id, k)
      PROVE  id = source /\ Node(out, id).refs[k] = r
  <2>1. Exists(ns, id)
    BY <1>4, <1>5
  <2>2. Node(ns, id).refs \in Seq(Refs)
    BY <2>1, NodeType
  <2>3. Node(out, id).refs = IF id = source THEN Append(Node(ns, id).refs, r) ELSE Node(ns, id).refs
    BY <1>1, <1>3, <2>1, AddedAt
  <2> DEFINE a == Node(ns, id).refs
             b == Node(out, id).refs
  <2>4. a \in Seq(Refs) /\ b = (IF id = source THEN Append(a, r) ELSE a) /\ k \in 1 .. Len(b)
        /\ k \notin 1 .. Len(a)
    BY <1>5, <2>1, <2>2, <2>3 DEF Slots, NewAt
  <2> HIDE DEF a, b
  <2>5. id = source /\ b[k] = r
    BY <2>4
  <2> QED
    BY <2>5 DEF b
<1>6. RulesOf(ns, out, {source})
  BY <1>5 DEF RulesOf
<1>7. \A id \in Ids : Exists(out, id) => Childless(ns, out, id)
  BY <1>2, <1>5 DEF Childless, ChildAt, ChildLink
<1> QED
  BY <1>6, <1>7 DEF Plain

(* out is ns with a reference and its opposite.                            *)
BiRefs(ns, out, source, target, type) ==
  /\ \A id : Exists(ns, id) => \A k \in Slots(out, id) :
       \/ k \in Slots(ns, id)
       \/ /\ id = source /\ k = Len(Node(ns, id).refs) + 1
          /\ Node(out, id).refs[k] = Ref(type, target, FALSE)
       \/ id = target /\ Node(out, id).refs[k] = Ref(type, source, TRUE)
  /\ Len(Node(ns, source).refs) + 1 \in Slots(out, source)
  /\ Node(out, source).refs[Len(Node(ns, source).refs) + 1] = Ref(type, target, FALSE)

LEMMA BiAt ==
  ASSUME NEW ns, Good(ns), NEW source, Exists(ns, source), NEW target, Exists(ns, target),
         NEW type \in RefTypes, NEW out, out = AddBiReference(ns, source, target, type)
  PROVE  BiRefs(ns, out, source, target, type)
<1> DEFINE r == Ref(type, target, FALSE)
           s == Ref(type, source, TRUE)
           mid == AddUniReference(ns, source, target, type, FALSE)
<1>0. out = AddUniReference(mid, target, source, type, TRUE)
  BY DEF AddBiReference
<1>1. ns \in Seq(NodeRec) /\ UniqueIn(ns) /\ source \in Ids /\ target \in Ids
  BY NodeType DEF Good
<1>2. r \in Refs /\ s \in Refs
  BY <1>1 DEF Ref, Refs
<1>3. Added(ns, mid, source, r)
  BY <1>1, <1>2, AddUniFacts
<1> HIDE DEF mid
<1>4. mid \in Seq(NodeRec) /\ UniqueIn(mid) /\ \A id : Exists(mid, id) <=> Exists(ns, id)
  BY <1>1, <1>3, AddedKeeps
<1>5. Added(mid, out, target, s)
  BY <1>0, <1>2, <1>4, AddUniFacts
<1> HIDE DEF r, s
<1>6. ASSUME NEW id, Exists(ns, id)
      PROVE  /\ Node(ns, id).refs \in Seq(Refs)
             /\ Node(mid, id).refs = IF id = source THEN Append(Node(ns, id).refs, r) ELSE Node(ns, id).refs
             /\ Node(out, id).refs = IF id = target THEN Append(Node(mid, id).refs, s) ELSE Node(mid, id).refs
  BY <1>1, <1>3, <1>4, <1>5, <1>6, AddedAt, NodeType
<1>7. ASSUME NEW id, Exists(ns, id), NEW k \in Slots(out, id)
      PROVE  \/ k \in Slots(ns, id)
             \/ id = source /\ k = Len(Node(ns, id).refs) + 1 /\ Node(out, id).refs[k] = r
             \/ id = target /\ Node(out, id).refs[k] = s
  <2> DEFINE a == Node(ns, id).refs
             b == Node(mid, id).refs
             c == Node(out, id).refs
  <2>1. /\ a \in Seq(Refs) /\ b = (IF id = source THEN Append(a, r) ELSE a)
        /\ c = (IF id = target THEN Append(b, s) ELSE b) /\ k \in 1 .. Len(c)
    BY <1>6, <1>7 DEF Slots
  <2> HIDE DEF a, b, c
  <2>2. b \in Seq(Refs)
    BY <1>2, <2>1
  <2>3. k \in 1 .. Len(b) => k \in 1 .. Len(a) \/ (id = source /\ k = Len(a) + 1 /\ b[k] = r)
    BY <2>1
  <2>4. \/ k \in 1 .. Len(b) /\ c[k] = b[k]
        \/ id = target /\ c[k] = s
    BY <2>1, <2>2
  <2> QED
    BY <2>3, <2>4 DEF Slots, a, b, c
<1>8. /\ Len(Node(ns, source).refs) + 1 \in Slots(out, source)
      /\ Node(out, source).refs[Len(Node(ns, source).refs) + 1] = r
  <2> DEFINE a == Node(ns, source).refs
             b == Node(mid, source).refs
             c == Node(out, source).refs
  <2>1. a \in Seq(Refs) /\ b = Append(a, r) /\ c = (IF source = target THEN Append(b, s) ELSE b)
    BY <1>6
  <2> HIDE DEF a, b, c
  <2>2. b \in Seq(Refs) /\ Len(b) = Len(a) + 1 /\ b[Len(a) + 1] = r /\ Len(a) \in Nat
    BY <1>2, <2>1
  <2>3. Len(a) + 1 \in 1 .. Len(c) /\ c[Len(a) + 1] = r
    BY <2>1, <2>2
  <2> QED
    BY <2>3 DEF Slots, a, c
<1> QED
  BY <1>7, <1>8 DEF BiRefs, r, s

(* out is ns with a new node.                                              *)
Fresh(ns, out, id, type, name) ==
  /\ Node(out, id).refs = <<>> /\ Node(out, id).name = name /\ Node(out, id).type = type
  /\ \A x : Exists(ns, x) => Node(out, x) = Node(ns, x)
  /\ Plain(ns, out, {})

LEMMA AppendedAt ==
  ASSUME NEW ns, Good(ns), NEW id \in Ids, ~Exists(ns, id), NEW type \in NodeTypes, NEW name \in NodeNames,
         NEW out, out = Append(ns, NewNode(id, type, name))
  PROVE  Fresh(ns, out, id, type, name)
<1> DEFINE new == NewNode(id, type, name)
<1>1. Enlarges(ns, out, {id})
  BY NodeAdded
<1>2. ns \in Seq(NodeRec) /\ UniqueIn(ns) /\ out \in Seq(NodeRec) /\ UniqueIn(out) /\ Exists(out, id)
  BY <1>1 DEF Enlarges, Good
<1>3. new.refs = <<>> /\ new.name = name /\ new.type = type /\ new.id = id
  BY DEF NewNode
<1> HIDE DEF new
<1>4. /\ Len(out) = Len(ns) + 1 /\ out[Len(ns) + 1] = new /\ Len(ns) \in Nat
      /\ \A i \in 1 .. Len(ns) : out[i] = ns[i]
  BY <1>2 DEF new
<1>5. Node(out, id) = new
  <2>1. Len(ns) + 1 \in 1 .. Len(out) /\ out[Len(ns) + 1].id = id
    BY <1>3, <1>4
  <2>2. FindNode(out, id) = Len(ns) + 1
    BY <1>2, <2>1, FindFacts
  <2> QED
    BY <1>4, <2>2 DEF Node
<1>6. ASSUME NEW x, Exists(ns, x) PROVE Node(out, x) = Node(ns, x)
  <2>1. FindNode(ns, x) \in 1 .. Len(ns) /\ FindNode(out, x) = FindNode(ns, x)
    BY <1>1, <1>2, <1>6, NodeKept, FindFacts
  <2> QED
    BY <1>4, <2>1 DEF Node
<1>7. ASSUME NEW x \in Ids, Exists(out, x), NEW k \in Slots(out, x) PROVE ~NewAt(ns, x, k)
  <2>1. CASE x = id
    BY <1>3, <1>5, <1>7, <2>1 DEF Slots
  <2>2. CASE Exists(ns, x)
    BY <1>6, <1>7, <2>2 DEF Slots, NewAt
  <2> QED
    BY <1>1, <1>7, <2>1, <2>2 DEF Enlarges
<1>8. Plain(ns, out, {})
  BY <1>7 DEF Plain, RulesOf, Childless
<1> QED
  BY <1>3, <1>5, <1>6, <1>8 DEF Fresh

(* A call is made: its target is new.                                      *)
LEMMA InheritPush ==
  ASSUME NEW ns, Good(ns), NEW fs \in Seq(Frames), InheritOK(ns, fs), NEW f \in Frames, f.i = 1,
         Exists(ns, f.target), Node(ns, f.target).refs = <<>>,
         \A m \in 1 .. Len(fs) : fs[m].target # f.target,
         \A id \in Ids : Exists(ns, id) => \A k \in Slots(ns, id) :
           ChildAt(ns, id, k) => ToAt(ns, id, k) # f.target,
         fs # <<>> => ClonesFor(ns, fs[Len(fs)], f)
  PROVE  InheritOK(ns, Append(fs, f))
<1> DEFINE n == Len(fs)
           g == Append(fs, f)
<1>1. n \in Nat /\ Len(g) = n + 1 /\ g[n + 1] = f /\ \A m \in 1 .. n : g[m] = fs[m]
  OBVIOUS
<1>2. n > 0 => fs # <<>>
  OBVIOUS
<1> HIDE DEF g
<1>3. \A m \in 1 .. n + 1 : m = n + 1 \/ m \in 1 .. n
  BY <1>1
<1>4. TargetsApart(ns, g)
  <2>1. \A id \in Ids : Exists(ns, id) => \A k \in Slots(ns, id) :
          ChildAt(ns, id, k) => \A m \in 1 .. n + 1 : ToAt(ns, id, k) # g[m].target
    BY <1>1, <1>3 DEF InheritOK, TargetsApart
  <2>2. \A m, l \in 1 .. n + 1 : g[m].target = g[l].target => m = l
    BY <1>1, <1>3 DEF InheritOK, TargetsApart
  <2> QED
    BY <1>1, <2>1, <2>2 DEF TargetsApart
<1>5. PassedInherited(ns, f) /\ NamesOnce(ns, f.target)
  <2>1. Slots(ns, f.target) = {} /\ 1 .. f.i - 1 = {}
    BY DEF Slots
  <2> QED
    BY <2>1 DEF PassedInherited, NamesOnce
<1>6. \A m \in 1 .. n + 1 : PassedInherited(ns, g[m]) /\ NamesOnce(ns, g[m].target)
  BY <1>1, <1>3, <1>5 DEF InheritOK
<1>7. ASSUME NEW m \in 1 .. n + 1, m < n + 1 PROVE ClonesFor(ns, g[m], g[m + 1])
  <2>1. CASE m < n
    <3>1. m \in 1 .. n /\ m + 1 \in 1 .. n
      BY <1>1, <2>1
    <3> QED
      BY <1>1, <2>1, <3>1 DEF InheritOK
  <2>2. CASE m = n
    BY <1>1, <1>2, <1>7, <2>2
  <2> QED
    BY <1>1, <1>7, <2>1, <2>2
<1> QED
  BY <1>1, <1>4, <1>6, <1>7 DEF InheritOK, g

LEMMA InheritPop ==
  ASSUME NEW ns, NEW fs, FramesOK(ns, fs), fs # <<>>, InheritOK(ns, fs)
  PROVE  InheritOK(ns, SubSeq(fs, 1, Len(fs) - 1))
<1> DEFINE n == Len(fs)
           g == SubSeq(fs, 1, n - 1)
<1>1. n \in Nat /\ n > 0
  BY DEF FramesOK
<1>2. Len(g) = n - 1 /\ \A k \in 1 .. n - 1 : g[k] = fs[k]
  BY FramesPop
<1> HIDE DEF g
<1>3. \A m \in 1 .. n - 1 : m \in 1 .. n /\ m < n /\ (m < n - 1 => m + 1 \in 1 .. n - 1)
  BY <1>1
<1>4. TargetsApart(ns, g)
  BY <1>2, <1>3 DEF InheritOK, TargetsApart
<1>5. \A m \in 1 .. n - 1 : PassedInherited(ns, g[m]) /\ NamesOnce(ns, g[m].target)
  BY <1>2, <1>3 DEF InheritOK
<1>6. \A m \in 1 .. n - 1 : m < n - 1 => ClonesFor(ns, g[m], g[m + 1])
  BY <1>2, <1>3 DEF InheritOK
<1> QED
  BY <1>2, <1>4, <1>5, <1>6 DEF InheritOK, g

(* The loop passes a reference whose child, if it has to be inherited, the *)
(* target has.                                                             *)
LEMMA InheritAdvance ==
  ASSUME NEW ns, NEW fs, FramesOK(ns, fs), fs # <<>>, InheritOK(ns, fs),
         NEW f, f = fs[Len(fs)], f.i \in Slots(ns, f.source),
         ChildAt(ns, f.source, f.i) /\ Mandated(ns, ToAt(ns, f.source, f.i), Node(ns, f.target).type)
           => NameTaken(ns, f.target, NameAt(ns, f.source, f.i))
  PROVE  InheritOK(ns, [fs EXCEPT ![Len(fs)].i = @ + 1])
<1> DEFINE n == Len(fs)
           h == [f EXCEPT !.i = @ + 1]
           g == [fs EXCEPT ![n] = h]
<1>1. fs \in Seq(Frames) /\ n \in Nat /\ n \in 1 .. n /\ f \in Frames
  BY DEF FramesOK
<1>2. h.i = f.i + 1 /\ h.source = f.source /\ h.target = f.target /\ f.i \in Nat
  BY <1>1 DEF Frames
<1>3. g = [fs EXCEPT ![Len(fs)].i = @ + 1]
  OBVIOUS
<1> HIDE DEF h
<1>4. Len(g) = n /\ \A k \in 1 .. n : g[k] = IF k = n THEN h ELSE fs[k]
  BY <1>1
<1> HIDE DEF g
<1>5. \A m \in 1 .. n : g[m].target = fs[m].target /\ g[m].source = fs[m].source
  BY <1>2, <1>4
<1>6. TargetsApart(ns, g)
  BY <1>4, <1>5 DEF InheritOK, TargetsApart
<1>7. PassedInherited(ns, h)
  <2>1. \A k \in 1 .. h.i - 1 : k \in 1 .. f.i - 1 \/ k = f.i
    BY <1>2
  <2>2. PassedInherited(ns, f)
    BY <1>1 DEF InheritOK
  <2> QED
    BY <1>2, <2>1, <2>2 DEF PassedInherited
<1>8. \A m \in 1 .. n : PassedInherited(ns, g[m]) /\ NamesOnce(ns, g[m].target)
  BY <1>4, <1>5, <1>7 DEF InheritOK
<1>9. ASSUME NEW m \in 1 .. n, m < n PROVE ClonesFor(ns, g[m], g[m + 1])
  <2>1. m + 1 \in 1 .. n /\ g[m] = fs[m] /\ ClonesFor(ns, fs[m], fs[m + 1])
    BY <1>1, <1>4, <1>9 DEF InheritOK
  <2> QED
    BY <1>5, <2>1 DEF ClonesFor
<1> QED
  BY <1>3, <1>4, <1>6, <1>8, <1>9 DEF InheritOK

(* The reference the loop of the last call looks at.                       *)
LEMMA CurrentAt ==
  ASSUME SpaceInv, AtReference
  PROVE  /\ Top.i \in Slots(nodes, Top.source) /\ Exists(nodes, Top.source) /\ Exists(nodes, Top.target)
         /\ ChildAt(nodes, Top.source, Top.i) <=> ChildLink(Current.type) /\ ~Current.inverse
         /\ ToAt(nodes, Top.source, Top.i) = Current.target
         /\ NameAt(nodes, Top.source, Top.i) = Node(nodes, Current.target).name
<1>1. frames # <<>> /\ Top.i <= Len(Node(nodes, Top.source).refs)
  BY DEF AtReference, SourceRefs
<1>2. Good(nodes) /\ Top.i \in Nat \ {0} /\ Exists(nodes, Top.source) /\ Exists(nodes, Top.target)
  BY <1>1, TopFacts DEF Frames, FrameOK
<1>3. Len(Node(nodes, Top.source).refs) \in Nat
  BY <1>2, NodeType
<1>4. Top.i \in Slots(nodes, Top.source)
  BY <1>1, <1>2, <1>3 DEF Slots
<1> QED
  BY <1>2, <1>4 DEF ChildAt, ToAt, NameAt, Current, SourceRefs

LEMMA MandatedIs ==
  ASSUME NEW child, Good(nodes), Exists(nodes, child), NEW type
  PROVE  ShouldInherit(child, type) <=> Mandated(nodes, child, type)
<1>1. DOMAIN Node(nodes, child).refs = Slots(nodes, child)
  BY NodeType DEF Slots
<1> QED
  BY <1>1 DEF ShouldInherit, Mandated, ToAt

LEMMA AdvanceInherits ==
  ASSUME SpaceInv, InheritInv, AtReference, Advance, Enlarges(nodes, nodes', {}),
         NEW T, Plain(nodes, nodes', T), T \subseteq {Top.target},
         ChildAt(nodes, Top.source, Top.i)
           /\ Mandated(nodes, ToAt(nodes, Top.source, Top.i), Node(nodes, Top.target).type)
           => NameTaken(nodes, Top.target, NameAt(nodes, Top.source, Top.i))
  PROVE  InheritInv'
<1>1. frames # <<>> /\ Top.i \in Slots(nodes, Top.source)
  BY CurrentAt DEF AtReference
<1>2. /\ Good(nodes) /\ FramesOK(nodes, frames) /\ Len(frames) \in 1 .. Len(frames)
      /\ frames \in Seq(Frames)
  BY <1>1, TopFacts DEF FramesOK
<1>3. FramesOK(nodes, frames')
  BY <1>1, <1>2, FramesAdvance DEF Advance
<1>4. InheritOK(nodes, frames')
  BY <1>1, <1>2, InheritAdvance DEF Advance, InheritInv, Top
<1>5. Len(frames') = Len(frames) /\ frames'[Len(frames)].target = Top.target
  <2>1. frames' = [frames EXCEPT ![Len(frames)] = [frames[Len(frames)] EXCEPT !.i = @ + 1]]
    BY DEF Advance
  <2>2. frames[Len(frames)] \in Frames
    BY <1>2
  <2> QED
    BY <1>2, <2>1, <2>2 DEF Top, Frames
<1>6. \A id \in T : \E m \in 1 .. Len(frames') : frames'[m].target = id
  BY <1>2, <1>5
<1>7. InheritOK(nodes', frames')
  BY <1>2, <1>3, <1>4, <1>6, PlainGrow
<1> QED
  BY <1>7 DEF InheritInv

LEMMA InheritRuleInherits == SpaceInv /\ InheritInv /\ InheritRule => InheritInv'
<1> SUFFICES ASSUME SpaceInv, InheritInv, InheritRule PROVE InheritInv'
  OBVIOUS
<1>1. /\ AtReference /\ Advance /\ Current.type = "HasModellingRule"
      /\ nodes' = AddUniReference(nodes, Top.target, Current.target, "HasModellingRule", Current.inverse)
  BY DEF InheritRule
<1>2. frames # <<>> /\ Current.target \in Ids /\ Current.inverse \in BOOLEAN
  BY <1>1, CurrentFacts
<1>3. Good(nodes) /\ Exists(nodes, Top.target)
  BY <1>2, TopFacts DEF FrameOK
<1>4. Enlarges(nodes, nodes', {})
  BY <1>1, <1>2, <1>3, RuleAdded
<1>5. Plain(nodes, nodes', {Top.target})
  BY <1>1, <1>2, <1>3, RuleAt
<1>6. ~ChildAt(nodes, Top.source, Top.i)
  <2>1. ~ChildLink(Current.type)
    BY <1>1 DEF ChildLink
  <2> QED
    BY <1>1, <2>1, CurrentAt
<1> QED
  BY <1>1, <1>4, <1>5, <1>6, AdvanceInherits

LEMMA InheritLinkInherits == SpaceInv /\ InheritInv /\ InheritLink => InheritInv'
<1> SUFFICES ASSUME SpaceInv, InheritInv, InheritLink PROVE InheritInv'
  OBVIOUS
<1> DEFINE type == Current.type
           s == IF Current.inverse THEN Current.target ELSE Top.target
           t == IF Current.inverse THEN Top.target ELSE Current.target
<1>1. AtReference /\ Linked /\ Advance /\ nodes' = AddBiReference(nodes, s, t, type)
  BY DEF InheritLink
<1>2. type # "HasModellingRule" /\ ~ChildLink(type)
  BY <1>1 DEF Linked, ChildLink
<1>3. frames # <<>> /\ type \in RefTypes /\ Exists(nodes, Current.target)
  BY <1>1, <1>2, CurrentFacts
<1>4. Good(nodes) /\ Exists(nodes, s) /\ Exists(nodes, t)
  BY <1>3, TopFacts DEF FrameOK
<1> HIDE DEF s, t, type
<1>5. Enlarges(nodes, nodes', {})
  BY <1>1, <1>3, <1>4, BiAdded
<1>6. ASSUME NEW id \in Ids, Exists(nodes', id), NEW k \in Slots(nodes', id), NewAt(nodes, id, k)
      PROVE  Node(nodes', id).refs[k].type = type
  <2>1. Exists(nodes, id)
    BY <1>5, <1>6 DEF Enlarges
  <2>2. \/ k \in Slots(nodes, id) \/ Node(nodes', id).refs[k] = Ref(type, t, FALSE)
        \/ Node(nodes', id).refs[k] = Ref(type, s, TRUE)
    <3>1. BiRefs(nodes, nodes', s, t, type)
      BY <1>1, <1>3, <1>4, BiAt
    <3> QED
      BY <1>6, <2>1, <3>1 DEF BiRefs
  <2> QED
    BY <1>6, <2>1, <2>2 DEF NewAt, Ref
<1>7. Plain(nodes, nodes', {})
  <2>1. RulesOf(nodes, nodes', {})
    BY <1>2, <1>6 DEF RulesOf
  <2>2. \A id \in Ids : Exists(nodes', id) => Childless(nodes, nodes', id)
    BY <1>2, <1>6 DEF Childless, ChildAt
  <2> QED
    BY <2>1, <2>2 DEF Plain
<1>8. ~ChildAt(nodes, Top.source, Top.i)
  BY <1>1, <1>2, CurrentAt DEF type
<1> QED
  BY <1>1, <1>5, <1>7, <1>8, AdvanceInherits

LEMMA SkipReferenceInherits == SpaceInv /\ InheritInv /\ SkipReference => InheritInv'
<1> SUFFICES ASSUME SpaceInv, InheritInv, SkipReference PROVE InheritInv'
  OBVIOUS
<1>1. AtReference /\ Advance /\ nodes' = nodes /\ ~(ChildLink(Current.type) /\ Wanted)
  BY DEF SkipReference
<1>2. Good(nodes) /\ frames # <<>>
  BY <1>1, TopFacts DEF AtReference
<1>3. Enlarges(nodes, nodes', {})
  BY <1>1, <1>2, SameSpace
<1>4. Plain(nodes, nodes', {})
  BY <1>1 DEF Plain, RulesOf, Childless, NewAt
<1>5. ASSUME ChildAt(nodes, Top.source, Top.i),
             Mandated(nodes, ToAt(nodes, Top.source, Top.i), Node(nodes, Top.target).type)
      PROVE  NameTaken(nodes, Top.target, NameAt(nodes, Top.source, Top.i))
  <2>1. ChildLink(Current.type) /\ ~Current.inverse /\ ToAt(nodes, Top.source, Top.i) = Current.target
        /\ NameAt(nodes, Top.source, Top.i) = Node(nodes, Current.target).name
    BY <1>1, <1>5, CurrentAt
  <2>2. Current.type # "HasModellingRule"
    BY <2>1 DEF ChildLink
  <2>3. Exists(nodes, Current.target)
    BY <1>1, <2>2, CurrentFacts
  <2>4. ShouldInherit(Current.target, Node(nodes, Top.target).type)
    BY <1>2, <1>5, <2>1, <2>3, MandatedIs
  <2> QED
    BY <1>1, <2>1, <2>4 DEF Wanted
<1> QED
  BY <1>1, <1>3, <1>4, <1>5, AdvanceInherits

LEMMA CloneChildInherits == SpaceInv /\ InheritInv /\ CloneChild => InheritInv'
<1> SUFFICES ASSUME SpaceInv, InheritInv, CloneChild PROVE InheritInv'
  OBVIOUS
<1> DEFINE child == Node(nodes, Current.target)
<1>1. AtReference /\ ChildLink(Current.type) /\ Wanted
  BY DEF CloneChild
<1>2. PICK n \in NextIndex(nextIndex) :
        /\ nodes' = Append(nodes, NewNode(<<1, n>>, child.type, child.name))
        /\ CallInherit(Current.target, <<1, n>>, [op |-> "clone"])
  BY DEF CloneChild
<1> DEFINE f == [source |-> Current.target, target |-> <<1, n>>, i |-> 1, then |-> [op |-> "clone"]]
<1>3. Current.type # "HasModellingRule" /\ ~Current.inverse
      /\ ~NameTaken(nodes, Top.target, child.name)
  BY <1>1 DEF ChildLink, Wanted
<1>4. frames # <<>> /\ Exists(nodes, Current.target) /\ Current.target \in Ids
  BY <1>1, <1>3, CurrentFacts
<1>5. /\ Good(nodes) /\ FramesOK(nodes, frames) /\ frames \in Seq(Frames)
      /\ Len(frames) \in 1 .. Len(frames)
  BY <1>4, TopFacts DEF FramesOK
<1>6. child.type \in NodeTypes /\ child.name \in NodeNames
  BY <1>4, <1>5, NodeType
<1>7. <<1, n>> \in Ids /\ ~Exists(nodes, <<1, n>>)
  BY NextIndexFresh DEF SpaceInv
<1>8. Enlarges(nodes, nodes', {<<1, n>>})
  BY <1>2, <1>5, <1>6, <1>7, NodeAdded
<1>9. /\ Node(nodes', <<1, n>>).refs = <<>> /\ Node(nodes', <<1, n>>).name = child.name
      /\ \A x : Exists(nodes, x) => Node(nodes', x) = Node(nodes, x)
      /\ Plain(nodes, nodes', {})
  <2>1. Fresh(nodes, nodes', <<1, n>>, child.type, child.name)
    BY <1>2, <1>5, <1>6, <1>7, AppendedAt
  <2> QED
    BY <2>1 DEF Fresh
<1>10. InheritOK(nodes', frames)
  BY <1>5, <1>8, <1>9, PlainGrow DEF InheritInv
<1>11. f \in Frames /\ f.source = Current.target /\ f.target = <<1, n>> /\ f.i = 1
  BY <1>4, <1>7, ThenFacts DEF Frames
<1>12. frames' = Append(frames, f)
  BY <1>2 DEF CallInherit
<1> HIDE DEF f
<1>13. Good(nodes') /\ Exists(nodes', f.target) /\ Node(nodes', f.target).refs = <<>>
  BY <1>8, <1>9, <1>11 DEF Enlarges
<1>14. \A m \in 1 .. Len(frames) : frames[m].target # f.target
  BY <1>5, <1>7, <1>11 DEF FramesOK, FrameOK
<1>15. ASSUME NEW id \in Ids, Exists(nodes', id), NEW k \in Slots(nodes', id), ChildAt(nodes', id, k)
       PROVE  ToAt(nodes', id, k) # f.target
  <2>1. Exists(nodes, id) /\ k \in Slots(nodes, id)
    BY <1>9, <1>15 DEF Plain, Childless, NewAt
  <2>2. ChildAt(nodes, id, k) /\ ToAt(nodes', id, k) = ToAt(nodes, id, k)
    BY <1>5, <1>8, <1>15, <2>1, SlotKept
  <2>3. Exists(nodes, ToAt(nodes, id, k))
    BY <1>5, <2>1, <2>2, ChildFacts
  <2> QED
    BY <1>7, <1>11, <2>2, <2>3
<1>16. ClonesFor(nodes', Top, f)
  <2>1. /\ Top.i \in Slots(nodes, Top.source) /\ Exists(nodes, Top.source) /\ Exists(nodes, Top.target)
        /\ ChildAt(nodes, Top.source, Top.i) /\ ToAt(nodes, Top.source, Top.i) = Current.target
    BY <1>1, <1>3, CurrentAt
  <2>2. /\ Node(nodes', Top.source) = Node(nodes, Top.source)
        /\ Node(nodes', Top.target) = Node(nodes, Top.target)
        /\ Node(nodes', f.source) = child /\ Node(nodes', f.target).name = child.name
    BY <1>4, <1>9, <1>11, <2>1
  <2>3. /\ Top.i \in Slots(nodes', Top.source) /\ ChildAt(nodes', Top.source, Top.i)
        /\ f.source = ToAt(nodes', Top.source, Top.i)
    BY <1>11, <2>1, <2>2 DEF Slots, ChildAt, ToAt
  <2>4. ASSUME NEW k \in Slots(nodes', Top.target), ChildAt(nodes', Top.target, k)
        PROVE  NameAt(nodes', Top.target, k) # child.name
    <3>1. k \in Slots(nodes, Top.target) /\ ChildAt(nodes, Top.target, k)
      BY <2>2, <2>4 DEF Slots, ChildAt
    <3>2. Exists(nodes, ToAt(nodes, Top.target, k))
      BY <1>5, <2>1, <3>1, ChildFacts
    <3>3. NameAt(nodes', Top.target, k) = NameAt(nodes, Top.target, k)
      BY <1>5, <1>8, <2>1, <3>1, <3>2, SlotKept
    <3>4. NameAt(nodes, Top.target, k) # child.name
      <4>1. k \in DOMAIN Node(nodes, Top.target).refs
        BY <1>5, <2>1, <3>1, NodeType DEF Slots
      <4> QED
        BY <1>3, <3>2, <4>1 DEF NameTaken, NameAt, ToAt
    <3> QED
      BY <3>3, <3>4
  <2> QED
    BY <2>2, <2>3, <2>4 DEF ClonesFor
<1>17. InheritOK(nodes', frames')
  BY <1>5, <1>10, <1>11, <1>12, <1>13, <1>14, <1>15, <1>16, InheritPush DEF Top
<1> QED
  BY <1>17 DEF InheritInv

LEMMA CloneReturnsInherits == SpaceInv /\ InheritInv /\ CloneReturns => InheritInv'
<1> SUFFICES ASSUME SpaceInv, InheritInv, CloneReturns PROVE InheritInv'
  OBVIOUS
<1> DEFINE n == Len(frames)
           caller == frames[n - 1]
           g == SubSeq(frames, 1, n - 1)
           s == caller.target
           t == Top.target
           type == Node(nodes, caller.source).refs[caller.i].type
<1>1. /\ frames # <<>> /\ Top.then.op = "clone" /\ nodes' = AddBiReference(nodes, s, t, type)
      /\ frames' = [g EXCEPT ![n - 1].i = caller.i + 1]
  BY DEF CloneReturns, Return
<1>2. /\ Good(nodes) /\ FramesOK(nodes, frames) /\ n \in Nat /\ n > 1 /\ Exists(nodes, t)
      /\ Top = frames[n]
  BY <1>1, TopFacts DEF FrameOK, Top
<1>3. n - 1 \in 1 .. n /\ n \in 1 .. n /\ n - 1 < n /\ (n - 1) + 1 = n
  BY <1>2
<1>4. Exists(nodes, caller.source) /\ Exists(nodes, s) /\ FrameOK(nodes, caller)
  BY <1>2, <1>3 DEF FramesOK, FrameOK
<1>5. ClonesFor(nodes, caller, Top)
  BY <1>2, <1>3 DEF InheritInv, InheritOK
<1>6. /\ caller.i \in Slots(nodes, caller.source) /\ ChildAt(nodes, caller.source, caller.i)
      /\ Top.source = ToAt(nodes, caller.source, caller.i)
      /\ Node(nodes, t).name = Node(nodes, Top.source).name
      /\ \A k \in Slots(nodes, s) : ChildAt(nodes, s, k) => NameAt(nodes, s, k) # Node(nodes, t).name
  BY <1>5 DEF ClonesFor
<1>7. ChildLink(type) /\ type \in RefTypes /\ type # "HasModellingRule"
  <2>1. ChildLink(type)
    BY <1>6 DEF ChildAt
  <2> QED
    BY <2>1 DEF ChildLink, RefTypes
<1>8. s # t
  BY <1>2, <1>3 DEF InheritInv, InheritOK, TargetsApart
<1>9. FramesOK(nodes, g) /\ Len(g) = n - 1 /\ \A k \in 1 .. n - 1 : g[k] = frames[k]
  BY <1>1, <1>2, FramesPop
<1>10. InheritOK(nodes, g)
  BY <1>1, <1>2, InheritPop DEF InheritInv
<1> HIDE DEF g
<1>11. g # <<>> /\ g[Len(g)] = caller /\ n - 1 \in 1 .. n - 1
  BY <1>2, <1>9
<1>12. \A m \in 1 .. Len(g) : g[m].target # t /\ (m < Len(g) => g[m].target # s) /\ Exists(nodes, g[m].target)
  <2> TAKE m \in 1 .. Len(g)
  <2>1. m \in 1 .. n /\ m # n /\ g[m] = frames[m] /\ (m < Len(g) => m # n - 1)
    BY <1>2, <1>9
  <2>2. g[m].target # t /\ (m < Len(g) => g[m].target # s)
    BY <1>2, <1>3, <2>1 DEF InheritInv, InheritOK, TargetsApart
  <2> QED
    BY <1>9, <2>2 DEF FramesOK, FrameOK
<1> HIDE DEF s, t, type, caller, n
<1>13. Enlarges(nodes, nodes', {})
  BY <1>1, <1>2, <1>4, <1>7, BiAdded
<1>14. BiRefs(nodes, nodes', s, t, type)
  BY <1>1, <1>2, <1>4, <1>7, BiAt
<1> DEFINE last == Len(Node(nodes, s).refs) + 1
<1>15. ASSUME NEW id \in Ids, Exists(nodes', id), NEW k \in Slots(nodes', id), NewAt(nodes, id, k)
       PROVE  /\ Exists(nodes, id) /\ Node(nodes', id).refs[k].type = type
              /\ \/ id = s /\ k = last /\ ToAt(nodes', id, k) = t
                 \/ ~ChildAt(nodes', id, k)
  <2>1. Exists(nodes, id)
    BY <1>13, <1>15 DEF Enlarges
  <2>2. \/ id = s /\ k = last /\ Node(nodes', id).refs[k] = Ref(type, t, FALSE)
        \/ Node(nodes', id).refs[k] = Ref(type, s, TRUE)
    BY <1>14, <1>15, <2>1 DEF BiRefs, NewAt
  <2> QED
    BY <2>1, <2>2 DEF Ref, ToAt, ChildAt
<1>16. RulesOf(nodes, nodes', {})
  BY <1>7, <1>15 DEF RulesOf
<1>17. \A id \in Ids : Exists(nodes', id) => \A k \in Slots(nodes', id) :
         NewAt(nodes, id, k) /\ ChildAt(nodes', id, k) => \A m \in 1 .. Len(g) : ToAt(nodes', id, k) # g[m].target
  BY <1>12, <1>15
<1>18. ASSUME NEW m \in 1 .. Len(g), m < Len(g) PROVE Childless(nodes, nodes', g[m].target)
  <2>1. g[m].target # s /\ Exists(nodes, g[m].target)
    BY <1>12, <1>18
  <2>2. g[m].target \in Ids /\ Exists(nodes', g[m].target)
    BY <1>2, <1>13, <2>1, NodeType DEF Enlarges
  <2> QED
    BY <1>15, <2>1, <2>2 DEF Childless
<1>19. s \in Ids /\ Exists(nodes', s)
  BY <1>2, <1>4, <1>13, NodeType DEF Enlarges
<1>20. last \in Slots(nodes', s) /\ Node(nodes', s).refs[last] = Ref(type, t, FALSE)
  BY <1>14 DEF BiRefs
<1>21. ToAt(nodes', s, last) = t /\ NameAt(nodes', s, last) = Node(nodes, t).name
  <2>1. ToAt(nodes', s, last) = t
    BY <1>20 DEF ToAt, Ref
  <2>2. Node(nodes', t).name = Node(nodes, t).name
    BY <1>2, <1>13, NodeKept
  <2> QED
    BY <2>1, <2>2 DEF NameAt
<1> HIDE DEF last
<1>22. NamesOnce(nodes', s)
  <2>1. ASSUME NEW k \in Slots(nodes', s), ChildAt(nodes', s, k)
        PROVE  \/ k = last
               \/ /\ k \in Slots(nodes, s) /\ ChildAt(nodes, s, k)
                  /\ NameAt(nodes', s, k) = NameAt(nodes, s, k) /\ NameAt(nodes', s, k) # Node(nodes, t).name
    <3>1. CASE NewAt(nodes, s, k)
      BY <1>15, <1>19, <2>1, <3>1
    <3>2. CASE ~NewAt(nodes, s, k)
      <4>1. k \in Slots(nodes, s)
        BY <3>2 DEF NewAt
      <4>2. ChildAt(nodes, s, k)
        BY <1>2, <1>4, <1>13, <2>1, <4>1, SlotKept
      <4>3. Exists(nodes, ToAt(nodes, s, k))
        BY <1>2, <1>4, <4>1, <4>2, ChildFacts
      <4>4. NameAt(nodes', s, k) = NameAt(nodes, s, k)
        BY <1>2, <1>4, <1>13, <4>1, <4>3, SlotKept
      <4> QED
        BY <1>6, <4>1, <4>2, <4>4
    <3> QED
      BY <3>1, <3>2
  <2>2. NamesOnce(nodes, s)
    BY <1>9, <1>10, <1>11 DEF InheritOK, s
  <2> SUFFICES ASSUME NEW k \in Slots(nodes', s), NEW l \in Slots(nodes', s), ChildAt(nodes', s, k),
                      ChildAt(nodes', s, l), NameAt(nodes', s, k) = NameAt(nodes', s, l)
               PROVE  k = l
    BY DEF NamesOnce
  <2>3. CASE k = last
    BY <1>21, <2>1, <2>3
  <2>4. CASE l = last
    BY <1>21, <2>1, <2>4
  <2>5. CASE k # last /\ l # last
    BY <2>1, <2>2, <2>5 DEF NamesOnce
  <2> QED
    BY <2>3, <2>4, <2>5
<1>23. InheritOK(nodes', g)
  <2>1. NamesOnce(nodes', g[Len(g)].target)
    BY <1>11, <1>22 DEF s
  <2> QED
    BY <1>2, <1>9, <1>10, <1>13, <1>16, <1>17, <1>18, <2>1, InheritGrow
<1>24. FramesOK(nodes', g)
  BY <1>2, <1>9, <1>13, FramesStay
<1>25. caller.i \in Slots(nodes', caller.source)
  BY <1>2, <1>4, <1>6, <1>13, SlotKept
<1>26. NameTaken(nodes', s, NameAt(nodes', caller.source, caller.i))
  <2>1. Exists(nodes, Top.source)
    BY <1>2, <1>4, <1>6, ChildFacts
  <2>2. NameAt(nodes', caller.source, caller.i) = NameAt(nodes, caller.source, caller.i)
    BY <1>2, <1>4, <1>6, <1>13, <2>1, SlotKept
  <2>3. NameAt(nodes, caller.source, caller.i) = Node(nodes, t).name
    BY <1>6 DEF NameAt
  <2>4. last \in DOMAIN Node(nodes', s).refs
    <3>1. Node(nodes', s).refs \in Seq(Refs)
      BY <1>13, <1>19, NodeType DEF Enlarges
    <3> QED
      BY <1>20, <3>1 DEF Slots
  <2>5. Exists(nodes', t)
    BY <1>2, <1>13 DEF Enlarges
  <2> QED
    BY <1>21, <2>2, <2>3, <2>4, <2>5 DEF NameTaken, NameAt, ToAt
<1>27. frames' = [g EXCEPT ![Len(g)].i = @ + 1]
  BY <1>1, <1>9, <1>11
<1>28. InheritOK(nodes', frames')
  BY <1>11, <1>23, <1>24, <1>25, <1>26, <1>27, InheritAdvance DEF s
<1> QED
  BY <1>28 DEF InheritInv

LEMMA NobodyInherits == \A ns : InheritOK(ns, <<>>)
BY DEF InheritOK, TargetsApart

(* A table's helper has its new node inherit.                              *)
LEMMA CallInherits ==
  ASSUME SpaceInv, StartUp, NEW id \in Ids, ~Exists(nodes, id),
         NEW type \in NodeTypes, NEW name \in NodeNames, nodes' = Append(nodes, NewNode(id, type, name)),
         NEW source, NEW then, CallInherit(source, id, then), frames' \in Seq(Frames)
  PROVE  InheritInv'
<1> DEFINE f == [source |-> source, target |-> id, i |-> 1, then |-> then]
<1>1. Good(nodes) /\ frames = <<>>
  BY StartUpFacts
<1>2. Enlarges(nodes, nodes', {id}) /\ Fresh(nodes, nodes', id, type, name)
  <2>1. Enlarges(nodes, nodes', {id})
    BY <1>1, NodeAdded
  <2>2. Fresh(nodes, nodes', id, type, name)
    BY <1>1, AppendedAt
  <2> QED
    BY <2>1, <2>2
<1>3. frames' = Append(<<>>, f) /\ f.target = id /\ f.i = 1
  BY <1>1 DEF CallInherit
<1> HIDE DEF f
<1>4. f \in Frames /\ <<>> \in Seq(Frames)
  <2>1. frames'[1] = f /\ Len(frames') = 1
    BY <1>3
  <2> QED
    BY <2>1
<1>5. Good(nodes') /\ Exists(nodes', id) /\ Node(nodes', id).refs = <<>> /\ Plain(nodes, nodes', {})
  BY <1>2 DEF Enlarges, Fresh
<1>6. ASSUME NEW x \in Ids, Exists(nodes', x), NEW k \in Slots(nodes', x), ChildAt(nodes', x, k)
      PROVE  ToAt(nodes', x, k) # id
  <2>1. Exists(nodes, x) /\ k \in Slots(nodes, x)
    BY <1>5, <1>6 DEF Plain, Childless, NewAt
  <2>2. ChildAt(nodes, x, k) /\ ToAt(nodes', x, k) = ToAt(nodes, x, k)
    BY <1>1, <1>2, <1>6, <2>1, SlotKept
  <2>3. Exists(nodes, ToAt(nodes, x, k))
    BY <1>1, <2>1, <2>2, ChildFacts
  <2> QED
    BY <2>2, <2>3
<1> DEFINE fs == <<>>
<1>7. fs \in Seq(Frames) /\ InheritOK(nodes', fs) /\ fs = <<>>
  BY <1>4, NobodyInherits
<1>8. \A m \in 1 .. Len(fs) : fs[m].target # f.target
  BY <1>7
<1>9. frames' = Append(fs, f)
  BY <1>3
<1> HIDE DEF fs
<1>10. Exists(nodes', f.target) /\ Node(nodes', f.target).refs = <<>>
  BY <1>3, <1>5
<1>11. \A x \in Ids : Exists(nodes', x) => \A k \in Slots(nodes', x) :
         ChildAt(nodes', x, k) => ToAt(nodes', x, k) # f.target
  BY <1>3, <1>6
<1>12. InheritOK(nodes', Append(fs, f))
  BY <1>3, <1>4, <1>5, <1>7, <1>8, <1>10, <1>11, InheritPush
<1> QED
  BY <1>9, <1>12 DEF InheritInv

LEMMA TablesInherit == SpaceInv /\ SpaceInv' /\ Tables => InheritInv'
<1> SUFFICES ASSUME SpaceInv, SpaceInv', Tables PROVE InheritInv'
  OBVIOUS
<1>0. frames' \in Seq(Frames)
  BY DEF SpaceInv, CallsInv, FramesOK
<1>1. ASSUME StartUp, frames' = frames PROVE InheritInv'
  BY <1>1, NobodyInherits, StartUpFacts DEF InheritInv
<1>2. \A id \in Given(0, Standard) : id \in Ids /\ ~Exists(nodes, id)
  BY TableId
<1>3. \A id \in Given(1, Reserved) : id \in Ids /\ ~Exists(nodes, id)
  BY GivenFacts, IdFacts
<1>4. /\ NoName \in NodeNames /\ \A name \in Names : <<0, name>> \in NodeNames
  BY NameFacts DEF Texts
<1>5. NodeTypes = {"Object", "ObjectType", "Variable", "VariableType", "Method"}
  BY DEF NodeTypes
<1>6. ASSUME NEW id \in Given(0, Standard), NEW p \in NodesOf({"ObjectType"}), CreateObjectSubtype(id, p)
      PROVE  InheritInv'
  <2>1. /\ StartUp /\ nodes' = Append(nodes, NewNode(id, "ObjectType", Node(nodes, p).name))
        /\ CallInherit(p, id, [op |-> "subtype", name |-> <<0, "Subtype">>])
    BY <1>6 DEF CreateObjectSubtype
  <2>2. Node(nodes, p).name \in NodeNames
    BY <2>1, NodesOfExist, StartUpFacts, NodeType
  <2> QED
    BY <1>0, <1>2, <1>5, <2>1, <2>2, CallInherits
<1>7. ASSUME NEW id \in Given(0, Standard), NEW p, NEW name \in Names, NEW rule, NEW t,
             CreateComponent(id, p, t, name, rule) \/ CreateVariable(id, p, t, name, rule)
      PROVE  InheritInv'
  <2>1. CASE CreateComponent(id, p, t, name, rule)
    <3>1. /\ StartUp /\ nodes' = Append(nodes, NewNode(id, "Variable", <<0, name>>))
          /\ CallInherit(t, id, [op |-> "component", name |-> <<0, name>>, parent |-> p, rule |-> rule,
                                 props |-> <<"NodeVersion">> \o OptionalProps])
      BY <2>1 DEF CreateComponent
    <3> QED
      BY <1>0, <1>2, <1>4, <1>5, <3>1, CallInherits
  <2>2. CASE CreateVariable(id, p, t, name, rule)
    <3>1. /\ StartUp /\ nodes' = Append(nodes, NewNode(id, "Variable", NoName))
          /\ CallInherit(t, id, [op |-> "component", name |-> <<0, name>>, parent |-> p, rule |-> rule,
                                 props |-> <<>>])
      BY <2>2 DEF CreateVariable
    <3> QED
      BY <1>0, <1>2, <1>4, <1>5, <3>1, CallInherits
  <2> QED
    BY <1>7, <2>1, <2>2
<1>8. ASSUME NEW id \in Given(0, Standard), NEW arguments, NEW m, CloneMethod(id, m, arguments, <<0, "Open">>)
      PROVE  InheritInv'
  <2>1. /\ StartUp /\ nodes' = Append(nodes, NewNode(id, "Method", NoName))
        /\ CallInherit(m, id, [op |-> "method", name |-> <<0, "Open">>, arguments |-> arguments])
    BY <1>8 DEF CloneMethod
  <2> QED
    BY <1>0, <1>2, <1>4, <1>5, <2>1, CallInherits
<1>9. ASSUME NEW id \in Given(0, Standard) \cup Given(1, Reserved), NEW t,
             CreateObjectFromObjectType(id, t, <<0, "Object">>)
      PROVE  InheritInv'
  <2>1. /\ StartUp /\ nodes' = Append(nodes, NewNode(id, "Object", NoName))
        /\ CallInherit(t, id, [op |-> "object", name |-> <<0, "Object">>])
    BY <1>9 DEF CreateObjectFromObjectType
  <2> QED
    BY <1>0, <1>2, <1>3, <1>4, <1>5, <2>1, CallInherits
<1>10. ASSUME NEW id, NEW p, NEW q, NEW r,
              \/ CreateVariableType(id, p) \/ CreateBaseObjectType(id) \/ CreateMethod(id, p)
              \/ AddProperty(id, p, q, r) \/ Attach(id, p, q, r) \/ BuildReferences(id, p)
       PROVE  InheritInv'
  <2>1. StartUp /\ frames' = frames
    BY <1>10 DEF CreateVariableType, CreateBaseObjectType, CreateMethod, AddProperty, Attach, BuildReferences
  <2> QED
    BY <1>1, <2>1
<1> QED
  BY <1>6, <1>7, <1>8, <1>9, <1>10 DEF Tables

(* What InheritReferences has done so far, in every state.                 *)
THEOREM InheritInvariant == SpaceSpec => []InheritInv
<1>1. SpaceInit => InheritInv
  BY NobodyInherits DEF SpaceInit, InheritInv
<1>2. SpaceInv /\ SpaceInv' /\ InheritInv /\ [SpaceNext]_spaceVars => InheritInv'
  <2> SUFFICES ASSUME SpaceInv, SpaceInv', InheritInv, [SpaceNext]_spaceVars PROVE InheritInv'
    OBVIOUS
  <2>1. ASSUME frames' = <<>> PROVE InheritInv'
    BY <2>1, NobodyInherits DEF InheritInv
  <2>2. CASE Tables
    BY <2>2, TablesInherit
  <2>3. CASE InheritRule \/ CloneChild \/ InheritLink \/ SkipReference \/ CloneReturns
    BY <2>3, InheritRuleInherits, CloneChildInherits, InheritLinkInherits, SkipReferenceInherits,
       CloneReturnsInherits
  <2>4. CASE ObjectReturns \/ SubtypeReturns \/ ComponentReturns \/ MethodReturns
    <3>1. frames # <<>> /\ Top.then.op # "clone" /\ Pop
      BY <2>4 DEF ObjectReturns, SubtypeReturns, ComponentReturns, MethodReturns, Return
    <3> QED
      BY <2>1, <3>1, LastPop
  <2>5. CASE CreateNextProperty
    BY <2>1, <2>5 DEF CreateNextProperty
  <2>6. CASE BuildNext
    <3>1. build # <<>> /\ frames' = frames
      BY <2>6 DEF BuildNext
    <3> QED
      BY <2>1, <3>1 DEF SpaceInv, CallsInv
  <2>7. CASE StartServer
    BY <2>1, <2>7 DEF StartServer, Quiet
  <2>8. CASE Remove \/ AddSessionNode \/ \E i \in DOMAIN nodes : RemoveNode(nodes[i].id)
    <3>1. frames' = frames /\ (removing # <<>> \/ running)
      BY <2>8 DEF Remove, DestroyNode, RemoveReference, NextNode, RemoveReturns, AddSessionNode, RemoveNode,
                  Walking
    <3> QED
      BY <2>1, <3>1 DEF SpaceInv, PhaseInv
  <2>9. CASE UNCHANGED spaceVars
    BY <2>9 DEF spaceVars, InheritInv
  <2> QED
    BY <2>2, <2>3, <2>4, <2>5, <2>6, <2>7, <2>8, <2>9 DEF SpaceNext, Steps, Inherit
<1> QED
  BY <1>1, <1>2, SpaceInvariant, PTL DEF SpaceSpec

(* When a call of InheritReferences has come to its end, at whatever depth *)
(* of the recursion, the target has each mandatory child of the source     *)
(* under its BrowseName, and no two children of one BrowseName.            *)
THEOREM InheritsOnce == SpaceSpec => []InheritedOnce
<1>1. SpaceInv /\ InheritInv => InheritedOnce
  <2> SUFFICES ASSUME SpaceInv, InheritInv, Return PROVE
        /\ \A k \in ChildrenOf(Node(nodes, Top.source)) :
             ShouldInherit(Node(nodes, Top.source).refs[k].target, Node(nodes, Top.target).type) =>
               \E m \in DOMAIN Node(nodes, Top.target).refs :
                 /\ Exists(nodes, Node(nodes, Top.target).refs[m].target)
                 /\ Node(nodes, Node(nodes, Top.target).refs[m].target).name
                      = Node(nodes, Node(nodes, Top.source).refs[k].target).name
        /\ \A k, m \in ChildrenOf(Node(nodes, Top.target)) :
             Node(nodes, Node(nodes, Top.target).refs[k].target).name
               = Node(nodes, Node(nodes, Top.target).refs[m].target).name => k = m
    BY DEF InheritedOnce
  <2>1. /\ frames # <<>> /\ Top.i > Len(Node(nodes, Top.source).refs)
    BY DEF Return, SourceRefs
  <2>2. /\ Good(nodes) /\ Exists(nodes, Top.source) /\ Exists(nodes, Top.target) /\ Top.i \in Nat
        /\ Len(frames) \in 1 .. Len(frames)
    BY <2>1, TopFacts DEF FrameOK, Frames
  <2>3. PassedInherited(nodes, Top) /\ NamesOnce(nodes, Top.target)
    BY <2>2 DEF InheritInv, InheritOK, Top
  <2>4. /\ DOMAIN Node(nodes, Top.source).refs = Slots(nodes, Top.source)
        /\ DOMAIN Node(nodes, Top.target).refs = Slots(nodes, Top.target)
        /\ Len(Node(nodes, Top.source).refs) \in Nat
    BY <2>2, NodeType DEF Slots
  <2>5. ASSUME NEW k \in ChildrenOf(Node(nodes, Top.source)),
               ShouldInherit(Node(nodes, Top.source).refs[k].target, Node(nodes, Top.target).type)
        PROVE  NameTaken(nodes, Top.target, Node(nodes, Node(nodes, Top.source).refs[k].target).name)
    <3>1. k \in Slots(nodes, Top.source) /\ ChildAt(nodes, Top.source, k)
      BY <2>4 DEF ChildrenOf, ChildAt
    <3>2. k \in 1 .. Top.i - 1
      BY <2>1, <2>2, <2>4, <3>1 DEF Slots
    <3>3. Exists(nodes, ToAt(nodes, Top.source, k))
      BY <2>2, <3>1, ChildFacts
    <3>4. Mandated(nodes, ToAt(nodes, Top.source, k), Node(nodes, Top.target).type)
      BY <2>2, <2>5, <3>3, MandatedIs DEF ToAt
    <3> QED
      BY <2>3, <3>1, <3>2, <3>4 DEF PassedInherited, NameAt, ToAt
  <2>6. ASSUME NEW k \in ChildrenOf(Node(nodes, Top.target)), NEW m \in ChildrenOf(Node(nodes, Top.target)),
               Node(nodes, Node(nodes, Top.target).refs[k].target).name
                 = Node(nodes, Node(nodes, Top.target).refs[m].target).name
        PROVE  k = m
    <3>1. /\ k \in Slots(nodes, Top.target) /\ ChildAt(nodes, Top.target, k)
          /\ m \in Slots(nodes, Top.target) /\ ChildAt(nodes, Top.target, m)
      BY <2>4 DEF ChildrenOf, ChildAt
    <3>2. NameAt(nodes, Top.target, k) = NameAt(nodes, Top.target, m)
      BY <2>6 DEF NameAt, ToAt
    <3> QED
      BY <2>3, <3>1, <3>2 DEF NamesOnce
  <2> QED
    BY <2>5, <2>6 DEF NameTaken
<1> QED
  BY <1>1, SpaceInvariant, InheritInvariant, PTL
=============================================================================
