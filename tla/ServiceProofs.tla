---------------------------- MODULE ServiceProofs ----------------------------
(***************************************************************************)
(* The services on the alias table, for any nodes, references, sessions    *)
(* and numbers.  Browse and BrowseNext: pages are complete, points         *)
(* separate what was sent from what was not, a session takes its points    *)
(* with it, and the mutex is never left locked.  Call: what is entitled    *)
(* runs, and nothing else.  TranslateBrowsePaths: the targets are the ends *)
(* of the walks that spell the path.                                       *)
(***************************************************************************)
EXTENDS Browse, Call, Translate, FiniteSetTheorems, PointerTableProofs, TLAPS

(* A continuation point keeps no filter, and what was sent of its node lies *)
(* below its Offset.                                                       *)
Identifiers == {Identifier(n) : n \in Nat}

KeptPoint == [id : Identifiers, sess : Tokens, node : Nodes, type : {NoFilter}, dir : Directions,
              batch : Int, offset : Nat \ {0}, want : Filters \cup {NoFilter}, got : SUBSET Nat]

Separated(p) ==
    /\ Before(Matching(p.node, 1, p.want, p.dir), p.offset) \subseteq p.got
    /\ p.got \subseteq Before(Matching(p.node, 1, NoFilter, p.dir), p.offset)

PointInv == /\ points \in Seq(KeptPoint)
            /\ \A i \in 1 .. Len(points) : Separated(points[i]) /\ points[i].sess \notin closed

SessionInv == live \subseteq Tokens /\ closed \subseteq Tokens \ live

BrowseInv == /\ AliasInv /\ PointInv /\ SessionInv
             /\ counter \in Nat /\ depth = 0 /\ PagesComplete

-----------------------------------------------------------------------------
(* The alias table, which Browse shares with every other service.          *)

LEMMA AliasInvInit == AliasInit => AliasInv
BY DEF AliasInit, AliasInv, AliasTypeOK, OneAliasPerNode, Slots

LEMMA RegisterKeeps ==
    ASSUME AliasInv, NEW n \in Nodes, RegisterNode(n)
    PROVE  AliasInv'
<1> DEFINE e == [alias |-> Len(table) + 1, original |-> n]
<1>1. CASE Registered(n)
  BY <1>1 DEF RegisterNode, AliasInv, AliasTypeOK, OneAliasPerNode, Slots
<1>2. CASE ~Registered(n)
  <2>1. table' = Append(table, e) /\ lifo' = lifo
    BY <1>2 DEF RegisterNode
  <2>2. Len(table) \in Nat /\ e \in Entry
    BY DEF AliasInv, AliasTypeOK, Entry
  <2>3. AliasTypeOK'
    BY <2>1, <2>2 DEF AliasInv, AliasTypeOK
  <2>4. /\ Len(table') = Len(table) + 1
        /\ \A i \in Slots : table'[i] = table[i]
        /\ table'[Len(table) + 1] = e
    BY <2>1, <2>2 DEF AliasInv, AliasTypeOK, Slots
  <2>5. \A i \in Slots : table[i].original # n
    BY <1>2 DEF Registered
  <2>6. OneAliasPerNode'
    BY <2>2, <2>4, <2>5 DEF AliasInv, OneAliasPerNode, Slots
  <2>7. lifo' => \A i \in Slots' : table'[i].alias = i
    BY <2>1, <2>2, <2>4 DEF AliasInv, Slots
  <2> QED
    BY <2>3, <2>6, <2>7 DEF AliasInv
<1> QED
  BY <1>1, <1>2

LEMMA UnregisterKeeps ==
    ASSUME AliasInv, NEW a, UnregisterNode(a)
    PROVE  AliasInv'
<1>1. PICK i \in Slots : /\ table' = Shift(table, i)
                         /\ lifo' = (lifo /\ i = Len(table))
  BY DEF UnregisterNode
<1>2. /\ table' \in Seq(Entry)
      /\ Len(table') = Len(table) - 1
      /\ \A j \in 1 .. Len(table) - 1 :
            table'[j] = IF j < i THEN table[j] ELSE table[j + 1]
  BY <1>1, ShiftFacts DEF AliasInv, AliasTypeOK, Slots
<1>3. Len(table) \in Nat /\ i \in 1 .. Len(table)
  BY DEF AliasInv, AliasTypeOK, Slots
<1>4. AliasTypeOK'
  <2>1. lifo' \in BOOLEAN
    BY <1>1, Zenon
  <2> QED
    BY <1>2, <2>1 DEF AliasTypeOK
<1>5. OneAliasPerNode'
  <2> SUFFICES ASSUME NEW j \in 1 .. Len(table) - 1,
                      NEW k \in 1 .. Len(table) - 1,
                      table'[j].original = table'[k].original
               PROVE  j = k
    BY <1>2 DEF OneAliasPerNode, Slots
  <2>1. (IF j < i THEN j ELSE j + 1) = (IF k < i THEN k ELSE k + 1)
    BY <1>2, <1>3 DEF AliasInv, OneAliasPerNode, Slots
  <2> QED
    BY <1>3, <2>1
<1>6. lifo' => \A j \in Slots' : table'[j].alias = j
  <2> SUFFICES ASSUME lifo', NEW j \in 1 .. Len(table) - 1
               PROVE  table'[j].alias = j
    BY <1>2 DEF Slots
  <2>1. lifo /\ i = Len(table)
    BY <1>1, Zenon
  <2> QED
    BY <1>2, <1>3, <2>1 DEF AliasInv, Slots
<1> QED
  BY <1>4, <1>5, <1>6 DEF AliasInv

LEMMA AliasInvNext == AliasInv /\ [AliasNext]_aliasVars => AliasInv'
<1> SUFFICES ASSUME AliasInv, [AliasNext]_aliasVars PROVE AliasInv'
  OBVIOUS
<1>1. CASE UNCHANGED aliasVars
  BY <1>1 DEF aliasVars, AliasInv, AliasTypeOK, OneAliasPerNode, Slots
<1> QED
  BY <1>1, RegisterKeeps, UnregisterKeeps DEF AliasNext

(* While slot i holds alias i the search loop of GetOriginal can only stop *)
(* at slot i.                                                              *)
LEMMA ResolvesAtOwnSlot == AliasInv => LifoAliasesResolve
<1> SUFFICES ASSUME AliasInv, lifo, NEW i \in Slots
             PROVE  GetOriginal(table[i].alias) = table[i].original
  BY DEF LifoAliasesResolve, AliasResolves
<1> DEFINE hits == {j \in Slots : table[j].alias = table[i].alias}
<1>1. hits = {i}
  BY DEF AliasInv, Slots
<1>2. First({i}) = i
  BY DEF First, Slots
<1> QED
  BY <1>1, <1>2 DEF GetOriginal

-----------------------------------------------------------------------------
(* Removing points.  What RemoveContinuationPoint leaves of a table.       *)
LEMMA WithoutFacts ==
    ASSUME NEW S, NEW seq \in Seq(S), NEW id
    PROVE  /\ Without(seq, id) \in Seq(S)
           /\ Holding(seq, id) = {} => Without(seq, id) = seq
           /\ Holding(seq, id) # {} =>
                /\ First(Holding(seq, id)) \in Holding(seq, id)
                /\ \A i \in Holding(seq, id) : First(Holding(seq, id)) <= i
                /\ Without(seq, id) = Shift(seq, First(Holding(seq, id)))
                /\ Len(Without(seq, id)) = Len(seq) - 1
                /\ \A j \in 1 .. Len(seq) - 1 :
                      Without(seq, id)[j] = IF j < First(Holding(seq, id)) THEN seq[j] ELSE seq[j + 1]
<1>1. CASE Holding(seq, id) = {}
  BY <1>1 DEF Without
<1>2. CASE Holding(seq, id) # {}
  <2> DEFINE H == Holding(seq, id)
  <2>1. H \subseteq Nat /\ H \subseteq 1 .. Len(seq)
    BY DEF Holding
  <2>2. First(H) \in H /\ \A i \in H : First(H) <= i
    <3> HIDE DEF H
    <3> QED
      BY <1>2, <2>1, FirstFacts DEF H
  <2>3. Without(seq, id) = Shift(seq, First(H)) /\ First(H) \in 1 .. Len(seq)
    BY <1>2, <2>1, <2>2 DEF Without
  <2> HIDE DEF H
  <2> QED
    BY <1>2, <2>2, <2>3, ShiftFacts DEF H
<1> QED
  BY <1>1, <1>2

(* The pass of RemoveContinuationPointWithSession: f[k] is the table when  *)
(* k slots, from the last one down, were looked at.                        *)
Visit(s, seq, i) == IF seq[i].sess = s THEN Without(seq, seq[i].id) ELSE seq

IsPass(f, s, seq, n) == f = [k \in 0 .. n |-> IF k = 0 THEN seq ELSE Visit(s, f[k - 1], n - k + 1)]

LEMMA PassExists ==
    ASSUME NEW s, NEW seq, NEW n \in Nat
    PROVE  \E f : IsPass(f, s, seq, n)
<1> DEFINE Turn(f, k) == IF k = 0 THEN seq ELSE Visit(s, f[k - 1], n - k + 1)
           S == {m \in 0 .. n : \E f : f = [k \in 0 .. m |-> Turn(f, k)]}
<1>1. 0 \in S
  <2> DEFINE f == [k \in 0 .. 0 |-> seq]
  <2>1. f = [k \in 0 .. 0 |-> Turn(f, k)]
    OBVIOUS
  <2> HIDE DEF f
  <2> QED
    BY <2>1
<1>2. ASSUME NEW m \in 1 .. n, m - 1 \in S PROVE m \in S
  <2>1. PICK f : f = [k \in 0 .. m - 1 |-> Turn(f, k)]
    BY <1>2
  <2> DEFINE h == [k \in 0 .. m |-> IF k < m THEN f[k] ELSE Visit(s, f[m - 1], n - m + 1)]
  <2>2. ASSUME NEW k \in 0 .. m PROVE h[k] = Turn(h, k)
    <3>1. k # 0 => k - 1 \in 0 .. m - 1 /\ h[k - 1] = f[k - 1]
      OBVIOUS
    <3>2. CASE k < m
      <4>1. h[k] = f[k] /\ k \in 0 .. m - 1
        BY <3>2
      <4>2. f[k] = Turn(f, k)
        BY <2>1, <4>1
      <4> QED
        BY <3>1, <4>1, <4>2
    <3>3. CASE k = m
      <4>1. h[k] = Visit(s, f[m - 1], n - m + 1)
        BY <3>3
      <4> QED
        BY <3>1, <3>3, <4>1
    <3> QED
      BY <3>2, <3>3
  <2>3. h = [k \in 0 .. m |-> Turn(h, k)]
    BY <2>2
  <2> HIDE DEF h
  <2> QED
    BY <2>3
<1> HIDE DEF S
<1>3. \A k \in 0 .. n : k \in S
  BY <1>1, <1>2, CountUp
<1> QED
  BY <1>3 DEF S, IsPass

LEMMA PurgedIsPass ==
    ASSUME NEW s, Len(points) \in Nat
    PROVE  \E f : IsPass(f, s, points, Len(points)) /\ Purged(s) = f[Len(points)]
<1>1. Purged(s) = (CHOOSE f : IsPass(f, s, points, Len(points)))[Len(points)]
  BY DEF Purged, IsPass, Visit
<1>2. \E f : IsPass(f, s, points, Len(points))
  BY PassExists
<1>3. IsPass(CHOOSE f : IsPass(f, s, points, Len(points)), s, points, Len(points))
  BY <1>2, Zenon
<1> QED
  BY <1>1, <1>3

(* What the pass leaves of seq: points of it, none of them of session s.   *)
Cleared(g, s, seq, T) ==
    /\ g \in Seq(T)
    /\ \A j \in 1 .. Len(g) : g[j].sess # s
    /\ \A j \in 1 .. Len(g) : \E i \in 1 .. Len(seq) : g[j] = seq[i]
    /\ Len(g) = Len(seq) => g = seq

(* The pass leaves no point of the session, although the first point with  *)
(* an identifier that it removes may be another session's: the slots that  *)
(* were looked at, and what moves down into them, never hold one.          *)
LEMMA PassFacts ==
    ASSUME NEW T, NEW s, NEW seq \in Seq(T), NEW f, IsPass(f, s, seq, Len(seq))
    PROVE  Cleared(f[Len(seq)], s, seq, T)
<1> DEFINE n == Len(seq)
           Good(k) == /\ f[k] \in Seq(T) /\ n - k <= Len(f[k]) /\ Len(f[k]) <= n
                      /\ \A j \in 1 .. Len(f[k]) : j > n - k => f[k][j].sess # s
                      /\ \A j \in 1 .. Len(f[k]) : \E i \in 1 .. n : f[k][j] = seq[i]
                      /\ Len(f[k]) = n => f[k] = seq
           S == {k \in 0 .. n : Good(k)}
<1>1. n \in Nat
  OBVIOUS
<1>2. f[0] = seq /\ \A k \in 1 .. n : f[k] = Visit(s, f[k - 1], n - k + 1)
  BY <1>1 DEF IsPass
<1>3. 0 \in S
  BY <1>1, <1>2
<1>4. ASSUME NEW k \in 1 .. n, k - 1 \in S PROVE k \in S
  <2> DEFINE a == f[k - 1]
             i == n - k + 1
             b == f[k]
  <2>1. /\ a \in Seq(T) /\ i <= Len(a) /\ Len(a) <= n /\ i \in 1 .. Len(a)
        /\ \A j \in 1 .. Len(a) : j > i => a[j].sess # s
        /\ \A j \in 1 .. Len(a) : \E m \in 1 .. n : a[j] = seq[m]
        /\ Len(a) = n => a = seq
    <3>1. Good(k - 1)
      BY <1>4
    <3>2. n - (k - 1) = i /\ i \in Nat /\ i >= 1
      BY <1>1
    <3> HIDE DEF i, n
    <3> QED
      BY <3>1, <3>2
  <2>2. b = Visit(s, a, i)
    BY <1>2
  <2>3. i = n - k + 1 /\ i \in Nat /\ k \in 0 .. n /\ Len(a) \in Nat
    BY <1>1, <2>1
  <2> SUFFICES Good(k)
    BY <2>3
  <2> HIDE DEF a, i
  <2>4. CASE a[i].sess # s
    <3>1. b = a
      BY <2>2, <2>4 DEF Visit
    <3>2. \A j \in 1 .. Len(a) : j > n - k => a[j].sess # s
      BY <1>1, <2>1, <2>3, <2>4
    <3> QED
      BY <1>1, <2>1, <2>3, <3>1, <3>2
  <2>5. CASE a[i].sess = s
    <3> DEFINE id == a[i].id
               h == First(Holding(a, id))
    <3>1. b = Without(a, id)
      BY <2>2, <2>5 DEF Visit
    <3>2. i \in Holding(a, id) /\ Holding(a, id) \subseteq 1 .. Len(a)
      BY <2>1 DEF Holding
    <3>3. /\ b \in Seq(T) /\ Len(b) = Len(a) - 1 /\ h \in 1 .. Len(a) /\ h <= i
          /\ \A j \in 1 .. Len(a) - 1 : b[j] = IF j < h THEN a[j] ELSE a[j + 1]
      BY <2>1, <3>1, <3>2, WithoutFacts
    <3> HIDE DEF id, h, b
    <3>4. ASSUME NEW j \in 1 .. Len(b), j > n - k PROVE b[j].sess # s
      <4>1. j \in 1 .. Len(a) - 1 /\ j >= i /\ j + 1 \in 1 .. Len(a) /\ j + 1 > i /\ ~(j < h)
        BY <1>1, <2>1, <2>3, <3>3, <3>4
      <4> QED
        BY <2>1, <3>3, <4>1
    <3>5. \A j \in 1 .. Len(b) : \E m \in 1 .. n : b[j] = seq[m]
      <4> TAKE j \in 1 .. Len(b)
      <4>1. j \in 1 .. Len(a) - 1 /\ j \in 1 .. Len(a) /\ j + 1 \in 1 .. Len(a)
        BY <2>3, <3>3
      <4>2. b[j] = a[j] \/ b[j] = a[j + 1]
        BY <3>3, <4>1
      <4>3. PICK m \in 1 .. Len(a) : b[j] = a[m]
        BY <4>1, <4>2
      <4> QED
        BY <2>1, <4>3
    <3>6. n - k <= Len(b) /\ Len(b) <= n /\ Len(b) # n
      BY <1>1, <2>1, <2>3, <3>3
    <3> QED
      BY <3>3, <3>4, <3>5, <3>6 DEF b
  <2> QED
    BY <2>4, <2>5
<1> HIDE DEF S
<1>5. \A k \in 0 .. n : k \in S
  BY <1>1, <1>3, <1>4, CountUp
<1>6. Good(n)
  BY <1>1, <1>5 DEF S
<1> QED
  BY <1>1, <1>6 DEF Cleared

LEMMA PurgedFacts ==
    ASSUME NEW T, points \in Seq(T), NEW s
    PROVE  Cleared(Purged(s), s, points, T)
<1>1. PICK f : IsPass(f, s, points, Len(points)) /\ Purged(s) = f[Len(points)]
  BY PurgedIsPass
<1>2. Cleared(f[Len(points)], s, points, T)
  BY <1>1, PassFacts
<1> QED
  BY <1>1, <1>2

-----------------------------------------------------------------------------
(* Pages.  A page is finite and begins where the matches begin.            *)
LEMMA MatchingFacts ==
    ASSUME NEW n \in Nodes, NEW start \in Nat, NEW filter, NEW dir
    PROVE  /\ Matching(n, start, filter, dir) \subseteq Nat
           /\ IsFiniteSet(Matching(n, start, filter, dir))
<1>1. Len(References[n]) \in Nat
  BY BrowseAssumption
<1>2. IsFiniteSet(start .. Len(References[n]))
  BY <1>1, FS_Interval
<1>3. Matching(n, start, filter, dir) \subseteq start .. Len(References[n])
  BY DEF Matching
<1> QED
  BY <1>1, <1>2, <1>3, FS_Subset

LEMMA PageFacts ==
    ASSUME NEW S, S \subseteq Nat, IsFiniteSet(S), NEW max \in Int
    PROVE  /\ Page(S, max) \subseteq S
           /\ \A r \in Page(S, max) : \A q \in S : q < r => q \in Page(S, max)
           /\ max > 0 => \A r \in S \ Page(S, max) : \E q \in S : q < r
<1>1. Page(S, max) \subseteq S
  BY DEF Page
<1>2. \A r \in S : IsFiniteSet(Before(S, r)) /\ Cardinality(Before(S, r)) \in Nat
  <2> SUFFICES ASSUME NEW r \in S PROVE IsFiniteSet(Before(S, r))
    BY FS_CardinalityType
  <2>1. Before(S, r) \subseteq S
    BY DEF Before
  <2> QED
    BY <2>1, FS_Subset
<1>3. ASSUME NEW r \in Page(S, max), NEW q \in S, q < r PROVE q \in Page(S, max)
  <2>1. Before(S, q) \subseteq Before(S, r) /\ r \in S
    <3>1. r \in S /\ r \in Nat /\ q \in Nat
      BY <1>1
    <3>2. \A x \in S : x < q => x < r
      BY <1>3, <3>1
    <3> QED
      BY <3>1, <3>2 DEF Before
  <2>2. Cardinality(Before(S, q)) <= Cardinality(Before(S, r))
    BY <1>2, <2>1, FS_Subset
  <2>3. max = 0 \/ Cardinality(Before(S, r)) < max
    BY DEF Page
  <2>4. max = 0 \/ Cardinality(Before(S, q)) < max
    BY <1>2, <2>1, <2>2, <2>3
  <2> QED
    BY <2>4 DEF Page
<1>4. ASSUME max > 0, NEW r \in S \ Page(S, max) PROVE \E q \in S : q < r
  <2>1. Before(S, r) # {}
    <3> SUFFICES ASSUME Before(S, r) = {} PROVE FALSE
      OBVIOUS
    <3>1. Cardinality(Before(S, r)) = 0
      BY FS_EmptySet
    <3> QED
      BY <1>4, <3>1 DEF Page
  <2> QED
    BY <2>1 DEF Before
<1> QED
  BY <1>1, <1>3, <1>4

(* The page stops at the first reference that did not fit.                 *)
LEMMA PageEnds ==
    ASSUME NEW S, S \subseteq Nat, IsFiniteSet(S), NEW max \in Int, Page(S, max) # S
    PROVE  /\ First(S \ Page(S, max)) \in S
           /\ Page(S, max) = Before(S, First(S \ Page(S, max)))
           /\ max > 0 => \E q \in S : q < First(S \ Page(S, max))
<1> DEFINE page == Page(S, max)
           left == S \ page
           f == First(left)
<1>1. /\ page \subseteq S
      /\ \A r \in page : \A q \in S : q < r => q \in page
      /\ max > 0 => \A r \in left : \E q \in S : q < r
  BY PageFacts
<1> HIDE DEF page
<1>2. left # {} /\ left \subseteq Nat
  BY <1>1 DEF page
<1> HIDE DEF left
<1>3. f \in left /\ \A i \in left : f <= i
  BY <1>2, FirstFacts
<1> HIDE DEF f
<1>4. f \in S /\ f \notin page /\ f \in Nat
  BY <1>2, <1>3 DEF left
<1>5. ASSUME NEW r \in page PROVE r < f
  BY <1>1, <1>4
<1>6. ASSUME NEW r \in S, r < f PROVE r \in page
  BY <1>3, <1>4, <1>6 DEF left
<1>7. page = Before(S, f)
  BY <1>1, <1>5, <1>6 DEF Before
<1> QED
  BY <1>1, <1>3, <1>4, <1>7 DEF f, left, page

(* Reading on at slot b adds to what was sent below b.                     *)
LEMMA MatchingOn ==
    ASSUME NEW n \in Nodes, NEW b \in Nat \ {0}, NEW filter, NEW dir
    PROVE  /\ Matching(n, b, filter, dir) \subseteq Matching(n, 1, NoFilter, dir)
           /\ \A r \in Matching(n, b, filter, dir) : r \in Nat /\ b <= r
           /\ \A r \in Matching(n, 1, filter, dir) :
                 r \in Nat /\ (r < b \/ r \in Matching(n, b, NoFilter, dir))
<1>1. Len(References[n]) \in Nat
  BY BrowseAssumption
<1> QED
  BY <1>1 DEF Matching

-----------------------------------------------------------------------------
(* The steps of the services.                                              *)

(* A step that only drops points keeps what holds of each of them.         *)
LEMMA FewerPoints ==
    ASSUME PointInv, points' \in Seq(KeptPoint),
           \A j \in 1 .. Len(points') : \E i \in 1 .. Len(points) : points'[j] = points[i],
           \A j \in 1 .. Len(points') : points'[j].sess \notin closed'
    PROVE  PointInv'
<1>1. \A i \in 1 .. Len(points) : Separated(points[i])
  BY DEF PointInv
<1>2. \A j \in 1 .. Len(points') : Separated(points'[j])
  BY <1>1
<1>3. \A j \in 1 .. Len(points') : Separated(points[j])'
  <2> TAKE j \in 1 .. Len(points')
  <2>1. Separated(points'[j])
    BY <1>2
  <2> QED
    BY <2>1 DEF Separated
<1> QED
  BY <1>3 DEF PointInv

(* RemoveContinuationPoint is only called with the identifier of a point.  *)
LEMMA RemoveKeeps ==
    ASSUME BrowseInv, NEW i \in 1 .. Len(points), RemoveContinuationPoint(points[i].id),
           closed' = closed
    PROVE  PointInv' /\ counter' \in Nat /\ depth' = 0 /\ Len(points') # Len(points)
<1> DEFINE id == points[i].id
           h == First(Holding(points, id))
<1>1. points \in Seq(KeptPoint) /\ counter \in Nat /\ depth = 0 /\ Len(points) \in Nat
  BY DEF BrowseInv, PointInv
<1>2. i \in Holding(points, id)
  BY DEF Holding
<1>3. /\ points' = Without(points, id) /\ depth' = depth /\ counter' = counter
  BY <1>2 DEF RemoveContinuationPoint
<1>4. h \in Holding(points, id) /\ Holding(points, id) \subseteq 1 .. Len(points)
  <2>1. Holding(points, id) \subseteq Nat /\ Holding(points, id) \subseteq 1 .. Len(points)
    BY DEF Holding
  <2> HIDE DEF id
  <2> QED
    BY <1>2, <2>1, FirstFacts
<1>5. /\ points' \in Seq(KeptPoint) /\ Len(points') = Len(points) - 1 /\ h \in 1 .. Len(points)
      /\ \A j \in 1 .. Len(points) - 1 : points'[j] = IF j < h THEN points[j] ELSE points[j + 1]
  <2> HIDE DEF id
  <2> QED
    BY <1>1, <1>2, <1>3, <1>4, WithoutFacts
<1> HIDE DEF id, h
<1>6. \A j \in 1 .. Len(points') : \E k \in 1 .. Len(points) : points'[j] = points[k]
  <2> SUFFICES ASSUME NEW j \in 1 .. Len(points') PROVE \E k \in 1 .. Len(points) : points'[j] = points[k]
    OBVIOUS
  <2>1. j \in 1 .. Len(points) - 1 /\ j \in 1 .. Len(points) /\ j + 1 \in 1 .. Len(points)
    BY <1>1, <1>5
  <2>2. points'[j] = points[j] \/ points'[j] = points[j + 1]
    BY <1>5, <2>1
  <2> QED
    BY <2>1, <2>2, Zenon
<1>7. \A j \in 1 .. Len(points') : points'[j].sess \notin closed'
  BY <1>6 DEF BrowseInv, PointInv
<1>8. PointInv'
  BY <1>5, <1>6, <1>7, FewerPoints DEF BrowseInv
<1> QED
  BY <1>1, <1>3, <1>5, <1>8

(* A Browse answers with everything, or leaves a point that separates.     *)
LEMMA BrowseNodeKeeps ==
    ASSUME BrowseInv, NEW s \in live, NEW n \in Nodes, NEW filter \in Filters \cup {NoFilter},
           NEW dir \in Directions, NEW max \in Int, BrowseNode(s, n, filter, dir, max),
           closed' = closed
    PROVE  /\ PointInv' /\ counter' \in Nat /\ depth' = 0 /\ PagesComplete'
           /\ points' = points \/ Len(points') # Len(points)
<1> DEFINE all == Matching(n, 1, filter, dir)
           page == Page(all, max)
           off == First(all \ page)
           p == [id |-> Identifier(counter + 1), sess |-> s, node |-> n, type |-> NoFilter,
                 dir |-> dir, batch |-> max, offset |-> off, want |-> filter, got |-> page]
<1>1. points \in Seq(KeptPoint) /\ Len(points) \in Nat /\ counter \in Nat /\ depth = 0
  BY DEF BrowseInv, PointInv
<1>2. all \subseteq Nat \ {0} /\ IsFiniteSet(all) /\ all \subseteq Matching(n, 1, NoFilter, dir)
  <2>1. all \subseteq Nat /\ IsFiniteSet(all)
    BY MatchingFacts
  <2>2. all \subseteq Matching(n, 1, NoFilter, dir) /\ \A r \in all : r \in Nat /\ 1 <= r
    BY MatchingOn
  <2> HIDE DEF all
  <2> QED
    BY <2>1, <2>2
<1>3. reply' = [status |-> "Good", chain |-> page, node |-> n,
                want |-> filter, dir |-> dir, more |-> page # all]
  BY DEF BrowseNode
<1>4. PagesComplete'
  <2> SUFFICES ASSUME (reply.status = "Good" /\ ~reply.more)'
               PROVE  Between(reply'.chain, reply'.node, reply'.want, reply'.dir)
    BY DEF PagesComplete, Between
  <2>1. page = all
    BY <1>3, Zenon
  <2> HIDE DEF page
  <2>2. reply'.chain = all /\ reply'.node = n /\ reply'.want = filter /\ reply'.dir = dir
    BY <1>3, <2>1
  <2>3. Between(all, n, filter, dir)
    BY <1>2 DEF Between
  <2> HIDE DEF all
  <2> QED
    BY <2>2, <2>3
<1>5. CASE page = all
  <2>1. UNCHANGED pointVars
    BY <1>5 DEF BrowseNode
  <2>2. PointInv'
    BY <2>1 DEF pointVars, BrowseInv, PointInv, Separated
  <2> QED
    BY <1>1, <1>4, <2>1, <2>2 DEF pointVars
<1>6. CASE page # all
  <2>1. AddContinuationPoint(p)
    BY <1>6 DEF BrowseNode
  <2>2. off \in all /\ page = Before(all, off)
    <3> HIDE DEF all
    <3> QED
      BY <1>2, <1>6, PageEnds
  <2>3. page \subseteq all
    BY <2>2 DEF Before
  <2> HIDE DEF all, page, off
  <2>4. off \in Nat \ {0} /\ page \in SUBSET Nat /\ s \in Tokens /\ s \notin closed
    BY <1>2, <2>2, <2>3 DEF BrowseInv, SessionInv
  <2>5. Identifier(counter + 1) \in Identifiers
    BY <1>1 DEF Identifiers
  <2>6. p \in KeptPoint
    <3> HIDE DEF BrowseInv
    <3> QED
      BY <2>4, <2>5 DEF KeptPoint
  <2>7. Separated(p)
    BY <1>2, <2>2 DEF Separated, all, Before
  <2>8. p.sess = s
    OBVIOUS
  <2> HIDE DEF p
  <2>9. points' = Append(points, p) /\ counter' = counter + 1 /\ depth' = depth
    BY <2>1 DEF AddContinuationPoint
  <2>10. /\ points' \in Seq(KeptPoint) /\ Len(points') = Len(points) + 1
         /\ \A i \in 1 .. Len(points) : points'[i] = points[i]
         /\ points'[Len(points) + 1] = p
    BY <1>1, <2>6, <2>9
  <2>11. ASSUME NEW i \in 1 .. Len(points') PROVE Separated(points'[i]) /\ points'[i].sess \notin closed
    <3>1. CASE i \in 1 .. Len(points)
      BY <2>10, <3>1 DEF BrowseInv, PointInv
    <3>2. CASE i = Len(points) + 1
      BY <2>4, <2>7, <2>8, <2>10, <3>2
    <3> QED
      BY <1>1, <2>10, <3>1, <3>2
  <2>12. PointInv'
    BY <2>10, <2>11 DEF PointInv, Separated
  <2> QED
    BY <1>1, <1>4, <2>9, <2>10, <2>12
<1> QED
  BY <1>5, <1>6

(* BrowseNext delivers the rest, or moves the point on.                    *)
LEMMA ContinueKeeps ==
    ASSUME BrowseInv, NEW i \in 1 .. Len(points), Continue(i), closed' = closed
    PROVE  /\ PointInv' /\ counter' \in Nat /\ depth' = 0 /\ PagesComplete'
           /\ \/ Len(points') # Len(points)
              \/ /\ \A j \in 1 .. Len(points) : j # i => points'[j] = points[j]
                 /\ points[i].batch > 0 => points'[i].offset > points[i].offset
<1> DEFINE p == points[i]
           start == p.offset
           rest == Matching(p.node, start, p.type, p.dir)
           page == Page(rest, p.batch)
           off == First(rest \ page)
           q == [p EXCEPT !.offset = off, !.got = @ \cup page]
<1>1. points \in Seq(KeptPoint) /\ Len(points) \in Nat /\ counter \in Nat /\ depth = 0
  BY DEF BrowseInv, PointInv
<1>2. p \in KeptPoint /\ Separated(p) /\ p.sess \notin closed
  BY <1>1 DEF BrowseInv, PointInv
<1> HIDE DEF p
<1>3. /\ p.node \in Nodes /\ p.type = NoFilter /\ p.dir \in Directions /\ p.batch \in Int
      /\ start \in Nat \ {0} /\ p.got \subseteq Nat
  BY <1>2 DEF KeptPoint
<1>4. rest = Matching(p.node, start, NoFilter, p.dir)
  BY <1>3
<1>5. /\ rest \subseteq Nat /\ IsFiniteSet(rest) /\ rest \subseteq Matching(p.node, 1, NoFilter, p.dir)
      /\ \A r \in rest : start <= r
  BY <1>3, <1>4, MatchingFacts, MatchingOn
<1>6. /\ \A r \in Matching(p.node, 1, p.want, p.dir) : r \in Nat /\ (r < start \/ r \in rest)
      /\ \A r \in Matching(p.node, 1, p.want, p.dir) : r < start => r \in p.got
      /\ p.got \subseteq Matching(p.node, 1, NoFilter, p.dir)
      /\ \A r \in p.got : r \in Nat /\ r < start
  <2>1. \A r \in Matching(p.node, 1, p.want, p.dir) : r \in Nat /\ (r < start \/ r \in rest)
    BY <1>3, <1>4, MatchingOn
  <2> HIDE DEF start
  <2>2. /\ Before(Matching(p.node, 1, p.want, p.dir), start) \subseteq p.got
        /\ p.got \subseteq Before(Matching(p.node, 1, NoFilter, p.dir), start)
    BY <1>2 DEF Separated, start
  <2> QED
    BY <1>3, <2>1, <2>2 DEF Before
<1>7. reply' = [status |-> "Good", chain |-> p.got \cup page, node |-> p.node,
                want |-> p.want, dir |-> p.dir, more |-> page # rest]
  BY DEF Continue, p
<1> HIDE DEF rest, start
<1>8. PagesComplete'
  <2> SUFFICES ASSUME (reply.status = "Good" /\ ~reply.more)'
               PROVE  Between(reply'.chain, reply'.node, reply'.want, reply'.dir)
    BY DEF PagesComplete, Between
  <2>1. page = rest
    BY <1>7, Zenon
  <2> HIDE DEF page
  <2>2. /\ reply'.chain = p.got \cup rest /\ reply'.node = p.node
        /\ reply'.want = p.want /\ reply'.dir = p.dir
    BY <1>7, <2>1
  <2>3. Between(p.got \cup rest, p.node, p.want, p.dir)
    BY <1>5, <1>6 DEF Between
  <2> QED
    BY <2>2, <2>3
<1>9. CASE page = rest
  <2>1. RemoveContinuationPoint(points[i].id)
    BY <1>9 DEF Continue, p, rest, start
  <2> QED
    BY <1>8, <2>1, RemoveKeeps
<1>10. CASE page # rest
  <2>1. points' = [points EXCEPT ![i] = q] /\ counter' = counter /\ depth' = depth
    BY <1>10 DEF Continue, p, rest, start
  <2>2. off \in rest /\ page = Before(rest, off) /\ (p.batch > 0 => \E r \in rest : r < off)
    BY <1>3, <1>5, <1>10, PageEnds
  <2> HIDE DEF page, off
  <2>3. off \in Nat \ {0} /\ start <= off /\ (p.batch > 0 => start < off)
    <3>1. off \in Nat /\ start <= off
      BY <1>5, <2>2
    <3>2. ASSUME NEW r \in rest, r < off PROVE start < off
      <4>1. r \in Nat /\ start <= r
        BY <1>5
      <4> QED
        BY <1>3, <3>1, <3>2, <4>1
    <3>3. p.batch > 0 => start < off
      BY <2>2, <3>2
    <3> QED
      BY <1>3, <3>1, <3>3
  <2>4. /\ q.id = p.id /\ q.sess = p.sess /\ q.node = p.node /\ q.type = p.type /\ q.dir = p.dir
        /\ q.batch = p.batch /\ q.want = p.want /\ q.offset = off /\ q.got = p.got \cup page
    BY <1>2 DEF KeptPoint
  <2>5. q \in KeptPoint
    <3>1. p.got \cup page \in SUBSET Nat
      BY <1>3, <1>5, <2>2 DEF Before
    <3> QED
      BY <1>2, <2>3, <3>1 DEF KeptPoint
  <2> HIDE DEF q
  <2>6. Separated(q)
    <3>1. ASSUME NEW r \in Matching(p.node, 1, p.want, p.dir), r < off PROVE r \in p.got \cup page
      BY <1>6, <2>2, <3>1 DEF Before
    <3>2. ASSUME NEW r \in p.got \cup page PROVE r \in Matching(p.node, 1, NoFilter, p.dir) /\ r < off
      <4>1. CASE r \in p.got
        BY <1>3, <1>6, <2>3, <4>1
      <4>2. CASE r \in page
        BY <1>5, <2>2, <4>2 DEF Before
      <4> QED
        BY <3>2, <4>1, <4>2
    <3>3. /\ Before(Matching(p.node, 1, p.want, p.dir), off) \subseteq p.got \cup page
          /\ p.got \cup page \subseteq Before(Matching(p.node, 1, NoFilter, p.dir), off)
      BY <3>1, <3>2 DEF Before
    <3> QED
      BY <2>4, <3>3 DEF Separated
  <2>7. /\ points' \in Seq(KeptPoint) /\ Len(points') = Len(points) /\ points'[i] = q
        /\ \A j \in 1 .. Len(points) : j # i => points'[j] = points[j]
    BY <1>1, <2>1, <2>5
  <2>8. ASSUME NEW j \in 1 .. Len(points') PROVE Separated(points'[j]) /\ points'[j].sess \notin closed
    <3>1. CASE j # i
      BY <2>7, <3>1 DEF BrowseInv, PointInv
    <3>2. CASE j = i
      BY <1>2, <2>4, <2>6, <2>7, <3>2
    <3> QED
      BY <3>1, <3>2
  <2>9. PointInv'
    BY <2>7, <2>8 DEF PointInv, Separated
  <2> QED
    BY <1>1, <1>8, <2>1, <2>3, <2>4, <2>7, <2>9 DEF p, start
<1> QED
  BY <1>9, <1>10

-----------------------------------------------------------------------------
(* The invariant, and the step of a point that stays in its slot.          *)
Advances == \A i \in 1 .. Len(points) :
                /\ Len(points') = Len(points)
                /\ points'[i] # points[i]
                /\ points[i].batch > 0
                => points'[i].offset > points[i].offset

LEMMA BrowseInvInit == BrowseInit => BrowseInv
<1> SUFFICES ASSUME BrowseInit PROVE BrowseInv
  OBVIOUS
<1>1. AliasInv
  BY AliasInvInit DEF BrowseInit
<1>2. PointInv
  BY DEF BrowseInit, ContinuerInit, PointInv
<1>3. SessionInv
  BY DEF BrowseInit, SessionInv
<1>4. counter \in Nat /\ depth = 0
  BY ContinuerAssumption DEF BrowseInit, ContinuerInit
<1>5. PagesComplete
  BY DEF BrowseInit, NoReply, PagesComplete
<1> QED
  BY <1>1, <1>2, <1>3, <1>4, <1>5 DEF BrowseInv

(* A refusal answers nothing and leaves the points alone.                  *)
LEMMA RefuseKeeps ==
    ASSUME BrowseInv, Refuse, closed' = closed
    PROVE  PointInv' /\ counter' \in Nat /\ depth' = 0 /\ PagesComplete' /\ Advances
<1>1. points' = points /\ counter' = counter /\ depth' = depth
  BY DEF Refuse, pointVars
<1>2. PagesComplete'
  BY DEF Refuse, NoReply, PagesComplete
<1>3. PointInv'
  BY <1>1 DEF BrowseInv, PointInv, Separated
<1> QED
  BY <1>1, <1>2, <1>3 DEF BrowseInv, Advances

LEMMA GetOriginalType == ASSUME AliasInv, NEW a, GetOriginal(a) # NoNode PROVE GetOriginal(a) \in Nodes
<1> DEFINE hits == {i \in Slots : table[i].alias = a}
<1>1. hits # {} /\ GetOriginal(a) = table[First(hits)].original
  BY DEF GetOriginal
<1>2. hits \subseteq Nat
  BY DEF Slots
<1>3. First(hits) \in Slots
  <2>1. First(hits) \in hits
    <3> HIDE DEF hits
    <3> QED
      BY <1>1, <1>2, FirstFacts
  <2> QED
    BY <2>1
<1>4. table[First(hits)] \in Entry
  BY <1>3 DEF AliasInv, AliasTypeOK, Slots
<1> QED
  BY <1>1, <1>4 DEF Entry

LEMMA BrowseRequestKeeps ==
    ASSUME BrowseInv, NEW s \in Tokens, NEW name, NEW filter \in Filters \cup {NoFilter},
           NEW dir \in Directions, NEW max \in Batches, BrowseRequest(s, name, filter, dir, max)
    PROVE  BrowseInv' /\ Advances
<1>1. s \in live /\ UNCHANGED <<table, lifo, live, closed>>
  BY DEF BrowseRequest
<1>2. AliasInv' /\ SessionInv'
  BY <1>1 DEF BrowseInv, AliasInv, AliasTypeOK, OneAliasPerNode, Slots, SessionInv
<1>3. Signed(max) \in Int
  BY BrowseAssumption DEF Signed
<1>4. ASSUME NEW n \in Nodes, BrowseNode(s, n, filter, dir, Signed(max))
      PROVE  PointInv' /\ counter' \in Nat /\ depth' = 0 /\ PagesComplete' /\ Advances
  <2>1. /\ PointInv' /\ counter' \in Nat /\ depth' = 0 /\ PagesComplete'
        /\ points' = points \/ Len(points') # Len(points)
    <3>1. closed' = closed
      BY <1>1
    <3> QED
      BY <1>1, <1>3, <1>4, <3>1, BrowseNodeKeeps
  <2> QED
    BY <2>1 DEF Advances
<1>5. PointInv' /\ counter' \in Nat /\ depth' = 0 /\ PagesComplete' /\ Advances
  <2>1. CASE GetOriginal(name) # NoNode /\ BrowseNode(s, GetOriginal(name), filter, dir, Signed(max))
    <3>1. GetOriginal(name) \in Nodes
      BY <2>1, GetOriginalType DEF BrowseInv
    <3> QED
      BY <1>4, <2>1, <3>1
  <2>2. CASE name \in Nodes /\ BrowseNode(s, name, filter, dir, Signed(max))
    BY <1>4, <2>2
  <2>3. CASE Refuse
    BY <1>1, <2>3, RefuseKeeps
  <2> QED
    BY <2>1, <2>2, <2>3 DEF BrowseRequest
<1> QED
  BY <1>2, <1>5 DEF BrowseInv

LEMMA BrowseNextKeeps ==
    ASSUME BrowseInv, NEW s \in Tokens, NEW id, NEW release \in BOOLEAN, BrowseNext(s, id, release)
    PROVE  BrowseInv' /\ Advances
<1> DEFINE i == GetContinuationPoint(id)
<1>1. UNCHANGED <<table, lifo, live, closed>>
  BY DEF BrowseNext
<1>2. AliasInv' /\ SessionInv'
  BY <1>1 DEF BrowseInv, AliasInv, AliasTypeOK, OneAliasPerNode, Slots, SessionInv
<1>3. i # 0 => i \in 1 .. Len(points)
  <2> SUFFICES ASSUME i # 0 PROVE i \in 1 .. Len(points)
    OBVIOUS
  <2>1. Holding(points, id) # {} /\ i = First(Holding(points, id))
    BY DEF GetContinuationPoint
  <2>2. Holding(points, id) \subseteq Nat /\ Holding(points, id) \subseteq 1 .. Len(points)
    BY DEF Holding
  <2>3. First(Holding(points, id)) \in Holding(points, id)
    BY <2>1, <2>2, FirstFacts
  <2> QED
    BY <2>1, <2>2, <2>3
<1> HIDE DEF i
<1>4. PointInv' /\ counter' \in Nat /\ depth' = 0 /\ PagesComplete' /\ Advances
  <2>1. CASE Refuse
    BY <1>1, <2>1, RefuseKeeps
  <2>2. CASE i # 0 /\ RemoveContinuationPoint(points[i].id) /\ reply' = NoReply
    <3>1. PointInv' /\ counter' \in Nat /\ depth' = 0 /\ Len(points') # Len(points)
      BY <1>1, <1>3, <2>2, RemoveKeeps
    <3>2. PagesComplete'
      BY <2>2 DEF NoReply, PagesComplete
    <3> QED
      BY <3>1, <3>2 DEF Advances
  <2>3. CASE i # 0 /\ Continue(i)
    <3>1. /\ PointInv' /\ counter' \in Nat /\ depth' = 0 /\ PagesComplete'
          /\ \/ Len(points') # Len(points)
             \/ /\ \A j \in 1 .. Len(points) : j # i => points'[j] = points[j]
                /\ points[i].batch > 0 => points'[i].offset > points[i].offset
      BY <1>1, <1>3, <2>3, ContinueKeeps
    <3> QED
      BY <3>1 DEF Advances
  <2> QED
    BY <2>1, <2>2, <2>3 DEF BrowseNext, i
<1> QED
  BY <1>2, <1>4 DEF BrowseInv

LEMMA CloseSessionKeeps ==
    ASSUME BrowseInv, NEW s \in Tokens, CloseSession(s)
    PROVE  BrowseInv' /\ Advances
<1>1. /\ s \in live /\ live' = live \ {s} /\ closed' = closed \cup {s} /\ points' = Purged(s)
      /\ UNCHANGED <<counter, depth, table, lifo, reply>>
  BY DEF CloseSession, RemoveContinuationPointWithSession
<1>2. AliasInv' /\ PagesComplete'
  BY <1>1 DEF BrowseInv, AliasInv, AliasTypeOK, OneAliasPerNode, Slots, PagesComplete, Between
<1>3. SessionInv'
  BY <1>1 DEF BrowseInv, SessionInv
<1>4. points \in Seq(KeptPoint)
  BY DEF BrowseInv, PointInv
<1>5. Cleared(points', s, points, KeptPoint)
  BY <1>1, <1>4, PurgedFacts
<1>6. /\ points' \in Seq(KeptPoint)
      /\ \A j \in 1 .. Len(points') : points'[j].sess # s
      /\ \A j \in 1 .. Len(points') : \E i \in 1 .. Len(points) : points'[j] = points[i]
      /\ Len(points') = Len(points) => points' = points
  BY <1>5 DEF Cleared
<1>7. \A j \in 1 .. Len(points') : points'[j].sess \notin closed'
  BY <1>1, <1>6 DEF BrowseInv, PointInv
<1>8. PointInv'
  BY <1>6, <1>7, FewerPoints DEF BrowseInv
<1>9. Advances
  BY <1>6 DEF Advances
<1> QED
  BY <1>1, <1>2, <1>3, <1>8, <1>9 DEF BrowseInv

LEMMA BrowseInvNext ==
    ASSUME BrowseInv, [BrowseNextStep]_browseVars
    PROVE  BrowseInv' /\ [Advances]_browseVars
<1>1. CASE UNCHANGED browseVars
  <2>1. AliasInv'
    BY <1>1 DEF browseVars, BrowseInv, AliasInv, AliasTypeOK, OneAliasPerNode, Slots
  <2>2. PointInv' /\ SessionInv'
    BY <1>1 DEF browseVars, BrowseInv, PointInv, Separated, SessionInv
  <2>3. PagesComplete'
    BY <1>1 DEF browseVars, BrowseInv, PagesComplete, Between
  <2> QED
    BY <1>1, <2>1, <2>2, <2>3 DEF browseVars, BrowseInv
<1>2. ASSUME NEW s \in Tokens, NEW name \in Nodes \cup 1 .. Cardinality(Nodes),
             NEW filter \in Filters \cup {NoFilter}, NEW dir \in Directions, NEW max \in Batches,
             BrowseRequest(s, name, filter, dir, max)
      PROVE  BrowseInv' /\ Advances
  BY <1>2, BrowseRequestKeeps
<1>3. ASSUME NEW s \in Tokens, BrowseRefused(s) PROVE BrowseInv' /\ Advances
  <2>1. UNCHANGED <<table, lifo, live, closed>> /\ Refuse
    BY <1>3 DEF BrowseRefused
  <2>2. AliasInv' /\ SessionInv'
    BY <2>1 DEF BrowseInv, AliasInv, AliasTypeOK, OneAliasPerNode, Slots, SessionInv
  <2> QED
    BY <2>1, <2>2, RefuseKeeps DEF BrowseInv
<1>4. ASSUME NEW s \in Tokens, NEW id \in Issued \cup {Unknown}, NEW release \in BOOLEAN,
             BrowseNext(s, id, release)
      PROVE  BrowseInv' /\ Advances
  BY <1>4, BrowseNextKeeps
<1>5. ASSUME NEW s \in Tokens, CloseSession(s) PROVE BrowseInv' /\ Advances
  BY <1>5, CloseSessionKeeps
<1>6. ASSUME NEW s \in Tokens, ExpireSession(s) PROVE BrowseInv' /\ Advances
  <2>1. /\ live' = live \ {s}
        /\ UNCHANGED <<table, lifo, points, counter, depth, added, closed, reply>>
    BY <1>6 DEF ExpireSession
  <2>2. AliasInv'
    BY <2>1 DEF BrowseInv, AliasInv, AliasTypeOK, OneAliasPerNode, Slots
  <2>3. PointInv' /\ SessionInv'
    BY <2>1 DEF BrowseInv, PointInv, Separated, SessionInv
  <2>4. PagesComplete'
    BY <2>1 DEF BrowseInv, PagesComplete, Between
  <2> QED
    BY <2>1, <2>2, <2>3, <2>4 DEF BrowseInv, Advances
<1>7. CASE Register
  <2>1. AliasNext /\ UNCHANGED <<points, counter, depth, added, live, closed, reply>>
    BY <1>7 DEF Register
  <2>2. AliasInv'
    BY <2>1, AliasInvNext DEF BrowseInv
  <2>3. PointInv' /\ SessionInv'
    BY <2>1 DEF BrowseInv, PointInv, Separated, SessionInv
  <2>4. PagesComplete'
    BY <2>1 DEF BrowseInv, PagesComplete, Between
  <2> QED
    BY <2>1, <2>2, <2>3, <2>4 DEF BrowseInv, Advances
<1> QED
  BY <1>1, <1>2, <1>3, <1>4, <1>5, <1>6, <1>7 DEF BrowseNextStep

(* The inductive invariant of the browse services.                         *)
THEOREM BrowseInvariant == BrowseSpec => []BrowseInv
BY BrowseInvInit, BrowseInvNext, PTL DEF BrowseSpec

(* A chain of pages that ends without a continuation point has delivered   *)
(* every reference asked for, whatever was registered, released, closed or *)
(* browsed between its calls.                                              *)
THEOREM PagesAreComplete == BrowseSpec => []PagesComplete
<1>1. BrowseInv => PagesComplete
  BY DEF BrowseInv
<1> QED
  BY <1>1, BrowseInvariant, PTL

(* No page repeats a reference of an earlier page or skips one for good:   *)
(* the Offset of a point separates what was sent from what was not.        *)
THEOREM OffsetsSeparate == BrowseSpec => []OffsetSeparates
<1>1. BrowseInv => OffsetSeparates
  BY DEF BrowseInv, PointInv, Separated, OffsetSeparates
<1> QED
  BY <1>1, BrowseInvariant, PTL

(* BrowseNext moves a point on, so that paging ends.                       *)
THEOREM PagingMovesOn == BrowseSpec => PagingAdvances
<1>1. BrowseInv /\ [BrowseNextStep]_browseVars => [Advances]_browseVars
  BY BrowseInvNext
<1> QED
  BY <1>1, BrowseInvariant, PTL DEF BrowseSpec, PagingAdvances, Advances

(* RemoveContinuationPointWithSession leaves no point of a closed session, *)
(* although it removes by identifiers that several points may share.       *)
THEOREM ClosedTakesPoints == BrowseSpec => []ClosedHasNoPoints
<1>1. BrowseInv => ClosedHasNoPoints
  BY DEF BrowseInv, PointInv, ClosedHasNoPoints
<1> QED
  BY <1>1, BrowseInvariant, PTL

(* RemoveContinuationPoint never takes the path that keeps the mutex.      *)
THEOREM MutexStaysFree == BrowseSpec => []MutexReleased
<1>1. BrowseInv => MutexReleased
  BY DEF BrowseInv, MutexReleased
<1> QED
  BY <1>1, BrowseInvariant, PTL

(* RegisterNodes never enters a node twice, in any order of requests.      *)
THEOREM OneAliasTheorem == AliasSpec => []OneAliasPerNode
<1>1. AliasInv => OneAliasPerNode
  BY DEF AliasInv
<1> QED
  BY <1>1, AliasInvInit, AliasInvNext, PTL DEF AliasSpec

(* Aliases that are given back in the reverse order of their registration  *)
(* always resolve to the node they stand for.                              *)
THEOREM LifoTheorem == AliasSpec => []LifoAliasesResolve
BY AliasInvInit, AliasInvNext, ResolvesAtOwnSlot, PTL DEF AliasSpec

(* The same with browsing, closing and expiring sessions in between.       *)
THEOREM BrowseKeepsAliases == BrowseSpec => [](OneAliasPerNode /\ LifoAliasesResolve)
<1>1. BrowseInv => OneAliasPerNode /\ LifoAliasesResolve
  BY ResolvesAtOwnSlot DEF BrowseInv, AliasInv
<1> QED
  BY <1>1, BrowseInvariant, PTL

-----------------------------------------------------------------------------
(* Call.  The climb of IsTypeASubtypeofB as a fixed point: there is one    *)
(* whatever the references are, the nodes from which the parent is met or  *)
(* the climb never ends.                                                   *)
Up(n) == Target(n, "HasSubtype", TRUE)

Climb(f, parent) ==
    f = [n \in Nodes \cup {NoNode} |-> n # NoNode /\ (n = parent \/ f[Up(n)])]

Leads(W, parent) == \A n \in W : n = parent \/ Up(n) \in W

LEMMA ParentFacts == \A n \in Nodes : Up(n) # NoNode => n \in Types /\ Up(n) \in Types
BY BuiltAssumption DEF Up

LEMMA ParentInSpace == \A n \in Nodes : Up(n) \in Nodes \cup {NoNode}
BY ParentFacts DEF Types

LEMMA ClimbExists ==
    ASSUME NEW parent \in Nodes
    PROVE  \E f : Climb(f, parent)
<1> DEFINE In(n) == \E W \in SUBSET Nodes : n \in W /\ Leads(W, parent)
           f == [n \in Nodes \cup {NoNode} |-> In(n)]
<1>1. ASSUME NEW n \in Nodes \cup {NoNode}
      PROVE  In(n) <=> n # NoNode /\ (n = parent \/ In(Up(n)))
  <2>1. ASSUME In(n) PROVE n # NoNode /\ (n = parent \/ In(Up(n)))
    <3>1. PICK W \in SUBSET Nodes : n \in W /\ Leads(W, parent)
      BY <2>1
    <3> QED
      BY <3>1, NoNodeAssumption DEF Leads
  <2>2. ASSUME n = parent PROVE In(n)
    <3>1. Leads({parent}, parent) /\ {parent} \in SUBSET Nodes
      BY DEF Leads
    <3> QED
      BY <2>2, <3>1
  <2>3. ASSUME n # NoNode, In(Up(n)) PROVE In(n)
    <3>1. PICK W \in SUBSET Nodes : Up(n) \in W /\ Leads(W, parent)
      BY <2>3
    <3>2. Leads(W \cup {n}, parent) /\ W \cup {n} \in SUBSET Nodes
      BY <2>3, <3>1 DEF Leads
    <3> QED
      BY <3>2
  <2> QED
    BY <2>1, <2>2, <2>3
<1>2. \A n \in Nodes \cup {NoNode} : n # NoNode => f[Up(n)] = In(Up(n))
  BY ParentInSpace, Zenon
<1> HIDE DEF In
<1>3. \A n \in Nodes \cup {NoNode} : In(n) \in BOOLEAN
  BY DEF In
<1>4. \A n \in Nodes \cup {NoNode} : In(n) = (n # NoNode /\ (n = parent \/ f[Up(n)]))
  BY <1>1, <1>2, <1>3, Zenon
<1>5. f = [n \in Nodes \cup {NoNode} |-> n # NoNode /\ (n = parent \/ f[Up(n)])]
  BY <1>4, Zenon
<1> HIDE DEF f
<1> QED
  BY <1>5, Zenon DEF Climb

LEMMA ClimbStep ==
    ASSUME NEW f, NEW parent, Climb(f, parent), NEW n \in Nodes
    PROVE  f[n] <=> (n = parent \/ f[Up(n)])
<1>1. f[n] = (n # NoNode /\ (n = parent \/ f[Up(n)]))
  BY Zenon DEF Climb
<1>2. n # NoNode
  BY NoNodeAssumption
<1> QED
  BY <1>1, <1>2, Zenon

LEMMA TopEnds ==
    ASSUME NEW f, NEW parent, Climb(f, parent)
    PROVE  ~f[NoNode]
BY Zenon DEF Climb

LEMMA SubtypeIsClimb ==
    ASSUME NEW sub \in Nodes, NEW parent \in Nodes
    PROVE  \E f : Climb(f, parent) /\ (IsTypeASubtypeofB(sub, parent) <=> f[sub])
<1> DEFINE c == CHOOSE f : Climb(f, parent)
<1>1. IsTypeASubtypeofB(sub, parent) <=> c[sub]
  BY DEF IsTypeASubtypeofB, Climb, Up
<1>2. Climb(c, parent)
  BY ClimbExists, Zenon
<1> QED
  BY <1>1, <1>2, Zenon

(* Whoever climbs meets exactly the types that a closed set cannot leave   *)
(* out: no set of types without a topmost one (BuiltAssumption) keeps the  *)
(* climb going, and those that miss the parent are closed.                 *)
LEMMA SubtypeMeaning ==
    ASSUME NEW sub \in Nodes, NEW parent \in Nodes
    PROVE  IsTypeASubtypeofB(sub, parent) <=> Is(sub, parent)
<1>1. PICK f : Climb(f, parent) /\ (IsTypeASubtypeofB(sub, parent) <=> f[sub])
  BY SubtypeIsClimb
<1>2. ASSUME f[sub], sub # parent PROVE Is(sub, parent)
  <2>1. f[Up(sub)]
    BY <1>1, <1>2, ClimbStep
  <2>2. sub \in Types
    BY <1>1, <2>1, TopEnds, ParentFacts
  <2>3. ASSUME NEW S \in SUBSET Types, sub \in S, Closed(S), parent \notin S PROVE FALSE
    <3> DEFINE U == {n \in S : f[n]}
    <3>1. U \in SUBSET Types /\ U # {}
      BY <1>2, <2>3
    <3>2. PICK n \in U : Up(n) \notin U
      BY <3>1, BuiltAssumption DEF Up
    <3>3. n \in Nodes /\ n # parent /\ f[n]
      BY <2>3, <3>2 DEF Types
    <3>4. f[Up(n)]
      BY <1>1, <3>3, ClimbStep
    <3>5. Up(n) # NoNode
      BY <1>1, <3>4, TopEnds
    <3>6. Up(n) \in S
      BY <2>3, <3>2, <3>5 DEF Closed, Up
    <3> QED
      BY <3>2, <3>4, <3>6
  <2> QED
    BY <2>2, <2>3 DEF Is
<1>3. ASSUME Is(sub, parent), sub # parent PROVE f[sub]
  <2> SUFFICES ASSUME ~f[sub] PROVE FALSE
    OBVIOUS
  <2> DEFINE S == {n \in Types : ~f[n]}
  <2>1. S \in SUBSET Types /\ sub \in S
    BY <1>3 DEF Is
  <2>2. ASSUME NEW n \in S PROVE Up(n) \in S \cup {NoNode}
    <3>1. n \in Nodes /\ ~f[n]
      BY DEF Types
    <3>2. ~f[Up(n)]
      BY <1>1, <3>1, ClimbStep
    <3> QED
      BY <3>1, <3>2, ParentFacts
  <2>3. Closed(S)
    BY <2>2 DEF Closed, Up
  <2>4. parent \in S
    BY <1>3, <2>1, <2>3 DEF Is
  <2> QED
    BY <1>1, <2>4, ClimbStep
<1>4. sub = parent => f[sub]
  BY <1>1, ClimbStep
<1> QED
  BY <1>1, <1>2, <1>3, <1>4 DEF Is

(* The first inverse HasComponent reference is the one there is.           *)
LEMMA OwnerFacts ==
    ASSUME NEW m \in Nodes, Space[m].class = "Method"
    PROVE  IF Owners(m) = {} THEN Target(m, "HasComponent", TRUE) = NoNode
           ELSE /\ Target(m, "HasComponent", TRUE) \in Nodes
                /\ Owners(m) = {Target(m, "HasComponent", TRUE)}
<1> DEFINE hits == {k \in DOMAIN Space[m].refs : /\ Space[m].refs[k].type = "HasComponent"
                                                 /\ Space[m].refs[k].inverse = TRUE}
           t == Target(m, "HasComponent", TRUE)
<1>1. hits \subseteq Nat
  BY BuiltAssumption
<1>2. Owners(m) = {Space[m].refs[k].target : k \in hits}
  BY DEF Owners
<1>3. t = IF hits = {} THEN NoNode ELSE Space[m].refs[First(hits)].target
  BY DEF Target
<1>4. Owners(m) \subseteq Nodes /\ \A o, p \in Owners(m) : o = p
  BY BuiltAssumption
<1> HIDE DEF hits, t
<1>5. CASE hits = {}
  BY <1>2, <1>3, <1>5 DEF t
<1>6. CASE hits # {}
  <2>1. First(hits) \in hits
    BY <1>1, <1>6, FirstFacts
  <2>2. t \in Owners(m)
    BY <1>2, <1>3, <1>6, <2>1
  <2>3. Owners(m) = {t}
    BY <1>4, <2>2
  <2> QED
    BY <1>4, <2>2, <2>3 DEF t
<1> QED
  BY <1>5, <1>6

(* An id that a client sends stands for what GetOriginal says, or itself;  *)
(* a node's own id is nobody's alias.                                      *)
LEMMA ResolvedFacts ==
    ASSUME AliasInv, NEW id
    PROVE  StandsFor(id, Resolved(id)) /\ (id \in Nodes => Resolved(id) = id)
<1> DEFINE hits == {i \in Slots : table[i].alias = id}
<1>1. hits \subseteq Nat
  BY DEF Slots
<1>2. GetOriginal(id) = IF hits = {} THEN NoNode ELSE table[First(hits)].original
  BY DEF GetOriginal
<1>3. \A i \in Slots : table[i].alias \in Nat
  <2>1. \A i \in Slots : table[i] \in Entry
    BY DEF AliasInv, AliasTypeOK, Slots
  <2> QED
    BY <2>1 DEF Entry
<1>4. id \in Nodes => hits = {}
  BY <1>3, BuiltAssumption
<1>5. CASE hits = {}
  BY <1>2, <1>5 DEF Resolved, StandsFor
<1>6. CASE hits # {}
  <2>1. First(hits) \in hits
    <3> HIDE DEF hits
    <3> QED
      BY <1>1, <1>6, FirstFacts
  <2>2. StandsFor(id, GetOriginal(id))
    BY <1>2, <1>6, <2>1 DEF StandsFor
  <2>3. StandsFor(id, id)
    BY DEF StandsFor
  <2> QED
    BY <1>4, <1>6, <2>2, <2>3 DEF Resolved
<1> QED
  BY <1>5, <1>6

(* The three comparisons of Call decide who is entitled.                   *)
LEMMA OwnsMeaning ==
    ASSUME NEW object \in Nodes, NEW m \in Nodes, Space[m].class = "Method",
           NEW owner, owner = Target(m, "HasComponent", TRUE), owner # NoNode
    PROVE  Owns(object, SuppliedObjType(object), owner) <=> Entitled(object, m)
<1> DEFINE type == Target(object, "HasTypeDefinition", FALSE)
<1>1. owner \in Nodes /\ Owners(m) = {owner}
  BY OwnerFacts
<1>2. Entitled(object, m) <=> Is(object, owner) \/ (Space[object].class = "Object" /\ Is(type, owner))
  BY <1>1 DEF Entitled
<1>3. object = owner \/ IsTypeASubtypeofB(object, owner) <=> Is(object, owner)
  <2>1. IsTypeASubtypeofB(object, owner) <=> Is(object, owner)
    BY <1>1, SubtypeMeaning
  <2>2. object = owner => Is(object, owner)
    BY DEF Is
  <2> QED
    BY <2>1, <2>2
<1>4. IsTypeASubtypeofB(type, owner) <=> Is(type, owner)
  <2>1. CASE type \in Nodes
    BY <1>1, <2>1, SubtypeMeaning
  <2>2. CASE type \notin Nodes
    <3>1. ~IsTypeASubtypeofB(type, owner)
      BY <2>2 DEF IsTypeASubtypeofB
    <3>2. ~Is(type, owner)
      BY <1>1, <2>2 DEF Is, Types
    <3> QED
      BY <3>1, <3>2
  <2> QED
    BY <2>1, <2>2
<1>5. ~IsTypeASubtypeofB(NoNode, owner)
  BY NoNodeAssumption DEF IsTypeASubtypeofB
<1>6. SuppliedObjType(object) = IF Space[object].class = "Object" THEN type ELSE NoNode
  BY DEF SuppliedObjType
<1> HIDE DEF type
<1>7. IsTypeASubtypeofB(SuppliedObjType(object), owner)
        <=> Space[object].class = "Object" /\ IsTypeASubtypeofB(type, owner)
  BY <1>5, <1>6
<1> QED
  BY <1>2, <1>3, <1>4, <1>7 DEF Owns

CallInv == AliasInv /\ RunsOnlyEntitled /\ EntitledRuns

LEMMA IdleIsRight == result = NoResult => RunsOnlyEntitled /\ EntitledRuns
BY DEF NoResult, RunsOnlyEntitled, EntitledRuns

(* What CallMethod answers, with m for the method and owner for its owner. *)
Admits(m, owner, object) ==
    /\ m \in Nodes /\ Space[m].class = "Method"
    /\ Space[m].executable \/ Space[m].userExecutable
    /\ Space[m].function
    /\ owner # NoNode /\ object \in Nodes
    /\ Owns(Resolved(object), SuppliedObjType(object), owner)

LEMMA CallIsRight ==
    ASSUME AliasInv, NEW method, NEW object, NEW args \in Counts, NEW mistyped \in BOOLEAN,
           CallMethod(method, object, args, mistyped), table' = table
    PROVE  RunsOnlyEntitled' /\ EntitledRuns'
<1> DEFINE m == Resolved(method)
           owner == Target(m, "HasComponent", TRUE)
           inputs == InputArguments(m)
           declared == Space[CHOOSE v \in inputs : TRUE].length
           Says(status, ran) == result' = [method |-> method, object |-> object, args |-> args,
                                           status |-> status, ran |-> ran]
           c1 == m \notin Nodes \/ Space[m].class # "Method"
           c2 == ~Space[m].executable /\ ~Space[m].userExecutable
           c3 == ~Space[m].function
           c4 == owner = NoNode \/ object = NullId
           c5 == object \notin Nodes
           c6 == ~Owns(Resolved(object), SuppliedObjType(object), owner)
           c7 == inputs = {} \/ declared > args
           c8 == declared < args
<1>1. IF c1 THEN Says("BadMethodInvalid", NoNode)
      ELSE IF c2 THEN Says("BadUserAccessDenied", NoNode)
      ELSE IF c3 THEN Says("BadNotImplemented", NoNode)
      ELSE IF c4 THEN Says("BadNodeIdInvalid", NoNode)
      ELSE IF c5 THEN Says("Crash", NoNode)
      ELSE IF c6 THEN Says("BadTypeMismatch", NoNode)
      ELSE IF c7 THEN Says("BadArgumentsMissing", NoNode)
      ELSE IF c8 THEN Says("BadTooManyArguments", NoNode)
      ELSE Says("Ran", m) \/ Says("Crash", m)
  BY Zenon DEF CallMethod
<1>2. ASSUME NEW status, NEW ran, Says(status, ran)
      PROVE  /\ result'.method = method /\ result'.object = object /\ result'.args = args
             /\ result'.status = status /\ result'.ran = ran
  BY <1>2
<1> HIDE DEF Says, c1, c2, c3, c4, c5, c6, c7, c8
<1>3. result'.method = method /\ result'.object = object /\ result'.args = args
  BY <1>1, <1>2
<1>4. result'.ran # NoNode =>
         result'.ran = m /\ ~c1 /\ ~c2 /\ ~c3 /\ ~c4 /\ ~c5 /\ ~c6 /\ ~c7 /\ ~c8
  BY <1>1, <1>2
<1>5. result'.status \notin {"Ran", "Crash"} => c1 \/ c2 \/ c3 \/ c4 \/ c6 \/ c7 \/ c8
  BY <1>1, <1>2
<1> HIDE DEF m
<1>6. ~c1 => m \in Nodes /\ Space[m].class = "Method"
  BY DEF c1
<1>7. ASSUME ~c1, ~c4, object \in Nodes PROVE ~c6 <=> Entitled(object, m)
  <2>1. owner # NoNode
    BY <1>7 DEF c4
  <2>2. Resolved(object) = object
    BY <1>7, ResolvedFacts
  <2>3. Owns(object, SuppliedObjType(object), owner) <=> Entitled(object, m)
    BY <1>6, <1>7, <2>1, OwnsMeaning
  <2> QED
    BY <2>2, <2>3 DEF c6
<1>8. ASSUME ~c1, inputs # {}
      PROVE  /\ ~c7 /\ ~c8 => \A v \in inputs : Space[v].length = args
             /\ c7 \/ c8 => \A v \in inputs : Space[v].length # args
  <2> DEFINE w == CHOOSE v \in inputs : TRUE
  <2>1. w \in inputs
    BY <1>8
  <2>2. inputs \subseteq Nodes /\ \A v \in inputs : v = w
    BY <1>6, <1>8, <2>1, BuiltAssumption
  <2>3. declared = Space[w].length
    OBVIOUS
  <2> HIDE DEF inputs, w, declared
  <2>4. declared \in Nat /\ args \in Nat
    BY <2>1, <2>2, <2>3, BuiltAssumption, CallAssumption
  <2>5. \A v \in inputs : Space[v].length = declared
    BY <2>2, <2>3
  <2> QED
    BY <1>8, <2>4, <2>5 DEF c7, c8
<1>9. RunsOnlyEntitled'
  <2> SUFFICES ASSUME result'.ran # NoNode
               PROVE  /\ StandsFor(method, m)
                      /\ Space[m].function
                      /\ Space[m].executable \/ Space[m].userExecutable
                      /\ Entitled(object, m)
                      /\ \A v \in inputs : Space[v].length = args
    BY <1>3, <1>4 DEF RunsOnlyEntitled, StandsFor, Slots
  <2>1. StandsFor(method, m)
    BY ResolvedFacts DEF m
  <2>2. Space[m].function
    BY <1>4 DEF c3
  <2>3. Space[m].executable \/ Space[m].userExecutable
    BY <1>4 DEF c2
  <2>4. Entitled(object, m)
    BY <1>4, <1>7 DEF c5
  <2>5. inputs # {}
    BY <1>4 DEF c7
  <2> QED
    BY <1>4, <1>8, <2>1, <2>2, <2>3, <2>4, <2>5
<1>10. EntitledRuns'
  <2> SUFFICES ASSUME result'.status \notin {"Ran", "Crash"}, method \in Nodes, object \in Nodes,
                      Space[method].class = "Method", Space[method].executable,
                      Entitled(object, method), InputArguments(method) # {}
               PROVE  \A v \in InputArguments(method) : Space[v].length # args
    BY <1>3 DEF EntitledRuns
  <2>1. m = method
    BY ResolvedFacts DEF m
  <2>2. ~c1 /\ ~c2
    BY <2>1 DEF c1, c2
  <2>3. ~c3
    BY <2>1, BuiltAssumption DEF c3
  <2>4. ~c4
    <3>1. owner # NoNode
      <4>1. Owners(m) # {}
        BY <2>1 DEF Entitled
      <4> QED
        BY <2>1, <4>1, OwnerFacts, NoNodeAssumption
    <3> QED
      BY <3>1, CallAssumption DEF c4
  <2>5. ~c6
    BY <1>7, <2>1, <2>2, <2>4
  <2>6. c7 \/ c8
    BY <1>5, <2>2, <2>3, <2>4, <2>5
  <2> QED
    BY <1>8, <2>1, <2>2, <2>6
<1> QED
  BY <1>9, <1>10

LEMMA CallInvNext == CallInv /\ [CallNext]_callVars => CallInv'
<1> SUFFICES ASSUME CallInv, [CallNext]_callVars PROVE CallInv'
  OBVIOUS
<1>1. ASSUME UNCHANGED aliasVars PROVE AliasInv'
  BY <1>1 DEF aliasVars, CallInv, AliasInv, AliasTypeOK, OneAliasPerNode, Slots
<1>2. ASSUME result' = NoResult PROVE RunsOnlyEntitled' /\ EntitledRuns'
  BY <1>2 DEF NoResult, RunsOnlyEntitled, EntitledRuns
<1>3. CASE CallEntry
  <2>1. PICK method, object \in Ids, args \in Counts, mistyped \in BOOLEAN :
           CallMethod(method, object, args, mistyped)
    BY <1>3 DEF CallEntry
  <2>2. UNCHANGED aliasVars
    BY <1>3 DEF CallEntry
  <2>3. table' = table
    BY <2>2 DEF aliasVars
  <2> QED
    BY <1>1, <2>1, <2>2, <2>3, CallIsRight DEF CallInv
<1>4. CASE NextEntry \/ Sent
  BY <1>1, <1>2, <1>4 DEF NextEntry, Sent, CallInv
<1>5. CASE RegisterNodes
  <2>1. result' = NoResult /\ \E n \in Nodes : RegisterNode(n)
    BY <1>5, CallAssumption DEF RegisterNodes, Idle
  <2>2. AliasInv'
    BY <2>1, RegisterKeeps DEF CallInv
  <2> QED
    BY <1>2, <2>1, <2>2 DEF CallInv
<1>6. CASE UnregisterNodes
  <2>1. result' = NoResult /\ \E i \in Slots : UnregisterNode(table[i].alias)
    BY <1>6 DEF UnregisterNodes, Idle
  <2>2. AliasInv'
    BY <2>1, UnregisterKeeps DEF CallInv
  <2> QED
    BY <1>2, <2>1, <2>2 DEF CallInv
<1>7. CASE UNCHANGED callVars
  <2>1. UNCHANGED aliasVars /\ result' = result /\ table' = table
    BY <1>7 DEF callVars, aliasVars
  <2> QED
    BY <1>1, <2>1 DEF CallInv, RunsOnlyEntitled, EntitledRuns, StandsFor, Slots
<1> QED
  BY <1>3, <1>4, <1>5, <1>6, <1>7 DEF CallNext

(* CallInv holds in every state of the Call service.                       *)
THEOREM CallInvariant == CallSpec => []CallInv
<1>1. CallInit => CallInv
  BY AliasInvInit, IdleIsRight DEF CallInit, CallInv
<1> QED
  BY <1>1, CallInvNext, PTL DEF CallSpec

(* Whatever a client names by id or by alias, Call runs a function only    *)
(* for an object that is entitled to it and with the declared number of    *)
(* arguments: for any address space, type tree and order of registrations. *)
THEOREM OnlyEntitledRun == CallSpec => []RunsOnlyEntitled
<1>1. CallInv => RunsOnlyEntitled
  BY DEF CallInv
<1> QED
  BY <1>1, CallInvariant, PTL

(* Call refuses no request that names an executable method with declared   *)
(* arguments, an object entitled to it and the right number of arguments.  *)
THEOREM EntitledIsRun == CallSpec => []EntitledRuns
<1>1. CallInv => EntitledRuns
  BY DEF CallInv
<1> QED
  BY <1>1, CallInvariant, PTL

(* Calling methods in between leaves the alias table sound, too.           *)
THEOREM CallKeepsAliases == CallSpec => [](OneAliasPerNode /\ LifoAliasesResolve)
<1>1. CallInv => OneAliasPerNode /\ LifoAliasesResolve
  BY ResolvesAtOwnSlot DEF CallInv, AliasInv
<1> QED
  BY <1>1, CallInvariant, PTL

-----------------------------------------------------------------------------
(* TranslateBrowsePaths.  The climb through reference types is that of     *)
(* Call on another tree.                                                   *)
Ascent(f, type) ==
    f = [t \in RefTypes \cup {NoNode} |-> t # NoNode /\ (t = type \/ f[Supertype[t]])]

Reaches(W, type) == \A t \in W : t = type \/ Supertype[t] \in W

LEMMA SupertypeFacts == \A t \in RefTypes : t # NoNode /\ Supertype[t] \in RefTypes \cup {NoNode}
BY SupertypeAssumption

LEMMA AscentExists ==
    ASSUME NEW type \in RefTypes
    PROVE  \E f : Ascent(f, type)
<1> DEFINE In(t) == \E W \in SUBSET RefTypes : t \in W /\ Reaches(W, type)
           f == [t \in RefTypes \cup {NoNode} |-> In(t)]
<1>1. ASSUME NEW t \in RefTypes \cup {NoNode}
      PROVE  In(t) <=> t # NoNode /\ (t = type \/ In(Supertype[t]))
  <2>1. ASSUME In(t) PROVE t # NoNode /\ (t = type \/ In(Supertype[t]))
    <3>1. PICK W \in SUBSET RefTypes : t \in W /\ Reaches(W, type)
      BY <2>1
    <3> QED
      BY <3>1, SupertypeFacts DEF Reaches
  <2>2. ASSUME t = type PROVE In(t)
    <3>1. Reaches({type}, type) /\ {type} \in SUBSET RefTypes
      BY DEF Reaches
    <3> QED
      BY <2>2, <3>1
  <2>3. ASSUME t # NoNode, In(Supertype[t]) PROVE In(t)
    <3>1. PICK W \in SUBSET RefTypes : Supertype[t] \in W /\ Reaches(W, type)
      BY <2>3
    <3>2. Reaches(W \cup {t}, type) /\ W \cup {t} \in SUBSET RefTypes
      BY <2>3, <3>1 DEF Reaches
    <3> QED
      BY <3>2
  <2> QED
    BY <2>1, <2>2, <2>3
<1>2. \A t \in RefTypes \cup {NoNode} : t # NoNode => f[Supertype[t]] = In(Supertype[t])
  BY SupertypeFacts, Zenon
<1> HIDE DEF In
<1>3. \A t \in RefTypes \cup {NoNode} : In(t) \in BOOLEAN
  BY DEF In
<1>4. \A t \in RefTypes \cup {NoNode} : In(t) = (t # NoNode /\ (t = type \/ f[Supertype[t]]))
  BY <1>1, <1>2, <1>3, Zenon
<1>5. f = [t \in RefTypes \cup {NoNode} |-> t # NoNode /\ (t = type \/ f[Supertype[t]])]
  BY <1>4, Zenon
<1> HIDE DEF f
<1> QED
  BY <1>5, Zenon DEF Ascent

LEMMA AscentStep ==
    ASSUME NEW f, NEW type, Ascent(f, type)
    PROVE  ~f[NoNode] /\ \A t \in RefTypes : f[t] <=> (t = type \/ f[Supertype[t]])
<1>1. ~f[NoNode]
  BY Zenon DEF Ascent
<1>2. ASSUME NEW t \in RefTypes PROVE f[t] <=> (t = type \/ f[Supertype[t]])
  <2>1. f[t] = (t # NoNode /\ (t = type \/ f[Supertype[t]]))
    BY Zenon DEF Ascent
  <2>2. t # NoNode
    BY SupertypeFacts
  <2> QED
    BY <2>1, <2>2, Zenon
<1> QED
  BY <1>1, <1>2

LEMMA SubtypeIncludes ==
    ASSUME NEW r \in RefTypes, NEW type \in RefTypes
    PROVE  IsSubtype(r, type) <=> Includes(type, r)
<1> DEFINE f == CHOOSE g : Ascent(g, type)
<1>1. IsSubtype(r, type) <=> f[r]
  BY DEF IsSubtype, Ascent
<1>2. Ascent(f, type)
  BY AscentExists, Zenon
<1> HIDE DEF f
<1>3. ASSUME f[r], ~Includes(type, r) PROVE FALSE
  <2>1. PICK S \in SUBSET (RefTypes \cup {NoNode}) :
           r \in S /\ (\A t \in S \ {NoNode} : Supertype[t] \in S) /\ type \notin S
    BY <1>3 DEF Includes
  <2> DEFINE U == {t \in S \ {NoNode} : f[t]}
  <2>2. U \in SUBSET RefTypes /\ r \in U
    BY <1>3, <2>1, SupertypeFacts
  <2>3. PICK t \in U : Supertype[t] \notin U
    BY <2>2, SupertypeAssumption
  <2>4. t \in RefTypes /\ f[t] /\ t # type
    BY <2>1, <2>2, <2>3
  <2>5. f[Supertype[t]] /\ ~f[NoNode]
    BY <1>2, <2>4, AscentStep
  <2>6. Supertype[t] \in S \ {NoNode}
    BY <2>1, <2>3, <2>5
  <2> QED
    BY <2>3, <2>5, <2>6
<1>4. ASSUME ~f[r], Includes(type, r) PROVE FALSE
  <2> DEFINE S == {t \in RefTypes \cup {NoNode} : ~f[t]}
  <2>1. S \in SUBSET (RefTypes \cup {NoNode}) /\ r \in S
    BY <1>4
  <2>2. ASSUME NEW t \in S \ {NoNode} PROVE Supertype[t] \in S
    <3>1. t \in RefTypes /\ ~f[t]
      OBVIOUS
    <3>2. ~f[Supertype[t]]
      BY <1>2, <3>1, AscentStep
    <3> QED
      BY <3>1, <3>2, SupertypeFacts
  <2>3. type \in S
    BY <1>4, <2>1, <2>2 DEF Includes
  <2> QED
    BY <1>2, <2>3, AscentStep
<1> QED
  BY <1>1, <1>3, <1>4

(* What an element of a path asks of a reference, as Walks puts it.        *)
RefRec == [type : RefTypes, inverse : BOOLEAN, target : Nodes]

Fits(e, r) == /\ r.inverse = e.inverse
              /\ Name[r.target] = e.name
              /\ IF e.subtypes THEN Includes(e.type, r.type) ELSE e.type \in {NoNode, r.type}

LEMMA FollowsFits ==
    ASSUME NEW e \in Elements, NEW r \in RefRec
    PROVE  Follows(e, r) <=> Fits(e, r)
<1>1. r.type \in RefTypes /\ e.type \in RefTypes \cup {NoNode}
  BY DEF RefRec, Elements
<1>2. Includes(NoNode, r.type)
  <2> SUFFICES ASSUME NEW S \in SUBSET (RefTypes \cup {NoNode}), r.type \in S,
                      \A t \in S \ {NoNode} : Supertype[t] \in S, NoNode \notin S
               PROVE  FALSE
    BY DEF Includes
  <2>1. S \in SUBSET RefTypes /\ S # {}
    OBVIOUS
  <2> QED
    BY <2>1, SupertypeAssumption
<1>3. Includes(r.type, r.type)
  BY DEF Includes
<1>4. CASE e.type = NoNode
  BY <1>2, <1>4 DEF Follows, Fits
<1>5. CASE e.type \in RefTypes
  <2>1. IsSubtype(r.type, e.type) <=> Includes(e.type, r.type)
    BY <1>1, <1>5, SubtypeIncludes
  <2>2. e.type # NoNode
    BY <1>5, SupertypeFacts
  <2>3. CASE e.type = r.type
    <3>1. Includes(e.type, r.type)
      BY <1>3, <2>3
    <3> QED
      BY <2>2, <2>3, <3>1 DEF Follows, Fits
  <2>4. CASE e.type # r.type
    BY <2>1, <2>2, <2>4 DEF Follows, Fits
  <2> QED
    BY <2>3, <2>4
<1> QED
  BY <1>1, <1>4, <1>5

(* FlattenSeq lines up the places of the sequences it is given: place q of *)
(* its result is place col[q] of sequence row[q], each once.               *)
Joined(f, seqs, m) == f = [i \in 1 .. m |-> IF i = 1 THEN seqs[i] ELSE f[i - 1] \o seqs[i]]

LEMMA JoinedExists ==
    ASSUME NEW seqs, NEW n \in Nat
    PROVE  \E f : Joined(f, seqs, n)
<1> DEFINE S == {m \in 0 .. n : \E f : Joined(f, seqs, m)}
<1>1. 0 \in S
  <2> DEFINE f == [i \in 1 .. 0 |-> seqs]
  <2>1. Joined(f, seqs, 0)
    BY DEF Joined
  <2> HIDE DEF f
  <2> QED
    BY <2>1
<1>2. ASSUME NEW m \in 1 .. n, m - 1 \in S PROVE m \in S
  <2>1. PICK f : Joined(f, seqs, m - 1)
    BY <1>2
  <2> DEFINE h == [i \in 1 .. m |-> IF i < m THEN f[i] ELSE IF m = 1 THEN seqs[1] ELSE f[m - 1] \o seqs[m]]
  <2>2. ASSUME NEW i \in 1 .. m PROVE h[i] = IF i = 1 THEN seqs[i] ELSE h[i - 1] \o seqs[i]
    <3>1. i # 1 => i - 1 \in 1 .. m - 1 /\ h[i - 1] = f[i - 1]
      OBVIOUS
    <3>2. CASE i < m
      <4>1. h[i] = f[i] /\ i \in 1 .. m - 1
        BY <3>2
      <4>2. f[i] = IF i = 1 THEN seqs[i] ELSE f[i - 1] \o seqs[i]
        BY <2>1, <4>1 DEF Joined
      <4> QED
        BY <3>1, <4>1, <4>2
    <3>3. CASE i = m
      <4>1. h[i] = IF m = 1 THEN seqs[1] ELSE f[m - 1] \o seqs[m]
        BY <3>3
      <4> QED
        BY <3>1, <3>3, <4>1
    <3> QED
      BY <3>2, <3>3
  <2>3. Joined(h, seqs, m)
    BY <2>2 DEF Joined
  <2> HIDE DEF h
  <2> QED
    BY <2>3
<1> HIDE DEF S
<1>3. \A k \in 0 .. n : k \in S
  BY <1>1, <1>2, CountUp
<1> QED
  BY <1>3 DEF S

Numbering(row, col, s, seqs, m) ==
    /\ \A q \in 1 .. Len(s) : /\ row[q] \in 1 .. m /\ col[q] \in 1 .. Len(seqs[row[q]])
                              /\ s[q] = seqs[row[q]][col[q]]
    /\ \A q, p \in 1 .. Len(s) : row[q] = row[p] /\ col[q] = col[p] => q = p
    /\ \A i \in 1 .. m : \A c \in 1 .. Len(seqs[i]) : \E q \in 1 .. Len(s) : row[q] = i /\ col[q] = c

LEMMA NumberMore ==
    ASSUME NEW T, NEW seqs \in Seq(Seq(T)), NEW m \in Nat, m + 1 \in 1 .. Len(seqs),
           NEW s \in Seq(T), NEW row, NEW col, Numbering(row, col, s, seqs, m)
    PROVE  \E r, c : Numbering(r, c, s \o seqs[m + 1], seqs, m + 1)
<1> DEFINE u == seqs[m + 1]
           a == Len(s)
           t == s \o u
           r == [q \in 1 .. Len(t) |-> IF q <= a THEN row[q] ELSE m + 1]
           c == [q \in 1 .. Len(t) |-> IF q <= a THEN col[q] ELSE q - a]
<1>1. u \in Seq(T) /\ a \in Nat /\ Len(u) \in Nat
  OBVIOUS
<1> HIDE DEF u
<1>2. /\ Len(t) = a + Len(u)
      /\ \A q \in 1 .. a : t[q] = s[q]
      /\ \A q \in 1 .. Len(u) : t[a + q] = u[q]
  BY <1>1
<1> HIDE DEF a, t
<1>3. /\ \A q \in 1 .. a : r[q] = row[q] /\ c[q] = col[q]
      /\ \A q \in a + 1 .. Len(t) : r[q] = m + 1 /\ c[q] = q - a
  BY <1>1, <1>2
<1> HIDE DEF r, c
<1>4. /\ \A q \in 1 .. a : /\ row[q] \in 1 .. m /\ col[q] \in 1 .. Len(seqs[row[q]])
                           /\ s[q] = seqs[row[q]][col[q]]
      /\ \A q, p \in 1 .. a : row[q] = row[p] /\ col[q] = col[p] => q = p
      /\ \A i \in 1 .. m : \A d \in 1 .. Len(seqs[i]) : \E q \in 1 .. a : row[q] = i /\ col[q] = d
  BY DEF Numbering, a
<1>5. \A q \in 1 .. Len(t) : q \in 1 .. a \/ (q \in a + 1 .. Len(t) /\ q - a \in 1 .. Len(u) /\ a + (q - a) = q)
  BY <1>1, <1>2
<1>6. ASSUME NEW q \in 1 .. Len(t)
      PROVE  /\ r[q] \in 1 .. m + 1 /\ c[q] \in 1 .. Len(seqs[r[q]])
             /\ t[q] = seqs[r[q]][c[q]]
  <2>1. CASE q \in 1 .. a
    <3>1. r[q] = row[q] /\ c[q] = col[q] /\ t[q] = s[q] /\ row[q] \in 1 .. m
      BY <1>2, <1>3, <1>4, <2>1
    <3>2. r[q] \in 1 .. m + 1
      BY <3>1
    <3>3. col[q] \in 1 .. Len(seqs[row[q]]) /\ s[q] = seqs[row[q]][col[q]]
      BY <1>4, <2>1
    <3> QED
      BY <3>1, <3>2, <3>3, Zenon
  <2>2. CASE q \in a + 1 .. Len(t) /\ q - a \in 1 .. Len(u) /\ a + (q - a) = q
    <3>1. r[q] = m + 1 /\ c[q] = q - a /\ t[a + (q - a)] = u[q - a]
      BY <1>2, <1>3, <2>2
    <3> QED
      BY <2>2, <3>1 DEF u
  <2> QED
    BY <1>5, <2>1, <2>2
<1>7. ASSUME NEW q \in 1 .. Len(t), NEW p \in 1 .. Len(t), r[q] = r[p], c[q] = c[p] PROVE q = p
  <2>1. \A x \in 1 .. a : r[x] \in 1 .. m
    BY <1>3, <1>4
  <2>2. CASE q \in 1 .. a /\ p \in 1 .. a
    BY <1>3, <1>4, <1>7, <2>2
  <2>3. CASE q \in a + 1 .. Len(t) /\ p \in a + 1 .. Len(t)
    BY <1>1, <1>3, <1>7, <2>3
  <2> QED
    BY <1>3, <1>5, <1>7, <2>1, <2>2, <2>3
<1>8. ASSUME NEW i \in 1 .. m + 1, NEW d \in 1 .. Len(seqs[i])
      PROVE  \E q \in 1 .. Len(t) : r[q] = i /\ c[q] = d
  <2>1. CASE i \in 1 .. m
    <3>1. PICK q \in 1 .. a : row[q] = i /\ col[q] = d
      BY <1>4, <2>1
    <3>2. q \in 1 .. Len(t)
      BY <1>1, <1>2
    <3>3. r[q] = i /\ c[q] = d
      BY <1>3, <3>1
    <3> QED
      BY <3>2, <3>3
  <2>2. CASE i = m + 1
    <3>1. d \in 1 .. Len(u)
      BY <2>2 DEF u
    <3> DEFINE q == a + d
    <3>2. q \in a + 1 .. Len(t) /\ q \in 1 .. Len(t) /\ q - a = d
      BY <1>1, <1>2, <3>1
    <3> HIDE DEF q
    <3>3. r[q] = m + 1 /\ c[q] = d
      BY <1>3, <3>2
    <3> QED
      BY <2>2, <3>2, <3>3
  <2> QED
    BY <2>1, <2>2
<1>9. Numbering(r, c, t, seqs, m + 1)
  BY <1>6, <1>7, <1>8 DEF Numbering
<1> QED
  BY <1>9 DEF t, u

LEMMA FlattenFacts ==
    ASSUME NEW T, NEW seqs \in Seq(Seq(T))
    PROVE  /\ FlattenSeq(seqs) \in Seq(T)
           /\ \E row, col : Numbering(row, col, FlattenSeq(seqs), seqs, Len(seqs))
<1> DEFINE n == Len(seqs)
           f == CHOOSE g : Joined(g, seqs, n)
           Upto(m) == IF m = 0 THEN <<>> ELSE f[m]
           S == {m \in 0 .. n : Upto(m) \in Seq(T) /\ \E row, col : Numbering(row, col, Upto(m), seqs, m)}
<1>1. n \in Nat /\ \A i \in 1 .. n : seqs[i] \in Seq(T)
  OBVIOUS
<1>2. Joined(f, seqs, n)
  BY <1>1, JoinedExists, Zenon
<1>3. FlattenSeq(seqs) = Upto(n)
  <2>1. CASE n = 0
    <3>1. seqs = <<>>
      BY <2>1
    <3> QED
      BY <2>1, <3>1 DEF FlattenSeq
  <2>2. CASE n # 0
    <3>1. FlattenSeq(seqs) = f[n]
      BY <2>2, Zenon DEF FlattenSeq, Joined
    <3> QED
      BY <2>2, <3>1
  <2> QED
    BY <2>1, <2>2
<1> HIDE DEF f
<1>4. \A m \in 1 .. n : Upto(m - 1) \in Seq(T) => Upto(m) = Upto(m - 1) \o seqs[m]
  <2> SUFFICES ASSUME NEW m \in 1 .. n, Upto(m - 1) \in Seq(T) PROVE Upto(m) = Upto(m - 1) \o seqs[m]
    OBVIOUS
  <2>1. f[m] = IF m = 1 THEN seqs[m] ELSE f[m - 1] \o seqs[m]
    BY <1>2 DEF Joined
  <2>2. CASE m = 1
    <3>1. Upto(m) = seqs[m] /\ Upto(m - 1) = <<>> /\ seqs[m] \in Seq(T)
      BY <1>1, <2>1, <2>2
    <3>2. \A x \in Seq(T) : <<>> \o x = x
      OBVIOUS
    <3> QED
      BY <3>1, <3>2, Zenon
  <2>3. CASE m # 1
    <3>1. m # 0 /\ m - 1 # 0
      BY <1>1, <2>3
    <3> QED
      BY <2>1, <2>3, <3>1, Zenon
  <2> QED
    BY <2>2, <2>3
<1> HIDE DEF n, Upto
<1>5. 0 \in S
  <2>1. Upto(0) = <<>>
    BY DEF Upto
  <2>2. Numbering(<<>>, <<>>, Upto(0), seqs, 0)
    BY <2>1 DEF Numbering
  <2>3. Upto(0) \in Seq(T) /\ 0 \in 0 .. n
    <3>1. <<>> \in Seq(T)
      OBVIOUS
    <3>2. 0 \in 0 .. n
      BY <1>1
    <3> QED
      BY <2>1, <3>1, <3>2, Zenon
  <2> QED
    BY <2>2, <2>3, Zenon
<1>6. ASSUME NEW m \in 1 .. n, m - 1 \in S PROVE m \in S
  <2> DEFINE l == m - 1
  <2>1. l \in Nat /\ l + 1 = m /\ l + 1 \in 1 .. Len(seqs) /\ Upto(l) \in Seq(T)
    BY <1>1, <1>6 DEF n
  <2>2. PICK row, col : Numbering(row, col, Upto(l), seqs, l)
    BY <1>6
  <2> HIDE DEF l
  <2>3. \E r, c : Numbering(r, c, Upto(l) \o seqs[l + 1], seqs, l + 1)
    BY <2>1, <2>2, NumberMore
  <2>4. Upto(m) = Upto(l) \o seqs[m]
    BY <1>4, <2>1 DEF l
  <2>5. Upto(m) \in Seq(T)
    BY <1>1, <2>1, <2>4
  <2>6. \E r, c : Numbering(r, c, Upto(m), seqs, m)
    BY <2>1, <2>3, <2>4
  <2> QED
    BY <2>5, <2>6
<1> HIDE DEF S
<1>7. \A k \in 0 .. n : k \in S
  BY <1>1, <1>5, <1>6, CountUp
<1>8. n \in S
  BY <1>1, <1>7
<1> QED
  BY <1>3, <1>8 DEF S, n

(* Walks that spell a path from element lo on, and where they end.         *)
GraphOK == refs \in [Nodes -> Seq(RefRec)]

WalksFrom(path, lo, n) ==
    {w \in [lo .. Len(path) -> Hops] :
        /\ lo <= Len(path) => w[lo][1] = n
        /\ \A k \in lo .. Len(path) : /\ k > lo => w[k][1] = Hop(w[k - 1]).target
                                      /\ Fits(path[k], Hop(w[k]))}

End(path, w, lo, n) == IF lo > Len(path) THEN n ELSE Hop(w[Len(path)]).target

Put(path, lo, n, i, w) == [k \in lo .. Len(path) |-> IF k = lo THEN <<n, i>> ELSE w[k]]

LEMMA HopFacts ==
    ASSUME GraphOK
    PROVE  /\ \A n \in Nodes : \A i \in DOMAIN refs[n] :
                <<n, i>> \in Hops /\ Hop(<<n, i>>) = refs[n][i] /\ refs[n][i] \in RefRec
           /\ \A h \in Hops : h = <<h[1], h[2]>> /\ h[1] \in Nodes /\ h[2] \in DOMAIN refs[h[1]]
<1>1. ASSUME NEW n \in Nodes, NEW i \in DOMAIN refs[n]
      PROVE  <<n, i>> \in Hops /\ Hop(<<n, i>>) = refs[n][i] /\ refs[n][i] \in RefRec
  <2>1. refs[n] \in Seq(RefRec)
    BY DEF GraphOK
  <2>2. refs[n][i] \in RefRec
    BY <2>1
  <2>3. <<n, i>> \in Hops
    BY DEF Hops
  <2>4. Hop(<<n, i>>) = refs[n][i]
    BY DEF Hop
  <2> QED
    BY <2>2, <2>3, <2>4
<1>2. ASSUME NEW h \in Hops PROVE h = <<h[1], h[2]>> /\ h[1] \in Nodes /\ h[2] \in DOMAIN refs[h[1]]
  <2>1. PICK n \in Nodes : h \in {n} \X DOMAIN refs[n]
    BY DEF Hops
  <2> QED
    BY <2>1
<1> QED
  BY <1>1, <1>2

LEMMA PutWalk ==
    ASSUME GraphOK, NEW path, Len(path) \in Nat, NEW lo \in 1 .. Len(path), NEW n \in Nodes, NEW i \in DOMAIN refs[n],
           NEW t, t = refs[n][i].target, Fits(path[lo], refs[n][i]),
           NEW w \in WalksFrom(path, lo + 1, t)
    PROVE  /\ Put(path, lo, n, i, w) \in WalksFrom(path, lo, n)
           /\ End(path, Put(path, lo, n, i, w), lo, n) = End(path, w, lo + 1, t)
<1> DEFINE L == Len(path)
           v == Put(path, lo, n, i, w)
<1>1. /\ w \in [lo + 1 .. L -> Hops]
      /\ lo + 1 <= L => w[lo + 1][1] = t
      /\ \A k \in lo + 1 .. L : /\ k > lo + 1 => w[k][1] = Hop(w[k - 1]).target
                                /\ Fits(path[k], Hop(w[k]))
  BY DEF WalksFrom
<1>2. <<n, i>> \in Hops /\ Hop(<<n, i>>) = refs[n][i]
  BY HopFacts
<1>3. L \in Nat /\ lo \in Nat /\ lo <= L /\ lo \in lo .. L
  OBVIOUS
<1>4. \A k \in lo .. L : k # lo => k \in lo + 1 .. L
  BY <1>3
<1>5. v = [k \in lo .. L |-> IF k = lo THEN <<n, i>> ELSE w[k]]
  BY DEF Put
<1> HIDE DEF L, v
<1>6. v[lo] = <<n, i>> /\ \A k \in lo .. L : k # lo => v[k] = w[k]
  BY <1>3, <1>5
<1>7. v \in [lo .. L -> Hops]
  <2>1. \A k \in lo .. L : (IF k = lo THEN <<n, i>> ELSE w[k]) \in Hops
    BY <1>1, <1>2, <1>4
  <2> QED
    BY <1>5, <2>1, Zenon
<1>8. ASSUME NEW k \in lo .. L, k > lo PROVE v[k][1] = Hop(v[k - 1]).target
  <2>1. k \in lo + 1 .. L /\ v[k] = w[k]
    BY <1>3, <1>6, <1>8
  <2>2. CASE k = lo + 1
    <3>1. k - 1 = lo /\ lo + 1 <= L
      BY <1>3, <2>2
    <3> QED
      BY <1>1, <1>2, <1>6, <2>1, <2>2, <3>1
  <2>3. CASE k # lo + 1
    <3>1. k > lo + 1 /\ k - 1 \in lo .. L /\ k - 1 # lo
      BY <1>3, <2>1, <2>3
    <3> QED
      BY <1>1, <1>6, <2>1, <3>1
  <2> QED
    BY <2>2, <2>3
<1>9. ASSUME NEW k \in lo .. L PROVE Fits(path[k], Hop(v[k]))
  BY <1>1, <1>2, <1>4, <1>6
<1>10. v \in WalksFrom(path, lo, n)
  <2>1. v[lo][1] = n
    BY <1>6
  <2> QED
    BY <1>7, <1>8, <1>9, <2>1 DEF WalksFrom, L
<1>11. End(path, v, lo, n) = End(path, w, lo + 1, t)
  <2>1. End(path, v, lo, n) = Hop(v[L]).target
    BY <1>3 DEF End, L
  <2>2. CASE lo = L
    <3>1. End(path, w, lo + 1, t) = t
      BY <1>3, <2>2 DEF End, L
    <3> QED
      BY <1>2, <1>6, <2>1, <2>2, <3>1
  <2>3. CASE lo # L
    <3>1. End(path, w, lo + 1, t) = Hop(w[L]).target
      BY <1>3, <2>3 DEF End, L
    <3>2. L \in lo .. L
      BY <1>3
    <3> QED
      BY <1>6, <2>1, <2>3, <3>1, <3>2
  <2> QED
    BY <2>2, <2>3
<1> QED
  BY <1>10, <1>11 DEF v

LEMMA PutApart ==
    ASSUME NEW path, Len(path) \in Nat, NEW lo \in 1 .. Len(path), NEW n, NEW i, NEW j, NEW a, NEW b,
           NEW w \in WalksFrom(path, lo + 1, a), NEW v \in WalksFrom(path, lo + 1, b),
           Put(path, lo, n, i, w) = Put(path, lo, n, j, v)
    PROVE  i = j /\ w = v
<1> DEFINE L == Len(path)
<1>1. w \in [lo + 1 .. L -> Hops] /\ v \in [lo + 1 .. L -> Hops]
  BY DEF WalksFrom
<1>2. \A k \in lo .. L : Put(path, lo, n, i, w)[k] = (IF k = lo THEN <<n, i>> ELSE w[k])
  BY DEF Put
<1>3. \A k \in lo .. L : Put(path, lo, n, j, v)[k] = (IF k = lo THEN <<n, j>> ELSE v[k])
  BY DEF Put
<1>4. lo \in lo .. L /\ \A k \in lo + 1 .. L : k \in lo .. L /\ k # lo
  OBVIOUS
<1>5. <<n, i>> = <<n, j>>
  BY <1>2, <1>3, <1>4
<1>6. \A k \in lo + 1 .. L : w[k] = v[k]
  BY <1>2, <1>3, <1>4
<1> QED
  BY <1>1, <1>5, <1>6

LEMMA TakeWalk ==
    ASSUME GraphOK, NEW path, Len(path) \in Nat, NEW lo \in 1 .. Len(path), NEW n \in Nodes,
           NEW w \in WalksFrom(path, lo, n)
    PROVE  \E i \in DOMAIN refs[n] :
              /\ Fits(path[lo], refs[n][i])
              /\ \E v \in WalksFrom(path, lo + 1, refs[n][i].target) : w = Put(path, lo, n, i, v)
<1> DEFINE L == Len(path)
           i == w[lo][2]
           t == refs[n][i].target
           v == [k \in lo + 1 .. L |-> w[k]]
<1>1. /\ w \in [lo .. L -> Hops] /\ w[lo][1] = n
      /\ \A k \in lo .. L : /\ k > lo => w[k][1] = Hop(w[k - 1]).target
                            /\ Fits(path[k], Hop(w[k]))
  BY DEF WalksFrom
<1>2. L \in Nat /\ lo \in Nat /\ lo \in lo .. L /\ \A k \in lo + 1 .. L : k \in lo .. L /\ k > lo
  OBVIOUS
<1>3. w[lo] \in Hops
  BY <1>1, <1>2
<1>4. w[lo] = <<n, i>> /\ i \in DOMAIN refs[n]
  BY <1>1, <1>3, HopFacts
<1> HIDE DEF L, i
<1>5. Hop(w[lo]) = refs[n][i]
  BY <1>4, HopFacts
<1>6. Fits(path[lo], refs[n][i])
  BY <1>1, <1>2, <1>5
<1>7. v \in WalksFrom(path, lo + 1, t)
  <2>1. v \in [lo + 1 .. L -> Hops]
    BY <1>1, <1>2
  <2>2. \A k \in lo + 1 .. L : v[k] = w[k]
    OBVIOUS
  <2> HIDE DEF v
  <2>3. ASSUME lo + 1 <= L PROVE v[lo + 1][1] = t
    <3>1. lo + 1 \in lo + 1 .. L /\ (lo + 1) - 1 = lo
      BY <1>2, <2>3
    <3> QED
      BY <1>1, <1>2, <1>5, <2>2, <3>1
  <2>4. ASSUME NEW k \in lo + 1 .. L, k > lo + 1 PROVE v[k][1] = Hop(v[k - 1]).target
    <3>1. k - 1 \in lo + 1 .. L
      BY <1>2, <2>4
    <3> QED
      BY <1>1, <1>2, <2>2, <3>1
  <2>5. \A k \in lo + 1 .. L : Fits(path[k], Hop(v[k]))
    BY <1>1, <1>2, <2>2
  <2> QED
    BY <2>1, <2>3, <2>4, <2>5 DEF WalksFrom, L
<1>8. w = Put(path, lo, n, i, v)
  <2>1. \A k \in lo .. L : w[k] = (IF k = lo THEN <<n, i>> ELSE v[k])
    BY <1>2, <1>4
  <2> HIDE DEF v
  <2>2. w = [k \in lo .. L |-> IF k = lo THEN <<n, i>> ELSE v[k]]
    BY <1>1, <2>1, Zenon
  <2> QED
    BY <2>2 DEF Put, L
<1> HIDE DEF v
<1> QED
  BY <1>4, <1>6, <1>7, <1>8

(* The sequence s has the end of every walk, in the order b, once.         *)
Lists(b, s, path, lo, n) ==
    /\ s \in Seq(Nodes)
    /\ \A q \in 1 .. Len(s) : b[q] \in WalksFrom(path, lo, n) /\ s[q] = End(path, b[q], lo, n)
    /\ \A q, p \in 1 .. Len(s) : b[q] = b[p] => q = p
    /\ \A w \in WalksFrom(path, lo, n) : \E q \in 1 .. Len(s) : b[q] = w

Level(g, e, n) == [i \in DOMAIN refs[n] |->
                     IF Follows(e, refs[n][i]) THEN g[refs[n][i].target] ELSE <<>>]

LEMMA LevelFacts ==
    ASSUME GraphOK, NEW e \in Elements, NEW n \in Nodes, NEW g, \A t \in Nodes : g[t] \in Seq(Nodes)
    PROVE  /\ Level(g, e, n) \in Seq(Seq(Nodes)) /\ Len(Level(g, e, n)) = Len(refs[n])
           /\ DOMAIN refs[n] = 1 .. Len(refs[n]) /\ Len(refs[n]) \in Nat
           /\ \A i \in 1 .. Len(refs[n]) :
                /\ refs[n][i].target \in Nodes
                /\ Level(g, e, n)[i] = IF Fits(e, refs[n][i]) THEN g[refs[n][i].target] ELSE <<>>
<1> DEFINE s == refs[n]
           l == Level(g, e, n)
<1>1. s \in Seq(RefRec)
  BY DEF GraphOK
<1>2. DOMAIN s = 1 .. Len(s) /\ Len(s) \in Nat
  BY <1>1
<1>3. ASSUME NEW i \in 1 .. Len(s)
      PROVE  s[i].target \in Nodes /\ (Follows(e, s[i]) <=> Fits(e, s[i]))
  <2>1. s[i] \in RefRec
    BY <1>1
  <2>2. s[i].target \in Nodes
    BY <2>1 DEF RefRec
  <2> QED
    BY <2>1, <2>2, FollowsFits
<1>4. l = [i \in 1 .. Len(s) |-> IF Follows(e, s[i]) THEN g[s[i].target] ELSE <<>>]
  BY <1>2 DEF Level
<1> HIDE DEF s, l
<1>5. \A i \in 1 .. Len(s) : l[i] = IF Fits(e, s[i]) THEN g[s[i].target] ELSE <<>>
  BY <1>3, <1>4
<1>6. \A i \in 1 .. Len(s) : l[i] \in Seq(Nodes)
  <2>1. <<>> \in Seq(Nodes)
    OBVIOUS
  <2> QED
    BY <1>3, <1>5, <2>1
<1>7. l \in [1 .. Len(s) -> Seq(Nodes)]
  BY <1>4, <1>6, Zenon
<1>8. l \in Seq(Seq(Nodes)) /\ Len(l) = Len(s)
  BY <1>2, <1>7
<1> QED
  BY <1>2, <1>3, <1>5, <1>8 DEF s, l

LEMMA ListsMore ==
    ASSUME GraphOK, NEW path \in Seq(Elements), NEW lo \in 1 .. Len(path), NEW n \in Nodes,
           NEW g, \A t \in Nodes : \E b : Lists(b, g[t], path, lo + 1, t)
    PROVE  \E b : Lists(b, FlattenSeq(Level(g, path[lo], n)), path, lo, n)
<1> DEFINE e == path[lo]
           seqs == Level(g, e, n)
           s == FlattenSeq(seqs)
           m == Len(refs[n])
           To(i) == refs[n][i].target
           B == [t \in Nodes |-> CHOOSE b : Lists(b, g[t], path, lo + 1, t)]
<1>1. e \in Elements /\ Len(path) \in Nat
  OBVIOUS
<1>2. \A t \in Nodes : Lists(B[t], g[t], path, lo + 1, t)
  <2> SUFFICES ASSUME NEW t \in Nodes PROVE Lists(B[t], g[t], path, lo + 1, t)
    OBVIOUS
  <2>1. B[t] = CHOOSE b : Lists(b, g[t], path, lo + 1, t)
    BY Zenon
  <2>2. \E b : Lists(b, g[t], path, lo + 1, t)
    OBVIOUS
  <2> QED
    BY <2>1, <2>2, Zenon
<1> HIDE DEF B, e
<1>3. \A t \in Nodes : g[t] \in Seq(Nodes)
  BY <1>2 DEF Lists
<1>4. /\ seqs \in Seq(Seq(Nodes)) /\ Len(seqs) = m
      /\ DOMAIN refs[n] = 1 .. m /\ m \in Nat
      /\ \A i \in 1 .. m : To(i) \in Nodes /\ seqs[i] = IF Fits(e, refs[n][i]) THEN g[To(i)] ELSE <<>>
  BY <1>1, <1>3, LevelFacts
<1> HIDE DEF seqs
<1>5. s \in Seq(Nodes) /\ \E row, col : Numbering(row, col, s, seqs, Len(seqs))
  BY <1>4, FlattenFacts
<1>6. PICK row, col : Numbering(row, col, s, seqs, m)
  BY <1>4, <1>5
<1> HIDE DEF s, m
<1>7. ASSUME NEW q \in 1 .. Len(s)
      PROVE  /\ row[q] \in 1 .. m /\ To(row[q]) \in Nodes /\ Fits(e, refs[n][row[q]])
             /\ col[q] \in 1 .. Len(g[To(row[q])]) /\ s[q] = g[To(row[q])][col[q]]
  <2>1. row[q] \in 1 .. m /\ col[q] \in 1 .. Len(seqs[row[q]]) /\ s[q] = seqs[row[q]][col[q]]
    BY <1>6 DEF Numbering
  <2>2. seqs[row[q]] # <<>>
    BY <2>1
  <2>3. seqs[row[q]] = g[To(row[q])] /\ Fits(e, refs[n][row[q]]) /\ To(row[q]) \in Nodes
    BY <1>4, <2>1, <2>2
  <2> QED
    BY <2>1, <2>3
<1> DEFINE W(q) == B[To(row[q])][col[q]]
           b == [q \in 1 .. Len(s) |-> Put(path, lo, n, row[q], W(q))]
<1> HIDE DEF To
<1>8. \A q \in 1 .. Len(s) : b[q] = Put(path, lo, n, row[q], W(q))
  BY Zenon
<1>9. \A q \in 1 .. Len(s) : W(q) \in WalksFrom(path, lo + 1, To(row[q])) /\ s[q] = End(path, W(q), lo + 1, To(row[q]))
  BY <1>2, <1>7 DEF Lists
<1> HIDE DEF b, W
<1>10. ASSUME NEW q \in 1 .. Len(s) PROVE b[q] \in WalksFrom(path, lo, n) /\ s[q] = End(path, b[q], lo, n)
  <2>1. row[q] \in DOMAIN refs[n] /\ Fits(path[lo], refs[n][row[q]])
    BY <1>4, <1>7 DEF e
  <2>2. To(row[q]) = refs[n][row[q]].target
    BY DEF To
  <2>3. /\ Put(path, lo, n, row[q], W(q)) \in WalksFrom(path, lo, n)
        /\ End(path, Put(path, lo, n, row[q], W(q)), lo, n) = End(path, W(q), lo + 1, To(row[q]))
    <3>1. PICK i, t, w : i = row[q] /\ t = To(row[q]) /\ w = W(q)
      OBVIOUS
    <3>2. i \in DOMAIN refs[n] /\ Fits(path[lo], refs[n][i]) /\ t = refs[n][i].target
      BY <2>1, <2>2, <3>1
    <3>3. w \in WalksFrom(path, lo + 1, t)
      BY <1>9, <3>1
    <3>4. /\ Put(path, lo, n, i, w) \in WalksFrom(path, lo, n)
          /\ End(path, Put(path, lo, n, i, w), lo, n) = End(path, w, lo + 1, t)
      BY <1>1, <3>2, <3>3, PutWalk
    <3> QED
      BY <3>1, <3>4, Zenon
  <2> QED
    BY <1>8, <1>9, <2>3
<1>11. ASSUME NEW q \in 1 .. Len(s), NEW p \in 1 .. Len(s), b[q] = b[p] PROVE q = p
  <2>1. Put(path, lo, n, row[q], W(q)) = Put(path, lo, n, row[p], W(p))
    BY <1>8, <1>11
  <2>2. row[q] = row[p] /\ W(q) = W(p)
    BY <1>1, <1>9, <2>1, PutApart
  <2>3. col[q] = col[p]
    <3>1. PICK t \in Nodes : t = To(row[q])
      BY <1>7
    <3>2. To(row[p]) = t
      BY <2>2, <3>1
    <3>3. col[q] \in 1 .. Len(g[t]) /\ col[p] \in 1 .. Len(g[t])
      BY <1>7, <3>1, <3>2
    <3>4. B[t][col[q]] = B[t][col[p]]
      BY <2>2, <3>1, <3>2 DEF W
    <3>5. \A c, d \in 1 .. Len(g[t]) : B[t][c] = B[t][d] => c = d
      BY <1>2, <3>1, Zenon DEF Lists
    <3> QED
      BY <3>3, <3>4, <3>5
  <2> QED
    BY <1>6, <2>2, <2>3 DEF Numbering
<1>12. ASSUME NEW w \in WalksFrom(path, lo, n) PROVE \E q \in 1 .. Len(s) : b[q] = w
  <2>1. PICK i \in DOMAIN refs[n] :
           /\ Fits(path[lo], refs[n][i])
           /\ \E v \in WalksFrom(path, lo + 1, refs[n][i].target) : w = Put(path, lo, n, i, v)
    BY <1>1, TakeWalk
  <2>2. i \in 1 .. m /\ To(i) \in Nodes /\ seqs[i] = g[To(i)]
    BY <1>4, <2>1 DEF e
  <2>3. PICK v \in WalksFrom(path, lo + 1, To(i)) : w = Put(path, lo, n, i, v)
    BY <2>1 DEF To
  <2>4. PICK c \in 1 .. Len(g[To(i)]) : B[To(i)][c] = v
    BY <1>2, <2>2 DEF Lists
  <2>5. PICK q \in 1 .. Len(s) : row[q] = i /\ col[q] = c
    BY <1>6, <2>2, <2>4 DEF Numbering
  <2>6. W(q) = v
    BY <2>4, <2>5 DEF W
  <2> QED
    BY <1>8, <2>3, <2>5, <2>6
<1>13. Lists(b, s, path, lo, n)
  BY <1>5, <1>10, <1>11, <1>12 DEF Lists
<1> QED
  BY <1>13 DEF s, seqs, e

(* The search: f[d][n] is the targets from n when d elements are left.     *)
Turn(path, f, d) == [n \in Nodes |-> IF d = 0 THEN <<n>>
                                     ELSE FlattenSeq(Level(f[d - 1], path[Len(path) - d + 1], n))]

IsFound(f, path, m) == f = [d \in 0 .. m |-> Turn(path, f, d)]

LEMMA TurnSame ==
    ASSUME NEW path, NEW f, NEW h, NEW d \in Nat, d # 0 => f[d - 1] = h[d - 1]
    PROVE  Turn(path, f, d) = Turn(path, h, d)
<1>1. CASE d = 0
  BY <1>1 DEF Turn
<1>2. CASE d # 0
  BY <1>2, Zenon DEF Turn
<1> QED
  BY <1>1, <1>2

LEMMA FoundExists ==
    ASSUME NEW path, NEW n \in Nat
    PROVE  \E f : IsFound(f, path, n)
<1> DEFINE S == {m \in 0 .. n : \E f : IsFound(f, path, m)}
<1>1. 0 \in S
  <2> DEFINE f == [d \in 0 .. 0 |-> Turn(path, path, d)]
  <2>1. \A d \in 0 .. 0 : Turn(path, path, d) = Turn(path, f, d)
    <3> HIDE DEF f
    <3> QED
      BY TurnSame
  <2>2. f = [d \in 0 .. 0 |-> Turn(path, f, d)]
    <3>1. f = [d \in 0 .. 0 |-> Turn(path, path, d)]
      OBVIOUS
    <3> HIDE DEF f
    <3> QED
      BY <2>1, <3>1, Zenon
  <2> HIDE DEF f
  <2> QED
    BY <2>2 DEF IsFound
<1>2. ASSUME NEW m \in 1 .. n, m - 1 \in S PROVE m \in S
  <2>1. PICK f : IsFound(f, path, m - 1)
    BY <1>2
  <2> DEFINE h == [d \in 0 .. m |-> Turn(path, f, d)]
  <2>2. \A d \in 0 .. m - 1 : h[d] = f[d]
    <3>1. \A d \in 0 .. m - 1 : f[d] = Turn(path, f, d)
      BY <2>1, Zenon DEF IsFound
    <3>2. \A d \in 0 .. m - 1 : d \in 0 .. m
      OBVIOUS
    <3>3. \A d \in 0 .. m : h[d] = Turn(path, f, d)
      BY Zenon
    <3> HIDE DEF h
    <3> QED
      BY <3>1, <3>2, <3>3, Zenon
  <2>3. h = [d \in 0 .. m |-> Turn(path, f, d)]
    OBVIOUS
  <2> HIDE DEF h
  <2>4. ASSUME NEW d \in 0 .. m PROVE Turn(path, f, d) = Turn(path, h, d)
    <3>1. d # 0 => d - 1 \in 0 .. m - 1
      OBVIOUS
    <3> QED
      BY <2>2, <3>1, TurnSame
  <2>5. h = [d \in 0 .. m |-> Turn(path, h, d)]
    BY <2>3, <2>4, Zenon
  <2> QED
    BY <2>5 DEF IsFound
<1> HIDE DEF S
<1>3. \A k \in 0 .. n : k \in S
  BY <1>1, <1>2, CountUp
<1> QED
  BY <1>3 DEF S

LEMMA SearchIsFound ==
    ASSUME NEW path, Len(path) \in Nat, NEW start
    PROVE  \E f : IsFound(f, path, Len(path)) /\ TranscribeBrowseResults(path, start) = f[Len(path)][start]
<1>1. TranscribeBrowseResults(path, start) = (CHOOSE f : IsFound(f, path, Len(path)))[Len(path)][start]
  BY Zenon DEF TranscribeBrowseResults, IsFound, Turn, Level
<1>2. \E f : IsFound(f, path, Len(path))
  BY FoundExists
<1>3. IsFound(CHOOSE f : IsFound(f, path, Len(path)), path, Len(path))
  BY <1>2, Zenon
<1> QED
  BY <1>1, <1>3

(* Every node's targets list the walks from it, whatever is left of the    *)
(* path.                                                                   *)
LEMMA FoundLists ==
    ASSUME GraphOK, NEW path \in Seq(Elements), NEW f, IsFound(f, path, Len(path))
    PROVE  \A n \in Nodes : \E b : Lists(b, f[Len(path)][n], path, 1, n)
<1> DEFINE L == Len(path)
           Fine(d) == \A n \in Nodes : \E b : Lists(b, f[d][n], path, L - d + 1, n)
           S == {d \in 0 .. L : Fine(d)}
<1>1. L \in Nat
  OBVIOUS
<1>2. \A d \in 0 .. L : f[d] = Turn(path, f, d)
  BY Zenon DEF IsFound
<1>3. 0 \in S
  <2>1. ASSUME NEW n \in Nodes PROVE \E b : Lists(b, f[0][n], path, L - 0 + 1, n)
    <3> DEFINE w == [k \in L + 1 .. L |-> n]
               s == f[0][n]
               b == <<w>>
    <3>1. s = <<n>>
      <4>1. f[0] = Turn(path, f, 0)
        BY <1>1, <1>2
      <4>2. Turn(path, f, 0)[n] = <<n>>
        BY Zenon DEF Turn
      <4> QED
        BY <4>1, <4>2
    <3>2. \A k : k \notin L + 1 .. L
      BY <1>1
    <3>3. WalksFrom(path, L + 1, n) = {w}
      <4>1. w \in [L + 1 .. L -> Hops]
        BY <3>2
      <4>2. \A v \in [L + 1 .. L -> Hops] : v = w
        BY <3>2
      <4>3. ~(L + 1 <= L)
        BY <1>1
      <4> HIDE DEF w
      <4> QED
        BY <3>2, <4>1, <4>2, <4>3 DEF WalksFrom, L
    <3>4. End(path, w, L + 1, n) = n
      BY <1>1 DEF End
    <3> HIDE DEF w, s
    <3>5. s \in Seq(Nodes) /\ Len(s) = 1 /\ s[1] = n /\ b[1] = w
      BY <3>1
    <3> HIDE DEF b
    <3>6. Lists(b, s, path, L + 1, n)
      BY <3>3, <3>4, <3>5 DEF Lists
    <3>7. L - 0 + 1 = L + 1
      BY <1>1
    <3> QED
      BY <3>6, <3>7 DEF s
  <2> QED
    BY <1>1, <2>1
<1>4. ASSUME NEW d \in 1 .. L, d - 1 \in S PROVE d \in S
  <2> DEFINE lo == L - d + 1
             g == f[d - 1]
  <2>1. d \in 0 .. L /\ d # 0 /\ lo \in 1 .. L /\ L - (d - 1) + 1 = lo + 1
    BY <1>1
  <2>2. \A t \in Nodes : \E b : Lists(b, g[t], path, lo + 1, t)
    BY <1>4, <2>1
  <2>3. \A n \in Nodes : f[d][n] = FlattenSeq(Level(g, path[lo], n))
    BY <1>2, <2>1 DEF Turn
  <2> HIDE DEF g, lo
  <2>4. \A n \in Nodes : \E b : Lists(b, FlattenSeq(Level(g, path[lo], n)), path, lo, n)
    BY <2>1, <2>2, ListsMore
  <2>5. \A n \in Nodes : \E b : Lists(b, f[d][n], path, lo, n)
    BY <2>3, <2>4
  <2> QED
    BY <2>1, <2>5 DEF lo
<1> HIDE DEF S, Fine
<1>5. \A k \in 0 .. L : k \in S
  BY <1>1, <1>3, <1>4, CountUp
<1>6. L \in 0 .. L /\ L - L + 1 = 1
  BY <1>1
<1>7. Fine(L)
  BY <1>5, <1>6 DEF S
<1> QED
  BY <1>6, <1>7 DEF Fine

Places(s, t) == {k \in DOMAIN s : s[k] = t}
EndIn(path, n, t) == {w \in WalksFrom(path, 1, n) : End(path, w, 1, n) = t}

LEMMA ListsCount ==
    ASSUME NEW s, NEW b, NEW path, NEW n, Lists(b, s, path, 1, n), NEW t
    PROVE  Cardinality(Places(s, t)) = Cardinality(EndIn(path, n, t))
<1> DEFINE S == {k \in DOMAIN s : s[k] = t}
           T == {w \in WalksFrom(path, 1, n) : End(path, w, 1, n) = t}
           h == [k \in S |-> b[k]]
<1>1. DOMAIN s = 1 .. Len(s) /\ Len(s) \in Nat
  BY DEF Lists
<1>2. IsFiniteSet(S)
  <2>1. S \subseteq 1 .. Len(s) /\ 1 \in Int /\ Len(s) \in Int
    BY <1>1
  <2>2. IsFiniteSet(1 .. Len(s))
    BY <2>1, FS_Interval
  <2> QED
    BY <2>1, <2>2, FS_Subset
<1>3. \A k \in S : k \in 1 .. Len(s) /\ s[k] = t
  BY <1>1
<1>4. \A k \in S : b[k] \in T
  BY <1>3 DEF Lists
<1>5. \A w \in T : \E k \in S : b[k] = w
  <2> SUFFICES ASSUME NEW w \in T PROVE \E k \in S : b[k] = w
    OBVIOUS
  <2>1. PICK k \in 1 .. Len(s) : b[k] = w
    BY DEF Lists
  <2>2. s[k] = t
    BY <2>1 DEF Lists
  <2>3. k \in S
    BY <1>1, <2>2
  <2> QED
    BY <2>1, <2>3
<1>6. \A k, j \in S : b[k] = b[j] => k = j
  BY <1>3 DEF Lists
<1> HIDE DEF S, T
<1>7. h \in [S -> T] /\ \A k \in S : h[k] = b[k]
  BY <1>4
<1> HIDE DEF h
<1>8. DOMAIN h = S
  BY <1>7
<1>9. h \in Bijection(S, T)
  BY <1>5, <1>6, <1>7, <1>8, Zenon DEF Bijection, Injection, Surjection, IsInjective
<1>10. ExistsBijection(S, T)
  BY <1>9 DEF ExistsBijection
<1> QED
  BY <1>2, <1>10, FS_Bijection DEF S, T, Places, EndIn

LEMMA WalksAreWalks ==
    ASSUME NEW path \in Seq(Elements), path # <<>>, NEW n \in Nodes
    PROVE  /\ WalksFrom(path, 1, n) = Walks(n, path)
           /\ \A w : End(path, w, 1, n) = Hop(w[Len(path)]).target
<1>1. Len(path) \in Nat /\ Len(path) # 0 /\ DOMAIN path = 1 .. Len(path)
  OBVIOUS
<1>2. 1 <= Len(path) /\ ~(1 > Len(path))
  BY <1>1
<1>3. \A w : End(path, w, 1, n) = Hop(w[Len(path)]).target
  BY <1>2 DEF End
<1>4. WalksFrom(path, 1, n) = Walks(n, path)
  BY <1>1, <1>2, Zenon DEF WalksFrom, Walks, Fits
<1> QED
  BY <1>3, <1>4

(* What TargetsAreWalks says of one answer.                                *)
Exact(id, path, targets) ==
    \A t \in Nodes : Cardinality({k \in DOMAIN targets : targets[k] = t})
                       = Cardinality({w \in Walks(Resolved(id), path) : Hop(w[Len(path)]).target = t})

LEMMA SearchIsExact ==
    ASSUME GraphOK, NEW id, Resolved(id) \in Nodes, NEW path \in Seq(Elements), path # <<>>
    PROVE  Exact(id, path, TranscribeBrowseResults(path, Resolved(id)))
<1> DEFINE n == Resolved(id)
           s == TranscribeBrowseResults(path, n)
<1> HIDE DEF n
<1>1. n \in Nodes
  BY DEF n
<1>2. \E f : IsFound(f, path, Len(path)) /\ s = f[Len(path)][n]
  BY SearchIsFound
<1>3. PICK f : IsFound(f, path, Len(path)) /\ s = f[Len(path)][n]
  BY <1>2
<1>4. \A t \in Nodes : \E b : Lists(b, f[Len(path)][t], path, 1, t)
  BY <1>3, FoundLists
<1> HIDE DEF s
<1>5. PICK b : Lists(b, s, path, 1, n)
  BY <1>1, <1>3, <1>4
<1>6. \A t : Cardinality(Places(s, t)) = Cardinality(EndIn(path, n, t))
  BY <1>5, ListsCount
<1>7. \A t : EndIn(path, n, t) = {w \in Walks(n, path) : Hop(w[Len(path)]).target = t}
  BY <1>1, WalksAreWalks DEF EndIn
<1>8. Exact(id, path, s)
  BY <1>6, <1>7 DEF Exact, Places, n
<1> QED
  BY <1>8 DEF s, n

LEMMA PathsAreElements == Paths \subseteq Seq(Elements)
<1> SUFFICES ASSUME NEW path \in Paths PROVE path \in Seq(Elements)
  OBVIOUS
<1>1. PICK k \in 0 .. MaxPath : path \in [1 .. k -> Elements]
  BY DEF Paths
<1>2. k \in Nat
  BY <1>1
<1> QED
  BY <1>1, <1>2

LEMMA ExactNow ==
    TargetsAreWalks <=> (pathResult.status \in {"Good", "BadNoMatch"}
                           => Exact(pathResult.start, pathResult.path, pathResult.targets))
BY Zenon DEF TargetsAreWalks, Exact

LEMMA ExactFrame ==
    ASSUME refs' = refs, table' = table
    PROVE  TargetsAreWalks' <=> (pathResult'.status \in {"Good", "BadNoMatch"}
                                   => Exact(pathResult'.start, pathResult'.path, pathResult'.targets))
BY DEF TargetsAreWalks, Exact, Walks, Hops, Hop, Resolved, GetOriginal, Slots

LEMMA TranslationIsExact ==
    ASSUME GraphOK, NEW id, NEW path \in Paths, TranslateBrowsePath(id, path),
           refs' = refs, table' = table
    PROVE  TargetsAreWalks'
<1> DEFINE s == TranscribeBrowseResults(path, Resolved(id))
<1> HIDE DEF s
<1>1. path \in Seq(Elements)
  BY PathsAreElements
<1>2. \/ pathResult'.status \notin {"Good", "BadNoMatch"}
      \/ /\ Resolved(id) \in Nodes /\ path # <<>>
         /\ pathResult'.start = id /\ pathResult'.path = path /\ pathResult'.targets = s
  BY DEF TranslateBrowsePath, s
<1>3. ASSUME pathResult'.status \in {"Good", "BadNoMatch"}
      PROVE  Exact(pathResult'.start, pathResult'.path, pathResult'.targets)
  BY <1>1, <1>2, <1>3, SearchIsExact DEF s
<1> QED
  BY <1>3, ExactFrame

TranslateInv == /\ AliasInv /\ GraphOK /\ built \in Nat
                /\ pathResult # NoPathResult => built = Done
                /\ TargetsAreWalks

LEMMA AddedIsGraph ==
    ASSUME GraphOK, NEW source \in Nodes, NEW target \in Nodes, NEW type \in RefTypes,
           AddBiReference(source, target, type)
    PROVE  GraphOK'
<1> DEFINE Out(n) == IF n = source THEN <<[type |-> type, inverse |-> FALSE, target |-> target]>> ELSE <<>>
           In(n) == IF n = target THEN <<[type |-> type, inverse |-> TRUE, target |-> source]>> ELSE <<>>
<1>1. [type |-> type, inverse |-> FALSE, target |-> target] \in RefRec
  BY DEF RefRec
<1>2. [type |-> type, inverse |-> TRUE, target |-> source] \in RefRec
  BY DEF RefRec
<1>3. <<>> \in Seq(RefRec) /\ \A r \in RefRec : <<r>> \in Seq(RefRec)
  OBVIOUS
<1>4. \A n : Out(n) \in Seq(RefRec) /\ In(n) \in Seq(RefRec)
  BY <1>1, <1>2, <1>3
<1>5. refs' = [n \in Nodes |-> refs[n] \o Out(n) \o In(n)]
  BY Zenon DEF AddBiReference
<1> HIDE DEF Out, In
<1>6. \A n \in Nodes : refs[n] \o Out(n) \o In(n) \in Seq(RefRec)
  <2> SUFFICES ASSUME NEW n \in Nodes PROVE refs[n] \o Out(n) \o In(n) \in Seq(RefRec)
    OBVIOUS
  <2>1. refs[n] \in Seq(RefRec)
    BY DEF GraphOK
  <2> QED
    BY <1>4, <2>1
<1>7. refs' \in [Nodes -> Seq(RefRec)]
  BY <1>5, <1>6, Zenon
<1> QED
  BY <1>7 DEF GraphOK, RefRec, RefTypes

LEMMA TranslateInvNext == TranslateInv /\ [TranslateNext]_translateVars => TranslateInv'
<1> SUFFICES ASSUME TranslateInv, [TranslateNext]_translateVars PROVE TranslateInv'
  OBVIOUS
<1>1. ASSUME UNCHANGED <<table, lifo>> PROVE AliasInv'
  BY <1>1 DEF TranslateInv, AliasInv, AliasTypeOK, OneAliasPerNode, Slots
<1>2. ASSUME refs' = refs PROVE GraphOK'
  BY <1>2 DEF TranslateInv, GraphOK, RefRec, RefTypes
<1>3. ASSUME pathResult' = NoPathResult PROVE TargetsAreWalks' /\ (pathResult' # NoPathResult' => built' = Done')
  BY <1>3 DEF NoPathResult, TargetsAreWalks
<1>4. MaxEdges \in Nat /\ built \in Nat /\ Done \in Nat
  BY TranslateAssumption DEF TranslateInv, Done
<1>5. CASE StartUp
  <2>1. built < MaxEdges /\ built' = built + 1 /\ UNCHANGED <<table, lifo, pathResult>>
    BY <1>5 DEF StartUp
  <2>2. PICK s, t \in Nodes, type \in RefTypes : AddBiReference(s, t, type)
    BY <1>5 DEF StartUp
  <2>3. GraphOK'
    BY <2>2, AddedIsGraph DEF TranslateInv
  <2>4. built # Done /\ built' \in Nat
    BY <1>4, <2>1 DEF Done
  <2>5. pathResult' = NoPathResult
    BY <2>1, <2>4 DEF TranslateInv
  <2> QED
    BY <1>1, <1>3, <2>1, <2>3, <2>4, <2>5 DEF TranslateInv
<1>6. CASE StartUpEnds
  <2>1. built < Done /\ built' = Done /\ UNCHANGED <<table, lifo, refs, pathResult>>
    BY <1>6 DEF StartUpEnds
  <2>2. pathResult' = NoPathResult
    BY <1>4, <2>1 DEF TranslateInv
  <2> QED
    BY <1>1, <1>2, <1>3, <1>4, <2>1, <2>2 DEF TranslateInv
<1>7. CASE TranslateRequest
  <2>1. built = Done /\ UNCHANGED <<table, lifo, refs, built>>
    BY <1>7 DEF TranslateRequest, Ready
  <2>2. \E id : \E path \in Paths : TranslateBrowsePath(id, path)
    BY <1>7 DEF TranslateRequest
  <2>3. TargetsAreWalks'
    BY <2>1, <2>2, TranslationIsExact DEF TranslateInv
  <2> QED
    BY <1>1, <1>2, <1>4, <2>1, <2>3 DEF TranslateInv, Done
<1>8. CASE PathResultSent
  BY <1>1, <1>2, <1>3, <1>4, <1>8 DEF PathResultSent, TranslateInv
<1>9. CASE AliasAdded
  <2>1. pathResult' = NoPathResult /\ UNCHANGED <<refs, built>> /\ \E n \in Nodes : RegisterNode(n)
    BY <1>9, TranslateAssumption DEF AliasAdded, Ready
  <2>2. AliasInv'
    BY <2>1, RegisterKeeps DEF TranslateInv
  <2> QED
    BY <1>2, <1>3, <1>4, <2>1, <2>2 DEF TranslateInv
<1>10. CASE AliasRemoved
  <2>1. pathResult' = NoPathResult /\ UNCHANGED <<refs, built>> /\ \E i \in Slots : UnregisterNode(table[i].alias)
    BY <1>10 DEF AliasRemoved, Ready
  <2>2. AliasInv'
    BY <2>1, UnregisterKeeps DEF TranslateInv
  <2> QED
    BY <1>2, <1>3, <1>4, <2>1, <2>2 DEF TranslateInv
<1>11. CASE UNCHANGED translateVars
  <2>1. UNCHANGED <<table, lifo, refs, built, pathResult>>
    BY <1>11 DEF translateVars
  <2>2. TargetsAreWalks'
    BY <2>1, ExactNow, ExactFrame DEF TranslateInv
  <2> QED
    BY <1>1, <1>2, <2>1, <2>2 DEF TranslateInv
<1> QED
  BY <1>5, <1>6, <1>7, <1>8, <1>9, <1>10, <1>11 DEF TranslateNext

(* TranslateInv holds in every state of TranslateBrowsePathsToNodeIds.     *)
THEOREM TranslateInvariant == TranslateSpec => []TranslateInv
<1>1. TranslateInit => TranslateInv
  <2> SUFFICES ASSUME TranslateInit PROVE TranslateInv
    OBVIOUS
  <2>1. AliasInv
    BY AliasInvInit DEF TranslateInit
  <2>2. GraphOK
    <3>1. <<>> \in Seq(RefRec)
      OBVIOUS
    <3> QED
      BY <3>1 DEF TranslateInit, GraphOK
  <2>3. built \in Nat /\ pathResult = NoPathResult
    BY DEF TranslateInit
  <2>4. TargetsAreWalks
    BY <2>3 DEF NoPathResult, TargetsAreWalks
  <2> QED
    BY <2>1, <2>2, <2>3, <2>4 DEF TranslateInv
<1> QED
  BY <1>1, TranslateInvNext, PTL DEF TranslateSpec

(* In any graph of references and any tree of reference types, the search  *)
(* of TranslateBrowsePathsToNodeIds finds the end of every walk that       *)
(* spells the path, each as often as there are such walks, and no other.   *)
THEOREM TargetsAreEnds == TranslateSpec => []TargetsAreWalks
<1>1. TranslateInv => TargetsAreWalks
  BY DEF TranslateInv
<1> QED
  BY <1>1, TranslateInvariant, PTL

(* Following paths in between leaves the alias table sound, too.           *)
THEOREM TranslateKeepsAliases == TranslateSpec => [](OneAliasPerNode /\ LifoAliasesResolve)
<1>1. TranslateInv => OneAliasPerNode /\ LifoAliasesResolve
  BY ResolvesAtOwnSlot DEF TranslateInv, AliasInv
<1> QED
  BY <1>1, TranslateInvariant, PTL
=============================================================================
