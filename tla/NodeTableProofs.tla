--------------------------- MODULE NodeTableProofs ---------------------------
(***************************************************************************)
(* The table of nodes for any number of threads, nodes and sessions: the   *)
(* inductive invariant of NodeTable, what it implies for the callers, and  *)
(* the refinement of NodeSet by GetNode.                                   *)
(***************************************************************************)
EXTENDS NodeTable, FiniteSetTheorems, TLAPS

Present(id) == \E p \in Ptrs : heap[p] = id
Removing(t) == op[t] \in {"scan", "shift", "cleared", "purge"}

Gap(k) == \E t \in Threads : \/ op[t] = "shift" /\ k = move[t] - 1
                             \/ op[t] = "cleared" /\ k = count

Listed == {k \in 1 .. count : ~Gap(k)}

MutexInv ==
  /\ \A t \in Threads : Removing(t) => mutex = t
  /\ \A t \in Threads : mutex = t => Removing(t) \/ Walking(t)

IndexInv ==
  \A t \in Threads :
    /\ Removing(t) => at[t] >= 1
    /\ op[t] = "shift" => at[t] < move[t] /\ move[t] <= count + 1
    /\ op[t] = "cleared" => count >= 1
    /\ op[t] = "compare" => at[t] >= 1
    /\ Walking(t) => at[t] <= MaxPtrs
    /\ Asking(t) => at[t] <= count
    /\ Asking(t) /\ op[t] = "compare" => ptr[t] = slots[at[t]]

ListInv ==
  /\ \A k \in Ptrs : k > count => slots[k] = NULL
  /\ \A t \in Threads : op[t] = "cleared" => slots[count] = NULL
  /\ \A k \in Listed : slots[k] # NULL /\ heap[slots[k]] # Free
  /\ \A k, m \in Listed : slots[k] = slots[m] => k = m
  /\ \A p \in Ptrs : heap[p] # Free => \E k \in Listed : slots[k] = p

NameInv ==
  /\ \A p, q \in Ptrs : heap[p] = heap[q] /\ heap[p] \in Ids => p = q
  /\ \A t \in Threads : op[t] = "name" => t = Network /\ ptr[t] # NULL /\ heap[ptr[t]] = NullId
  /\ \A t \in Threads : Removing(t) => want[t] \in SessionIds /\ want[t] \notin live \cup unused
  /\ \A p \in Ptrs : heap[p] \notin unused
  /\ live \cap unused = {}
  /\ \A k \in Permanent : heap[k] = k

FoundInv ==
  \A t \in Threads : op[t] = "use" =>
    /\ want[t] \in Ids \ unused /\ ptr[t] # NULL
    /\ want[t] \in Permanent \cup live => heap[ptr[t]] = want[t]

Ahead(t, n) == \E k \in Listed : k <= n /\ heap[slots[k]] = want[t]

WalkOK(t) ==
  /\ want[t] \in Ids
  /\ Present(want[t]) => TRUE \in seen[t]
  /\ ~Present(want[t]) => FALSE \in seen[t]
  /\ op[t] = "walk" => FALSE \in seen[t] \/ Ahead(t, at[t])
  /\ op[t] = "compare" => \/ FALSE \in seen[t]
                          \/ Ahead(t, at[t] - 1)
                          \/ ptr[t] # NULL /\ heap[ptr[t]] = want[t]

WalkInv == \A t \in Threads : Walking(t) => WalkOK(t)

TableInv == TableTypeOK /\ MutexInv /\ IndexInv /\ ListInv /\ NameInv /\ FoundInv /\ WalkInv

-----------------------------------------------------------------------------
LEMMA ConstantFacts ==
  /\ Built \in Nat /\ MaxPtrs \in Nat /\ Built >= 1 /\ Built <= MaxPtrs
  /\ NullId \notin Ids /\ Free \notin Ids /\ Free # NullId
  /\ NULL \notin Ptrs /\ Permanent \subseteq Ptrs
  /\ Permanent \cap SessionIds = {} /\ Ids = Permanent \cup SessionIds
  /\ SessionIds \subseteq Nat
  /\ Network \in Threads /\ None \notin Threads
BY TableAssumption DEF NullId, NULL, Ids, Permanent, Ptrs

LEMMA InitHolds == TableInit => TableInv
<1> SUFFICES ASSUME TableInit PROVE TableInv
  OBVIOUS
<1> USE ConstantFacts DEF TableInit
<1>1. TableTypeOK
  <2>1. seen \in [Threads -> SUBSET BOOLEAN] /\ reply \in [Threads -> BOOLEAN]
        /\ crashed \in BOOLEAN
    BY Zenon
  <2> QED
    BY <2>1 DEF TableTypeOK, Ops, Permanent, Ptrs, NULL, Ids
<1>2. MutexInv
  BY DEF MutexInv, Removing
<1>3. IndexInv
  BY DEF IndexInv, Removing, Walking, Asking
<1>4. ListInv
  <2>1. Listed = 1 .. count
    BY DEF Listed, Gap
  <2> QED
    BY <2>1 DEF ListInv, Ptrs, NULL, Permanent
<1>5. NameInv
  BY DEF NameInv, Removing, Ptrs, Permanent
<1>6. FoundInv /\ WalkInv
  BY DEF FoundInv, WalkInv, Walking
<1> QED
  BY <1>1, <1>2, <1>3, <1>4, <1>5, <1>6 DEF TableInv

(* A step that leaves the table alone, and the removal that moves its      *)
(* pointers too, leaves the shape of the table.                            *)
LEMMA SameList ==
  ASSUME ListInv, UNCHANGED table,
         \A t \in Threads : /\ op'[t] = "shift" <=> op[t] = "shift"
                            /\ op'[t] = "cleared" <=> op[t] = "cleared"
                            /\ op[t] = "shift" => move'[t] = move[t]
  PROVE  Listed' = Listed /\ ListInv'
<1>1. slots' = slots /\ count' = count /\ heap' = heap
  BY DEF table
<1>2. \A k : Gap(k)' <=> Gap(k)
  BY <1>1 DEF Gap
<1>3. Listed' = Listed
  BY <1>1, <1>2 DEF Listed
<1> QED
  BY <1>1, <1>3 DEF ListInv

(* A walk that a step leaves alone.                                        *)
LEMMA SameWalk ==
  ASSUME NEW t \in Threads, Walking(t) => WalkOK(t),
         Listed' = Listed, slots' = slots, heap' = heap,
         op'[t] = op[t], want'[t] = want[t], at'[t] = at[t], ptr'[t] = ptr[t], seen'[t] = seen[t]
  PROVE  (Walking(t) => WalkOK(t))'
<1>1. Present(want[t])' <=> Present(want[t])
  BY DEF Present
<1>2. \A n : Ahead(t, n)' <=> Ahead(t, n)
  BY DEF Ahead
<1>3. Ahead(t, at[t])' <=> Ahead(t, at[t])
  BY <1>2
<1>4. Ahead(t, at[t] - 1)' <=> Ahead(t, at[t] - 1)
  BY <1>2
<1> QED
  BY <1>1, <1>3, <1>4 DEF Walking, WalkOK

LEMMA WalkReadStep ==
  ASSUME TableInv, NEW t \in Threads, WalkRead(t)
  PROVE  TableInv'
<1> USE ConstantFacts
<1>1. TableTypeOK'
  BY DEF TableInv, TableTypeOK, WalkRead, Go, Ops, table, ids, past, IndexInv, Walking, Ptrs
<1>2. MutexInv'
  BY DEF TableInv, TableTypeOK, WalkRead, Go, MutexInv, Removing, Walking
<1>3. Listed' = Listed /\ ListInv'
  BY SameList DEF TableInv, TableTypeOK, WalkRead, Go
<1>4. IndexInv'
  BY DEF TableInv, TableTypeOK, WalkRead, Go, table, IndexInv, Removing, Walking, Asking
<1>5. NameInv'
  BY DEF TableInv, TableTypeOK, WalkRead, Go, table, ids, NameInv, Removing
<1>6. FoundInv'
  BY DEF TableInv, TableTypeOK, WalkRead, Go, table, ids, FoundInv
<1>7. WalkInv'
  <2> SUFFICES ASSUME NEW s \in Threads PROVE (Walking(s) => WalkOK(s))'
    BY DEF WalkInv
  <2>1. CASE s # t
    BY <1>3, <2>1, SameWalk DEF TableInv, TableTypeOK, WalkRead, Go, table, past, WalkInv
  <2>2. CASE s = t
    <3>1. op[t] = "walk" /\ op'[t] = "compare" /\ at'[t] = at[t] /\ ptr'[t] = slots[at[t]]
          /\ want' = want /\ seen' = seen /\ slots' = slots /\ heap' = heap /\ WalkOK(t)
          /\ at[t] \in Nat
      BY DEF TableInv, TableTypeOK, WalkRead, Go, table, past, WalkInv, Walking
    <3>2. Ahead(t, at[t]) => Ahead(t, at[t] - 1) \/ (slots[at[t]] # NULL /\ heap[slots[at[t]]] = want[t])
      BY <3>1 DEF Ahead, TableInv, ListInv, Listed, TableTypeOK
    <3>3. Ahead(t, at[t] - 1)' <=> Ahead(t, at[t] - 1)
      BY <1>3, <3>1 DEF Ahead
    <3>4. Present(want[t])' <=> Present(want[t])
      BY <3>1 DEF Present
    <3>5. (Walking(t) => WalkOK(t))'
      BY <3>1, <3>2, <3>3, <3>4 DEF WalkOK
    <3> QED
      BY <2>2, <3>5
  <2> QED
    BY <2>1, <2>2
<1> QED
  BY <1>1, <1>2, <1>3, <1>4, <1>5, <1>6, <1>7 DEF TableInv

LEMMA FoundStep ==
  ASSUME TableInv, NEW t \in Threads, Found(t)
  PROVE  TableInv'
<1> USE ConstantFacts
<1>1. TableTypeOK'
  <2>1. seen' \in [Threads -> SUBSET BOOLEAN] /\ reply' \in [Threads -> BOOLEAN]
        /\ crashed' \in BOOLEAN
    BY Zenon DEF TableInv, TableTypeOK, Found
  <2> QED
    BY <2>1 DEF TableInv, TableTypeOK, Found, Go, Ops, table, ids
<1>2. MutexInv'
  BY DEF TableInv, TableTypeOK, Found, Go, MutexInv, Removing, Walking
<1>3. Listed' = Listed /\ ListInv'
  BY SameList DEF TableInv, TableTypeOK, Found, Go
<1>4. IndexInv'
  BY DEF TableInv, TableTypeOK, Found, Go, table, IndexInv, Removing, Walking, Asking
<1>5. NameInv'
  BY DEF TableInv, TableTypeOK, Found, Go, table, ids, NameInv, Removing
<1>6. FoundInv'
  <2>1. CASE mutex = t
    <3>1. at[t] \in Listed /\ ptr[t] = slots[at[t]]
      BY <2>1 DEF TableInv, TableTypeOK, MutexInv, IndexInv, Found, Asking, Walking, Removing, Listed, Gap
    <3>2. heap[ptr[t]] = want[t]
      BY <3>1 DEF TableInv, ListInv, Found, Matches
    <3>3. want[t] \in Ids
      BY DEF TableInv, WalkInv, WalkOK, Walking, Found
    <3>4. ptr[t] \in Ptrs /\ want[t] \notin unused
      BY <3>2 DEF TableInv, TableTypeOK, NameInv, Found
    <3> QED
      BY <2>1, <3>2, <3>3, <3>4 DEF TableInv, TableTypeOK, Found, Go, table, ids, FoundInv
  <2>2. CASE mutex # t
    BY <2>2 DEF TableInv, TableTypeOK, Found, Go, table, ids, FoundInv
  <2> QED
    BY <2>1, <2>2
<1>7. WalkInv'
  <2> SUFFICES ASSUME NEW s \in Threads PROVE (Walking(s) => WalkOK(s))'
    BY DEF WalkInv
  <2>1. CASE s # t
    BY <1>3, <2>1, SameWalk DEF TableInv, TableTypeOK, Found, Go, table, WalkInv
  <2> QED
    BY <2>1 DEF TableInv, TableTypeOK, Found, Go, Walking
<1> QED
  BY <1>1, <1>2, <1>3, <1>4, <1>5, <1>6, <1>7 DEF TableInv

LEMMA WalkOnStep ==
  ASSUME TableInv, NEW t \in Threads, WalkOn(t)
  PROVE  TableInv'
<1> USE ConstantFacts
<1>1. TableTypeOK'
  BY DEF TableInv, TableTypeOK, WalkOn, Go, Ops, table, ids, past, IndexInv
<1>2. MutexInv'
  BY DEF TableInv, TableTypeOK, WalkOn, Go, MutexInv, Removing, Walking
<1>3. Listed' = Listed /\ ListInv'
  BY SameList DEF TableInv, TableTypeOK, WalkOn, Go
<1>4. IndexInv'
  BY DEF TableInv, TableTypeOK, WalkOn, Go, table, IndexInv, Removing, Walking, Asking
<1>5. NameInv'
  BY DEF TableInv, TableTypeOK, WalkOn, Go, table, ids, NameInv, Removing
<1>6. FoundInv'
  BY DEF TableInv, TableTypeOK, WalkOn, Go, table, ids, FoundInv
<1>7. WalkInv'
  <2> SUFFICES ASSUME NEW s \in Threads PROVE (Walking(s) => WalkOK(s))'
    BY DEF WalkInv
  <2>1. CASE s # t
    BY <1>3, <2>1, SameWalk DEF TableInv, TableTypeOK, WalkOn, Go, table, past, WalkInv
  <2>2. CASE s = t
    <3>1. /\ op[t] = "compare" /\ op'[t] = "walk" /\ at'[t] = at[t] - 1 /\ want' = want
          /\ seen' = seen /\ slots' = slots /\ heap' = heap /\ WalkOK(t) /\ heap[ptr[t]] # want[t]
      BY DEF TableInv, TableTypeOK, WalkOn, Go, Differs, table, past, WalkInv, Walking
    <3>2. Ahead(t, at[t])' <=> Ahead(t, at[t] - 1)
      BY <1>3, <3>1 DEF Ahead
    <3>3. Present(want[t])' <=> Present(want[t])
      BY <3>1 DEF Present
    <3>4. WalkOK(t)'
      BY <3>1, <3>2, <3>3 DEF WalkOK
    <3> QED
      BY <2>2, <3>4
  <2> QED
    BY <2>1, <2>2
<1> QED
  BY <1>1, <1>2, <1>3, <1>4, <1>5, <1>6, <1>7 DEF TableInv

LEMMA NotFoundStep ==
  ASSUME TableInv, NEW t \in Threads, NotFound(t)
  PROVE  TableInv'
<1> USE ConstantFacts
<1>1. TableTypeOK'
  <2>1. seen' \in [Threads -> SUBSET BOOLEAN] /\ reply' \in [Threads -> BOOLEAN]
        /\ crashed' \in BOOLEAN
    BY Zenon DEF TableInv, TableTypeOK, NotFound
  <2> QED
    BY <2>1 DEF TableInv, TableTypeOK, NotFound, Return, Go, Ops, table, ids
<1>2. MutexInv'
  BY DEF TableInv, TableTypeOK, NotFound, Return, Go, MutexInv, Removing, Walking
<1>3. Listed' = Listed /\ ListInv'
  BY SameList DEF TableInv, TableTypeOK, NotFound, Return, Go
<1>4. IndexInv'
  BY DEF TableInv, TableTypeOK, NotFound, Return, Go, table, IndexInv, Removing, Walking, Asking
<1>5. NameInv'
  BY DEF TableInv, TableTypeOK, NotFound, Return, Go, table, ids, NameInv, Removing
<1>6. FoundInv'
  BY DEF TableInv, TableTypeOK, NotFound, Return, Go, table, ids, FoundInv
<1>7. WalkInv'
  <2> SUFFICES ASSUME NEW s \in Threads PROVE (Walking(s) => WalkOK(s))'
    BY DEF WalkInv
  <2>1. CASE s # t
    BY <1>3, <2>1, SameWalk DEF TableInv, TableTypeOK, NotFound, Return, Go, past, table, WalkInv
  <2> QED
    BY <2>1 DEF TableInv, TableTypeOK, NotFound, Return, Go, Walking
<1> QED
  BY <1>1, <1>2, <1>3, <1>4, <1>5, <1>6, <1>7 DEF TableInv

LEMMA UseStep ==
  ASSUME TableInv, NEW t \in Threads, Use(t)
  PROVE  TableInv'
<1> USE ConstantFacts
<1>1. TableTypeOK'
  <2>1. seen' \in [Threads -> SUBSET BOOLEAN] /\ reply' \in [Threads -> BOOLEAN]
        /\ crashed' \in BOOLEAN
    BY Zenon DEF TableInv, TableTypeOK, Use, past
  <2> QED
    BY <2>1 DEF TableInv, TableTypeOK, Use, Return, Go, Ops, table, ids, past
<1>2. MutexInv'
  BY DEF TableInv, TableTypeOK, Use, Return, Go, MutexInv, Removing, Walking
<1>3. Listed' = Listed /\ ListInv'
  BY SameList DEF TableInv, TableTypeOK, Use, Return, Go
<1>4. IndexInv'
  BY DEF TableInv, TableTypeOK, Use, Return, Go, table, IndexInv, Removing, Walking, Asking
<1>5. NameInv'
  BY DEF TableInv, TableTypeOK, Use, Return, Go, table, ids, NameInv, Removing
<1>6. FoundInv'
  BY DEF TableInv, TableTypeOK, Use, Return, Go, table, ids, FoundInv
<1>7. WalkInv'
  <2> SUFFICES ASSUME NEW s \in Threads PROVE (Walking(s) => WalkOK(s))'
    BY DEF WalkInv
  <2>1. CASE s # t
    BY <1>3, <2>1, SameWalk DEF TableInv, TableTypeOK, Use, Return, Go, past, table, WalkInv
  <2> QED
    BY <2>1 DEF TableInv, TableTypeOK, Use, Return, Go, Walking
<1> QED
  BY <1>1, <1>2, <1>3, <1>4, <1>5, <1>6, <1>7 DEF TableInv

LEMMA RemoveReturnsStep ==
  ASSUME TableInv, NEW t \in Threads, RemoveReturns(t)
  PROVE  TableInv'
<1> USE ConstantFacts
<1>1. TableTypeOK'
  <2>1. seen' \in [Threads -> SUBSET BOOLEAN] /\ reply' \in [Threads -> BOOLEAN]
        /\ crashed' \in BOOLEAN
    BY Zenon DEF TableInv, TableTypeOK, RemoveReturns, past
  <2> QED
    BY <2>1 DEF TableInv, TableTypeOK, RemoveReturns, Return, Go, Ops, table, ids, past
<1>2. MutexInv'
  BY DEF TableInv, TableTypeOK, RemoveReturns, Return, Go, MutexInv, Removing, Walking
<1>3. Listed' = Listed /\ ListInv'
  BY SameList DEF TableInv, TableTypeOK, RemoveReturns, Return, Go
<1>4. IndexInv'
  BY DEF TableInv, TableTypeOK, RemoveReturns, Return, Go, table, IndexInv, Removing, Walking, Asking
<1>5. NameInv'
  BY DEF TableInv, TableTypeOK, RemoveReturns, Return, Go, table, ids, NameInv, Removing
<1>6. FoundInv'
  BY DEF TableInv, TableTypeOK, RemoveReturns, Return, Go, table, ids, FoundInv
<1>7. WalkInv'
  <2> SUFFICES ASSUME NEW s \in Threads PROVE (Walking(s) => WalkOK(s))'
    BY DEF WalkInv
  <2>1. CASE s # t
    BY <1>3, <2>1, SameWalk DEF TableInv, TableTypeOK, RemoveReturns, Return, Go, past, table, WalkInv
  <2> QED
    BY <2>1 DEF TableInv, TableTypeOK, RemoveReturns, Return, Go, Walking
<1> QED
  BY <1>1, <1>2, <1>3, <1>4, <1>5, <1>6, <1>7 DEF TableInv

LEMMA CrashStep ==
  ASSUME TableInv, NEW t \in Threads, Crash(t)
  PROVE  TableInv'
<1> USE ConstantFacts
<1>1. TableTypeOK'
  <2>1. crashed' \in BOOLEAN
    BY Zenon DEF Crash
  <2> QED
    BY <2>1 DEF TableInv, TableTypeOK, Crash, table, local, ids, past
<1>2. MutexInv'
  BY DEF TableInv, TableTypeOK, Crash, local, MutexInv, Removing, Walking
<1>3. Listed' = Listed /\ ListInv'
  BY SameList DEF TableInv, TableTypeOK, Crash, local
<1>4. IndexInv'
  BY DEF TableInv, TableTypeOK, Crash, local, table, IndexInv, Removing, Walking, Asking
<1>5. NameInv'
  BY DEF TableInv, TableTypeOK, Crash, local, table, ids, NameInv, Removing
<1>6. FoundInv'
  BY DEF TableInv, TableTypeOK, Crash, local, table, ids, FoundInv
<1>7. WalkInv'
  BY <1>3, SameWalk DEF TableInv, Crash, local, table, past, WalkInv
<1> QED
  BY <1>1, <1>2, <1>3, <1>4, <1>5, <1>6, <1>7 DEF TableInv

(* A walk that begins: it sees whether its node is there, and finds it in  *)
(* the table if it is.                                                     *)
LEMMA BeginWalkFacts ==
  ASSUME TableInv, NEW t \in Threads, NEW id \in Ids, BeginWalk(t, id), UNCHANGED table,
         Listed' = Listed
  PROVE  /\ seen' \in [Threads -> SUBSET BOOLEAN]
         /\ WalkOK(t)'
<1> USE ConstantFacts
<1>1. seen' = [seen EXCEPT ![t] = {Present(id)}]
  BY Zenon DEF BeginWalk, Present
<1>2. seen \in [Threads -> SUBSET BOOLEAN]
  BY DEF TableInv, TableTypeOK
<1>3. {Present(id)} \in SUBSET BOOLEAN
  BY DEF Present
<1>4. seen' \in [Threads -> SUBSET BOOLEAN] /\ seen'[t] = {Present(id)}
  BY <1>1, <1>2, <1>3, Zenon
<1>5. (Present(id) => TRUE \in seen'[t]) /\ (~Present(id) => FALSE \in seen'[t])
  BY <1>4 DEF Present
<1>6. /\ want'[t] = id /\ at'[t] = count /\ op'[t] = "walk"
      /\ slots' = slots /\ heap' = heap /\ count' = count
  BY DEF TableInv, TableTypeOK, BeginWalk, Go, table
<1>7. Present(want[t])' <=> Present(id)
  BY <1>6 DEF Present
<1>8. Present(id) => Ahead(t, at[t])'
  BY <1>6 DEF Present, Ahead, TableInv, ListInv, Listed
<1>9. WalkOK(t)'
  BY <1>5, <1>6, <1>7, <1>8 DEF WalkOK
<1> QED
  BY <1>4, <1>9

LEMMA GetNodeStep ==
  ASSUME TableInv, NEW t \in Threads, NEW id \in Ids, GetNode(t, id)
  PROVE  TableInv'
<1> USE ConstantFacts
<1>1. TableTypeOK'
  <2>1. UNCHANGED <<slots, count, heap>> /\ BeginWalk(t, id)
    BY DEF GetNode, table
  <2>2. Listed' = Listed
    BY <2>1, SameList DEF TableInv, TableTypeOK, BeginWalk, Go, Begin, table, GetNode
  <2>3. seen' \in [Threads -> SUBSET BOOLEAN]
    BY <2>1, <2>2, BeginWalkFacts DEF table
  <2>4. reply' = reply /\ crashed' = crashed
    BY DEF GetNode
  <2> QED
    BY <2>1, <2>3, <2>4 DEF TableInv, TableTypeOK, GetNode, BeginWalk, Begin, Go, Ops, ids
<1>2. MutexInv'
  BY DEF TableInv, TableTypeOK, GetNode, BeginWalk, Begin, Go, MutexInv, Removing, Walking
<1>3. Listed' = Listed /\ ListInv'
  BY SameList DEF TableInv, TableTypeOK, GetNode, BeginWalk, Begin, Go
<1>4. IndexInv'
  BY DEF TableInv, TableTypeOK, GetNode, BeginWalk, Begin, Go, table, IndexInv, Removing, Walking, Asking
<1>5. NameInv'
  BY DEF TableInv, TableTypeOK, GetNode, BeginWalk, Begin, Go, table, ids, NameInv, Removing
<1>6. FoundInv'
  BY DEF TableInv, TableTypeOK, GetNode, BeginWalk, Begin, Go, table, ids, FoundInv
<1>7. WalkInv'
  <2> SUFFICES ASSUME NEW s \in Threads PROVE (Walking(s) => WalkOK(s))'
    BY DEF WalkInv
  <2>1. CASE s # t
    BY <1>3, <2>1, SameWalk DEF TableInv, TableTypeOK, GetNode, BeginWalk, Begin, Go, table, WalkInv
  <2>2. CASE s = t
    BY <1>3, <2>2, BeginWalkFacts DEF GetNode
  <2> QED
    BY <2>1, <2>2
<1> QED
  BY <1>1, <1>2, <1>3, <1>4, <1>5, <1>6, <1>7 DEF TableInv

LEMMA FindNodeWithIDStep ==
  ASSUME TableInv, NEW id \in Ids, FindNodeWithID(id)
  PROVE  TableInv'
<1> USE ConstantFacts
<1>1. TableTypeOK'
  <2>1. UNCHANGED <<slots, count, heap>> /\ BeginWalk(Network, id)
    BY DEF FindNodeWithID, table
  <2>2. Listed' = Listed
    BY <2>1, SameList DEF TableInv, TableTypeOK, BeginWalk, Go, Begin, table, FindNodeWithID
  <2>3. seen' \in [Threads -> SUBSET BOOLEAN]
    BY <2>1, <2>2, BeginWalkFacts DEF table
  <2>4. reply' = reply /\ crashed' = crashed
    BY DEF FindNodeWithID
  <2> QED
    BY <2>1, <2>3, <2>4 DEF TableInv, TableTypeOK, FindNodeWithID, BeginWalk, Begin, Go, Ops, ids
<1>2. MutexInv'
  BY DEF TableInv, TableTypeOK, FindNodeWithID, BeginWalk, Begin, Go, MutexInv, Removing, Walking
<1>3. Listed' = Listed /\ ListInv'
  BY SameList DEF TableInv, TableTypeOK, FindNodeWithID, BeginWalk, Begin, Go
<1>4. IndexInv'
  BY DEF TableInv, TableTypeOK, FindNodeWithID, BeginWalk, Begin, Go, table, IndexInv, Removing, Walking, Asking
<1>5. NameInv'
  BY DEF TableInv, TableTypeOK, FindNodeWithID, BeginWalk, Begin, Go, table, ids, NameInv, Removing
<1>6. FoundInv'
  BY DEF TableInv, TableTypeOK, FindNodeWithID, BeginWalk, Begin, Go, table, ids, FoundInv
<1>7. WalkInv'
  <2> SUFFICES ASSUME NEW s \in Threads PROVE (Walking(s) => WalkOK(s))'
    BY DEF WalkInv
  <2>1. CASE s # Network
    BY <1>3, <2>1, SameWalk DEF TableInv, TableTypeOK, FindNodeWithID, BeginWalk, Begin, Go, table, WalkInv
  <2>2. CASE s = Network
    BY <1>3, <2>2, BeginWalkFacts DEF FindNodeWithID
  <2> QED
    BY <2>1, <2>2
<1> QED
  BY <1>1, <1>2, <1>3, <1>4, <1>5, <1>6, <1>7 DEF TableInv

LEMMA RemoveNodeStep ==
  ASSUME TableInv, NEW t \in Threads, NEW id \in SessionIds, RemoveNode(t, id)
  PROVE  TableInv'
<1> USE ConstantFacts
<1>1. TableTypeOK'
  BY DEF TableInv, TableTypeOK, RemoveNode, Begin, Go, Ops, table, past, NameInv
<1>2. MutexInv'
  BY DEF TableInv, TableTypeOK, RemoveNode, Begin, Go, MutexInv, Removing, Walking
<1>3. Listed' = Listed /\ ListInv'
  BY SameList DEF TableInv, TableTypeOK, RemoveNode, Begin, Go
<1>4. IndexInv'
  BY DEF TableInv, TableTypeOK, RemoveNode, Begin, Go, table, IndexInv, Removing, Walking, Asking
<1>5. NameInv'
  BY DEF TableInv, TableTypeOK, RemoveNode, Begin, Go, table, ids, NameInv, Removing
<1>6. FoundInv'
  BY DEF TableInv, TableTypeOK, RemoveNode, Begin, Go, table, ids, FoundInv
<1>7. WalkInv'
  <2> SUFFICES ASSUME NEW s \in Threads PROVE (Walking(s) => WalkOK(s))'
    BY DEF WalkInv
  <2>1. CASE s # t
    BY <1>3, <2>1, SameWalk DEF TableInv, TableTypeOK, RemoveNode, Begin, Go, table, past, WalkInv
  <2> QED
    BY <2>1 DEF TableInv, TableTypeOK, RemoveNode, Begin, Go, Walking
<1> QED
  BY <1>1, <1>2, <1>3, <1>4, <1>5, <1>6, <1>7 DEF TableInv

LEMMA ScanNextStep ==
  ASSUME TableInv, NEW t \in Threads, ScanNext(t)
  PROVE  TableInv'
<1> USE ConstantFacts
<1>1. TableTypeOK'
  BY DEF TableInv, TableTypeOK, ScanNext, table, ids, past
<1>2. MutexInv'
  BY DEF TableInv, TableTypeOK, ScanNext, MutexInv, Removing, Walking
<1>3. Listed' = Listed /\ ListInv'
  BY SameList DEF TableInv, TableTypeOK, ScanNext
<1>4. IndexInv'
  BY DEF TableInv, TableTypeOK, ScanNext, table, IndexInv, Removing, Walking, Asking
<1>5. NameInv'
  BY DEF TableInv, TableTypeOK, ScanNext, table, ids, NameInv, Removing
<1>6. FoundInv'
  BY DEF TableInv, TableTypeOK, ScanNext, table, ids, FoundInv
<1>7. WalkInv'
  <2> SUFFICES ASSUME NEW s \in Threads PROVE (Walking(s) => WalkOK(s))'
    BY DEF WalkInv
  <2>1. CASE s # t
    BY <1>3, <2>1, SameWalk DEF TableInv, TableTypeOK, ScanNext, table, past, WalkInv
  <2> QED
    BY <2>1 DEF TableInv, TableTypeOK, ScanNext, Walking
<1> QED
  BY <1>1, <1>2, <1>3, <1>4, <1>5, <1>6, <1>7 DEF TableInv

-----------------------------------------------------------------------------
(* While no removal is between its free and its count the table has no     *)
(* gap.                                                                    *)
LEMMA NoGap ==
  ASSUME TableInv, \A t \in Threads : op[t] # "shift" /\ op[t] # "cleared"
  PROVE  Listed = 1 .. count
BY DEF Listed, Gap

(* An address that malloc can give out leaves a slot for it: the nodes of  *)
(* the table lie at different addresses, none of them this one.            *)
LEMMA RoomForOne ==
  ASSUME TableInv, mutex = None, NEW p \in Ptrs, heap[p] = Free
  PROVE  count < MaxPtrs
<1> USE ConstantFacts
<1>1. Listed = 1 .. count
  BY NoGap DEF TableInv, MutexInv, Removing
<1>2. count \in 0 .. MaxPtrs
  BY DEF TableInv, TableTypeOK
<1> SUFFICES ASSUME count = MaxPtrs PROVE FALSE
  BY <1>2
<1> DEFINE f == [k \in 1 .. count |-> slots[k]]
<1>3. f \in [1 .. count -> Ptrs \ {p}]
  BY <1>1, <1>2 DEF TableInv, TableTypeOK, ListInv, Ptrs
<1>4. IsFiniteSet(1 .. count) /\ Cardinality(1 .. count) = MaxPtrs
  BY FS_Interval
<1>5. IsFiniteSet(Ptrs \ {p}) /\ Cardinality(Ptrs \ {p}) = MaxPtrs - 1
  BY <1>4, FS_RemoveElement DEF Ptrs
<1>6. Cardinality(Ptrs \ {p}) < Cardinality(1 .. count)
  BY <1>4, <1>5
<1>7. \A k \in 1 .. count : f[k] = slots[k]
  OBVIOUS
<1> HIDE DEF f
<1>8. \E j, k \in 1 .. count : j # k /\ f[j] = f[k]
  BY <1>3, <1>4, <1>5, <1>6, FS_PigeonHole
<1> QED
  BY <1>1, <1>7, <1>8 DEF TableInv, ListInv

LEMMA CreateNodeStep ==
  ASSUME TableInv, NEW p \in Ptrs, CreateNode(p)
  PROVE  TableInv'
<1> USE ConstantFacts
<1>0. count < MaxPtrs /\ count \in Nat
  BY RoomForOne DEF TableInv, TableTypeOK, CreateNode
<1>1. TableTypeOK'
  BY <1>0 DEF TableInv, TableTypeOK, CreateNode, Begin, Go, Ops, Ptrs, ids, past
<1>2. MutexInv'
  BY DEF TableInv, TableTypeOK, CreateNode, Begin, Go, MutexInv, Removing, Walking
<1>3. Listed = 1 .. count /\ Listed' = Listed \cup {count + 1}
  <2>1. \A t \in Threads : /\ op[t] # "shift" /\ op[t] # "cleared"
                           /\ op'[t] # "shift" /\ op'[t] # "cleared"
    BY DEF TableInv, TableTypeOK, CreateNode, Begin, Go, MutexInv, Removing
  <2>2. Listed = 1 .. count /\ Listed' = 1 .. count'
    BY <2>1 DEF Listed, Gap
  <2> QED
    BY <1>0, <2>2 DEF CreateNode
<1>4. ListInv'
  <2>1. /\ slots' = [slots EXCEPT ![count + 1] = p] /\ count' = count + 1
        /\ heap' = [heap EXCEPT ![p] = NullId] /\ heap[p] = Free /\ count + 1 \in Ptrs
        /\ slots \in [Ptrs -> Ptrs \cup {NULL}] /\ heap \in [Ptrs -> Ids \cup {NullId, Free}]
    BY <1>0 DEF TableInv, TableTypeOK, CreateNode, Ptrs
  <2>2. \A k \in Ptrs : k > count' => slots'[k] = NULL
    BY <1>0, <2>1 DEF TableInv, ListInv, Ptrs
  <2>3. \A t \in Threads : op'[t] # "cleared"
    BY DEF TableInv, TableTypeOK, CreateNode, Begin, Go, MutexInv, Removing
  <2>4. \A k \in Listed : slots'[k] = slots[k] /\ slots[k] # p /\ slots[k] \in Ptrs
    BY <1>0, <1>3, <2>1 DEF TableInv, ListInv, Ptrs
  <2>5. slots'[count + 1] = p /\ heap'[p] # Free
    BY <2>1
  <2>6. \A q \in Ptrs : q # p => heap'[q] = heap[q]
    BY <2>1
  <2>7. \A k \in Listed' : slots'[k] # NULL /\ heap'[slots'[k]] # Free
    BY <1>3, <2>4, <2>5, <2>6 DEF TableInv, ListInv
  <2>8. \A k, m \in Listed' : slots'[k] = slots'[m] => k = m
    BY <1>3, <2>4, <2>5 DEF TableInv, ListInv
  <2>9. ASSUME NEW q \in Ptrs, heap'[q] # Free PROVE \E k \in Listed' : slots'[k] = q
    <3>1. CASE q = p
      BY <1>3, <2>5, <3>1
    <3>2. CASE q # p
      <4>1. PICK k \in Listed : slots[k] = q
        BY <2>6, <2>9, <3>2 DEF TableInv, ListInv
      <4> QED
        BY <1>3, <2>4, <4>1
    <3> QED
      BY <3>1, <3>2
  <2> QED
    BY <2>2, <2>3, <2>7, <2>8, <2>9 DEF ListInv
<1>5. IndexInv'
  BY <1>0 DEF TableInv, TableTypeOK, CreateNode, Begin, Go, MutexInv, IndexInv, Removing, Walking, Asking
<1>6. NameInv'
  <2>1. /\ heap[p] = Free /\ heap' = [heap EXCEPT ![p] = NullId]
        /\ heap \in [Ptrs -> Ids \cup {NullId, Free}]
        /\ live' = live /\ unused' = unused /\ unused \subseteq SessionIds /\ NameInv
    BY DEF TableInv, TableTypeOK, CreateNode, ids
  <2>2. \A t \in Threads : op'[t] = "name" => t = Network /\ ptr'[t] # NULL /\ heap'[ptr'[t]] = NullId
    BY DEF TableInv, TableTypeOK, CreateNode, Begin, Go, NameInv
  <2>3. \A t \in Threads : Removing(t)' => want'[t] \in SessionIds /\ want'[t] \notin live' \cup unused'
    BY <2>1 DEF TableInv, TableTypeOK, CreateNode, Begin, Go, NameInv, Removing
  <2>4. \A q \in Ptrs : heap'[q] \notin unused'
    BY <2>1 DEF NameInv
  <2>5. \A k \in Permanent : heap'[k] = k
    BY <2>1 DEF NameInv
  <2>6. \A q, r \in Ptrs : heap'[q] = heap'[r] /\ heap'[q] \in Ids => q = r
    BY <2>1 DEF NameInv
  <2> QED
    BY <2>1, <2>2, <2>3, <2>4, <2>5, <2>6 DEF NameInv
<1>7. FoundInv'
  BY DEF TableInv, TableTypeOK, CreateNode, Begin, Go, ids, FoundInv
<1>8. WalkInv'
  <2> SUFFICES ASSUME NEW s \in Threads, s # Network, Walking(s)' PROVE WalkOK(s)'
    BY DEF WalkInv, TableInv, TableTypeOK, CreateNode, Begin, Go, Walking
  <2>1. /\ op'[s] = op[s] /\ want' = want /\ at' = at /\ ptr'[s] = ptr[s] /\ seen' = seen
        /\ WalkOK(s) /\ want[s] # NullId /\ want[s] # Free
    <3>1. op'[s] = op[s] /\ ptr'[s] = ptr[s]
      BY DEF TableInv, TableTypeOK, CreateNode, Go
    <3>2. want' = want /\ at' = at /\ seen' = seen
      BY DEF CreateNode, past
    <3>3. WalkOK(s)
      BY <3>1 DEF TableInv, WalkInv, Walking
    <3>4. want[s] \in Ids
      BY <3>3 DEF WalkOK
    <3> QED
      BY <3>1, <3>2, <3>3, <3>4
  <2>2. heap[p] = Free /\ heap' = [heap EXCEPT ![p] = NullId] /\ heap \in [Ptrs -> Ids \cup {NullId, Free}]
        /\ ptr[s] \in Ptrs \cup {NULL}
    BY DEF TableInv, TableTypeOK, CreateNode
  <2>3. \A q \in Ptrs : heap'[q] = want[s] <=> heap[q] = want[s]
    BY <2>1, <2>2
  <2>4. Present(want[s])' <=> Present(want[s])
    BY <2>1, <2>3 DEF Present
  <2>5. \A k \in Listed : slots'[k] = slots[k] /\ slots[k] \in Ptrs
    BY <1>0, <1>3 DEF TableInv, TableTypeOK, CreateNode, ListInv, Ptrs
  <2>6. \A n : Ahead(s, n) => Ahead(s, n)'
    BY <1>3, <2>1, <2>3, <2>5 DEF Ahead
  <2>7. (Ahead(s, at[s]) => Ahead(s, at[s])') /\ (Ahead(s, at[s] - 1) => Ahead(s, at[s] - 1)')
    BY <2>1, <2>6
  <2> QED
    BY <2>1, <2>2, <2>3, <2>4, <2>7 DEF WalkOK
<1> QED
  BY <1>1, <1>2, <1>4, <1>5, <1>6, <1>7, <1>8 DEF TableInv

(* What Observe makes of a walk: what it has seen stays, and a walk for    *)
(* this node sees the change.                                              *)
LEMMA ObserveFacts ==
  ASSUME TableInv, NEW id, NEW is \in BOOLEAN, Observe(id, is)
  PROVE  /\ seen' \in [Threads -> SUBSET BOOLEAN]
         /\ \A t \in Threads : seen[t] \subseteq seen'[t]
         /\ \A t \in Threads : Walking(t) /\ want[t] = id => is \in seen'[t]
         /\ \A t \in Threads : ~(Walking(t) /\ want[t] = id) => seen'[t] = seen[t]
<1>1. seen \in [Threads -> SUBSET BOOLEAN]
  BY DEF TableInv, TableTypeOK
<1>2. \A t \in Threads : seen'[t] = IF Walking(t) /\ want[t] = id THEN seen[t] \cup {is} ELSE seen[t]
  BY Zenon DEF Observe
<1>3. \A t \in Threads : seen'[t] \in SUBSET BOOLEAN
  BY <1>1, <1>2
<1>4. seen' \in [Threads -> SUBSET BOOLEAN]
  BY <1>3, Zenon DEF Observe
<1> QED
  BY <1>2, <1>4

LEMMA NameNodeStep ==
  ASSUME TableInv, NEW id \in SessionIds, NameNode(id)
  PROVE  TableInv'
<1> USE ConstantFacts
<1> DEFINE q == ptr[Network]
<1>0. /\ q \in Ptrs /\ heap[q] = NullId /\ heap' = [heap EXCEPT ![q] = id]
      /\ heap \in [Ptrs -> Ids \cup {NullId, Free}]
      /\ id \in unused /\ id \in Ids /\ live' = live \cup {id} /\ unused' = unused \ {id}
      /\ \A p \in Ptrs : heap[p] # id
      /\ slots' = slots /\ count' = count
  BY DEF TableInv, TableTypeOK, NameInv, NameNode
<1> HIDE DEF q
<1>1. TableTypeOK'
  <2>1. seen' \in [Threads -> SUBSET BOOLEAN]
    BY ObserveFacts DEF NameNode
  <2>2. heap' \in [Ptrs -> Ids \cup {NullId, Free}]
    BY <1>0
  <2>3. live' \subseteq SessionIds /\ unused' \subseteq SessionIds
    BY <1>0 DEF TableInv, TableTypeOK
  <2>4. mutex' = mutex /\ reply' = reply /\ crashed' = crashed
    BY DEF NameNode
  <2>5. Return(Network)
    BY DEF NameNode
  <2> QED
    BY <1>0, <2>1, <2>2, <2>3, <2>4, <2>5 DEF TableInv, TableTypeOK, Return, Go, Ops
<1>2. MutexInv'
  BY DEF TableInv, TableTypeOK, NameNode, Return, Go, MutexInv, Removing, Walking
<1>3. Listed' = Listed
  <2>1. \A t \in Threads : /\ op'[t] = "shift" <=> op[t] = "shift"
                           /\ op'[t] = "cleared" <=> op[t] = "cleared"
                           /\ op[t] = "shift" => move'[t] = move[t]
    BY DEF TableInv, TableTypeOK, NameNode, Return, Go
  <2> QED
    BY <1>0, <2>1 DEF Listed, Gap
<1>4. ListInv'
  <2>1. \A p \in Ptrs : heap'[p] # Free <=> heap[p] # Free
    BY <1>0
  <2>2. \A k \in Listed : slots[k] \in Ptrs
    BY DEF TableInv, TableTypeOK, ListInv, Listed, Ptrs
  <2>3. \A t \in Threads : op'[t] = "cleared" => op[t] = "cleared"
    BY DEF TableInv, TableTypeOK, NameNode, Return, Go
  <2> QED
    BY <1>0, <1>3, <2>1, <2>2, <2>3 DEF TableInv, ListInv
<1>5. IndexInv'
  BY DEF TableInv, TableTypeOK, NameNode, Return, Go, IndexInv, Removing, Walking, Asking
<1>6. NameInv'
  <2>1. \A t \in Threads : op'[t] # "name"
    BY DEF TableInv, TableTypeOK, NameInv, NameNode, Return, Go
  <2>2. \A t \in Threads : Removing(t)' => want'[t] \in SessionIds /\ want'[t] \notin live' \cup unused'
    BY <1>0 DEF TableInv, TableTypeOK, NameNode, Return, Go, NameInv, Removing
  <2>3. \A p \in Ptrs : heap'[p] \notin unused'
    BY <1>0 DEF TableInv, NameInv
  <2>4. live' \cap unused' = {}
    BY <1>0 DEF TableInv, NameInv
  <2>5. \A k \in Permanent : heap'[k] = k
    BY <1>0 DEF TableInv, NameInv
  <2>6. \A p, r \in Ptrs : heap'[p] = heap'[r] /\ heap'[p] \in Ids => p = r
    BY <1>0 DEF TableInv, NameInv
  <2> QED
    BY <2>1, <2>2, <2>3, <2>4, <2>5, <2>6 DEF NameInv
<1>7. FoundInv'
  <2> SUFFICES ASSUME NEW t \in Threads, op'[t] = "use"
               PROVE  /\ want'[t] \in Ids \ unused' /\ ptr'[t] # NULL
                      /\ want'[t] \in Permanent \cup live' => heap'[ptr'[t]] = want'[t]
    BY DEF FoundInv
  <2>1. /\ op[t] = "use" /\ want'[t] = want[t] /\ ptr'[t] = ptr[t] /\ ptr[t] \in Ptrs
        /\ want[t] \in Ids \ unused
        /\ want[t] \in Permanent \cup live => heap[ptr[t]] = want[t]
    BY DEF TableInv, TableTypeOK, FoundInv, NameNode, Return, Go
  <2> QED
    BY <1>0, <2>1
<1>8. WalkInv'
  <2> SUFFICES ASSUME NEW s \in Threads, s # Network, Walking(s)' PROVE WalkOK(s)'
    BY DEF WalkInv, TableInv, TableTypeOK, NameNode, Return, Go, Walking
  <2>1. /\ op'[s] = op[s] /\ want'[s] = want[s] /\ at'[s] = at[s] /\ ptr'[s] = ptr[s]
        /\ Walking(s) /\ WalkOK(s) /\ want[s] \in Ids /\ ptr[s] \in Ptrs \cup {NULL}
    BY DEF TableInv, TableTypeOK, NameNode, Return, Go, WalkInv, WalkOK, Walking
  <2>2. /\ seen[s] \subseteq seen'[s]
        /\ want[s] = id => TRUE \in seen'[s]
    BY <2>1, ObserveFacts DEF NameNode
  <2>3. \A p \in Ptrs : heap[p] = want[s] => heap'[p] = want[s]
    BY <1>0, <2>1
  <2>4. \A p \in Ptrs : heap'[p] = want[s] => heap[p] = want[s] \/ want[s] = id
    BY <1>0, <2>1
  <2>5. (Present(want[s])' => Present(want[s]) \/ want[s] = id) /\ (Present(want[s]) => Present(want[s])')
    BY <2>1, <2>3, <2>4 DEF Present
  <2>6. \A k \in Listed : slots[k] \in Ptrs
    BY DEF TableInv, TableTypeOK, ListInv, Listed, Ptrs
  <2>7. \A n : Ahead(s, n) => Ahead(s, n)'
    BY <1>0, <1>3, <2>1, <2>3, <2>6 DEF Ahead
  <2>8. (Ahead(s, at[s]) => Ahead(s, at[s])') /\ (Ahead(s, at[s] - 1) => Ahead(s, at[s] - 1)')
    BY <2>1, <2>7
  <2> QED
    BY <2>1, <2>2, <2>3, <2>5, <2>8 DEF WalkOK
<1> QED
  BY <1>1, <1>2, <1>4, <1>5, <1>6, <1>7, <1>8 DEF TableInv

LEMMA DestroyNodeStep ==
  ASSUME TableInv, NEW t \in Threads, DestroyNode(t)
  PROVE  TableInv'
<1> USE ConstantFacts
<1> DEFINE i == at[t]
           q == slots[at[t]]
<1>1. Listed = 1 .. count
  <2>1. \A s \in Threads : op[s] # "shift" /\ op[s] # "cleared"
    BY DEF TableInv, MutexInv, Removing, DestroyNode
  <2> QED
    BY <2>1, NoGap
<1>2. /\ i \in Listed /\ q \in Ptrs /\ heap[q] = want[t]
      /\ heap' = [heap EXCEPT ![q] = Free] /\ slots' = slots /\ count' = count
      /\ heap \in [Ptrs -> Ids \cup {NullId, Free}]
      /\ want[t] \in SessionIds /\ want[t] \notin live \cup unused
      /\ live' = live /\ unused' = unused /\ live \subseteq SessionIds /\ unused \subseteq SessionIds
      /\ count \in Nat /\ count <= MaxPtrs
  BY <1>1 DEF TableInv, TableTypeOK, IndexInv, ListInv, NameInv, Removing, DestroyNode, Here, Ptrs, ids
<1>3. /\ op[t] = "scan" /\ op' = [op EXCEPT ![t] = "shift"] /\ move' = [move EXCEPT ![t] = i + 1]
      /\ mutex' = mutex /\ want' = want /\ at' = at /\ ptr' = ptr /\ reply' = reply /\ crashed' = crashed
  BY DEF DestroyNode, Go
<1>4. Listed' = Listed \ {i}
  <2>1. \A s \in Threads : op'[s] # "cleared" /\ (op'[s] = "shift" <=> s = t)
    BY DEF TableInv, TableTypeOK, MutexInv, Removing, DestroyNode, Go
  <2>2. move'[t] = i + 1
    BY DEF TableInv, TableTypeOK, DestroyNode
  <2>3. \A k \in 1 .. count : Gap(k)' <=> k = i
    BY <1>1, <1>2, <2>1, <2>2 DEF Gap
  <2> QED
    BY <1>1, <1>2, <2>3 DEF Listed
<1> HIDE DEF i, q
<1>5. TableTypeOK'
  <2>1. seen' \in [Threads -> SUBSET BOOLEAN]
    BY ObserveFacts DEF DestroyNode
  <2>2. i \in 1 .. MaxPtrs
    BY <1>1, <1>2
  <2>3. heap' \in [Ptrs -> Ids \cup {NullId, Free}]
    BY <1>2
  <2>4. op' \in [Threads -> Ops] /\ move' \in [Threads -> 0 .. MaxPtrs + 1]
    BY <1>3, <2>2 DEF TableInv, TableTypeOK, Ops
  <2>5. slots' = slots /\ count' = count /\ live' = live /\ unused' = unused
    BY <1>2
  <2> QED
    BY <1>3, <2>1, <2>3, <2>4, <2>5 DEF TableInv, TableTypeOK
<1>6. MutexInv'
  BY <1>3 DEF TableInv, TableTypeOK, MutexInv, Removing, Walking
<1>7. IndexInv'
  BY <1>1, <1>2, <1>3 DEF TableInv, TableTypeOK, IndexInv, MutexInv, Removing, Walking, Asking, i
<1>8. ListInv'
  <2>1. \A k \in Listed' : slots[k] \in Ptrs /\ slots[k] # q
    BY <1>1, <1>2, <1>4 DEF TableInv, TableTypeOK, ListInv, Ptrs, i, q
  <2>2. \A k \in Listed' : slots'[k] # NULL /\ heap'[slots'[k]] # Free
    BY <1>2, <1>4, <2>1 DEF TableInv, ListInv
  <2>3. \A k, m \in Listed' : slots'[k] = slots'[m] => k = m
    BY <1>2, <1>4 DEF TableInv, ListInv
  <2>4. ASSUME NEW p \in Ptrs, heap'[p] # Free PROVE \E k \in Listed' : slots'[k] = p
    <3>1. p # q /\ heap[p] # Free
      BY <1>2, <2>4
    <3>2. PICK k \in Listed : slots[k] = p
      BY <3>1 DEF TableInv, ListInv
    <3> QED
      BY <1>2, <1>4, <3>1, <3>2 DEF i, q
  <2>5. \A s \in Threads : op'[s] # "cleared"
    BY <1>3 DEF TableInv, TableTypeOK, MutexInv, Removing
  <2> QED
    BY <1>2, <2>2, <2>3, <2>4, <2>5 DEF TableInv, ListInv
<1>9. NameInv'
  <2>1. \A s \in Threads : op'[s] = "name" => s = Network /\ ptr'[s] # NULL /\ heap'[ptr'[s]] = NullId
    BY <1>2, <1>3 DEF TableInv, TableTypeOK, NameInv
  <2>2. \A s \in Threads : Removing(s)' => want'[s] \in SessionIds /\ want'[s] \notin live' \cup unused'
    BY <1>2, <1>3 DEF TableInv, TableTypeOK, NameInv, Removing
  <2>3. \A p \in Ptrs : heap'[p] \notin unused'
    BY <1>2 DEF TableInv, NameInv
  <2>4. \A k \in Permanent : heap'[k] = k
    BY <1>2 DEF TableInv, NameInv
  <2>5. \A p, r \in Ptrs : heap'[p] = heap'[r] /\ heap'[p] \in Ids => p = r
    BY <1>2 DEF TableInv, NameInv
  <2> QED
    BY <1>2, <2>1, <2>2, <2>3, <2>4, <2>5 DEF TableInv, NameInv
<1>10. FoundInv'
  BY <1>2, <1>3 DEF TableInv, TableTypeOK, FoundInv
<1>11. WalkInv'
  <2> SUFFICES ASSUME NEW s \in Threads, s # t, Walking(s)' PROVE WalkOK(s)'
    BY <1>3 DEF WalkInv, TableInv, TableTypeOK, Walking
  <2>1. /\ op'[s] = op[s] /\ Walking(s) /\ WalkOK(s) /\ want[s] \in Ids /\ ptr[s] \in Ptrs \cup {NULL}
    <3>1. op'[s] = op[s] /\ ptr[s] \in Ptrs \cup {NULL}
      BY <1>3 DEF TableInv, TableTypeOK
    <3>2. Walking(s)
      BY <3>1 DEF Walking
    <3>3. WalkOK(s)
      BY <3>2 DEF TableInv, WalkInv
    <3> QED
      BY <3>1, <3>2, <3>3 DEF WalkOK
  <2>2. seen[s] \subseteq seen'[s]
    BY ObserveFacts DEF DestroyNode
  <2>3. want[s] = want[t] => FALSE \in seen'[s]
    BY <2>1, ObserveFacts DEF DestroyNode
  <2>4. want[s] # want[t] => \A p \in Ptrs : heap[p] = want[s] => heap'[p] = want[s]
    BY <1>2
  <2>5. \A p \in Ptrs : heap'[p] = want[s] => heap[p] = want[s]
    BY <1>2, <2>1
  <2>6. /\ Present(want[s])' => Present(want[s])
        /\ want[s] # want[t] => (Present(want[s]) => Present(want[s])')
    BY <1>3, <2>4, <2>5 DEF Present
  <2>7. \A k \in Listed : slots[k] \in Ptrs
    BY <1>1 DEF TableInv, TableTypeOK, ListInv, Ptrs
  <2>8. want[s] # want[t] => \A n : Ahead(s, n) => Ahead(s, n)'
    BY <1>2, <1>3, <1>4, <2>4, <2>7 DEF Ahead, i, q
  <2>9. want[s] # want[t] => /\ Ahead(s, at[s]) => Ahead(s, at[s])'
                             /\ Ahead(s, at[s] - 1) => Ahead(s, at[s] - 1)'
    BY <1>3, <2>8
  <2>10. CASE want[s] = want[t]
    BY <1>3, <2>1, <2>2, <2>3, <2>6, <2>10 DEF WalkOK
  <2>11. CASE want[s] # want[t]
    BY <1>3, <2>1, <2>2, <2>4, <2>6, <2>9, <2>11 DEF WalkOK
  <2> QED
    BY <2>10, <2>11
<1> QED
  BY <1>5, <1>6, <1>7, <1>8, <1>9, <1>10, <1>11 DEF TableInv

(* The walks without the mutex while a removal moves the pointers: a node  *)
(* that lies ahead of a walk moves towards the start, as the walk does.    *)
LEMMA MovesDown ==
  ASSUME TableInv, NEW t \in Threads, Removing(t), Removing(t)',
         UNCHANGED <<heap, want, at, ptr, seen>>,
         \A s \in Threads : s # t => op'[s] = op[s],
         Listed \subseteq Nat, Listed' \subseteq Nat,
         \A k \in Listed : \E m \in Listed' : m <= k /\ slots'[m] = slots[k]
  PROVE  WalkInv'
<1> SUFFICES ASSUME NEW s \in Threads, Walking(s)' PROVE WalkOK(s)'
  BY DEF WalkInv
<1>1. s # t /\ op'[s] = op[s] /\ Walking(s) /\ WalkOK(s) /\ at[s] \in Nat
  BY DEF TableInv, TableTypeOK, WalkInv, Removing, Walking
<1>2. Present(want[s])' <=> Present(want[s])
  BY DEF Present
<1>3. ASSUME NEW n \in Int, Ahead(s, n) PROVE Ahead(s, n)'
  <2>1. PICK k \in Listed : k <= n /\ heap[slots[k]] = want[s]
    BY <1>3 DEF Ahead
  <2>2. PICK m \in Listed' : m <= k /\ slots'[m] = slots[k]
    OBVIOUS
  <2>3. m <= n /\ heap'[slots'[m]] = want'[s]
    BY <2>1, <2>2
  <2> QED
    BY <2>3 DEF Ahead
<1>4. (Ahead(s, at[s]) => Ahead(s, at[s])') /\ (Ahead(s, at[s] - 1) => Ahead(s, at[s] - 1)')
  BY <1>1, <1>3
<1> QED
  BY <1>1, <1>2, <1>4 DEF WalkOK

LEMMA ShiftPointerStep ==
  ASSUME TableInv, NEW t \in Threads, ShiftPointer(t)
  PROVE  TableInv'
<1> USE ConstantFacts
<1> DEFINE j == move[t]
<1>1. TableTypeOK'
  <2>1. move[t] \in 1 .. MaxPtrs /\ move[t] \in Ptrs
    BY DEF TableInv, TableTypeOK, IndexInv, Removing, ShiftPointer, Ptrs
  <2>2. slots' \in [Ptrs -> Ptrs \cup {NULL}]
    BY <2>1 DEF TableInv, TableTypeOK, ShiftPointer
  <2>3. move' \in [Threads -> 0 .. MaxPtrs + 1]
    BY <2>1 DEF TableInv, TableTypeOK, ShiftPointer
  <2> QED
    BY <2>2, <2>3 DEF TableInv, TableTypeOK, ShiftPointer, ids, past
<1>2. MutexInv'
  BY DEF TableInv, TableTypeOK, ShiftPointer, Go, MutexInv, Removing, Walking
<1>3. /\ op[t] = "shift" /\ j \in Nat /\ 2 <= j /\ j <= count /\ count \in Nat /\ count <= MaxPtrs
      /\ slots' = [slots EXCEPT ![j - 1] = slots[j]] /\ slots \in [Ptrs -> Ptrs \cup {NULL}]
      /\ count' = count /\ heap' = heap /\ op' = op
      /\ move'[t] = j + 1
      /\ \A s \in Threads : op[s] = "shift" => s = t
      /\ \A s \in Threads : op[s] # "cleared"
  BY DEF TableInv, TableTypeOK, MutexInv, IndexInv, Removing, ShiftPointer
<1>4. Listed = (1 .. count) \ {j - 1} /\ Listed' = (1 .. count) \ {j}
  <2>1. \A k \in 1 .. count : (Gap(k) <=> k = j - 1) /\ (Gap(k)' <=> k = j)
    BY <1>3 DEF Gap
  <2> QED
    BY <1>3, <2>1 DEF Listed
<1> HIDE DEF j
<1>5. \A k \in Ptrs : slots'[k] = IF k = j - 1 THEN slots[j] ELSE slots[k]
  BY <1>3 DEF Ptrs
<1>6. ListInv'
  <2>1. \A k \in Ptrs : k > count' => slots'[k] = NULL
    BY <1>3, <1>5 DEF TableInv, ListInv
  <2>2. \A k \in Listed' : slots'[k] # NULL /\ heap'[slots'[k]] # Free
    BY <1>3, <1>4, <1>5 DEF TableInv, ListInv, Ptrs
  <2>3. \A k, m \in Listed' : slots'[k] = slots'[m] => k = m
    BY <1>3, <1>4, <1>5 DEF TableInv, ListInv, Ptrs
  <2>4. ASSUME NEW p \in Ptrs, heap'[p] # Free PROVE \E k \in Listed' : slots'[k] = p
    <3>1. PICK k \in Listed : slots[k] = p
      BY <1>3, <2>4 DEF TableInv, ListInv
    <3>2. CASE k = j
      BY <1>3, <1>4, <1>5, <3>1, <3>2 DEF Ptrs
    <3>3. CASE k # j
      BY <1>3, <1>4, <1>5, <3>1, <3>3 DEF Ptrs
    <3> QED
      BY <3>2, <3>3
  <2> QED
    BY <1>3, <2>1, <2>2, <2>3, <2>4 DEF ListInv
<1>7. IndexInv'
  BY DEF TableInv, TableTypeOK, ShiftPointer, Go, MutexInv, IndexInv, Removing, Walking, Asking
<1>8. NameInv'
  BY DEF TableInv, TableTypeOK, ShiftPointer, Go, ids, NameInv, Removing
<1>9. FoundInv'
  BY DEF TableInv, TableTypeOK, ShiftPointer, Go, ids, FoundInv
<1>10. WalkInv'
  <2>1. ASSUME NEW k \in Listed PROVE \E m \in Listed' : m <= k /\ slots'[m] = slots[k]
    <3>1. CASE k = j
      BY <1>3, <1>4, <1>5, <3>1 DEF Ptrs
    <3>2. CASE k # j
      BY <1>3, <1>4, <1>5, <3>2 DEF Ptrs
    <3> QED
      BY <3>1, <3>2
  <2>2. Listed \subseteq Nat /\ Listed' \subseteq Nat
    BY <1>3, <1>4
  <2> QED
    BY <1>3, <2>1, <2>2, MovesDown DEF ShiftPointer, Removing, past
<1> QED
  BY <1>1, <1>2, <1>6, <1>7, <1>8, <1>9, <1>10 DEF TableInv

LEMMA ClearLastStep ==
  ASSUME TableInv, NEW t \in Threads, ClearLast(t)
  PROVE  TableInv'
<1> USE ConstantFacts
<1>1. TableTypeOK'
  BY DEF TableInv, TableTypeOK, IndexInv, Removing, ClearLast, Go, Ops, Ptrs, ids, past
<1>2. MutexInv'
  BY DEF TableInv, TableTypeOK, ClearLast, Go, MutexInv, Removing, Walking
<1>3. /\ op[t] = "shift" /\ move[t] = count + 1 /\ count \in Nat /\ 1 <= count /\ count <= MaxPtrs
      /\ slots' = [slots EXCEPT ![count] = NULL] /\ slots \in [Ptrs -> Ptrs \cup {NULL}]
      /\ count' = count /\ heap' = heap
      /\ \A s \in Threads : op[s] = "shift" <=> s = t
      /\ \A s \in Threads : op[s] # "cleared"
      /\ \A s \in Threads : op'[s] = IF s = t THEN "cleared" ELSE op[s]
  BY DEF TableInv, TableTypeOK, MutexInv, IndexInv, Removing, ClearLast, Go
<1>4. Listed = 1 .. count - 1 /\ Listed' = 1 .. count - 1
  <2>1. \A k \in 1 .. count : (Gap(k) <=> k = count) /\ (Gap(k)' <=> k = count)
    BY <1>3 DEF Gap
  <2> QED
    BY <1>3, <2>1 DEF Listed
<1>5. \A k \in Ptrs : slots'[k] = IF k = count THEN NULL ELSE slots[k]
  BY <1>3
<1>6. ListInv'
  BY <1>3, <1>4, <1>5 DEF TableInv, ListInv, Ptrs
<1>7. IndexInv'
  BY DEF TableInv, TableTypeOK, ClearLast, Go, MutexInv, IndexInv, Removing, Walking, Asking
<1>8. NameInv'
  BY DEF TableInv, TableTypeOK, ClearLast, Go, ids, NameInv, Removing
<1>9. FoundInv'
  BY DEF TableInv, TableTypeOK, ClearLast, Go, ids, FoundInv
<1>10. WalkInv'
  <2>1. \A k \in Listed : slots'[k] = slots[k] /\ k <= k
    BY <1>3, <1>4, <1>5 DEF Ptrs
  <2>2. Listed \subseteq Nat /\ Listed' \subseteq Nat
    BY <1>3, <1>4
  <2> QED
    BY <1>3, <1>4, <2>1, <2>2, MovesDown DEF ClearLast, Removing, past
<1> QED
  BY <1>1, <1>2, <1>6, <1>7, <1>8, <1>9, <1>10 DEF TableInv

LEMMA CountDownStep ==
  ASSUME TableInv, NEW t \in Threads, CountDown(t)
  PROVE  TableInv'
<1> USE ConstantFacts
<1>1. TableTypeOK'
  BY DEF TableInv, TableTypeOK, IndexInv, Removing, CountDown, Go, Ops, Ptrs, ids, past
<1>2. MutexInv'
  BY DEF TableInv, TableTypeOK, CountDown, Go, MutexInv, Removing, Walking
<1>3. /\ op[t] = "cleared" /\ count \in Nat /\ 1 <= count /\ count <= MaxPtrs
      /\ slots' = slots /\ count' = count - 1 /\ heap' = heap
      /\ \A s \in Threads : op[s] # "shift"
      /\ \A s \in Threads : op[s] = "cleared" <=> s = t
      /\ \A s \in Threads : op'[s] = IF s = t THEN "purge" ELSE op[s]
  BY DEF TableInv, TableTypeOK, MutexInv, IndexInv, Removing, CountDown, Go
<1>4. Listed = 1 .. count - 1 /\ Listed' = 1 .. count - 1
  <2>1. \A k \in 1 .. count : (Gap(k) <=> k = count) /\ ~Gap(k)'
    BY <1>3 DEF Gap
  <2> QED
    BY <1>3, <2>1 DEF Listed
<1>5. ListInv'
  BY <1>3, <1>4 DEF TableInv, ListInv, Ptrs
<1>6. IndexInv'
  BY DEF TableInv, TableTypeOK, CountDown, Go, MutexInv, IndexInv, Removing, Walking, Asking
<1>7. NameInv'
  BY DEF TableInv, TableTypeOK, CountDown, Go, ids, NameInv, Removing
<1>8. FoundInv'
  BY DEF TableInv, TableTypeOK, CountDown, Go, ids, FoundInv
<1>9. WalkInv'
  <2>1. \A k \in Listed : slots'[k] = slots[k] /\ k <= k
    BY <1>3, <1>4
  <2>2. Listed \subseteq Nat /\ Listed' \subseteq Nat
    BY <1>3, <1>4
  <2> QED
    BY <1>3, <1>4, <2>1, <2>2, MovesDown DEF CountDown, Removing, past
<1> QED
  BY <1>1, <1>2, <1>5, <1>6, <1>7, <1>8, <1>9 DEF TableInv

-----------------------------------------------------------------------------
LEMMA StutterHolds == TableInv /\ UNCHANGED tableVars => TableInv'
<1> SUFFICES ASSUME TableInv, UNCHANGED tableVars PROVE TableInv'
  OBVIOUS
<1>1. Listed' = Listed /\ ListInv'
  BY SameList DEF TableInv, tableVars, table
<1>2. WalkInv'
  BY <1>1, SameWalk DEF TableInv, WalkInv, tableVars
<1> QED
  BY <1>1, <1>2 DEF TableInv, tableVars, TableTypeOK, MutexInv, IndexInv, NameInv, FoundInv,
                    Removing, Walking, Asking

LEMMA NextHolds == TableInv /\ [TableNext]_tableVars => TableInv'
<1> SUFFICES ASSUME TableInv, TableNext PROVE TableInv'
  BY StutterHolds
<1>1. CASE \E p \in Ptrs : CreateNode(p)
  BY <1>1, CreateNodeStep
<1>2. CASE Naming
  BY <1>2, NameNodeStep DEF Naming
<1>3. CASE \E id \in Ids : FindNodeWithID(id)
  BY <1>3, FindNodeWithIDStep
<1>4. ASSUME NEW t \in Threads, \E id \in Ids : GetNode(t, id) PROVE TableInv'
  BY <1>4, GetNodeStep
<1>5. ASSUME NEW t \in Threads, \E id \in SessionIds : RemoveNode(t, id) PROVE TableInv'
  BY <1>5, RemoveNodeStep
<1>6. ASSUME NEW t \in Threads, Lookup(t) PROVE TableInv'
  BY <1>6, WalkReadStep, FoundStep, WalkOnStep, NotFoundStep, CrashStep, UseStep DEF Lookup
<1>7. ASSUME NEW t \in Threads, Removal(t) PROVE TableInv'
  BY <1>7, ScanNextStep, DestroyNodeStep, ShiftPointerStep, ClearLastStep, CountDownStep,
     RemoveReturnsStep DEF Removal
<1> QED
  BY <1>1, <1>2, <1>3, <1>4, <1>5, <1>6, <1>7 DEF TableNext

(* For any number of threads, nodes and sessions the inductive invariant   *)
(* holds.                                                                  *)
THEOREM TableInvariant == TableSpec => []TableInv
BY InitHolds, NextHolds, PTL DEF TableSpec

(* Every variable of the table keeps its type; in particular AddSession    *)
(* finds a slot for each node that malloc has room for.                    *)
THEOREM TableTypes == TableSpec => []TableTypeOK
<1>1. TableInv => TableTypeOK
  BY DEF TableInv
<1> QED
  BY <1>1, TableInvariant, PTL

(* CreateAddressSpaceNode and RemoveNode keep the table sound.             *)
THEOREM TableIsSound == TableSpec => []TableSound
<1>1. TableInv => TableSound
  <2> SUFFICES ASSUME TableInv, mutex = None
               PROVE  /\ \A k \in Ptrs : (k <= count <=> slots[k] # NULL)
                      /\ \A k, m \in 1 .. count : slots[k] = slots[m] => k = m
                      /\ {slots[k] : k \in 1 .. count} = {p \in Ptrs : heap[p] # Free}
    BY DEF TableSound
  <2>1. Listed = 1 .. count
    BY NoGap, ConstantFacts DEF TableInv, MutexInv, Removing
  <2>2. \A k \in 1 .. count : k \in Ptrs /\ slots[k] \in Ptrs
    BY <2>1, ConstantFacts DEF TableInv, TableTypeOK, ListInv, Ptrs
  <2>3. \A k \in Ptrs : (k <= count <=> slots[k] # NULL)
    BY <2>1, ConstantFacts DEF TableInv, TableTypeOK, ListInv, Ptrs
  <2> QED
    BY <2>1, <2>2, <2>3 DEF TableInv, ListInv
<1> QED
  BY <1>1, TableInvariant, PTL

(* A walk without the mutex misses no node, however the other threads'     *)
(* removals move the pointers under it.                                    *)
THEOREM WalksMissNothing == TableSpec => []NeverMissed
<1>1. TableInv => NeverMissed
  <2> SUFFICES ASSUME TableInv, NEW t \in Threads, op[t] = "walk", at[t] = 0
               PROVE  FALSE \in seen[t]
    BY DEF NeverMissed
  <2>1. WalkOK(t)
    BY DEF TableInv, WalkInv, Walking
  <2>2. ~Ahead(t, at[t])
    BY DEF Ahead, Listed, TableInv, TableTypeOK
  <2> QED
    BY <2>1, <2>2 DEF WalkOK
<1> QED
  BY <1>1, TableInvariant, PTL

(* What GetNode has returned stays while its caller reads it, unless it    *)
(* was the node of a session that has ended since.                         *)
THEOREM FoundNodesStay == TableSpec => []NodeInUseKept
<1>1. TableInv => NodeInUseKept
  BY DEF TableInv, FoundInv, NodeInUseKept
<1> QED
  BY <1>1, TableInvariant, PTL

-----------------------------------------------------------------------------
(* The refinement of NodeSet: the state of the set that a state of the     *)
(* table stands for.                                                       *)
SetPresent == {heap[p] : p \in Ptrs} \cap Ids
SetCall == [t \in Threads |-> IF Asking(t) THEN want[t] ELSE NullId]
SetSeen == [t \in Threads |-> IF Asking(t) THEN seen[t] ELSE {}]

SetQuiet == SetPresent' = SetPresent /\ SetCall' = SetCall /\ SetSeen' = SetSeen /\ reply' = reply

LEMMA SetInitially == TableInit => Set!SetInit
<1> SUFFICES ASSUME TableInit PROVE Set!SetInit
  OBVIOUS
<1> USE ConstantFacts
<1>1. {heap[p] : p \in Ptrs} \cap Ids = Permanent
  BY DEF TableInit, Ptrs, Ids, Permanent
<1>2. \A t \in Threads : ~Asking(t)
  BY DEF TableInit, Asking, Walking
<1>3. reply = [t \in Threads |-> FALSE]
  BY Zenon DEF TableInit
<1>4. SetCall = [t \in Threads |-> NullId] /\ SetSeen = [t \in Threads |-> {}]
  BY <1>2 DEF SetCall, SetSeen
<1> QED
  BY <1>1, <1>3, <1>4 DEF Set!SetInit, SetCall, SetSeen

(* Steps that neither add nor remove a node, nor begin or end a GetNode.   *)
LEMMA QuietStep ==
  ASSUME \A p \in Ptrs : (heap'[p] \in Ids \/ heap[p] \in Ids) => heap'[p] = heap[p],
         reply' = reply,
         \A t \in Threads : /\ Asking(t)' <=> Asking(t)
                            /\ Asking(t) => want'[t] = want[t] /\ seen'[t] = seen[t]
  PROVE  SetQuiet
<1>1. SetPresent' = SetPresent
  BY DEF SetPresent
<1>2. SetCall' = SetCall
  BY DEF SetCall
<1>3. SetSeen' = SetSeen
  BY DEF SetSeen
<1> QED
  BY <1>1, <1>2, <1>3 DEF SetQuiet

LEMMA SetStutters == SetQuiet => UNCHANGED Set!setVars
BY DEF SetQuiet, SetPresent, SetCall, SetSeen, Set!setVars

LEMMA LookupRefines ==
  ASSUME TableInv, NEW t \in Threads, Lookup(t)
  PROVE  SetQuiet \/ \E is \in BOOLEAN : Set!Answer(t, is)
<1> USE ConstantFacts
<1>1. CASE WalkRead(t)
  BY <1>1, QuietStep DEF TableInv, TableTypeOK, WalkRead, Go, table, past, Asking, Walking
<1>2. CASE WalkOn(t)
  BY <1>2, QuietStep DEF TableInv, TableTypeOK, WalkOn, Go, table, past, Asking, Walking
<1>3. CASE Crash(t)
  BY <1>3, QuietStep DEF Crash, table, local, past, Asking, Walking
<1>4. CASE Use(t)
  BY <1>4, QuietStep DEF TableInv, TableTypeOK, Use, Return, Go, table, past, Asking, Walking, MutexInv, Removing
<1>5. CASE Found(t) /\ mutex # t
  BY <1>5, QuietStep DEF TableInv, TableTypeOK, Found, Go, table, Asking, Walking
<1>6. CASE NotFound(t) /\ mutex # t
  BY <1>6, QuietStep DEF TableInv, TableTypeOK, NotFound, Return, Go, table, Asking, Walking
<1>7. ASSUME mutex = t, NEW is \in BOOLEAN, is \in seen[t], Walking(t), heap' = heap,
             op' = [op EXCEPT ![t] = op'[t]], ~Walking(t)', mutex' = None,
             seen' = [seen EXCEPT ![t] = {}], reply' = [reply EXCEPT ![t] = is],
             \A s \in Threads : s # t => want'[s] = want[s]
      PROVE  Set!Answer(t, is)
  <2>1. Asking(t) /\ want[t] \in Ids /\ \A s \in Threads : s # t => ~Asking(s)
    BY <1>7 DEF Asking, TableInv, WalkInv, WalkOK
  <2>2. \A s \in Threads : ~Asking(s)'
    BY <1>7 DEF Asking
  <2>3. SetCall[t] = want[t] /\ SetSeen[t] = seen[t]
    BY <2>1 DEF SetCall, SetSeen
  <2>4. SetCall' = [SetCall EXCEPT ![t] = NullId] /\ SetSeen' = [SetSeen EXCEPT ![t] = {}]
    BY <2>1, <2>2 DEF SetCall, SetSeen
  <2>5. SetPresent' = SetPresent
    BY <1>7 DEF SetPresent
  <2> QED
    BY <1>7, <2>1, <2>3, <2>4, <2>5 DEF Set!Answer, SetCall, SetSeen, SetPresent
<1>8. CASE Found(t) /\ mutex = t
  <2>1. Walking(t) /\ WalkOK(t)
    BY <1>8 DEF TableInv, WalkInv, Found, Walking
  <2>2. at[t] \in Listed /\ ptr[t] = slots[at[t]]
    BY <1>8 DEF TableInv, TableTypeOK, MutexInv, IndexInv, Found, Asking, Walking, Removing, Listed, Gap
  <2>3. heap[ptr[t]] = want[t] /\ ptr[t] \in Ptrs
    BY <1>8, <2>2 DEF TableInv, TableTypeOK, ListInv, Found, Matches
  <2>4. TRUE \in seen[t]
    BY <2>1, <2>3 DEF Present, WalkOK
  <2>5. /\ heap' = heap /\ op' = [op EXCEPT ![t] = op'[t]] /\ ~Walking(t)' /\ mutex' = None
        /\ want' = want
    BY <1>8 DEF TableInv, TableTypeOK, Found, Go, Walking, table
  <2>6. seen' = [seen EXCEPT ![t] = {}] /\ reply' = [reply EXCEPT ![t] = TRUE]
    BY <1>8, Zenon DEF Found
  <2>7. Set!Answer(t, TRUE)
    BY <1>7, <1>8, <2>1, <2>4, <2>5, <2>6
  <2> QED
    BY <2>7
<1>9. CASE NotFound(t) /\ mutex = t
  <2>1. Walking(t) /\ WalkOK(t)
    BY <1>9 DEF TableInv, WalkInv, NotFound, Walking
  <2>2. ~Ahead(t, at[t])
    BY <1>9 DEF Ahead, Listed, NotFound, TableInv, TableTypeOK
  <2>3. FALSE \in seen[t]
    BY <1>9, <2>1, <2>2 DEF WalkOK, NotFound
  <2>4. /\ heap' = heap /\ op' = [op EXCEPT ![t] = op'[t]] /\ ~Walking(t)' /\ mutex' = None
        /\ \A s \in Threads : s # t => want'[s] = want[s]
    BY <1>9 DEF TableInv, TableTypeOK, NotFound, Return, Go, Walking, table
  <2>5. seen' = [seen EXCEPT ![t] = {}] /\ reply' = [reply EXCEPT ![t] = FALSE]
    BY <1>9, Zenon DEF NotFound
  <2>6. Set!Answer(t, FALSE)
    BY <1>7, <1>9, <2>1, <2>3, <2>4, <2>5
  <2> QED
    BY <2>6
<1> QED
  BY <1>1, <1>2, <1>3, <1>4, <1>5, <1>6, <1>8, <1>9 DEF Lookup

LEMMA RemovalRefines ==
  ASSUME TableInv, NEW t \in Threads, Removal(t)
  PROVE  SetQuiet \/ \E id \in Ids : Set!Remove(id)
<1> USE ConstantFacts
<1>1. CASE ScanNext(t)
  BY <1>1, QuietStep DEF ScanNext, table, past, Asking, Walking
<1>2. CASE ShiftPointer(t)
  BY <1>2, QuietStep DEF ShiftPointer, past, Asking, Walking
<1>3. CASE ClearLast(t)
  BY <1>3, QuietStep DEF TableInv, TableTypeOK, ClearLast, Go, past, Asking, Walking
<1>4. CASE CountDown(t)
  BY <1>4, QuietStep DEF TableInv, TableTypeOK, CountDown, Go, past, Asking, Walking
<1>5. CASE RemoveReturns(t)
  BY <1>5, QuietStep
     DEF TableInv, TableTypeOK, RemoveReturns, Return, Go, table, past, Asking, Walking, MutexInv, Removing
<1>6. CASE DestroyNode(t)
  <2> DEFINE q == slots[at[t]]
  <2>0. PICK id \in Ids : id = want[t]
    BY <1>6 DEF TableInv, NameInv, Removing, DestroyNode
  <2>1. /\ q \in Ptrs /\ heap[q] = id /\ heap' = [heap EXCEPT ![q] = Free] /\ id \in Ids
        /\ heap \in [Ptrs -> Ids \cup {NullId, Free}]
        /\ \A p \in Ptrs : heap[p] = id => p = q
    <3>1. Listed = 1 .. count
      BY <1>6, NoGap DEF TableInv, MutexInv, Removing, DestroyNode
    <3> QED
      BY <1>6, <2>0, <3>1 DEF TableInv, TableTypeOK, IndexInv, ListInv, NameInv, Removing, DestroyNode, Here, Ptrs
  <2>2. \A s \in Threads : ~Asking(s) /\ ~Asking(s)'
    BY <1>6 DEF TableInv, TableTypeOK, MutexInv, DestroyNode, Go, Removing, Asking, Walking
  <2>3. SetCall = [s \in Threads |-> NullId] /\ SetCall' = SetCall
    BY <2>2 DEF SetCall
  <2>4. SetSeen = [s \in Threads |-> {}] /\ SetSeen' = SetSeen
    BY <2>2 DEF SetSeen
  <2> HIDE DEF q
  <2>5. id \in SetPresent /\ SetPresent' = SetPresent \ {id}
    BY <2>1 DEF SetPresent
  <2>6. SetSeen' = [s \in Threads |-> IF SetCall[s] = id THEN SetSeen[s] \cup {FALSE} ELSE SetSeen[s]]
    BY <2>1, <2>3, <2>4
  <2>7. reply' = reply
    BY <1>6 DEF DestroyNode
  <2>8. Set!Remove(id)
    BY <2>3, <2>5, <2>6, <2>7 DEF Set!Remove, Set!Observe, SetCall, SetSeen, SetPresent
  <2> QED
    BY <2>8
<1> QED
  BY <1>1, <1>2, <1>3, <1>4, <1>5, <1>6 DEF Removal

LEMMA NamingRefines ==
  ASSUME TableInv, NEW id \in SessionIds, NameNode(id)
  PROVE  Set!Add(id)
<1> USE ConstantFacts
<1> DEFINE q == ptr[Network]
<1>1. /\ q \in Ptrs /\ heap[q] = NullId /\ heap' = [heap EXCEPT ![q] = id]
      /\ heap \in [Ptrs -> Ids \cup {NullId, Free}]
      /\ id \in Ids /\ \A p \in Ptrs : heap[p] # id
  BY DEF TableInv, TableTypeOK, NameInv, NameNode
<1>2. \A s \in Threads : (Asking(s)' <=> Asking(s)) /\ (Asking(s) => want'[s] = want[s])
  BY DEF TableInv, TableTypeOK, MutexInv, NameNode, Return, Go, Asking, Walking
<1>3. SetCall' = SetCall
  BY <1>2 DEF SetCall
<1> HIDE DEF q
<1>4. id \notin SetPresent /\ SetPresent' = SetPresent \cup {id}
  BY <1>1 DEF SetPresent
<1>5. \A s \in Threads : seen'[s] = IF Walking(s) /\ want[s] = id THEN seen[s] \cup {TRUE} ELSE seen[s]
  BY Zenon DEF NameNode, Observe
<1>6. ASSUME NEW s \in Threads
      PROVE  SetSeen'[s] = IF SetCall[s] = id THEN SetSeen[s] \cup {TRUE} ELSE SetSeen[s]
  <2>1. SetCall[s] = (IF Asking(s) THEN want[s] ELSE NullId) /\ SetSeen[s] = IF Asking(s) THEN seen[s] ELSE {}
    BY DEF SetCall, SetSeen
  <2>2. SetSeen'[s] = IF Asking(s) THEN seen'[s] ELSE {}
    BY <1>2 DEF SetSeen
  <2>3. CASE Asking(s)
    BY <1>5, <2>1, <2>2, <2>3 DEF Asking
  <2>4. CASE ~Asking(s)
    BY <1>1, <2>1, <2>2, <2>4
  <2> QED
    BY <2>3, <2>4
<1>7. SetSeen' = [s \in Threads |-> IF SetCall[s] = id THEN SetSeen[s] \cup {TRUE} ELSE SetSeen[s]]
  BY <1>6 DEF SetSeen
<1>8. reply' = reply
  BY DEF NameNode
<1> QED
  BY <1>3, <1>4, <1>7, <1>8 DEF Set!Add, Set!Observe, SetCall, SetSeen, SetPresent

LEMMA AskingRefines ==
  ASSUME TableInv, NEW t \in Threads, NEW id \in Ids, GetNode(t, id)
  PROVE  Set!Ask(t, id)
<1> USE ConstantFacts
<1>1. /\ heap' = heap /\ reply' = reply /\ heap \in [Ptrs -> Ids \cup {NullId, Free}]
      /\ want' = [want EXCEPT ![t] = id] /\ mutex = None /\ mutex' = t
      /\ op' = [op EXCEPT ![t] = "walk"] /\ want \in [Threads -> Ids \cup {NullId}]
      /\ op \in [Threads -> Ops]
  BY DEF TableInv, TableTypeOK, GetNode, BeginWalk, Go, table
<1>2. /\ \A s \in Threads : ~Asking(s)
      /\ \A s \in Threads : Asking(s)' <=> s = t
  BY <1>1 DEF Asking, Walking
<1>3. SetCall = [s \in Threads |-> NullId] /\ SetSeen = [s \in Threads |-> {}]
  BY <1>2 DEF SetCall, SetSeen
<1>4. SetCall' = [SetCall EXCEPT ![t] = id]
  BY <1>1, <1>2, <1>3 DEF SetCall
<1>5. SetPresent' = SetPresent
  BY <1>1 DEF SetPresent
<1>6. Present(id) <=> id \in SetPresent
  BY DEF Present, SetPresent
<1>7. seen \in [Threads -> SUBSET BOOLEAN]
  BY DEF TableInv, TableTypeOK
<1>8. seen'[t] = {Present(id)}
  BY <1>7, Zenon DEF GetNode, BeginWalk, Present
<1>9. seen'[t] = {(id \in SetPresent)}
  <2>1. CASE Present(id)
    <3>1. seen'[t] = {TRUE}
      BY <1>8, <2>1 DEF Present
    <3>2. {(id \in SetPresent)} = {TRUE}
      BY <1>6, <2>1
    <3> QED
      BY <3>1, <3>2
  <2>2. CASE ~Present(id)
    <3>1. seen'[t] = {FALSE}
      BY <1>8, <2>2 DEF Present
    <3>2. (id \in SetPresent) = FALSE
      BY <1>6, <2>2
    <3> QED
      BY <3>1, <3>2, Zenon
  <2> QED
    BY <2>1, <2>2
<1>10. SetSeen' = [SetSeen EXCEPT ![t] = {(id \in SetPresent)}]
  BY <1>2, <1>3, <1>9 DEF SetSeen
<1> QED
  BY <1>1, <1>3, <1>4, <1>5, <1>10 DEF Set!Ask, SetCall, SetSeen, SetPresent

LEMMA StepRefines == TableInv /\ [TableNext]_tableVars => [Set!SetNext]_(Set!setVars)
<1> SUFFICES ASSUME TableInv, [TableNext]_tableVars
             PROVE  SetQuiet \/ Set!SetNext
  BY SetStutters
<1> USE ConstantFacts
<1>1. CASE UNCHANGED tableVars
  BY <1>1, QuietStep DEF tableVars, Asking, Walking
<1>2. ASSUME NEW p \in Ptrs, CreateNode(p) PROVE SetQuiet
  BY <1>2, QuietStep DEF TableInv, TableTypeOK, CreateNode, Begin, Go, past, Asking, Walking
<1>3. CASE Naming
  <2>1. PICK id \in SessionIds : NameNode(id)
    BY <1>3 DEF Naming
  <2>2. Set!Add(id) /\ id \in Ids
    BY <2>1, NamingRefines
  <2> QED
    BY <2>2 DEF Set!SetNext
<1>4. ASSUME NEW id \in Ids, FindNodeWithID(id) PROVE SetQuiet
  <2>1. \A s \in Threads : s # Network => seen'[s] = seen[s]
    BY <1>4 DEF TableInv, TableTypeOK, FindNodeWithID, BeginWalk
  <2> QED
    BY <1>4, <2>1, QuietStep DEF TableInv, TableTypeOK, MutexInv, FindNodeWithID, BeginWalk, Begin, Go,
                                 table, Asking, Walking, Removing
<1>5. ASSUME NEW t \in Threads, NEW id \in Ids, GetNode(t, id) PROVE Set!SetNext
  BY <1>5, AskingRefines DEF Set!SetNext
<1>6. ASSUME NEW t \in Threads, NEW id \in SessionIds, RemoveNode(t, id) PROVE SetQuiet
  BY <1>6, QuietStep DEF TableInv, TableTypeOK, RemoveNode, Begin, Go, table, past, Asking, Walking
<1>7. ASSUME NEW t \in Threads, Lookup(t) PROVE SetQuiet \/ Set!SetNext
  BY <1>7, LookupRefines DEF Set!SetNext
<1>8. ASSUME NEW t \in Threads, Removal(t) PROVE SetQuiet \/ Set!SetNext
  BY <1>8, RemovalRefines DEF Set!SetNext
<1> QED
  BY <1>1, <1>2, <1>3, <1>4, <1>5, <1>6, <1>7, <1>8 DEF TableNext

(* GetNode answers as a lookup in a set of identifiers would, whatever     *)
(* AddSession, RemoveSession and the walks of Read, Write and Call do      *)
(* meanwhile: the table implements NodeSet.                                *)
THEOREM TableImplementsSet == TableSpec => LookupsRefineSet
<1>1. TableInv /\ [TableNext]_tableVars => [Set!SetNext]_(Set!setVars)
  BY StepRefines
<1> QED
  BY <1>1, SetInitially, TableInvariant, PTL DEF TableSpec, LookupsRefineSet, Set!SetSpec
=============================================================================
