----------------------------- MODULE NodeTable -----------------------------
(***************************************************************************)
(* The table of node pointers while the server runs, on the thread that    *)
(* answers requests and on the one that runs the timer.  AddSession makes  *)
(* a node and names it outside the mutex, RemoveSession frees one and      *)
(* closes the gap pointer by pointer under the mutex, GetNode walks the    *)
(* table under the mutex but hands out the pointer after it, and Read,     *)
(* Write and Call walk with FindNodeWithID and no mutex at all.            *)
(***************************************************************************)
EXTENDS Naturals

CONSTANTS Threads,     \* the threads of the server
          Network,     \* the one that answers requests
          Built,       \* how many nodes start-up has built
          MaxPtrs,     \* addresses malloc gives out (bound)
          SessionIds,  \* identifiers of session nodes (bound)
          Free,        \* what an address holds that no node occupies
          None         \* no thread

ASSUME TableAssumption == /\ Network \in Threads
                          /\ Built \in Nat \ {0} /\ MaxPtrs \in Nat /\ Built <= MaxPtrs
                          /\ SessionIds \subseteq Nat /\ SessionIds \cap (0 .. Built) = {}
                          /\ Free \notin SessionIds \cup (0 .. Built)
                          /\ None \notin Threads

(* Node k of start-up has address k and identifier k; it stays for good.   *)
Permanent == 1 .. Built
Ids == Permanent \cup SessionIds
Ptrs == 1 .. MaxPtrs
NULL == 0
NullId == 0

VARIABLES slots,    \* allNodes
          count,
          heap,     \* for each address the identifier of the node there, or Free
          mutex,    \* the holder of NodeMutex, or None
          op,       \* what each thread is doing
          want,     \* the identifier it looks for or removes
          at,       \* its index i into the table, from 1
          move,     \* its index j while it closes the gap
          ptr,      \* its pointer to a node
          live,     \* identifiers of complete sessions
          unused,   \* identifiers not handed out yet
          seen,     \* history: what was true of want since the lookup began
          reply,    \* whether its last GetNode found the node
          crashed   \* the process has dereferenced NULL

table == <<slots, count, heap>>
local == <<op, want, at, move, ptr>>
ids   == <<live, unused>>
past  == <<seen, reply>>
tableVars == <<slots, count, heap, mutex, op, want, at, move, ptr, live, unused, seen, reply, crashed>>

-----------------------------------------------------------------------------
TableInit ==
  /\ slots = [k \in Ptrs |-> IF k <= Built THEN k ELSE NULL]
  /\ count = Built
  /\ heap = [p \in Ptrs |-> IF p <= Built THEN p ELSE Free]
  /\ mutex = None
  /\ op = [t \in Threads |-> "idle"]
  /\ want = [t \in Threads |-> NullId]
  /\ at = [t \in Threads |-> 0] /\ move = [t \in Threads |-> 0]
  /\ ptr = [t \in Threads |-> NULL]
  /\ live = {} /\ unused = SessionIds
  /\ seen = [t \in Threads |-> {}] /\ reply = [t \in Threads |-> FALSE]
  /\ crashed = FALSE

Begin(t) == ~crashed /\ op[t] = "idle"
Go(t, where) == op' = [op EXCEPT ![t] = where]

(* A call returns, and its local variables are gone.                       *)
Return(t) == /\ Go(t, "idle")
             /\ want' = [want EXCEPT ![t] = NullId]
             /\ at' = [at EXCEPT ![t] = 0] /\ move' = [move EXCEPT ![t] = 0]
             /\ ptr' = [ptr EXCEPT ![t] = NULL]

Walking(t) == op[t] \in {"walk", "compare"}

(* A walk sees that the node it looks for has come or gone.                *)
Observe(id, is) ==
  seen' = [t \in Threads |-> IF Walking(t) /\ want[t] = id THEN seen[t] \cup {is} ELSE seen[t]]

(* Mutant: the walk begins below the last node.                            *)
BeginWalkShort(t, id) ==
  /\ want' = [want EXCEPT ![t] = id]
  /\ at' = [at EXCEPT ![t] = count - 1]
  /\ seen' = [seen EXCEPT ![t] = {\E p \in Ptrs : heap[p] = id}]
  /\ Go(t, "walk")

(* FindNodeWithID begins, in GetNode or on its own.                        *)
BeginWalk(t, id) ==
  /\ want' = [want EXCEPT ![t] = id]
  /\ at' = [at EXCEPT ![t] = count]
  /\ seen' = [seen EXCEPT ![t] = {\E p \in Ptrs : heap[p] = id}]
  /\ Go(t, "walk")

-----------------------------------------------------------------------------
(* CreateAddressSpaceNode: a zeroed node at the end of the table.          *)
CreateNode(p) ==
  /\ Begin(Network) /\ mutex = None /\ unused # {}
  /\ heap[p] = Free
  /\ heap' = [heap EXCEPT ![p] = NullId]
  /\ slots' = [slots EXCEPT ![count + 1] = p]
  /\ count' = count + 1
  /\ ptr' = [ptr EXCEPT ![Network] = p]
  /\ Go(Network, "name")
  /\ UNCHANGED <<mutex, want, at, move, ids, past, crashed>>

(* AddSession copies the next index into the node, without the mutex.      *)
NameNode(id) ==
  /\ ~crashed /\ op[Network] = "name"
  /\ id \in unused /\ \A m \in unused : id <= m
  /\ heap' = [heap EXCEPT ![ptr[Network]] = id]
  /\ live' = live \cup {id} /\ unused' = unused \ {id}
  /\ Observe(id, TRUE)
  /\ Return(Network)
  /\ UNCHANGED <<slots, count, mutex, reply, crashed>>

-----------------------------------------------------------------------------
GetNode(t, id) ==
  /\ Begin(t) /\ mutex = None
  /\ mutex' = t
  /\ BeginWalk(t, id)
  /\ UNCHANGED <<table, move, ptr, ids, reply, crashed>>

FindNodeWithID(id) ==
  /\ Begin(Network)
  /\ BeginWalk(Network, id)
  /\ UNCHANGED <<table, mutex, move, ptr, ids, reply, crashed>>

WalkRead(t) ==
  /\ ~crashed /\ op[t] = "walk" /\ at[t] > 0
  /\ ptr' = [ptr EXCEPT ![t] = slots[at[t]]]
  /\ Go(t, "compare")
  /\ UNCHANGED <<table, mutex, want, at, move, ids, past, crashed>>

(* Mutant: a node without an identifier passes for any.                    *)
MatchesNull(t) == heap[ptr[t]] \in {want[t], NullId, Free}

(* What is read at a freed address may be anything.                        *)
Matches(t) == heap[ptr[t]] \in {want[t], Free}
Differs(t) == heap[ptr[t]] # want[t]

(* The node is found: GetNode unlocks, and the caller uses the pointer.    *)
Found(t) ==
  /\ ~crashed /\ op[t] = "compare" /\ ptr[t] # NULL /\ Matches(t)
  /\ Go(t, IF mutex = t THEN "use" ELSE "useFound")
  /\ mutex' = IF mutex = t THEN None ELSE mutex
  /\ seen' = [seen EXCEPT ![t] = {}]
  /\ reply' = IF mutex = t THEN [reply EXCEPT ![t] = TRUE] ELSE reply
  /\ UNCHANGED <<table, want, at, move, ptr, ids, crashed>>

WalkOn(t) ==
  /\ ~crashed /\ op[t] = "compare" /\ ptr[t] # NULL /\ Differs(t)
  /\ at' = [at EXCEPT ![t] = @ - 1]
  /\ Go(t, "walk")
  /\ UNCHANGED <<table, mutex, want, move, ptr, ids, past, crashed>>

NotFound(t) ==
  /\ ~crashed /\ op[t] = "walk" /\ at[t] = 0
  /\ Return(t)
  /\ mutex' = IF mutex = t THEN None ELSE mutex
  /\ seen' = [seen EXCEPT ![t] = {}]
  /\ reply' = IF mutex = t THEN [reply EXCEPT ![t] = FALSE] ELSE reply
  /\ UNCHANGED <<table, ids, crashed>>

(* The walk has read a slot that RemoveNode has cleared.                   *)
Crash(t) ==
  /\ ~crashed /\ op[t] = "compare" /\ ptr[t] = NULL
  /\ crashed' = TRUE
  /\ UNCHANGED <<table, mutex, local, ids, past>>

(* The service reads the attributes of the node and returns.               *)
Use(t) ==
  /\ ~crashed /\ op[t] \in {"use", "useFound"}
  /\ Return(t)
  /\ UNCHANGED <<table, mutex, ids, past, crashed>>

-----------------------------------------------------------------------------
(* RemoveNode, called for the session that closes or has expired.          *)
RemoveNode(t, id) ==
  /\ Begin(t) /\ mutex = None /\ id \in live
  /\ mutex' = t
  /\ live' = live \ {id}
  /\ want' = [want EXCEPT ![t] = id]
  /\ at' = [at EXCEPT ![t] = 1]
  /\ Go(t, "scan")
  /\ UNCHANGED <<table, move, ptr, unused, past, crashed>>

Here(t) == slots[at[t]]

ScanNext(t) ==
  /\ ~crashed /\ op[t] \in {"scan", "purge"} /\ at[t] <= count
  /\ op[t] = "purge" \/ heap[Here(t)] # want[t]
  /\ at' = [at EXCEPT ![t] = @ + 1]
  /\ UNCHANGED <<table, mutex, op, want, move, ptr, ids, past, crashed>>

DestroyNode(t) ==
  /\ ~crashed /\ op[t] = "scan" /\ at[t] <= count
  /\ heap[Here(t)] = want[t]
  /\ heap' = [heap EXCEPT ![Here(t)] = Free]
  /\ move' = [move EXCEPT ![t] = at[t] + 1]
  /\ Observe(want[t], FALSE)
  /\ Go(t, "shift")
  /\ UNCHANGED <<slots, count, mutex, want, at, ptr, ids, reply, crashed>>

ShiftPointer(t) ==
  /\ ~crashed /\ op[t] = "shift" /\ move[t] <= count
  /\ slots' = [slots EXCEPT ![move[t] - 1] = slots[move[t]]]
  /\ move' = [move EXCEPT ![t] = @ + 1]
  /\ UNCHANGED <<count, heap, mutex, op, want, at, ptr, ids, past, crashed>>

(* Mutant: the last slot keeps its pointer.                                *)
ClearLastNot(t) ==
  /\ ~crashed /\ op[t] = "shift" /\ move[t] > count
  /\ Go(t, "cleared")
  /\ UNCHANGED <<table, mutex, want, at, move, ptr, ids, past, crashed>>

ClearLast(t) ==
  /\ ~crashed /\ op[t] = "shift" /\ move[t] > count
  /\ slots' = [slots EXCEPT ![count] = NULL]
  /\ Go(t, "cleared")
  /\ UNCHANGED <<count, heap, mutex, want, at, move, ptr, ids, past, crashed>>

CountDown(t) ==
  /\ ~crashed /\ op[t] = "cleared"
  /\ count' = count - 1
  /\ Go(t, "purge")
  /\ UNCHANGED <<slots, heap, mutex, want, at, move, ptr, ids, past, crashed>>

(* Mutant: returns without unlocking.                                      *)
RemoveReturnsLocked(t) ==
  /\ ~crashed /\ op[t] \in {"scan", "purge"} /\ at[t] > count
  /\ Return(t)
  /\ UNCHANGED <<table, mutex, ids, past, crashed>>

RemoveReturns(t) ==
  /\ ~crashed /\ op[t] \in {"scan", "purge"} /\ at[t] > count
  /\ mutex' = None
  /\ Return(t)
  /\ UNCHANGED <<table, ids, past, crashed>>

-----------------------------------------------------------------------------
Lookup(t) == WalkRead(t) \/ Found(t) \/ WalkOn(t) \/ NotFound(t) \/ Crash(t) \/ Use(t)

Removal(t) == \/ ScanNext(t) \/ DestroyNode(t) \/ ShiftPointer(t) \/ ClearLast(t)
              \/ CountDown(t) \/ RemoveReturns(t)

Naming == \E id \in SessionIds : NameNode(id)

TableNext ==
  \/ \E p \in Ptrs : CreateNode(p)
  \/ Naming
  \/ \E id \in Ids : FindNodeWithID(id)
  \/ \E t \in Threads : \/ \E id \in Ids : GetNode(t, id)
                        \/ \E id \in SessionIds : RemoveNode(t, id)
                        \/ Lookup(t) \/ Removal(t)

TableSpec == TableInit /\ [][TableNext]_tableVars

(* A thread that runs goes on with the call it is in.                      *)
LiveTableSpec == /\ TableSpec
                 /\ WF_tableVars(Naming)
                 /\ \A t \in Threads : WF_tableVars(Lookup(t) \/ Removal(t))

-----------------------------------------------------------------------------
Ops == {"idle", "name", "walk", "compare", "use", "useFound", "scan", "shift", "cleared", "purge"}

TableTypeOK ==
  /\ slots \in [Ptrs -> Ptrs \cup {NULL}]
  /\ count \in 0 .. MaxPtrs
  /\ heap \in [Ptrs -> Ids \cup {NullId, Free}]
  /\ mutex \in Threads \cup {None}
  /\ op \in [Threads -> Ops]
  /\ want \in [Threads -> Ids \cup {NullId}]
  /\ at \in [Threads -> 0 .. MaxPtrs + 1] /\ move \in [Threads -> 0 .. MaxPtrs + 1]
  /\ ptr \in [Threads -> Ptrs \cup {NULL}]
  /\ live \subseteq SessionIds /\ unused \subseteq SessionIds
  /\ seen \in [Threads -> SUBSET BOOLEAN] /\ reply \in [Threads -> BOOLEAN]
  /\ crashed \in BOOLEAN

(* When no thread holds NodeMutex, the table lists the nodes that are      *)
(* allocated, each of them once, and nothing is left behind its end:       *)
(* RemoveNode and CreateNode neither lose, free nor duplicate another node.*)
TableSound ==
  mutex = None =>
    /\ \A k \in Ptrs : (k <= count <=> slots[k] # NULL)
    /\ \A k, m \in 1 .. count : slots[k] = slots[m] => k = m
    /\ {slots[k] : k \in 1 .. count} = {p \in Ptrs : heap[p] # Free}

(* A walk reports that a node is missing only when it was missing at some  *)
(* moment of the walk, even without the mutex and while RemoveNode moves   *)
(* the pointers that are being read: both go towards the start.            *)
NeverMissed == \A t \in Threads : op[t] = "walk" /\ at[t] = 0 => FALSE \in seen[t]

(* FindNodeWithID is called by GetNode.                                    *)
Asking(t) == mutex = t /\ Walking(t)

(* GetNode answers as a lookup in a set would.                             *)
Set == INSTANCE NodeSet WITH
         Threads <- Threads, Ids <- Ids, Initial <- Permanent, None <- NullId,
         present <- {heap[p] : p \in Ptrs} \cap Ids,
         call <- [t \in Threads |-> IF Asking(t) THEN want[t] ELSE NullId],
         seen <- [t \in Threads |-> IF Asking(t) THEN seen[t] ELSE {}],
         reply <- reply

LookupsRefineSet == Set!SetSpec

(* A thread that has NodeMutex gives it back, and a walk without it ends,  *)
(* unless the process has crashed.                                         *)
CallsEnd ==
  \A t \in Threads :
    /\ mutex = t ~> mutex # t \/ crashed
    /\ op[t] = "compare" ~> op[t] \in {"use", "useFound", "idle"} \/ crashed

(* What GetNode has returned is still that node when the caller reads it,  *)
(* after the mutex was given back, unless it was the node of a session     *)
(* that has ended since: nothing else is freed or takes its place.         *)
NodeInUseKept ==
  \A t \in Threads : op[t] = "use" /\ want[t] \in Permanent \cup live => heap[ptr[t]] = want[t]

-----------------------------------------------------------------------------
(* Statements made in the source that the code does not keep.              *)

(* AddressSpace.c:719 locks "to prevent a deletion operation from messing  *)
(* with this": the node GetNode returned is there when its caller reads it.*)
NodeInUseLives ==
  \A t \in Threads : op[t] = "use" => heap[ptr[t]] # Free

(* AddressSpace.c:344 leaves it to the callers of DestroyNode to "ensure   *)
(* that synchronous access is used": no one else is reading the node.      *)
WalkersReadNodes ==
  \A t \in Threads : op[t] = "compare" => ptr[t] # NULL /\ heap[ptr[t]] # Free
=============================================================================
