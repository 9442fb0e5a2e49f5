-------------------------- MODULE AssociationProofs --------------------------
(***************************************************************************)
(* The table of certificates for any number of secure channels: that the   *)
(* searches outside AssociationMutex never spoil the array, whatever the   *)
(* two threads do, and that until a channel expires each open channel has  *)
(* its one link.                                                           *)
(***************************************************************************)
EXTENDS Association, FiniteSetTheorems, TLAPS

(* The array.  While a removal closes the gap, slot move - 1 still holds   *)
(* the pointer that was freed or has already been copied down.             *)
Gap(k) == \E t \in Threads : op[t] = "shift" /\ k = move[t] - 1

Listed == {k \in 1 .. count : ~Gap(k)}

MutexInv == \A t \in Threads : op[t] = "shift" <=> mutex = t

IndexInv ==
  \A t \in Threads :
    /\ op[t] = "idle" <=> call[t].kind = "none"
    /\ op[t] = "scan" => at[t] >= 1
    /\ op[t] \in {"copy", "lock"} => at[t] \in Ptrs
    /\ op[t] = "shift" => move[t] >= 2
    /\ op[t] # "shift" => move[t] = 0

ListInv ==
  /\ \A k \in Ptrs : k > count => slots[k] = NULL
  /\ \A k \in Listed : slots[k] # NULL /\ heap[slots[k]] # Free
  /\ \A k, m \in Listed : slots[k] = slots[m] => k = m
  /\ \A p \in Ptrs : heap[p] # Free => \E k \in Listed : slots[k] = p

ArrayInv == AssocTypeOK /\ MutexInv /\ IndexInv /\ ListInv

(* The links.  Until the first channel expires the timer thread makes no   *)
(* call, and the table follows the network thread's.                       *)
NoneExpired == \A c \in Channels : chan[c] # "expired"

Linked(c) == \E p \in Ptrs : heap[p] # Free /\ heap[p].channel = c

LinkInv ==
  /\ \A p, q \in Ptrs : heap[p] # Free /\ heap[q] # Free /\ heap[p].channel = heap[q].channel => p = q
  /\ \A p \in Ptrs : heap[p] # Free /\ heap[p].channel \in Channels
                       => heap[p].cert \in {heap[p].channel, Empty}
  /\ \A c \in Channels : Linked(c) =>
       chan[c] = "open" \/ (call[Network].channel = c /\ call[Network].kind = "unassociate")
  /\ \A c \in Channels : chan[c] = "open" =>
       Linked(c) \/ (call[Network].channel = c /\ call[Network].kind = "associate")

CallInv ==
  LET c == call[Network].channel
      kind == call[Network].kind
  IN /\ kind \in {"associate", "get"} /\ c \in Channels => chan[c] = "open"
     /\ kind = "get" => c \in Channels
     /\ kind = "unassociate" /\ c \in Channels => chan[c] # "open"
     /\ kind = "associate" /\ c \in Channels => call[Network].cert \in {c, Empty}

PlaceInv ==
  LET c == call[Network].channel
      kind == call[Network].kind
  IN /\ op[Network] = "scan" => \A k \in 1 .. count : k < at[Network] => heap[slots[k]].channel # c
     /\ op[Network] \in {"copy", "lock"} => at[Network] <= count /\ heap[slots[at[Network]]].channel = c
     /\ op[Network] = "copy" => kind = "associate"
     /\ op[Network] = "lock" => kind = "unassociate"
     /\ op[Network] = "append" => kind = "associate" /\ ~Linked(c)
     /\ op[Network] = "shift" => kind = "unassociate" /\ ~Linked(c)
     /\ op[Network] = "use" => kind = "get" /\ ptr[Network] # NULL /\ heap[ptr[Network]] # Free

QuietInv == /\ op[Timer] = "idle" /\ ~wild /\ ~crashed
            /\ LinkInv /\ CallInv /\ PlaceInv

AssocInv == ArrayInv /\ (NoneExpired => QuietInv)

-----------------------------------------------------------------------------
LEMMA ConstantFacts ==
  /\ MaxChannels \in Nat /\ MaxChannels >= 1
  /\ Network \in Threads /\ Timer \in Threads /\ Network # Timer /\ None \notin Threads
  /\ \A t \in Threads : t = Network \/ t = Timer
  /\ NULL \notin Ptrs /\ NULL = 0 /\ Ptrs = 1 .. MaxChannels + 1
  /\ Channels = 1 .. MaxChannels /\ InvalidId = 0 /\ InvalidId \notin Channels
  /\ Ids = 0 .. MaxChannels /\ Certificates = 0 .. MaxChannels + 1
  /\ Empty \in Certificates /\ Refused \in Certificates
  /\ Free \notin Associations
BY AssociationAssumption
   DEF Threads, NULL, Ptrs, Channels, InvalidId, Ids, Certificates, Empty, Refused, Associations

LEMMA Branches ==
  ASSUME NEW t
  PROVE  /\ call[t].kind = "associate" => Found(t) = "copy" /\ NotFound(t) = "append"
         /\ call[t].kind = "get" => Found(t) = "use" /\ NotFound(t) = "use"
         /\ call[t].kind = "unassociate" => Found(t) = "lock" /\ NotFound(t) = "idle"
BY DEF Found, NotFound

LEMMA InitArray == AssocInit => ArrayInv
<1> SUFFICES ASSUME AssocInit PROVE ArrayInv
  OBVIOUS
<1> USE ConstantFacts DEF AssocInit
<1>1. AssocTypeOK
  <2>1. wild \in BOOLEAN /\ crashed \in BOOLEAN
    BY Zenon
  <2>2. NoCall \in Calls
    BY DEF NoCall, Calls
  <2> QED
    BY <2>1, <2>2 DEF AssocTypeOK
<1>2. MutexInv /\ IndexInv
  BY DEF MutexInv, IndexInv, NoCall
<1>3. ListInv
  BY DEF ListInv, Listed
<1> QED
  BY <1>1, <1>2, <1>3 DEF ArrayInv

(* A step that frees and allocates nothing, and leaves the array and the   *)
(* removals alone, leaves its shape.                                       *)
LEMMA SameArray ==
  ASSUME ArrayInv, UNCHANGED <<slots, count, mutex>>, AssocTypeOK', IndexInv',
         \A p \in Ptrs : heap'[p] # Free <=> heap[p] # Free,
         \A t \in Threads : /\ op'[t] = "shift" <=> op[t] = "shift"
                            /\ op[t] = "shift" => move'[t] = move[t]
  PROVE  ArrayInv'
<1>1. \A k : Gap(k)' <=> Gap(k)
  BY DEF Gap
<1>2. Listed' = Listed
  BY <1>1 DEF Listed
<1>3. \A k \in Listed : slots[k] \in Ptrs
  <2>1. \A k \in 1 .. count : k \in Ptrs
    BY ConstantFacts DEF ArrayInv, AssocTypeOK
  <2>2. \A k \in Ptrs : slots[k] \in Ptrs \cup {NULL}
    BY DEF ArrayInv, AssocTypeOK
  <2>3. \A k \in Listed : k \in 1 .. count /\ slots[k] # NULL
    BY DEF ArrayInv, ListInv, Listed
  <2> QED
    BY <2>1, <2>2, <2>3
<1>4. ListInv' /\ MutexInv'
  BY <1>2, <1>3 DEF ArrayInv, ListInv, MutexInv
<1> QED
  BY <1>4 DEF ArrayInv

LEMMA BeginArray ==
  ASSUME ArrayInv, NEW t \in Threads, NEW kind \in {"associate", "get", "unassociate"},
         NEW id \in Ids, NEW cert \in Certificates, Begin(t, kind, id, cert),
         chan' \in [Channels -> {"unused", "open", "closed", "expired"}]
  PROVE  ArrayInv'
<1> USE ConstantFacts
<1> DEFINE new == [kind |-> kind, channel |-> id, cert |-> cert]
<1>1. new \in Calls /\ new.kind # "none"
  BY DEF Calls
<1>2. /\ UNCHANGED <<slots, count, heap, mutex, move, ptr, wild, crashed>>
      /\ op' = [op EXCEPT ![t] = "scan"] /\ call' = [call EXCEPT ![t] = new]
      /\ at' = [at EXCEPT ![t] = 1] /\ op[t] = "idle"
  BY DEF Begin, Goto, table
<1> HIDE DEF new
<1>3. AssocTypeOK'
  <2>1. wild' \in BOOLEAN /\ crashed' \in BOOLEAN
    BY <1>2 DEF ArrayInv, AssocTypeOK
  <2>2. call' \in [Threads -> Calls]
    BY <1>1, <1>2 DEF ArrayInv, AssocTypeOK
  <2>3. at' \in [Threads -> 0 .. MaxChannels + 2]
    BY <1>2 DEF ArrayInv, AssocTypeOK
  <2> QED
    BY <1>2, <2>1, <2>2, <2>3 DEF ArrayInv, AssocTypeOK
<1>4. IndexInv'
  <2>1. \A s \in Threads : /\ op'[s] = IF s = t THEN "scan" ELSE op[s]
                           /\ at'[s] = IF s = t THEN 1 ELSE at[s]
                           /\ call'[s] = IF s = t THEN new ELSE call[s]
    BY <1>2 DEF ArrayInv, AssocTypeOK
  <2>2. IndexInv /\ move' = move
    BY <1>2 DEF ArrayInv
  <2> QED
    BY <1>1, <1>2, <2>1, <2>2 DEF IndexInv
<1>5. \A s \in Threads : op'[s] = "shift" <=> op[s] = "shift"
  BY <1>2 DEF ArrayInv, AssocTypeOK
<1> QED
  BY <1>2, <1>3, <1>4, <1>5, SameArray

LEMMA CrashArray ==
  ASSUME ArrayInv, Crash, UNCHANGED chan
  PROVE  ArrayInv'
<1>1. crashed' \in BOOLEAN
  BY Zenon DEF Crash
<1>2. UNCHANGED <<slots, count, heap, mutex, op, call, at, move, ptr, chan, wild>>
  BY DEF Crash, table, local
<1>3. AssocTypeOK'
  BY <1>1, <1>2 DEF ArrayInv, AssocTypeOK
<1>4. IndexInv'
  BY <1>2 DEF ArrayInv, IndexInv
<1> QED
  BY <1>2, <1>3, <1>4, SameArray

LEMMA ReportArray ==
  ASSUME ArrayInv, Report
  PROVE  ArrayInv'
<1> USE ConstantFacts
<1>1. ASSUME NEW c \in Channels, NEW state \in {"unused", "open", "closed", "expired"}
      PROVE  /\ Becomes(c, state) => chan' \in [Channels -> {"unused", "open", "closed", "expired"}]
             /\ UNCHANGED chan => chan' \in [Channels -> {"unused", "open", "closed", "expired"}]
             /\ c \in Ids /\ c \in Certificates
  BY DEF ArrayInv, AssocTypeOK, Becomes
<1>2. chan \in [Channels -> {"unused", "open", "closed", "expired"}]
  BY DEF ArrayInv, AssocTypeOK
<1>3. ASSUME NEW c \in Channels, OpenChannel(c) PROVE ArrayInv'
  BY <1>1, <1>3, BeginArray DEF OpenChannel
<1>4. ASSUME NEW c \in Channels, RenewChannel(c) PROVE ArrayInv'
  BY <1>1, <1>4, BeginArray DEF RenewChannel
<1>5. ASSUME NEW c \in Channels, RefuseRenewal(c) PROVE ArrayInv'
  BY <1>1, <1>5, BeginArray DEF RefuseRenewal
<1>6. ASSUME NEW c \in Channels, CloseChannel(c) PROVE ArrayInv'
  BY <1>1, <1>6, BeginArray DEF CloseChannel
<1>7. ASSUME NEW c \in Channels, LookUp(c) PROVE ArrayInv'
  BY <1>1, <1>7, BeginArray DEF LookUp
<1>8. ASSUME NEW c \in Channels, Expire(c) PROVE ArrayInv'
  BY <1>1, <1>8, BeginArray DEF Expire
<1>9. ASSUME NEW c \in Channels, ExpireInUse(c) PROVE ArrayInv'
  <2>1. UNCHANGED <<slots, count, heap, mutex, op, call, at, move, ptr, wild, crashed>>
    BY <1>9 DEF ExpireInUse, table, local
  <2>2. chan' \in [Channels -> {"unused", "open", "closed", "expired"}]
    BY <1>1, <1>9 DEF ExpireInUse
  <2>3. AssocTypeOK'
    BY <2>1, <2>2 DEF ArrayInv, AssocTypeOK
  <2>4. IndexInv'
    BY <2>1 DEF ArrayInv, IndexInv
  <2> QED
    BY <2>1, <2>3, <2>4, SameArray
<1>10. CASE RefuseOpening
  BY <1>2, <1>10, BeginArray DEF RefuseOpening
<1>11. CASE DecoderError
  BY <1>2, <1>11, BeginArray DEF DecoderError
<1> QED
  BY <1>3, <1>4, <1>5, <1>6, <1>7, <1>8, <1>9, <1>10, <1>11 DEF Report

(* A thread that returns, having left the array alone.                     *)
LEMMA ReturnArray ==
  ASSUME ArrayInv, NEW t \in Threads, op[t] # "shift", Return(t),
         UNCHANGED <<slots, count, mutex, chan>>,
         heap' \in [Ptrs -> Associations \cup {Free}],
         \A p \in Ptrs : heap'[p] # Free <=> heap[p] # Free,
         wild' \in BOOLEAN, crashed' \in BOOLEAN
  PROVE  ArrayInv'
<1> USE ConstantFacts
<1>1. NoCall \in Calls /\ NoCall.kind = "none"
  BY DEF NoCall, Calls
<1>2. AssocTypeOK'
  <2>1. /\ op' \in [Threads -> {"idle", "scan", "copy", "append", "lock", "shift", "use"}]
        /\ call' \in [Threads -> Calls] /\ ptr' \in [Threads -> Ptrs \cup {NULL}]
    BY <1>1 DEF ArrayInv, AssocTypeOK, Return, Goto
  <2>2. at' \in [Threads -> 0 .. MaxChannels + 2]
    BY DEF ArrayInv, AssocTypeOK, Return
  <2>3. move' \in [Threads -> 0 .. MaxChannels + 2] /\ \A s \in Threads : move'[s] <= count + 1
    BY DEF ArrayInv, AssocTypeOK, Return
  <2> QED
    BY <2>1, <2>2, <2>3 DEF ArrayInv, AssocTypeOK
<1>3. IndexInv'
  <2>1. \A s \in Threads : /\ op'[s] = IF s = t THEN "idle" ELSE op[s]
                           /\ call'[s] = IF s = t THEN NoCall ELSE call[s]
                           /\ at'[s] = IF s = t THEN 0 ELSE at[s]
                           /\ move'[s] = IF s = t THEN 0 ELSE move[s]
    BY DEF ArrayInv, AssocTypeOK, Return, Goto
  <2>2. IndexInv
    BY DEF ArrayInv
  <2> QED
    BY <1>1, <2>1, <2>2 DEF IndexInv
<1>4. \A s \in Threads : /\ op'[s] = IF s = t THEN "idle" ELSE op[s]
                         /\ move'[s] = IF s = t THEN 0 ELSE move[s]
  BY DEF ArrayInv, AssocTypeOK, Return, Goto
<1>5. \A s \in Threads : /\ op'[s] = "shift" <=> op[s] = "shift"
                         /\ op[s] = "shift" => move'[s] = move[s]
  BY <1>4
<1> QED
  BY <1>2, <1>3, <1>5, SameArray

LEMMA ScanArray ==
  ASSUME ArrayInv, NEW t \in Threads, Scan(t)
  PROVE  ArrayInv'
<1> USE ConstantFacts
<1> DEFINE p == slots[at[t]]
<1>1. CASE Crash /\ UNCHANGED chan
  BY <1>1, CrashArray
<1>2. CASE ~Crash
  <2>1. /\ UNCHANGED <<slots, count, heap, mutex, call, move, crashed, chan>>
        /\ wild' = (wild \/ heap[p] = Free)
        /\ op[t] = "scan" /\ at[t] <= count /\ p # NULL
    BY <1>2 DEF Scan, table
  <2>2. wild' \in BOOLEAN
    BY <2>1, Zenon
  <2>3. at[t] \in Ptrs /\ p \in Ptrs
    BY <2>1 DEF ArrayInv, AssocTypeOK, IndexInv
  <2>4. \/ /\ op' = [op EXCEPT ![t] = Found(t)] /\ at' = at
           /\ ptr' = [ptr EXCEPT ![t] = IF call[t].kind = "get" THEN p ELSE NULL]
        \/ op' = op /\ ptr' = ptr /\ at' = [at EXCEPT ![t] = @ + 1]
    BY <1>2 DEF Scan, Goto
  <2>5. Found(t) \in {"copy", "use", "lock"}
    BY <2>1, Branches DEF ArrayInv, AssocTypeOK, IndexInv, Calls
  <2> HIDE DEF p
  <2>6. AssocTypeOK'
    <3>1. at' \in [Threads -> 0 .. MaxChannels + 2]
      <4>1. at \in [Threads -> 0 .. MaxChannels + 2] /\ at[t] + 1 \in 0 .. MaxChannels + 2
        BY <2>3 DEF ArrayInv, AssocTypeOK
      <4>2. at' = at \/ at' = [at EXCEPT ![t] = at[t] + 1]
        BY <2>4
      <4> QED
        BY <4>1, <4>2
    <3>2. ptr' \in [Threads -> Ptrs \cup {NULL}]
      BY <2>3, <2>4 DEF ArrayInv, AssocTypeOK
    <3>3. op' \in [Threads -> {"idle", "scan", "copy", "append", "lock", "shift", "use"}]
      BY <2>4, <2>5 DEF ArrayInv, AssocTypeOK
    <3>4. UNCHANGED <<slots, count, heap, mutex, call, move, crashed, chan>>
      BY <2>1
    <3> QED
      BY <2>2, <3>1, <3>2, <3>3, <3>4 DEF ArrayInv, AssocTypeOK
  <2>7. IndexInv'
    <3>1. /\ op \in [Threads -> {"idle", "scan", "copy", "append", "lock", "shift", "use"}]
          /\ at \in [Threads -> 0 .. MaxChannels + 2]
      BY DEF ArrayInv, AssocTypeOK
    <3>2. IndexInv
      BY DEF ArrayInv
    <3>3. \A s \in Threads \ {t} : op'[s] = op[s] /\ at'[s] = at[s]
      BY <2>4, <3>1
    <3>4. \/ op'[t] = Found(t) /\ at'[t] = at[t]
          \/ op'[t] = "scan" /\ at'[t] = at[t] + 1
      BY <2>1, <2>4, <3>1
    <3>5. /\ op'[t] \notin {"idle", "shift"}
          /\ op'[t] = "scan" => at'[t] >= 1
          /\ op'[t] \in {"copy", "lock"} => at'[t] \in Ptrs
      BY <2>3, <2>5, <3>4
    <3>6. call[t].kind # "none" /\ move[t] = 0
      BY <2>1, <3>2 DEF IndexInv
    <3> QED
      BY <2>1, <3>2, <3>3, <3>5, <3>6 DEF IndexInv
  <2>8. \A s \in Threads : op'[s] = "shift" <=> op[s] = "shift"
    BY <2>1, <2>4, <2>5 DEF ArrayInv, AssocTypeOK
  <2> QED
    BY <2>1, <2>6, <2>7, <2>8, SameArray
<1> QED
  BY <1>1, <1>2 DEF Scan

LEMMA ScanEndsArray ==
  ASSUME ArrayInv, NEW t \in Threads, ScanEnds(t)
  PROVE  ArrayInv'
<1> USE ConstantFacts
<1>1. /\ UNCHANGED <<slots, count, heap, mutex, chan, wild, crashed>> /\ op[t] = "scan"
      /\ wild \in BOOLEAN /\ crashed \in BOOLEAN
  BY DEF ScanEnds, table, ArrayInv, AssocTypeOK
<1>2. CASE Return(t)
  BY <1>1, <1>2, ReturnArray DEF ArrayInv, AssocTypeOK
<1>3. CASE op' = [op EXCEPT ![t] = NotFound(t)] /\ UNCHANGED <<call, at, move, ptr>> /\ NotFound(t) # "idle"
  <2>1. NotFound(t) \in {"append", "use"}
    BY <1>1, <1>3, Branches DEF ArrayInv, AssocTypeOK, IndexInv, Calls
  <2>2. AssocTypeOK' /\ IndexInv'
    BY <1>1, <1>3, <2>1 DEF ArrayInv, AssocTypeOK, IndexInv
  <2> QED
    BY <1>1, <1>3, <2>1, <2>2, SameArray DEF ArrayInv, AssocTypeOK
<1> QED
  BY <1>2, <1>3 DEF ScanEnds, Goto, local

LEMMA UseArray ==
  ASSUME ArrayInv, NEW t \in Threads, UseCertificate(t)
  PROVE  ArrayInv'
<1>1. CASE Crash /\ UNCHANGED chan
  BY <1>1, CrashArray
<1>2. CASE ~Crash
  <2>1. /\ UNCHANGED <<slots, count, heap, mutex, chan, crashed>> /\ op[t] = "use" /\ Return(t)
        /\ wild' = (wild \/ heap[ptr[t]] = Free) /\ crashed \in BOOLEAN
    BY <1>2 DEF UseCertificate, table, ArrayInv, AssocTypeOK
  <2>2. wild' \in BOOLEAN
    BY <2>1, Zenon
  <2> QED
    BY <2>1, <2>2, ReturnArray DEF ArrayInv, AssocTypeOK
<1> QED
  BY <1>1, <1>2 DEF UseCertificate

(* A link that is rewritten stays a link, and nothing else moves.          *)
LEMMA CopyHeap ==
  ASSUME ArrayInv, NEW t \in Threads, NEW p \in Ptrs,
         heap' = IF heap[p] = Free THEN heap ELSE [heap EXCEPT ![p].cert = call[t].cert]
  PROVE  /\ heap' \in [Ptrs -> Associations \cup {Free}]
         /\ \A q \in Ptrs : heap'[q] # Free <=> heap[q] # Free
         /\ \A q \in Ptrs : heap[q] # Free => heap'[q].channel = heap[q].channel
         /\ \A q \in Ptrs : heap[q] # Free => heap'[q].cert = heap[q].cert \/ heap'[q].cert = call[t].cert
         /\ \A q \in Ptrs : q # p => heap'[q] = heap[q]
<1> USE ConstantFacts
<1>1. heap \in [Ptrs -> Associations \cup {Free}] /\ call[t].cert \in Certificates
  BY DEF ArrayInv, AssocTypeOK, Calls
<1>2. CASE heap[p] = Free
  BY <1>1, <1>2
<1>3. CASE heap[p] # Free
  <2> DEFINE new == [heap[p] EXCEPT !.cert = call[t].cert]
  <2>1. new \in Associations /\ new.channel = heap[p].channel /\ new.cert = call[t].cert
    BY <1>1, <1>3 DEF Associations
  <2>2. heap' = [heap EXCEPT ![p] = new]
    BY <1>3
  <2> HIDE DEF new
  <2> QED
    BY <1>1, <1>3, <2>1, <2>2
<1> QED
  BY <1>2, <1>3

LEMMA CopyArray ==
  ASSUME ArrayInv, NEW t \in Threads, Copy(t)
  PROVE  ArrayInv'
<1> USE ConstantFacts
<1>1. CASE Crash /\ UNCHANGED chan
  BY <1>1, CrashArray
<1>2. CASE ~Crash
  <2> DEFINE p == slots[at[t]]
  <2>1. /\ UNCHANGED <<slots, count, mutex, chan, crashed>> /\ op[t] = "copy" /\ Return(t)
        /\ heap' = IF heap[p] = Free THEN heap ELSE [heap EXCEPT ![p].cert = call[t].cert]
        /\ p # NULL
    BY <1>2 DEF Copy
  <2>2. wild' \in BOOLEAN /\ crashed' \in BOOLEAN
    <3>1. wild' = (wild \/ heap[p] = Free)
      BY <1>2 DEF Copy
    <3> QED
      BY <2>1, <3>1, Zenon DEF ArrayInv, AssocTypeOK
  <2>3. p \in Ptrs
    BY <2>1 DEF ArrayInv, AssocTypeOK, IndexInv
  <2> HIDE DEF p
  <2>4. /\ heap' \in [Ptrs -> Associations \cup {Free}]
        /\ \A q \in Ptrs : heap'[q] # Free <=> heap[q] # Free
    BY <2>1, <2>3, CopyHeap
  <2>5. UNCHANGED <<slots, count, mutex, chan>> /\ op[t] # "shift"
    BY <2>1
  <2> QED
    BY <2>1, <2>2, <2>4, <2>5, ReturnArray
<1> QED
  BY <1>1, <1>2 DEF Copy

-----------------------------------------------------------------------------
(* While no removal is at work the array has no gap.                       *)
LEMMA NoGap ==
  ASSUME ArrayInv, mutex = None
  PROVE  Listed = 1 .. count
BY ConstantFacts DEF ArrayInv, MutexInv, Listed, Gap

(* An address that malloc can give out leaves a slot for it.               *)
LEMMA RoomForOne ==
  ASSUME ArrayInv, mutex = None, NEW p \in Ptrs, heap[p] = Free
  PROVE  count + 1 \in Ptrs
<1> USE ConstantFacts
<1>1. Listed = 1 .. count
  BY NoGap
<1>2. count \in 0 .. MaxChannels + 1
  BY DEF ArrayInv, AssocTypeOK
<1> SUFFICES ASSUME count = MaxChannels + 1 PROVE FALSE
  BY <1>2
<1> DEFINE f == [k \in 1 .. count |-> slots[k]]
           S == 1 .. count
           T == Ptrs \ {p}
<1>3. f \in [S -> T]
  BY <1>1, <1>2 DEF ArrayInv, AssocTypeOK, ListInv
<1>4. IsFiniteSet(S) /\ Cardinality(S) = MaxChannels + 1
  BY FS_Interval
<1>5. IsFiniteSet(T) /\ Cardinality(T) = Cardinality(S) - 1
  <2>1. S = Ptrs
    OBVIOUS
  <2> HIDE DEF S
  <2> QED
    BY <1>4, <2>1, FS_RemoveElement
<1>6. \A k \in S : f[k] = slots[k]
  OBVIOUS
<1> HIDE DEF f, S, T
<1>7. Cardinality(T) < Cardinality(S)
  BY <1>4, <1>5
<1>8. \E j, k \in S : j # k /\ f[j] = f[k]
  BY <1>3, <1>4, <1>5, <1>7, FS_PigeonHole
<1> QED
  BY <1>1, <1>6, <1>8 DEF ArrayInv, ListInv, S

(* What Append does to the array.                                          *)
LEMMA AppendFacts ==
  ASSUME ArrayInv, NEW t \in Threads, Append(t)
  PROVE  \E p \in Ptrs :
           /\ heap[p] = Free /\ count + 1 \in Ptrs
           /\ heap' = [heap EXCEPT ![p] = [channel |-> call[t].channel, cert |-> call[t].cert]]
           /\ slots' = [slots EXCEPT ![count + 1] = p]
           /\ [channel |-> call[t].channel, cert |-> call[t].cert] \in Associations
<1>1. call[t].channel \in Ids /\ call[t].cert \in Certificates
  BY DEF ArrayInv, AssocTypeOK, Calls
<1>2. [channel |-> call[t].channel, cert |-> call[t].cert] \in Associations
  BY <1>1 DEF Associations
<1> QED
  BY <1>2, RoomForOne DEF Append

LEMMA AppendArray ==
  ASSUME ArrayInv, NEW t \in Threads, Append(t)
  PROVE  ArrayInv'
<1> USE ConstantFacts
<1> DEFINE new == [channel |-> call[t].channel, cert |-> call[t].cert]
<1>1. PICK p \in Ptrs :
           /\ heap[p] = Free /\ count + 1 \in Ptrs
           /\ heap' = [heap EXCEPT ![p] = new]
           /\ slots' = [slots EXCEPT ![count + 1] = p]
           /\ new \in Associations
  BY AppendFacts
<1> HIDE DEF new
<1>2. /\ count' = count + 1 /\ Return(t) /\ UNCHANGED <<mutex, chan, wild, crashed>>
      /\ op[t] = "append" /\ mutex = None
  BY DEF Append
<1>3. NoCall \in Calls /\ NoCall.kind = "none"
  BY DEF NoCall, Calls
<1>4. AssocTypeOK'
  <2>1. heap' \in [Ptrs -> Associations \cup {Free}] /\ slots' \in [Ptrs -> Ptrs \cup {NULL}]
    BY <1>1 DEF ArrayInv, AssocTypeOK
  <2>2. count' \in 0 .. MaxChannels + 1 /\ count \in Nat
    BY <1>1, <1>2 DEF ArrayInv, AssocTypeOK
  <2>3. move' \in [Threads -> 0 .. MaxChannels + 2] /\ \A s \in Threads : move'[s] <= count' + 1
    BY <1>2, <2>2 DEF ArrayInv, AssocTypeOK, Return
  <2>4. wild' \in BOOLEAN /\ crashed' \in BOOLEAN
    BY <1>2 DEF ArrayInv, AssocTypeOK
  <2> QED
    BY <1>2, <1>3, <2>1, <2>2, <2>3, <2>4 DEF ArrayInv, AssocTypeOK, Return, Goto
<1>5. MutexInv'
  BY <1>2 DEF ArrayInv, AssocTypeOK, MutexInv, Return, Goto
<1>6. IndexInv'
  BY <1>2, <1>3 DEF ArrayInv, AssocTypeOK, IndexInv, Return, Goto
<1>7. Listed = 1 .. count /\ Listed' = Listed \cup {count + 1}
  <2>1. \A s \in Threads : op[s] # "shift" /\ op'[s] # "shift"
    BY <1>2, <1>5 DEF ArrayInv, MutexInv
  <2>2. Listed = 1 .. count /\ Listed' = 1 .. count'
    BY <2>1 DEF Listed, Gap
  <2> QED
    BY <1>2, <2>2 DEF ArrayInv, AssocTypeOK
<1>8. ListInv'
  <2>1. \A k \in Ptrs : k > count' => slots'[k] = NULL
    BY <1>1, <1>2 DEF ArrayInv, AssocTypeOK, ListInv
  <2>2. \A k \in Listed : slots'[k] = slots[k] /\ slots[k] # p /\ slots[k] \in Ptrs
    BY <1>1, <1>7 DEF ArrayInv, AssocTypeOK, ListInv
  <2>3. slots'[count + 1] = p /\ heap'[p] # Free
    BY <1>1 DEF ArrayInv, AssocTypeOK
  <2>4. \A q \in Ptrs : q # p => heap'[q] = heap[q]
    BY <1>1 DEF ArrayInv, AssocTypeOK
  <2>5. \A k \in Listed' : slots'[k] # NULL /\ heap'[slots'[k]] # Free
    BY <1>7, <2>2, <2>3, <2>4 DEF ArrayInv, ListInv
  <2>6. \A k, m \in Listed' : slots'[k] = slots'[m] => k = m
    BY <1>7, <2>2, <2>3 DEF ArrayInv, ListInv
  <2>7. ASSUME NEW q \in Ptrs, heap'[q] # Free PROVE \E k \in Listed' : slots'[k] = q
    <3>1. CASE q = p
      BY <1>7, <2>3, <3>1
    <3>2. CASE q # p
      <4>1. PICK k \in Listed : slots[k] = q
        BY <2>4, <2>7, <3>2 DEF ArrayInv, ListInv
      <4> QED
        BY <1>7, <2>2, <4>1
    <3> QED
      BY <3>1, <3>2
  <2> QED
    BY <2>1, <2>5, <2>6, <2>7 DEF ListInv
<1> QED
  BY <1>4, <1>5, <1>6, <1>8 DEF ArrayInv

(* What Release does when it does not crash: whatever its index has become *)
(* since the search, it lies below AssociatedCount and what it frees is an *)
(* association of the table.                                               *)
LEMMA ReleaseFacts ==
  ASSUME ArrayInv, NEW t \in Threads, Release(t), ~Crash
  PROVE  /\ at[t] \in Listed /\ Listed = 1 .. count /\ slots[at[t]] \in Ptrs /\ heap[slots[at[t]]] # Free
         /\ heap' = [heap EXCEPT ![slots[at[t]]] = Free] /\ move' = [move EXCEPT ![t] = at[t] + 1]
         /\ op[t] = "lock" /\ op' = [op EXCEPT ![t] = "shift"] /\ mutex = None /\ mutex' = t
         /\ wild' = (wild \/ heap[slots[at[t]]] = Free)
         /\ UNCHANGED <<slots, count, call, at, ptr, chan, crashed>>
<1> USE ConstantFacts
<1>1. /\ slots[at[t]] # NULL /\ mutex = None
      /\ heap' = [heap EXCEPT ![slots[at[t]]] = Free] /\ move' = [move EXCEPT ![t] = at[t] + 1]
      /\ op[t] = "lock" /\ op' = [op EXCEPT ![t] = "shift"] /\ mutex' = t
      /\ wild' = (wild \/ heap[slots[at[t]]] = Free)
      /\ UNCHANGED <<slots, count, call, at, ptr, chan, crashed>>
  BY DEF Release, Goto
<1>2. Listed = 1 .. count
  BY <1>1, NoGap
<1>3. at[t] \in Ptrs /\ slots[at[t]] \in Ptrs
  BY <1>1 DEF ArrayInv, AssocTypeOK, IndexInv
<1>4. at[t] \in Listed
  BY <1>1, <1>2, <1>3 DEF ArrayInv, AssocTypeOK, ListInv
<1>5. heap[slots[at[t]]] # Free
  BY <1>4 DEF ArrayInv, ListInv
<1> QED
  BY <1>1, <1>2, <1>3, <1>4, <1>5, Zenon

LEMMA ReleaseArray ==
  ASSUME ArrayInv, NEW t \in Threads, Release(t)
  PROVE  ArrayInv'
<1> USE ConstantFacts
<1>1. CASE Crash /\ UNCHANGED chan
  BY <1>1, CrashArray
<1>2. CASE ~Crash
  <2> DEFINE i == at[t]
             q == slots[at[t]]
  <2>1. /\ i \in Listed /\ Listed = 1 .. count /\ q \in Ptrs /\ heap[q] # Free
        /\ heap' = [heap EXCEPT ![q] = Free] /\ move' = [move EXCEPT ![t] = i + 1]
        /\ op[t] = "lock" /\ op' = [op EXCEPT ![t] = "shift"] /\ mutex = None /\ mutex' = t
        /\ UNCHANGED <<slots, count, call, at, ptr, chan, crashed>>
    BY <1>2, ReleaseFacts
  <2>2. wild' \in BOOLEAN
    <3>1. wild' = (wild \/ heap[q] = Free)
      BY <1>2, ReleaseFacts
    <3> QED
      BY <3>1, Zenon
  <2>3. i = at[t] /\ q = slots[i] /\ i \in 1 .. MaxChannels + 1 /\ i <= count /\ count \in Nat
    BY <2>1 DEF ArrayInv, AssocTypeOK
  <2>4. \A s \in Threads : op'[s] = "shift" <=> s = t
    BY <2>1 DEF ArrayInv, AssocTypeOK, MutexInv
  <2>5. Listed' = Listed \ {i}
    <3>1. move'[t] = i + 1
      BY <2>1 DEF ArrayInv, AssocTypeOK
    <3>2. \A k \in 1 .. count : Gap(k)' <=> k = i
      BY <2>3, <2>4, <3>1 DEF Gap
    <3> QED
      BY <2>1, <3>2 DEF Listed
  <2> HIDE DEF i, q
  <2>6. AssocTypeOK'
    <3>1. heap' \in [Ptrs -> Associations \cup {Free}]
      BY <2>1 DEF ArrayInv, AssocTypeOK
    <3>2. move' \in [Threads -> 0 .. MaxChannels + 2] /\ \A s \in Threads : move'[s] <= count + 1
      <4>1. /\ move \in [Threads -> 0 .. MaxChannels + 2]
            /\ \A s \in Threads : move[s] <= count + 1
        BY DEF ArrayInv, AssocTypeOK
      <4>2. i + 1 \in 0 .. MaxChannels + 2 /\ i + 1 <= count + 1
        BY <2>3
      <4>3. move' = [move EXCEPT ![t] = i + 1]
        BY <2>1
      <4>4. \A s \in Threads : move'[s] = IF s = t THEN i + 1 ELSE move[s]
        BY <4>1, <4>3
      <4> QED
        BY <4>1, <4>2, <4>3, <4>4
    <3>3. op' \in [Threads -> {"idle", "scan", "copy", "append", "lock", "shift", "use"}]
      BY <2>1 DEF ArrayInv, AssocTypeOK
    <3>4. UNCHANGED <<slots, count, call, at, ptr, chan, crashed>> /\ mutex' \in Threads
      BY <2>1
    <3> QED
      BY <2>2, <3>1, <3>2, <3>3, <3>4 DEF ArrayInv, AssocTypeOK
  <2>7. MutexInv'
    BY <2>1, <2>4 DEF MutexInv
  <2>8. IndexInv'
    <3>1. /\ \A s \in Threads : op'[s] = IF s = t THEN "shift" ELSE op[s]
          /\ \A s \in Threads : move'[s] = IF s = t THEN i + 1 ELSE move[s]
      BY <2>1 DEF ArrayInv, AssocTypeOK
    <3>2. i + 1 >= 2
      BY <2>3
    <3>3. op[t] # "idle" /\ UNCHANGED <<call, at>>
      BY <2>1
    <3>4. IndexInv
      BY DEF ArrayInv
    <3> QED
      BY <3>1, <3>2, <3>3, <3>4 DEF IndexInv
  <2>9. ListInv'
    <3>1. \A k \in Listed' : slots[k] \in Ptrs /\ slots[k] # q
      BY <2>1, <2>3, <2>5 DEF ArrayInv, AssocTypeOK, ListInv
    <3>2. \A p \in Ptrs : heap'[p] = IF p = q THEN Free ELSE heap[p]
      BY <2>1 DEF ArrayInv, AssocTypeOK
    <3>3. \A k \in Listed' : slots'[k] # NULL /\ heap'[slots'[k]] # Free
      BY <2>1, <2>5, <3>1, <3>2 DEF ArrayInv, ListInv
    <3>4. \A k, m \in Listed' : slots'[k] = slots'[m] => k = m
      BY <2>1, <2>5 DEF ArrayInv, ListInv
    <3>5. ASSUME NEW p \in Ptrs, heap'[p] # Free PROVE \E k \in Listed' : slots'[k] = p
      <4>1. p # q /\ heap[p] # Free
        BY <3>2, <3>5
      <4>2. PICK k \in Listed : slots[k] = p
        BY <4>1 DEF ArrayInv, ListInv
      <4> QED
        BY <2>1, <2>3, <2>5, <4>1, <4>2
    <3>6. \A k \in Ptrs : k > count' => slots'[k] = NULL
      BY <2>1 DEF ArrayInv, ListInv
    <3> QED
      BY <3>3, <3>4, <3>5, <3>6 DEF ListInv
  <2> QED
    BY <2>6, <2>7, <2>8, <2>9 DEF ArrayInv
<1> QED
  BY <1>1, <1>2 DEF Release

LEMMA MoveDownArray ==
  ASSUME ArrayInv, NEW t \in Threads, MoveDown(t)
  PROVE  ArrayInv'
<1> USE ConstantFacts
<1> DEFINE j == move[t]
<1>1. /\ op[t] = "shift" /\ j \in Nat /\ 2 <= j /\ j <= count /\ count \in Nat /\ count <= MaxChannels + 1
      /\ slots' = [slots EXCEPT ![j - 1] = slots[j]] /\ slots \in [Ptrs -> Ptrs \cup {NULL}]
      /\ move' = [move EXCEPT ![t] = j + 1]
      /\ \A s \in Threads : op[s] = "shift" => s = t
      /\ UNCHANGED <<count, heap, mutex, op, call, at, ptr, chan, wild, crashed>>
  BY DEF ArrayInv, AssocTypeOK, MutexInv, IndexInv, MoveDown
<1>2. AssocTypeOK'
  <2>1. slots' \in [Ptrs -> Ptrs \cup {NULL}]
    BY <1>1
  <2>2. move' \in [Threads -> 0 .. MaxChannels + 2] /\ \A s \in Threads : move'[s] <= count + 1
    BY <1>1 DEF ArrayInv, AssocTypeOK
  <2> QED
    BY <1>1, <2>1, <2>2 DEF ArrayInv, AssocTypeOK
<1>3. MutexInv' /\ IndexInv'
  <2>1. \A s \in Threads : move'[s] = IF s = t THEN j + 1 ELSE move[s]
    BY <1>1 DEF ArrayInv, AssocTypeOK
  <2>2. MutexInv /\ IndexInv
    BY DEF ArrayInv
  <2>3. j + 1 >= 2
    BY <1>1
  <2>4. MutexInv'
    BY <1>1, <2>2 DEF MutexInv
  <2> HIDE DEF j
  <2>5. IndexInv'
    BY <1>1, <2>1, <2>2, <2>3 DEF IndexInv
  <2> QED
    BY <2>4, <2>5
<1>4. Listed = (1 .. count) \ {j - 1} /\ Listed' = (1 .. count) \ {j}
  <2>1. move'[t] = j + 1
    BY <1>1 DEF ArrayInv, AssocTypeOK
  <2>2. \A k \in 1 .. count : (Gap(k) <=> k = j - 1) /\ (Gap(k)' <=> k = j)
    BY <1>1, <2>1 DEF Gap
  <2> QED
    BY <1>1, <2>2 DEF Listed
<1> HIDE DEF j
<1>5. \A k \in Ptrs : slots'[k] = IF k = j - 1 THEN slots[j] ELSE slots[k]
  BY <1>1
<1>6. ListInv'
  <2>1. \A k \in Ptrs : k > count' => slots'[k] = NULL
    BY <1>1, <1>5 DEF ArrayInv, ListInv
  <2>2. \A k \in Listed' : slots'[k] # NULL /\ heap'[slots'[k]] # Free
    BY <1>1, <1>4, <1>5 DEF ArrayInv, ListInv
  <2>3. \A k, m \in Listed' : slots'[k] = slots'[m] => k = m
    BY <1>1, <1>4, <1>5 DEF ArrayInv, ListInv
  <2>4. ASSUME NEW p \in Ptrs, heap'[p] # Free PROVE \E k \in Listed' : slots'[k] = p
    <3>1. PICK k \in Listed : slots[k] = p
      BY <1>1, <2>4 DEF ArrayInv, ListInv
    <3>2. CASE k = j
      BY <1>1, <1>4, <1>5, <3>1, <3>2
    <3>3. CASE k # j
      BY <1>1, <1>4, <1>5, <3>1, <3>3
    <3> QED
      BY <3>2, <3>3
  <2> QED
    BY <2>1, <2>2, <2>3, <2>4 DEF ListInv
<1> QED
  BY <1>2, <1>3, <1>6 DEF ArrayInv

LEMMA DropArray ==
  ASSUME ArrayInv, NEW t \in Threads, Drop(t)
  PROVE  ArrayInv'
<1> USE ConstantFacts
<1>1. /\ op[t] = "shift" /\ move[t] = count + 1 /\ count \in Nat /\ 1 <= count /\ count <= MaxChannels + 1
      /\ slots' = [slots EXCEPT ![count] = NULL] /\ slots \in [Ptrs -> Ptrs \cup {NULL}]
      /\ count' = count - 1 /\ mutex' = None /\ mutex = t /\ Return(t)
      /\ \A s \in Threads : op[s] = "shift" => s = t
      /\ UNCHANGED <<heap, chan, wild, crashed>>
  BY DEF ArrayInv, AssocTypeOK, MutexInv, IndexInv, Drop
<1>2. NoCall \in Calls /\ NoCall.kind = "none"
  BY DEF NoCall, Calls
<1>3. AssocTypeOK'
  <2>1. slots' \in [Ptrs -> Ptrs \cup {NULL}] /\ count' \in 0 .. MaxChannels + 1
    BY <1>1
  <2>2. \A s \in Threads : move'[s] = 0
    BY <1>1 DEF ArrayInv, AssocTypeOK, IndexInv, Return
  <2>3. move' \in [Threads -> 0 .. MaxChannels + 2] /\ \A s \in Threads : move'[s] <= count' + 1
    BY <1>1, <2>1, <2>2 DEF ArrayInv, AssocTypeOK, Return
  <2> QED
    BY <1>1, <1>2, <2>1, <2>3 DEF ArrayInv, AssocTypeOK, Return, Goto
<1>4. MutexInv'
  BY <1>1 DEF ArrayInv, AssocTypeOK, MutexInv, Return, Goto
<1>5. IndexInv'
  BY <1>1, <1>2 DEF ArrayInv, AssocTypeOK, IndexInv, Return, Goto
<1>6. Listed = 1 .. count - 1 /\ Listed' = 1 .. count - 1
  <2>1. \A s \in Threads : op'[s] # "shift"
    BY <1>1, <1>4 DEF MutexInv
  <2>2. \A k \in 1 .. count : (Gap(k) <=> k = count) /\ ~Gap(k)'
    BY <1>1, <2>1 DEF Gap
  <2> QED
    BY <1>1, <2>2 DEF Listed
<1>7. \A k \in Ptrs : slots'[k] = IF k = count THEN NULL ELSE slots[k]
  BY <1>1
<1>8. ListInv'
  BY <1>1, <1>6, <1>7 DEF ArrayInv, ListInv
<1> QED
  BY <1>3, <1>4, <1>5, <1>8 DEF ArrayInv

LEMMA NextArray == ArrayInv /\ [AssocNext]_assocVars => ArrayInv'
<1> SUFFICES ASSUME ArrayInv, [AssocNext]_assocVars PROVE ArrayInv'
  OBVIOUS
<1>1. CASE UNCHANGED assocVars
  <2>1. AssocTypeOK' /\ IndexInv'
    BY <1>1 DEF ArrayInv, assocVars, AssocTypeOK, IndexInv
  <2> QED
    BY <1>1, <2>1, SameArray DEF assocVars
<1>2. CASE Report
  BY <1>2, ReportArray
<1>3. ASSUME NEW t \in Threads, Step(t) PROVE ArrayInv'
  BY <1>3, ScanArray, ScanEndsArray, CopyArray, AppendArray, ReleaseArray, MoveDownArray,
     DropArray, UseArray DEF Step
<1> QED
  BY <1>1, <1>2, <1>3 DEF AssocNext

(* For any number of channels, whatever the two threads do: every variable *)
(* of the table keeps its type, and the shape of the array is kept.        *)
THEOREM ArrayInvariant == AssocSpec => []ArrayInv
BY InitArray, NextArray, PTL DEF AssocSpec

(* Every variable keeps its type; in particular AssociateCertificate finds *)
(* a slot for each association that malloc has room for.                   *)
THEOREM AssociationTypes == AssocSpec => []AssocTypeOK
<1>1. ArrayInv => AssocTypeOK
  BY DEF ArrayInv
<1> QED
  BY <1>1, ArrayInvariant, PTL

(* Whenever the mutex is free the array is compact: no stale index of      *)
(* UnassociateCertificate can leave a hole or a freed pointer in it.       *)
THEOREM TableStaysCompact == AssocSpec => []TableCompact
<1>1. ArrayInv => TableCompact
  <2> SUFFICES ASSUME ArrayInv, mutex = None
               PROVE  /\ \A k \in Ptrs : (slots[k] # NULL <=> k <= count)
                      /\ \A j, k \in 1 .. count : slots[j] = slots[k] => j = k
                      /\ {p \in Ptrs : heap[p] # Free} = {slots[k] : k \in 1 .. count}
    BY DEF TableCompact
  <2>1. Listed = 1 .. count
    BY NoGap
  <2>2. \A k \in 1 .. count : k \in Ptrs /\ slots[k] \in Ptrs
    BY <2>1, ConstantFacts DEF ArrayInv, AssocTypeOK, ListInv
  <2>3. \A k \in Ptrs : (slots[k] # NULL <=> k <= count)
    BY <2>1, ConstantFacts DEF ArrayInv, AssocTypeOK, ListInv
  <2> QED
    BY <2>1, <2>2, <2>3 DEF ArrayInv, ListInv
<1> QED
  BY <1>1, ArrayInvariant, PTL

-----------------------------------------------------------------------------
(* The links, until the first channel expires.                             *)

LEMMA InitQuiet == AssocInit => QuietInv
<1> SUFFICES ASSUME AssocInit PROVE QuietInv
  OBVIOUS
<1> USE ConstantFacts
<1>1. /\ op = [t \in Threads |-> "idle"] /\ call[Network] = NoCall /\ heap = [p \in Ptrs |-> Free]
      /\ chan = [c \in Channels |-> "unused"]
  BY DEF AssocInit
<1>2. ~wild /\ ~crashed
  BY DEF AssocInit
<1>3. LinkInv
  BY <1>1 DEF LinkInv, Linked
<1>4. CallInv /\ PlaceInv
  BY <1>1 DEF CallInv, PlaceInv, NoCall
<1> QED
  BY <1>1, <1>2, <1>3, <1>4 DEF QuietInv

(* A channel that has expired stays so.                                    *)
LEMMA ExpiredStays ==
  ASSUME ArrayInv, [AssocNext]_assocVars, NoneExpired'
  PROVE  NoneExpired
<1> USE ConstantFacts
<1>1. chan \in [Channels -> {"unused", "open", "closed", "expired"}]
  BY DEF ArrayInv, AssocTypeOK
<1>2. UNCHANGED chan => NoneExpired
  BY DEF NoneExpired
<1>3. ASSUME NEW c \in Channels, NEW state \in {"open", "closed"}, chan[c] # "expired", Becomes(c, state)
      PROVE  NoneExpired
  BY <1>1, <1>3 DEF NoneExpired, Becomes
<1>4. ASSUME NEW c \in Channels, Becomes(c, "expired") PROVE FALSE
  BY <1>1, <1>4 DEF NoneExpired, Becomes
<1>5. CASE Report
  <2>1. ASSUME NEW c \in Channels,
               \/ OpenChannel(c) \/ RenewChannel(c) \/ RefuseRenewal(c)
               \/ CloseChannel(c) \/ LookUp(c) \/ Expire(c) \/ ExpireInUse(c)
        PROVE  NoneExpired
    BY <1>2, <1>3, <1>4, <2>1 DEF OpenChannel, RenewChannel, RefuseRenewal, CloseChannel, LookUp, Expire,
                                  ExpireInUse
  <2> QED
    BY <1>2, <1>5, <2>1 DEF Report, RefuseOpening, DecoderError
<1>6. ASSUME NEW t \in Threads, Step(t) PROVE UNCHANGED chan
  BY <1>6 DEF Step, Scan, ScanEnds, Copy, Append, Release, MoveDown, Drop, UseCertificate
<1> QED
  BY <1>2, <1>5, <1>6 DEF AssocNext, assocVars

(* Between two calls the links are the open channels, and a call that      *)
(* begins, with what it does to its channel, keeps that.                   *)
LEMMA BeginQuiet ==
  ASSUME ArrayInv, QuietInv, NEW kind \in {"associate", "get", "unassociate"},
         NEW id \in Ids, NEW cert \in Certificates, Begin(Network, kind, id, cert),
         \A d \in Channels :
           \/ chan'[d] = "open" <=> chan[d] = "open"
           \/ d = id /\ kind = "associate" /\ chan'[d] = "open"
           \/ d = id /\ kind = "unassociate" /\ chan'[d] # "open",
         kind \in {"associate", "get"} /\ id \in Channels => chan'[id] = "open",
         kind = "get" => id \in Channels,
         kind = "unassociate" /\ id \in Channels => chan'[id] # "open",
         kind = "associate" /\ id \in Channels => cert \in {id, Empty}
  PROVE  QuietInv'
<1> USE ConstantFacts
<1>1. /\ UNCHANGED <<slots, count, heap, wild, crashed>> /\ op[Network] = "idle"
      /\ op'[Network] = "scan" /\ op'[Timer] = op[Timer] /\ at'[Network] = 1
      /\ call'[Network] = [kind |-> kind, channel |-> id, cert |-> cert]
  BY DEF Begin, Goto, table, ArrayInv, AssocTypeOK
<1>2. call[Network].kind = "none"
  BY <1>1 DEF ArrayInv, IndexInv
<1>3. \A d \in Channels : Linked(d) <=> chan[d] = "open"
  BY <1>2 DEF QuietInv, LinkInv
<1>4. \A d : Linked(d)' <=> Linked(d)
  BY <1>1 DEF Linked
<1>5. call'[Network].kind = kind /\ call'[Network].channel = id /\ call'[Network].cert = cert
  BY <1>1
<1>6. LinkInv'
  <2>1. ASSUME NEW d \in Channels, Linked(d)
        PROVE  chan'[d] = "open" \/ (id = d /\ kind = "unassociate")
    BY <1>3, <2>1
  <2>2. ASSUME NEW d \in Channels, chan'[d] = "open"
        PROVE  Linked(d) \/ (id = d /\ kind = "associate")
    BY <1>3, <2>2
  <2> QED
    BY <1>1, <1>4, <1>5, <2>1, <2>2 DEF QuietInv, LinkInv
<1>7. CallInv'
  BY <1>5 DEF CallInv
<1>8. PlaceInv'
  BY <1>1 DEF PlaceInv, ArrayInv, AssocTypeOK
<1> QED
  BY <1>1, <1>6, <1>7, <1>8 DEF QuietInv

LEMMA ReportQuiet ==
  ASSUME ArrayInv, QuietInv, Report, NoneExpired'
  PROVE  QuietInv'
<1> USE ConstantFacts
<1>1. chan \in [Channels -> {"unused", "open", "closed", "expired"}]
  BY DEF ArrayInv, AssocTypeOK
<1>2. \A c \in Channels : c \in Ids /\ c \in Certificates
  OBVIOUS
<1>3. ASSUME NEW c \in Channels, OpenChannel(c) PROVE QuietInv'
  BY <1>1, <1>2, <1>3, BeginQuiet DEF OpenChannel, Becomes
<1>4. ASSUME NEW c \in Channels, RenewChannel(c) PROVE QuietInv'
  BY <1>1, <1>2, <1>4, BeginQuiet DEF RenewChannel
<1>5. ASSUME NEW c \in Channels, RefuseRenewal(c) PROVE QuietInv'
  BY <1>1, <1>2, <1>5, BeginQuiet DEF RefuseRenewal
<1>6. ASSUME NEW c \in Channels, CloseChannel(c) PROVE QuietInv'
  BY <1>1, <1>2, <1>6, BeginQuiet DEF CloseChannel, Becomes
<1>7. ASSUME NEW c \in Channels, LookUp(c) PROVE QuietInv'
  BY <1>1, <1>2, <1>7, BeginQuiet DEF LookUp
<1>8. ASSUME NEW c \in Channels, Expire(c) \/ ExpireInUse(c) PROVE FALSE
  BY <1>1, <1>8 DEF Expire, ExpireInUse, Becomes, NoneExpired
<1>9. CASE RefuseOpening
  BY <1>1, <1>9, BeginQuiet DEF RefuseOpening
<1>10. CASE DecoderError
  BY <1>1, <1>10, BeginQuiet DEF DecoderError
<1> QED
  BY <1>3, <1>4, <1>5, <1>6, <1>7, <1>8, <1>9, <1>10 DEF Report

(* Outside a removal the array and the associations are the same thing.    *)
LEMMA QuietTable ==
  ASSUME ArrayInv, QuietInv, op[Network] # "shift"
  PROVE  /\ mutex = None /\ count \in Nat
         /\ \A k \in 1 .. count : k \in Ptrs /\ slots[k] \in Ptrs /\ slots[k] # NULL /\ heap[slots[k]] # Free
         /\ \A p \in Ptrs : heap[p] # Free => \E k \in 1 .. count : slots[k] = p
<1>1. mutex = None
  BY ConstantFacts DEF ArrayInv, QuietInv, AssocTypeOK, MutexInv
<1>2. Listed = 1 .. count
  BY <1>1, NoGap
<1> QED
  BY <1>1, <1>2, ConstantFacts DEF ArrayInv, AssocTypeOK, ListInv

(* The network thread returns: what it leaves behind fits the channels.    *)
LEMMA ReturnQuiet ==
  ASSUME ArrayInv, QuietInv, Return(Network), UNCHANGED <<chan, crashed>>, ~wild',
         \A p, q \in Ptrs : heap'[p] # Free /\ heap'[q] # Free /\ heap'[p].channel = heap'[q].channel => p = q,
         \A p \in Ptrs : heap'[p] # Free /\ heap'[p].channel \in Channels
                           => heap'[p].cert \in {heap'[p].channel, Empty},
         \A c \in Channels : Linked(c)' <=> chan[c] = "open"
  PROVE  QuietInv'
<1> USE ConstantFacts
<1>1. op'[Network] = "idle" /\ op'[Timer] = op[Timer] /\ call'[Network] = NoCall
  BY DEF Return, Goto, ArrayInv, AssocTypeOK
<1>2. LinkInv'
  BY DEF LinkInv
<1>3. CallInv' /\ PlaceInv'
  BY <1>1 DEF CallInv, PlaceInv, NoCall
<1> QED
  BY <1>1, <1>2, <1>3 DEF QuietInv

LEMMA ScanQuiet ==
  ASSUME ArrayInv, QuietInv, Scan(Network)
  PROVE  QuietInv'
<1> USE ConstantFacts
<1> DEFINE p == slots[at[Network]]
           c == call[Network].channel
<1>1. op[Network] = "scan" /\ at[Network] \in 1 .. count
  BY DEF Scan, ArrayInv, AssocTypeOK, IndexInv
<1>2. p \in Ptrs /\ p # NULL /\ heap[p] # Free
  BY <1>1, QuietTable
<1>3. \/ /\ heap[p].channel = c /\ op' = [op EXCEPT ![Network] = Found(Network)] /\ at' = at
         /\ ptr' = [ptr EXCEPT ![Network] = IF call[Network].kind = "get" THEN p ELSE NULL]
      \/ heap[p].channel # c /\ op' = op /\ at' = [at EXCEPT ![Network] = @ + 1]
  <2>1. PICK same \in Looks(p, c) :
          \/ /\ same /\ op' = [op EXCEPT ![Network] = Found(Network)] /\ at' = at
             /\ ptr' = [ptr EXCEPT ![Network] = IF call[Network].kind = "get" THEN p ELSE NULL]
          \/ ~same /\ op' = op /\ at' = [at EXCEPT ![Network] = @ + 1]
    BY <1>2 DEF Scan, Goto
  <2>2. same <=> heap[p].channel = c
    BY <1>2, <2>1 DEF Looks
  <2> QED
    BY <2>1, <2>2
<1>4. ~wild' /\ ~crashed'
  <2>1. wild' = (wild \/ heap[p] = Free) /\ crashed' = crashed
    BY <1>2 DEF Scan
  <2> QED
    BY <1>2, <2>1 DEF QuietInv
<1>5. UNCHANGED <<slots, count, heap, call, chan>>
  BY <1>2 DEF Scan, table
<1>6. \A d : Linked(d)' <=> Linked(d)
  BY <1>5 DEF Linked
<1>7. LinkInv' /\ CallInv'
  BY <1>5, <1>6 DEF QuietInv, LinkInv, CallInv
<1>8. call[Network].kind \in {"associate", "get", "unassociate"}
  BY <1>1 DEF ArrayInv, AssocTypeOK, IndexInv, Calls
<1>9. PlaceInv' /\ op'[Timer] = "idle"
  <2>1. CASE heap[p].channel = c /\ op' = [op EXCEPT ![Network] = Found(Network)] /\ at' = at
             /\ ptr' = [ptr EXCEPT ![Network] = IF call[Network].kind = "get" THEN p ELSE NULL]
    <3>1. op'[Network] = Found(Network) /\ op'[Timer] = "idle"
      BY <2>1 DEF ArrayInv, AssocTypeOK, QuietInv
    <3>2. call[Network].kind = "get" => ptr'[Network] = p
      BY <2>1 DEF ArrayInv, AssocTypeOK
    <3>3. CASE call[Network].kind = "associate"
      BY <1>1, <1>2, <1>5, <2>1, <3>1, <3>3, Branches DEF PlaceInv
    <3>4. CASE call[Network].kind = "get"
      BY <1>1, <1>2, <1>5, <2>1, <3>1, <3>2, <3>4, Branches DEF PlaceInv
    <3>5. CASE call[Network].kind = "unassociate"
      BY <1>1, <1>2, <1>5, <2>1, <3>1, <3>5, Branches DEF PlaceInv
    <3> QED
      BY <1>8, <3>1, <3>3, <3>4, <3>5
  <2>2. CASE heap[p].channel # c /\ op' = op /\ at' = [at EXCEPT ![Network] = @ + 1]
    <3>1. at'[Network] = at[Network] + 1 /\ at[Network] \in Nat /\ count \in Nat
      BY <2>2 DEF ArrayInv, AssocTypeOK
    <3>2. \A k \in 1 .. count : k < at'[Network] => heap[slots[k]].channel # c
      BY <1>1, <2>2, <3>1 DEF QuietInv, PlaceInv
    <3> QED
      BY <1>1, <1>5, <2>2, <3>2 DEF QuietInv, PlaceInv
  <2> QED
    BY <1>3, <2>1, <2>2
<1> QED
  BY <1>4, <1>7, <1>9 DEF QuietInv

LEMMA ScanEndsQuiet ==
  ASSUME ArrayInv, QuietInv, ScanEnds(Network)
  PROVE  QuietInv'
<1> USE ConstantFacts
<1> DEFINE c == call[Network].channel
<1>1. /\ op[Network] = "scan" /\ at[Network] > count /\ at[Network] \in Nat
      /\ UNCHANGED <<slots, count, heap, chan, wild, crashed>>
  BY DEF ScanEnds, table, ArrayInv, AssocTypeOK
<1>2. ~Linked(c)
  BY <1>1, QuietTable DEF Linked, QuietInv, PlaceInv
<1>3. call[Network].kind \in {"associate", "get", "unassociate"}
  BY <1>1 DEF ArrayInv, AssocTypeOK, IndexInv, Calls
<1>4. call[Network].kind # "get"
  BY <1>2 DEF QuietInv, CallInv, LinkInv
<1>5. \A d : Linked(d)' <=> Linked(d)
  BY <1>1 DEF Linked
<1>6. CASE call[Network].kind = "associate"
  <2>1. /\ op' = [op EXCEPT ![Network] = "append"] /\ UNCHANGED <<call, at, move, ptr>>
    BY <1>6, Branches DEF ScanEnds, Goto, local
  <2>2. op'[Network] = "append" /\ op'[Timer] = "idle"
    BY <2>1 DEF ArrayInv, AssocTypeOK, QuietInv
  <2>3. LinkInv' /\ CallInv'
    BY <1>1, <1>5, <2>1 DEF QuietInv, LinkInv, CallInv
  <2>4. PlaceInv'
    BY <1>2, <1>5, <1>6, <2>1, <2>2 DEF PlaceInv
  <2> QED
    BY <1>1, <2>2, <2>3, <2>4 DEF QuietInv
<1>7. CASE call[Network].kind = "unassociate"
  <2>1. Return(Network)
    BY <1>7, Branches DEF ScanEnds
  <2>2. \A d \in Channels : Linked(d)' <=> chan[d] = "open"
    BY <1>2, <1>5, <1>7 DEF QuietInv, LinkInv
  <2> QED
    BY <1>1, <2>1, <2>2, ReturnQuiet DEF QuietInv, LinkInv
<1> QED
  BY <1>3, <1>4, <1>6, <1>7

LEMMA CopyQuiet ==
  ASSUME ArrayInv, QuietInv, Copy(Network)
  PROVE  QuietInv'
<1> USE ConstantFacts
<1> DEFINE p == slots[at[Network]]
           c == call[Network].channel
<1>1. /\ op[Network] = "copy" /\ at[Network] \in 1 .. count /\ heap[p].channel = c
      /\ call[Network].kind = "associate"
  BY DEF Copy, ArrayInv, AssocTypeOK, IndexInv, QuietInv, PlaceInv
<1>2. p \in Ptrs /\ p # NULL /\ heap[p] # Free
  BY <1>1, QuietTable
<1>3. /\ heap' = IF heap[p] = Free THEN heap ELSE [heap EXCEPT ![p].cert = call[Network].cert]
      /\ Return(Network) /\ UNCHANGED <<chan, crashed>> /\ ~wild'
  BY <1>2 DEF Copy, QuietInv
<1> HIDE DEF p
<1>4. /\ \A q \in Ptrs : heap'[q] # Free <=> heap[q] # Free
      /\ \A q \in Ptrs : heap[q] # Free => heap'[q].channel = heap[q].channel
      /\ \A q \in Ptrs : heap[q] # Free => heap'[q].cert = heap[q].cert \/ heap'[q].cert = call[Network].cert
      /\ \A q \in Ptrs : q # p => heap'[q] = heap[q]
  BY <1>2, <1>3, CopyHeap
<1>5. \A d : Linked(d)' <=> Linked(d)
  BY <1>4 DEF Linked
<1>6. \A q, r \in Ptrs : heap'[q] # Free /\ heap'[r] # Free /\ heap'[q].channel = heap'[r].channel => q = r
  BY <1>4 DEF QuietInv, LinkInv
<1>7. ASSUME NEW q \in Ptrs, heap'[q] # Free, heap'[q].channel \in Channels
      PROVE  heap'[q].cert \in {heap'[q].channel, Empty}
  <2>1. CASE q = p
    BY <1>1, <1>2, <1>4, <1>7, <2>1 DEF QuietInv, LinkInv, CallInv
  <2>2. CASE q # p
    BY <1>4, <1>7, <2>2 DEF QuietInv, LinkInv
  <2> QED
    BY <2>1, <2>2
<1>8. \A d \in Channels : Linked(d)' <=> chan[d] = "open"
  <2>1. Linked(c)
    BY <1>1, <1>2 DEF Linked
  <2> QED
    BY <1>1, <1>5, <2>1 DEF QuietInv, LinkInv
<1> QED
  BY <1>3, <1>6, <1>7, <1>8, ReturnQuiet

LEMMA AppendQuiet ==
  ASSUME ArrayInv, QuietInv, Append(Network)
  PROVE  QuietInv'
<1> USE ConstantFacts
<1> DEFINE c == call[Network].channel
           new == [channel |-> call[Network].channel, cert |-> call[Network].cert]
<1>1. PICK p \in Ptrs : heap[p] = Free /\ heap' = [heap EXCEPT ![p] = new] /\ new \in Associations
  BY AppendFacts
<1>2. new.channel = c /\ new.cert = call[Network].cert
  OBVIOUS
<1> HIDE DEF new
<1>3. /\ Return(Network) /\ UNCHANGED <<chan, wild, crashed>>
      /\ call[Network].kind = "associate" /\ ~Linked(c)
  BY DEF Append, QuietInv, PlaceInv
<1>4. heap'[p] = new /\ new # Free /\ \A q \in Ptrs : q # p => heap'[q] = heap[q]
  BY <1>1 DEF ArrayInv, AssocTypeOK
<1>5. \A d : Linked(d)' <=> Linked(d) \/ d = c
  BY <1>1, <1>2, <1>4 DEF Linked
<1>6. \A q, r \in Ptrs : heap'[q] # Free /\ heap'[r] # Free /\ heap'[q].channel = heap'[r].channel => q = r
  BY <1>2, <1>3, <1>4 DEF QuietInv, LinkInv, Linked
<1>7. ASSUME NEW q \in Ptrs, heap'[q] # Free, heap'[q].channel \in Channels
      PROVE  heap'[q].cert \in {heap'[q].channel, Empty}
  BY <1>2, <1>3, <1>4, <1>7 DEF QuietInv, LinkInv, CallInv
<1>8. \A d \in Channels : Linked(d)' <=> chan[d] = "open"
  BY <1>3, <1>5 DEF QuietInv, LinkInv, CallInv
<1> QED
  BY <1>3, <1>6, <1>7, <1>8, ReturnQuiet DEF QuietInv

LEMMA ReleaseQuiet ==
  ASSUME ArrayInv, QuietInv, Release(Network)
  PROVE  QuietInv'
<1> USE ConstantFacts
<1> DEFINE q == slots[at[Network]]
           c == call[Network].channel
<1>1. /\ op[Network] = "lock" /\ at[Network] \in 1 .. count /\ heap[q].channel = c
      /\ call[Network].kind = "unassociate"
  BY DEF Release, ArrayInv, AssocTypeOK, IndexInv, QuietInv, PlaceInv
<1>2. q \in Ptrs /\ q # NULL /\ heap[q] # Free
  BY <1>1, QuietTable
<1>3. /\ heap' = [heap EXCEPT ![q] = Free] /\ op' = [op EXCEPT ![Network] = "shift"]
      /\ UNCHANGED <<call, chan, crashed>>
  BY <1>2 DEF Release, Goto
<1>4. ~wild'
  BY <1>2 DEF Release, QuietInv
<1>5. op'[Network] = "shift" /\ op'[Timer] = "idle"
  BY <1>3 DEF ArrayInv, AssocTypeOK, QuietInv
<1>6. \A p \in Ptrs : heap'[p] = IF p = q THEN Free ELSE heap[p]
  BY <1>2, <1>3 DEF ArrayInv, AssocTypeOK
<1> HIDE DEF q
<1>7. \A d : Linked(d)' <=> Linked(d) /\ d # c
  BY <1>1, <1>2, <1>6 DEF Linked, QuietInv, LinkInv
<1>8. LinkInv'
  <2>1. \A d \in Channels : chan[d] = "open" => d # c
    BY <1>1 DEF QuietInv, CallInv
  <2> QED
    BY <1>1, <1>3, <1>6, <1>7, <2>1 DEF QuietInv, LinkInv
<1>9. CallInv'
  BY <1>3 DEF QuietInv, CallInv
<1>10. PlaceInv'
  BY <1>1, <1>3, <1>5, <1>7 DEF PlaceInv
<1> QED
  BY <1>3, <1>4, <1>5, <1>8, <1>9, <1>10 DEF QuietInv

LEMMA ShiftQuiet ==
  ASSUME ArrayInv, QuietInv, MoveDown(Network) \/ Drop(Network)
  PROVE  QuietInv'
<1> USE ConstantFacts
<1>1. /\ op[Network] = "shift" /\ call[Network].kind = "unassociate" /\ ~Linked(call[Network].channel)
      /\ UNCHANGED <<heap, chan, wild, crashed>>
  BY DEF MoveDown, Drop, QuietInv, PlaceInv
<1>2. \A d : Linked(d)' <=> Linked(d)
  BY <1>1 DEF Linked
<1>3. CASE MoveDown(Network)
  <2>1. UNCHANGED <<op, call>>
    BY <1>3 DEF MoveDown
  <2>2. LinkInv' /\ CallInv'
    BY <1>1, <1>2, <2>1 DEF QuietInv, LinkInv, CallInv
  <2>3. PlaceInv'
    BY <1>1, <1>2, <2>1 DEF PlaceInv
  <2> QED
    BY <1>1, <2>1, <2>2, <2>3 DEF QuietInv
<1>4. CASE Drop(Network)
  <2>1. Return(Network)
    BY <1>4 DEF Drop
  <2>2. \A d \in Channels : Linked(d)' <=> chan[d] = "open"
    BY <1>1, <1>2 DEF QuietInv, LinkInv
  <2> QED
    BY <1>1, <2>1, <2>2, ReturnQuiet DEF QuietInv, LinkInv
<1> QED
  BY <1>3, <1>4

LEMMA UseQuiet ==
  ASSUME ArrayInv, QuietInv, UseCertificate(Network)
  PROVE  QuietInv'
<1> USE ConstantFacts
<1>1. ptr[Network] # NULL /\ heap[ptr[Network]] # Free /\ call[Network].kind = "get"
  BY DEF UseCertificate, QuietInv, PlaceInv
<1>2. Return(Network) /\ UNCHANGED <<heap, chan, crashed>> /\ ~wild'
  BY <1>1 DEF UseCertificate, table, QuietInv
<1>3. \A d : Linked(d)' <=> Linked(d)
  BY <1>2 DEF Linked
<1>4. \A d \in Channels : Linked(d)' <=> chan[d] = "open"
  BY <1>1, <1>3 DEF QuietInv, LinkInv
<1> QED
  BY <1>2, <1>4, ReturnQuiet DEF QuietInv, LinkInv

LEMMA NextQuiet ==
  ASSUME ArrayInv, QuietInv, [AssocNext]_assocVars, NoneExpired'
  PROVE  QuietInv'
<1> USE ConstantFacts
<1>1. CASE UNCHANGED assocVars
  <2>1. \A d : Linked(d)' <=> Linked(d)
    BY <1>1 DEF Linked, assocVars
  <2> QED
    BY <1>1, <2>1 DEF assocVars, QuietInv, LinkInv, CallInv, PlaceInv
<1>2. CASE Report
  BY <1>2, ReportQuiet
<1>3. ~Step(Timer)
  BY DEF QuietInv, ArrayInv, Step, Scan, ScanEnds, Copy, Append, Release, MoveDown, Drop, UseCertificate
<1>4. CASE Step(Network)
  BY <1>4, ScanQuiet, ScanEndsQuiet, CopyQuiet, AppendQuiet, ReleaseQuiet, ShiftQuiet, UseQuiet DEF Step
<1> QED
  BY <1>1, <1>2, <1>3, <1>4 DEF AssocNext

(* The whole of the inductive invariant.                                   *)
THEOREM AssociationInvariant == AssocSpec => []AssocInv
<1>1. AssocInit => AssocInv
  BY InitArray, InitQuiet DEF AssocInv
<1>2. AssocInv /\ [AssocNext]_assocVars => AssocInv'
  BY NextArray, NextQuiet, ExpiredStays DEF AssocInv
<1> QED
  BY <1>1, <1>2, PTL DEF AssocSpec

(* Until a channel first expires each open channel has exactly its one     *)
(* link between two calls, a closed one none, and the callers that do not  *)
(* test what GetCertificate returns never crash.                           *)
THEOREM LinksFollow == AssocSpec => []LinksFollowChannels
<1>1. AssocInv => LinksFollowChannels
  <2> SUFFICES ASSUME AssocInv, op[Network] = "idle", NoneExpired
               PROVE  /\ ~crashed /\ ~wild
                      /\ \A c \in Channels :
                           /\ Cardinality(Links(c)) = IF chan[c] = "open" THEN 1 ELSE 0
                           /\ \A p \in Links(c) : heap[p].cert \in {c, Empty}
    BY DEF LinksFollowChannels, NoneExpired
  <2>1. QuietInv /\ ~crashed /\ ~wild
    BY DEF AssocInv, QuietInv
  <2>2. call[Network].kind = "none"
    BY ConstantFacts DEF AssocInv, ArrayInv, IndexInv
  <2>3. ASSUME NEW c \in Channels
        PROVE  Cardinality(Links(c)) = IF chan[c] = "open" THEN 1 ELSE 0
    <3>1. Linked(c) <=> chan[c] = "open"
      BY <2>1, <2>2 DEF QuietInv, LinkInv
    <3>2. CASE chan[c] = "open"
      <4>1. PICK p \in Ptrs : heap[p] # Free /\ heap[p].channel = c
        BY <3>1, <3>2 DEF Linked
      <4>2. Links(c) = {p}
        BY <2>1, <4>1 DEF Links, QuietInv, LinkInv
      <4> QED
        BY <3>2, <4>2, FS_Singleton
    <3>3. CASE chan[c] # "open"
      <4>1. Links(c) = {}
        BY <3>1, <3>3 DEF Links, Linked
      <4> QED
        BY <3>3, <4>1, FS_EmptySet
    <3> QED
      BY <3>2, <3>3
  <2>4. ASSUME NEW c \in Channels, NEW p \in Links(c) PROVE heap[p].cert \in {c, Empty}
    BY <2>1 DEF Links, QuietInv, LinkInv
  <2> QED
    BY <2>1, <2>3, <2>4
<1> QED
  BY <1>1, AssociationInvariant, PTL
=============================================================================
