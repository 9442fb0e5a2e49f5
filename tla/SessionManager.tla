--------------------------- MODULE SessionManager ---------------------------
(***************************************************************************)
(* The session table of the server (SessionManager.c) as its two threads   *)
(* see it.  The network thread "net" runs one service handler at a time    *)
(* (CreateSession, ActivateSession, CloseSession and every service that    *)
(* starts with ID_CHECK_SESSION); the stack's timer thread "timer" runs    *)
(* ValidateSessionLifetime on every tick, without taking SessionMutex.     *)
(*                                                                         *)
(* A session is the address malloc returned for it.  An address is never   *)
(* handed out twice, so a stale pointer can always be told from a live     *)
(* one.  The access of freed or null memory is undefined behaviour: it     *)
(* sets ub and the model stops there, nothing is claimed about what the    *)
(* process does afterwards.                                                *)
(***************************************************************************)
EXTENDS Naturals, Sequences, PointerTable

CONSTANTS Sessions,   \* addresses of ID_Session structs
          Channels,   \* secure channel ids
          Timeout,    \* SessionTimeout, in timer ticks
          NULL        \* the null pointer, null NodeId and free mutex

ASSUME ConstantsAssumption ==
    /\ Timeout \in Nat
    /\ NULL \notin Sessions
    /\ NULL \notin Channels

Threads == {"net", "timer"}

ASSUME ThreadsAssumption == NULL \notin Threads

(* IdledTime only matters up to the first value beyond the timeout.        *)
MaxIdle == Timeout + 1
Cap(n) == IF n > MaxIdle THEN MaxIdle ELSE n

VARIABLES
    heap,       \* heap[s]: the ID_Session struct at address s
    sessions,   \* Sessions[0 .. Count-1]
    sbm,        \* SessionsBeingMutated
    mutex,      \* owner of SessionMutex, or NULL
    acc,        \* AccumulatedElapsedTime
    points,     \* tokens that own a continuation point
    rm,         \* rm[t]: the activation of RemoveSession on thread t
    net,        \* the handler the network thread is running
    tm,         \* the timer thread's pass over the table
    ub          \* freed or null memory has been accessed

vars == <<heap, sessions, sbm, mutex, acc, points, rm, net, tm, ub>>

-----------------------------------------------------------------------------
Session == [status : {"none", "alive", "freed"},  \* memory state
            token : Sessions \cup {NULL},         \* AuthenticationToken
            mutated : BOOLEAN,                    \* IsBeingMutated
            activated : BOOLEAN,                  \* IsActivated
            channel : Channels \cup {NULL},       \* SecureChannelId
            idled : 0 .. MaxIdle,                 \* IdledTime
            timeout : {0, Timeout}]               \* SessionTimeout

Remover == [pc : {"out", "lock", "search", "free", "unlock"},
            tok : Sessions \cup {NULL},           \* AuthenticationToken
            obj : Sessions \cup {NULL}]           \* SingleSession

Handler == [pc : {"idle", "append", "memset", "mark", "fields", "finish",
                  "lockAdd", "get", "channel", "activated", "valid", "check",
                  "touch", "verify", "work", "remove"},
            op : {"none", "create", "service", "activate", "close"},
            tok : Sessions \cup {NULL},           \* token in the request header
            ch : Channels \cup {NULL},            \* channel of the message
            obj : Sessions \cup {NULL},           \* UserSession
            valid : Sessions \cup {NULL}]         \* IsSessionValid's pointer

Pass == [pc : {"idle", "loop", "load", "mutated", "add", "mark", "remove",
               "clear", "end"},
         i : Nat \ {0},                           \* loop index, from 1
         obj : Sessions \cup {NULL},              \* SingleSession
         idled : 0 .. MaxIdle]                    \* value loaded by +=

(* A struct before malloc has returned its address.                        *)
Unallocated == [status |-> "none", token |-> NULL, mutated |-> FALSE,
                activated |-> FALSE, channel |-> NULL, idled |-> 0,
                timeout |-> 0]

(* No activation of RemoveSession; no handler running.                     *)
Out == [pc |-> "out", tok |-> NULL, obj |-> NULL]
Return == [pc |-> "idle", op |-> "none", tok |-> NULL, ch |-> NULL,
           obj |-> NULL, valid |-> NULL]

Alive(s) == s # NULL /\ heap[s].status = "alive"
Listed(s) == \E i \in 1 .. Len(sessions) : sessions[i] = s

(* ID_SessionManager_Create; no handler and no pass is running.            *)
Init ==
    /\ heap = [s \in Sessions |-> Unallocated]
    /\ sessions = <<>>
    /\ sbm = FALSE
    /\ mutex = NULL
    /\ acc = 0
    /\ points = {}
    /\ rm = [t \in Threads |-> Out]
    /\ net = Return
    /\ tm = [pc |-> "idle", i |-> 1, obj |-> NULL, idled |-> 0]
    /\ ub = FALSE

-----------------------------------------------------------------------------
(* ID_SessionManager_RemoveSession, on thread t.                           *)

(* The call; tok is NULL for the timer, which passes a pointer into the    *)
(* struct that is read again during the search.                            *)
CallRemove(t, tok) ==
    rm' = [rm EXCEPT ![t] = [pc |-> "lock", tok |-> tok, obj |-> NULL]]

RemoveLock(t) ==
    /\ rm[t].pc = "lock"
    /\ mutex = NULL
    /\ mutex' = t
    /\ sbm' = TRUE
    /\ rm' = [rm EXCEPT ![t].pc = "search"]
    /\ UNCHANGED <<heap, sessions, acc, points, net, tm, ub>>

(* The token searched for: the request's, or the one in the struct the     *)
(* caller points to (the timer's SingleSession, CreateSession's            *)
(* UserSession).                                                           *)
TokenOwner(t) == CASE t = "timer" -> tm.obj
                   [] net.op = "create" -> net.obj
                   [] OTHER -> NULL

SearchedToken(t) == IF TokenOwner(t) = NULL THEN rm[t].tok
                                            ELSE heap[TokenOwner(t)].token

(* The search reads *AuthenticationToken.                                  *)
SearchReadable(t) == TokenOwner(t) # NULL => Alive(TokenOwner(t))

(* Mutant: the struct is freed while its slot keeps it.                    *)
RemoveUnlinkNoShift(t) ==
    /\ rm[t].pc = "search"
    /\ SearchReadable(t)
    /\ \E i \in 1 .. Len(sessions) :
         /\ heap[sessions[i]].token = SearchedToken(t)
         /\ rm' = [rm EXCEPT ![t].pc = "free", ![t].obj = sessions[i]]
    /\ UNCHANGED <<heap, sessions, sbm, mutex, acc, points, net, tm, ub>>

(* Unlinks the first session with the token; the session's node leaves the *)
(* address space in the same step.                                         *)
RemoveUnlink(t) ==
    /\ rm[t].pc = "search"
    /\ SearchReadable(t)
    /\ \E i \in 1 .. Len(sessions) :
         /\ heap[sessions[i]].token = SearchedToken(t)
         /\ \A j \in 1 .. i - 1 : heap[sessions[j]].token # SearchedToken(t)
         /\ sessions' = Shift(sessions, i)
         /\ rm' = [rm EXCEPT ![t].pc = "free", ![t].obj = sessions[i]]
    /\ UNCHANGED <<heap, sbm, mutex, acc, points, net, tm, ub>>

(* Mutant: an early return that leaves SessionMutex locked.                *)
RemoveNotFoundReturns(t) ==
    /\ rm[t].pc = "search"
    /\ SearchReadable(t)
    /\ \A i \in 1 .. Len(sessions) : heap[sessions[i]].token # SearchedToken(t)
    /\ rm' = [rm EXCEPT ![t] = Out]
    /\ net' = IF t = "net" THEN Return ELSE net
    /\ tm' = IF t = "net" THEN tm ELSE [tm EXCEPT !.pc = "clear"]
    /\ UNCHANGED <<heap, sessions, sbm, mutex, acc, points, ub>>

RemoveNotFound(t) ==
    /\ rm[t].pc = "search"
    /\ SearchReadable(t)
    /\ \A i \in 1 .. Len(sessions) : heap[sessions[i]].token # SearchedToken(t)
    /\ rm' = [rm EXCEPT ![t].pc = "unlock"]
    /\ UNCHANGED <<heap, sessions, sbm, mutex, acc, points, net, tm, ub>>

(* Statements, connection and environment handles and the struct are freed. *)
RemoveFree(t) ==
    /\ rm[t].pc = "free"
    /\ heap' = [heap EXCEPT ![rm[t].obj] = [Unallocated EXCEPT
                                               !.status = "freed"]]
    /\ rm' = [rm EXCEPT ![t].pc = "unlock", ![t].obj = NULL]
    /\ UNCHANGED <<sessions, sbm, mutex, acc, points, net, tm, ub>>

(* Mutant: SessionsBeingMutated stays set.                                 *)
RemoveUnlockKeepsFlag(t) ==
    /\ rm[t].pc = "unlock"
    /\ mutex' = NULL
    /\ rm' = [rm EXCEPT ![t] = Out]
    /\ net' = IF t = "net" THEN Return ELSE net
    /\ tm' = IF t = "net" THEN tm ELSE [tm EXCEPT !.pc = "clear"]
    /\ UNCHANGED <<heap, sessions, sbm, acc, points, ub>>

RemoveUnlock(t) ==
    /\ rm[t].pc = "unlock"
    /\ sbm' = FALSE
    /\ mutex' = NULL
    /\ rm' = [rm EXCEPT ![t] = Out]
    /\ IF t = "net" THEN /\ net' = Return
                         /\ UNCHANGED tm
                    ELSE /\ tm' = [tm EXCEPT !.pc = "clear"]
                         /\ UNCHANGED net
    /\ UNCHANGED <<heap, sessions, acc, points, ub>>

RemoveSession(t) ==
    \/ RemoveLock(t) \/ RemoveUnlink(t) \/ RemoveNotFound(t)
    \/ RemoveFree(t) \/ RemoveUnlock(t)

-----------------------------------------------------------------------------
(* The network thread.                                                     *)

(* A request arrives.  tok is any token a client may put in the header.    *)
Receive(op, tok, c) ==
    /\ net.pc = "idle"
    /\ net' = [pc |-> IF op = "create" THEN "lockAdd" ELSE "get",
               op |-> op, tok |-> tok, ch |-> c, obj |-> NULL, valid |-> NULL]
    /\ UNCHANGED <<heap, sessions, sbm, mutex, acc, points, rm, tm, ub>>

(* ID_UA_CreateSession and ID_SessionManager_AddSession.                   *)
AddLock ==
    /\ net.pc = "lockAdd"
    /\ mutex = NULL
    /\ mutex' = "net"
    /\ net' = [net EXCEPT !.pc = "append"]
    /\ UNCHANGED <<heap, sessions, sbm, acc, points, rm, tm, ub>>

(* malloc, the slot and Count: the struct is reachable from the table with *)
(* whatever malloc left in the fields the timer reads.                     *)
AddAppend(s, flag, idle, limit) ==
    /\ net.pc = "append"
    /\ heap[s].status = "none"
    /\ heap' = [heap EXCEPT ![s] = [Unallocated EXCEPT
                    !.status = "alive", !.mutated = flag, !.idled = idle,
                    !.timeout = limit]]
    /\ sessions' = Append(sessions, s)
    /\ net' = [net EXCEPT !.pc = "memset", !.obj = s]
    /\ UNCHANGED <<sbm, mutex, acc, points, rm, tm, ub>>

AddMemset ==
    /\ net.pc = "memset"
    /\ heap' = [heap EXCEPT ![net.obj] = [@ EXCEPT !.mutated = FALSE,
                                                   !.idled = 0, !.timeout = 0]]
    /\ net' = [net EXCEPT !.pc = "mark"]
    /\ UNCHANGED <<sessions, sbm, mutex, acc, points, rm, tm, ub>>

AddMarkUnlock ==
    /\ net.pc = "mark"
    /\ heap' = [heap EXCEPT ![net.obj].mutated = TRUE]
    /\ mutex' = NULL
    /\ net' = [net EXCEPT !.pc = "fields"]
    /\ UNCHANGED <<sessions, sbm, acc, points, rm, tm, ub>>

(* Indices are never reused, so the token identifies the session: the      *)
(* address stands for it.                                                  *)
AddFields ==
    /\ net.pc = "fields"
    /\ Alive(net.obj)
    /\ heap' = [heap EXCEPT ![net.obj] = [@ EXCEPT !.channel = net.ch,
                                                   !.token = net.obj,
                                                   !.idled = 0]]
    /\ net' = [net EXCEPT !.pc = "finish"]
    /\ UNCHANGED <<sessions, sbm, mutex, acc, points, rm, tm, ub>>

(* The rest of the handler: the session is published, or removed again     *)
(* when the security policy or the nonce is refused.                       *)
CreateGood ==
    /\ net.pc = "finish"
    /\ Alive(net.obj)
    /\ heap' = [heap EXCEPT ![net.obj] = [@ EXCEPT !.timeout = Timeout,
                                                   !.mutated = FALSE]]
    /\ net' = Return
    /\ UNCHANGED <<sessions, sbm, mutex, acc, points, rm, tm, ub>>

CreateBad ==
    /\ net.pc = "finish"
    /\ Alive(net.obj)
    /\ heap' = [heap EXCEPT ![net.obj].timeout = Timeout]
    /\ net' = [net EXCEPT !.pc = "remove"]
    /\ CallRemove("net", NULL)
    /\ UNCHANGED <<sessions, sbm, mutex, acc, points, tm, ub>>

-----------------------------------------------------------------------------
(* ID_SessionManager_GetSession, under the mutex: it returns p, the last   *)
(* session of the table with the token that has not idled beyond its       *)
(* timeout, or NULL.                                                       *)
Matches(tok) == {i \in 1 .. Len(sessions) :
                    /\ heap[sessions[i]].token = tok
                    /\ heap[sessions[i]].idled <= heap[sessions[i]].timeout}

GetSession(tok, p) ==
    \/ Matches(tok) = {} /\ p = NULL
    \/ \E i \in Matches(tok) : /\ \A j \in Matches(tok) : j <= i
                               /\ p = sessions[i]

AfterGet(op) == CASE op = "service" -> "channel"
                  [] op = "activate" -> "activated"
                  [] OTHER -> "valid"

HandlerGet ==
    /\ net.pc = "get"
    /\ mutex = NULL
    /\ \E p \in Sessions \cup {NULL} :
         /\ GetSession(net.tok, p)
         /\ net' = IF p = NULL THEN Return
                   ELSE [net EXCEPT !.pc = AfterGet(net.op), !.obj = p]
    /\ UNCHANGED <<heap, sessions, sbm, mutex, acc, points, rm, tm, ub>>

(* ID_CHECK_SESSION compares the channel before it validates.              *)
CheckChannel ==
    /\ net.pc = "channel"
    /\ Alive(net.obj)
    /\ net' = IF heap[net.obj].channel = net.ch
              THEN [net EXCEPT !.pc = "valid"] ELSE Return
    /\ UNCHANGED <<heap, sessions, sbm, mutex, acc, points, rm, tm, ub>>

(* What the handler does with IsSessionValid = False: a service drops the  *)
(* session, CloseSession refuses, ActivateSession ignores it.              *)
Invalid ==
    \/ /\ net.op = "service"
       /\ points' = points \ {net.tok}
       /\ net' = [net EXCEPT !.pc = "remove"]
       /\ CallRemove("net", net.tok)
    \/ /\ net.op = "close"
       /\ net' = Return
       /\ UNCHANGED <<points, rm>>
    \/ /\ net.op = "activate"
       /\ net' = [net EXCEPT !.pc = "verify"]
       /\ UNCHANGED <<points, rm>>

(* Mutant: CloseSession forgets the continuation points.                   *)
ValidKeepsPoints ==
    /\ \/ /\ net.op = "close"
          /\ net' = [net EXCEPT !.pc = "remove"]
          /\ CallRemove("net", net.tok)
       \/ /\ net.op # "close"
          /\ net' = [net EXCEPT !.pc = IF net.op = "service" THEN "work"
                                                            ELSE "verify"]
          /\ UNCHANGED rm
    /\ UNCHANGED points

(* ... and with True.  A request without a timestamp is refused.           *)
Valid ==
    \/ /\ net.op # "activate"
       /\ net' = Return
       /\ UNCHANGED <<points, rm>>
    \/ /\ net.op = "service"
       /\ net' = [net EXCEPT !.pc = "work"]
       /\ UNCHANGED <<points, rm>>
    \/ /\ net.op = "close"
       /\ points' = points \ {net.tok}
       /\ net' = [net EXCEPT !.pc = "remove"]
       /\ CallRemove("net", net.tok)
    \/ /\ net.op = "activate"
       /\ net' = [net EXCEPT !.pc = "verify"]
       /\ UNCHANGED <<points, rm>>

(* ID_SessionManager_IsSessionValid: the lookup, the flags, the channel.   *)
ValidGet ==
    /\ net.pc = "valid"
    /\ mutex = NULL
    /\ \/ /\ GetSession(net.tok, NULL)
          /\ Invalid
       \/ /\ \E p \in Sessions :
               /\ GetSession(net.tok, p)
               /\ net' = [net EXCEPT !.pc = "check", !.valid = p]
          /\ UNCHANGED <<points, rm>>
    /\ UNCHANGED <<heap, sessions, sbm, mutex, acc, tm, ub>>

(* Mutant: IsActivated is not looked at.                                   *)
FlagsPassUnactivated == ~heap[net.valid].mutated

(* The flags pass: no mutation is marked and the session is activated, or  *)
(* ActivateSession overrides that.                                         *)
FlagsPass == /\ ~heap[net.valid].mutated
             /\ net.op = "activate" \/ heap[net.valid].activated

ValidFlags ==
    /\ net.pc = "check"
    /\ Alive(net.valid)
    /\ \/ /\ ~FlagsPass
          /\ Invalid
       \/ /\ FlagsPass
          /\ net' = [net EXCEPT !.pc = "touch"]
          /\ UNCHANGED <<points, rm>>
    /\ UNCHANGED <<heap, sessions, sbm, mutex, acc, tm, ub>>

ValidTouch ==
    /\ net.pc = "touch"
    /\ Alive(net.valid)
    /\ \/ /\ heap[net.valid].channel = net.ch
          /\ heap' = [heap EXCEPT ![net.valid].idled = 0]
          /\ Valid
       \/ /\ heap[net.valid].channel # net.ch
          /\ Invalid
          /\ UNCHANGED heap
    /\ UNCHANGED <<sessions, sbm, mutex, acc, tm, ub>>

(* ActivateSession on an activated session: refused on its own channel,    *)
(* transferred to another one when certificate and identity agree.         *)
ActivateCheck ==
    /\ net.pc = "activated"
    /\ Alive(net.obj)
    /\ \/ net' = Return /\ UNCHANGED heap
       \/ /\ heap[net.obj].activated
          /\ heap[net.obj].channel # net.ch
          /\ heap' = [heap EXCEPT ![net.obj] = [@ EXCEPT !.channel = net.ch,
                                                         !.idled = 0]]
          /\ net' = Return
       \/ /\ ~heap[net.obj].activated
          /\ net' = [net EXCEPT !.pc = "valid"]
          /\ UNCHANGED heap
    /\ UNCHANGED <<sessions, sbm, mutex, acc, points, rm, tm, ub>>

(* Signature and identity are accepted, or not.                            *)
ActivateVerify ==
    /\ net.pc = "verify"
    /\ Alive(net.obj)
    /\ heap' \in {heap, [heap EXCEPT ![net.obj].activated = TRUE]}
    /\ net' = Return
    /\ UNCHANGED <<sessions, sbm, mutex, acc, points, rm, tm, ub>>

(* A service runs with UserSession; Browse leaves a continuation point and *)
(* BrowseNext releases one.                                                *)
ServiceWork ==
    /\ net.pc = "work"
    /\ Alive(net.obj)
    /\ points' \in {points, points \cup {net.tok}, points \ {net.tok}}
    /\ net' = Return
    /\ UNCHANGED <<heap, sessions, sbm, mutex, acc, rm, tm, ub>>

NetStep ==
    \/ AddLock \/ AddMemset \/ AddMarkUnlock \/ AddFields
    \/ \E s \in Sessions, flag \in BOOLEAN, idle \in {0, MaxIdle},
          limit \in {0, Timeout} : AddAppend(s, flag, idle, limit)
    \/ CreateGood \/ CreateBad
    \/ HandlerGet \/ CheckChannel \/ ValidGet \/ ValidFlags \/ ValidTouch
    \/ ActivateCheck \/ ActivateVerify \/ ServiceWork
    \/ RemoveSession("net")

-----------------------------------------------------------------------------
(* ID_SessionManager_ValidateSessionLifetime on the timer thread; the      *)
(* mutex is only taken inside RemoveSession.                               *)

(* SessionsBeingMutated: the elapsed time is kept for a later tick.        *)
TickAccumulate ==
    /\ tm.pc = "idle"
    /\ sbm
    /\ acc' = Cap(acc + 1)
    /\ UNCHANGED <<heap, sessions, sbm, mutex, points, rm, net, tm, ub>>

TickStart ==
    /\ tm.pc = "idle"
    /\ ~sbm
    /\ tm' = [tm EXCEPT !.pc = "loop", !.i = 1]
    /\ UNCHANGED <<heap, sessions, sbm, mutex, acc, points, rm, net, ub>>

(* i < Count.                                                              *)
TickLoop ==
    /\ tm.pc = "loop"
    /\ tm' = [tm EXCEPT !.pc = IF tm.i <= Len(sessions) THEN "load" ELSE "end"]
    /\ UNCHANGED <<heap, sessions, sbm, mutex, acc, points, rm, net, ub>>

(* SingleSession = Sessions[i]: a slot beyond Count holds NULL.            *)
TickLoad ==
    /\ tm.pc = "load"
    /\ LET p == IF tm.i <= Len(sessions) THEN sessions[tm.i] ELSE NULL
       IN  tm' = [tm EXCEPT !.pc = "mutated", !.obj = p]
    /\ UNCHANGED <<heap, sessions, sbm, mutex, acc, points, rm, net, ub>>

(* Mutant: the loop goes back a slot to make up for the shift.             *)
NextSlotBack == [tm EXCEPT !.pc = "loop", !.i = @ - 1, !.obj = NULL, !.idled = 0]

NextSlot == [tm EXCEPT !.pc = "loop", !.i = @ + 1, !.obj = NULL, !.idled = 0]

(* IsBeingMutated is read, then IdledTime for the +=.                      *)
TickRead ==
    /\ tm.pc = "mutated"
    /\ Alive(tm.obj)
    /\ tm' = IF heap[tm.obj].mutated THEN NextSlot
             ELSE [tm EXCEPT !.pc = "add", !.idled = heap[tm.obj].idled]
    /\ UNCHANGED <<heap, sessions, sbm, mutex, acc, points, rm, net, ub>>

(* The store of +=, and the comparison with SessionTimeout.                *)
TickAdd ==
    /\ tm.pc = "add"
    /\ Alive(tm.obj)
    /\ LET sum == Cap(tm.idled + 1 + acc)
       IN  /\ heap' = [heap EXCEPT ![tm.obj].idled = sum]
           /\ tm' = IF sum > heap[tm.obj].timeout
                    THEN [tm EXCEPT !.pc = "mark"] ELSE NextSlot
    /\ UNCHANGED <<sessions, sbm, mutex, acc, points, rm, net, ub>>

(* An expired session is marked and RemoveSession called, unless a removal *)
(* is under way.                                                           *)
TickExpire ==
    /\ tm.pc = "mark"
    /\ \/ /\ sbm
          /\ tm' = NextSlot
          /\ UNCHANGED <<heap, rm>>
       \/ /\ ~sbm
          /\ Alive(tm.obj)
          /\ heap' = [heap EXCEPT ![tm.obj].mutated = TRUE]
          /\ tm' = [tm EXCEPT !.pc = "remove"]
          /\ CallRemove("timer", NULL)
    /\ UNCHANGED <<sessions, sbm, mutex, acc, points, net, ub>>

(* After the call the flag is cleared once more, outside the mutex.        *)
TickClear ==
    /\ tm.pc = "clear"
    /\ sbm' = FALSE
    /\ tm' = NextSlot
    /\ UNCHANGED <<heap, sessions, mutex, acc, points, rm, net, ub>>

TickEnd ==
    /\ tm.pc = "end"
    /\ acc' = 0
    /\ tm' = [tm EXCEPT !.pc = "idle", !.i = 1]
    /\ UNCHANGED <<heap, sessions, sbm, mutex, points, rm, net, ub>>

TimerStep ==
    \/ TickAccumulate \/ TickStart \/ TickLoop \/ TickLoad \/ TickRead
    \/ TickAdd \/ TickExpire \/ TickClear \/ TickEnd
    \/ RemoveSession("timer")

-----------------------------------------------------------------------------
(* The pointers thread t is about to follow.                               *)
Pointers(t) ==
    (IF rm[t].pc = "search" /\ TokenOwner(t) # NULL THEN {TokenOwner(t)} ELSE {})
    \cup
    (IF t = "net"
     THEN CASE net.pc \in {"fields", "finish", "channel", "activated",
                           "verify", "work"} -> {net.obj}
            [] net.pc \in {"check", "touch"} -> {net.valid}
            [] OTHER -> {}
     ELSE CASE tm.pc \in {"mutated", "add"} -> {tm.obj}
            [] tm.pc = "mark" /\ ~sbm -> {tm.obj}
            [] OTHER -> {})

(* Undefined behaviour: a pointer to freed memory, or NULL, is followed.   *)
Undefined(t) ==
    /\ \E p \in Pointers(t) : ~Alive(p)
    /\ ub' = TRUE
    /\ UNCHANGED <<heap, sessions, sbm, mutex, acc, points, rm, net, tm>>

(* Bound: a CreateSession is only sent while an address is left.           *)
AddressLeft == \E s \in Sessions : heap[s].status = "none"

Request == \/ AddressLeft /\ \E c \in Channels : Receive("create", NULL, c)
           \/ \E op \in {"service", "activate", "close"},
                 tok \in Sessions \cup {NULL}, c \in Channels :
                    Receive(op, tok, c)

(* Nothing is claimed of the process after undefined behaviour.            *)
Halted == ub /\ UNCHANGED vars

Next == \/ ~ub /\ (Request \/ NetStep \/ TimerStep)
        \/ ~ub /\ \E t \in Threads : Undefined(t)
        \/ Halted

Spec == Init /\ [][Next]_vars

(* Both threads are scheduled: the stack's select loop runs a handler to   *)
(* its end, and the timer thread fires every 5 ms.                         *)
FairSpec == /\ Spec
            /\ WF_vars(~ub /\ NetStep)
            /\ WF_vars(~ub /\ TimerStep)
            /\ WF_vars(~ub /\ Undefined("net"))
            /\ WF_vars(~ub /\ Undefined("timer"))

-----------------------------------------------------------------------------
TypeOK ==
    /\ heap \in [Sessions -> Session]
    /\ sessions \in Seq(Sessions)
    /\ sbm \in BOOLEAN
    /\ mutex \in Threads \cup {NULL}
    /\ acc \in 0 .. MaxIdle
    /\ points \in SUBSET (Sessions \cup {NULL})
    /\ rm \in [Threads -> Remover]
    /\ net \in Handler
    /\ tm \in Pass
    /\ ub \in BOOLEAN

(* The statements between OPCUA_P_MUTEX_LOCK and _UNLOCK.                   *)
InCritical(t) ==
    \/ rm[t].pc \in {"search", "free", "unlock"}
    \/ t = "net" /\ net.pc \in {"append", "memset", "mark"}

(* SessionMutex is held exactly while its owner is between a lock and the  *)
(* matching unlock, on every path through AddSession and RemoveSession, so *)
(* the two threads never change the table at the same time.                *)
MutexExclusion == \A t \in Threads : InCritical(t) <=> mutex = t

(* The table's parts: no slot below Count points to freed memory, no two   *)
(* slots hold the same session, and a session that is not freed is in the  *)
(* table or in the hands of the RemoveSession that frees it next.          *)
ListedAlive == \A i \in 1 .. Len(sessions) : Alive(sessions[i])
NoDuplicates == \A i, j \in 1 .. Len(sessions) :
                    sessions[i] = sessions[j] => i = j
NoLeak == \A s \in Sessions :
             heap[s].status = "alive" =>
                Listed(s) \/ \E t \in Threads :
                                rm[t].pc = "free" /\ rm[t].obj = s

(* The session table stays sound however AddSession, RemoveSession, and    *)
(* the timer's expiry interleave.                                          *)
SessionListSound == ListedAlive /\ NoDuplicates /\ NoLeak

(* A thread has an activation of RemoveSession exactly while its caller    *)
(* waits for it.                                                           *)
Calls == /\ rm["net"].pc # "out" <=> net.pc = "remove"
         /\ rm["timer"].pc # "out" <=> tm.pc = "remove"

(* What RemoveSession is about to free is alive and already unlinked.      *)
RemoverHolds == \A t \in Threads :
    rm[t].pc = "free" => /\ rm[t].obj \in Sessions
                         /\ heap[rm[t].obj].status = "alive"
                         /\ ~Listed(rm[t].obj)

(* The inductive invariant behind MutexExclusion and SessionListSound.     *)
TableInv == /\ TypeOK
            /\ MutexExclusion
            /\ Calls
            /\ SessionListSound
            /\ RemoverHolds

(* A service runs only for a session that ActivateSession activated and    *)
(* that is bound to the channel of the request, although UserSession and   *)
(* the session IsSessionValid looked at come from two separate lookups.    *)
WorkAuthorised ==
    net.pc = "work" /\ Alive(net.obj) => /\ heap[net.obj].activated
                                         /\ heap[net.obj].channel = net.ch
                                         /\ net.obj = net.valid

(* Why it holds: a struct carries its own token once AddSession is done    *)
(* with it, so both lookups of a request return the one session its token  *)
(* names, and only the network thread changes activation and channel.      *)
TokenNamesSession == \A s \in Sessions :
    heap[s].status = "alive" =>
       \/ heap[s].token = s
       \/ net.pc \in {"memset", "mark", "fields"} /\ net.obj = s

LookupsAgree ==
    /\ net.pc \in {"channel", "activated", "valid", "check", "touch",
                   "verify", "work"} => net.obj = net.tok
    /\ net.pc \in {"check", "touch", "work"} => net.valid = net.tok

TouchActivated ==
    net.pc = "touch" /\ net.op # "activate" /\ Alive(net.valid) =>
        heap[net.valid].activated

AuthInv == TokenNamesSession /\ LookupsAgree /\ TouchActivated /\ WorkAuthorised

(* When CloseSession or a refused service frees a session, none of its     *)
(* continuation points is left behind.                                     *)
PointsLeaveWithSession ==
    [][\A s \in Sessions :
         rm["net"].pc = "free" /\ rm["net"].obj = s /\ heap'[s].status = "freed"
            => heap[s].token \notin points']_vars

(* No handler waits forever: neither for SessionMutex nor for the timer.   *)
RequestCompletes == net.pc # "idle" ~> (net.pc = "idle" \/ ub)

(* Every session is removed in the end once its clients fall silent, even  *)
(* if its removal was put off because SessionsBeingMutated was set or the  *)
(* loop skipped it when the table shifted.                                 *)
IdleSessionsExpire == <>[](net.pc = "idle" /\ ~ub) => <>[](sessions = <<>>)

-----------------------------------------------------------------------------
(* Statements made in the source that the code does not keep.              *)

(* SessionMutex is said to control access to Sessions: nobody follows a    *)
(* pointer to a session that was freed.  The timer and every handler after *)
(* GetSession returned do so without the mutex.                            *)
NoUseAfterFree == ~ub

(* The mark the timer sets is said to prevent IsSessionValid from          *)
(* validating the session: no call that returns True finds the mark set.   *)
MarkedNotValidated ==
    [][net.pc = "touch" /\ net'.pc \in {"work", "remove"} /\ heap' # heap
          => ~heap[net.valid].mutated]_vars
=============================================================================
