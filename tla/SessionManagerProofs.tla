----------------------- MODULE SessionManagerProofs -----------------------
(***************************************************************************)
(* Proofs about the session table for any number of sessions and channels  *)
(* and any timeout.                                                        *)
(***************************************************************************)
EXTENDS SessionManager, PointerTableProofs, TLAPS

(* A capped idle time is an idle time.                                     *)
LEMMA CapType == \A n \in Nat : Cap(n) \in 0 .. MaxIdle
BY ConstantsAssumption DEF Cap, MaxIdle

LEMMA UnallocatedType == Unallocated \in Session
BY ConstantsAssumption DEF Session, Unallocated, MaxIdle

(* The struct updates of AddSession, CreateSession and ActivateSession.     *)
LEMMA SessionUpdates ==
    ASSUME NEW r \in Session
    PROVE  /\ \A b \in BOOLEAN, n \in 0 .. MaxIdle, l \in {0, Timeout} :
                 [r EXCEPT !.status = "alive", !.mutated = b, !.idled = n,
                           !.timeout = l] \in Session
           /\ \A b \in BOOLEAN, n \in 0 .. MaxIdle, l \in {0, Timeout} :
                 [r EXCEPT !.mutated = b, !.idled = n, !.timeout = l] \in Session
           /\ \A c \in Channels \cup {NULL}, s \in Sessions \cup {NULL},
                 n \in 0 .. MaxIdle :
                 [r EXCEPT !.channel = c, !.token = s, !.idled = n] \in Session
           /\ \A l \in {0, Timeout}, b \in BOOLEAN :
                 [r EXCEPT !.timeout = l, !.mutated = b] \in Session
           /\ \A c \in Channels \cup {NULL}, n \in 0 .. MaxIdle :
                 [r EXCEPT !.channel = c, !.idled = n] \in Session
BY DEF Session

(* The single fields that the handlers and the timer write.                *)
LEMMA FieldUpdates ==
    ASSUME NEW r \in Session
    PROVE  /\ [r EXCEPT !.mutated = TRUE] \in Session
           /\ [r EXCEPT !.activated = TRUE] \in Session
           /\ [r EXCEPT !.timeout = Timeout] \in Session
           /\ \A n \in 0 .. MaxIdle : [r EXCEPT !.idled = n] \in Session
BY DEF Session

LEMMA IdleBounds == 0 \in 0 .. MaxIdle /\ MaxIdle \in 0 .. MaxIdle
BY ConstantsAssumption DEF MaxIdle

(* Every struct, activation and program counter keeps its type.            *)
LEMMA TypeInit == Init => TypeOK
<1> SUFFICES ASSUME Init PROVE TypeOK
  OBVIOUS
<1>1. heap \in [Sessions -> Session]
  BY UnallocatedType DEF Init
<1>2. rm \in [Threads -> Remover]
  BY DEF Init, Remover, Out
<1>3. net \in Handler
  BY DEF Init, Handler, Return
<1>4. tm \in Pass
  BY ConstantsAssumption DEF Init, Pass, MaxIdle
<1>5. /\ sessions \in Seq(Sessions)
      /\ mutex \in Threads \cup {NULL}
      /\ points \in SUBSET (Sessions \cup {NULL})
  BY DEF Init
<1>6. acc \in 0 .. MaxIdle
  BY ConstantsAssumption DEF Init, MaxIdle
<1>7. sbm \in BOOLEAN /\ ub \in BOOLEAN
  BY Zenon DEF Init
<1> QED
  BY <1>1, <1>2, <1>3, <1>4, <1>5, <1>6, <1>7, Zenon DEF TypeOK

LEMMA TypeRemove ==
    ASSUME TypeOK, NEW t \in Threads, RemoveSession(t)
    PROVE  TypeOK'
<1>1. CASE RemoveLock(t)
  <2>1. rm' \in [Threads -> Remover]
    BY <1>1 DEF TypeOK, RemoveLock, Remover
  <2> QED
    BY <1>1, <2>1 DEF TypeOK, RemoveLock
<1>2. CASE RemoveUnlink(t)
  <2>1. PICK i \in 1 .. Len(sessions) :
           /\ sessions' = Shift(sessions, i)
           /\ rm' = [rm EXCEPT ![t].pc = "free", ![t].obj = sessions[i]]
    BY <1>2 DEF RemoveUnlink
  <2>2. sessions' \in Seq(Sessions) /\ sessions[i] \in Sessions
    BY <2>1, ShiftFacts DEF TypeOK
  <2>3. rm' \in [Threads -> Remover]
    BY <2>1, <2>2 DEF TypeOK, Remover
  <2> QED
    BY <1>2, <2>2, <2>3 DEF TypeOK, RemoveUnlink
<1>3. CASE RemoveNotFound(t)
  <2>1. rm' \in [Threads -> Remover]
    BY <1>3 DEF TypeOK, RemoveNotFound, Remover
  <2> QED
    BY <1>3, <2>1 DEF TypeOK, RemoveNotFound
<1>4. CASE RemoveFree(t)
  <2>1. rm' \in [Threads -> Remover]
    BY <1>4 DEF TypeOK, RemoveFree, Remover
  <2>2. [Unallocated EXCEPT !.status = "freed"] \in Session
    BY UnallocatedType DEF Session
  <2>3. heap' \in [Sessions -> Session]
    BY <1>4, <2>2 DEF TypeOK, RemoveFree
  <2> QED
    BY <1>4, <2>1, <2>3 DEF TypeOK, RemoveFree
<1>5. CASE RemoveUnlock(t)
  <2>1. rm' \in [Threads -> Remover]
    BY <1>5 DEF TypeOK, RemoveUnlock, Remover, Out
  <2>2. net' \in Handler
    BY <1>5 DEF TypeOK, RemoveUnlock, Handler, Return
  <2>3. tm' \in Pass
    BY <1>5 DEF TypeOK, RemoveUnlock, Pass
  <2> QED
    BY <1>5, <2>1, <2>2, <2>3 DEF TypeOK, RemoveUnlock
<1> QED
  BY <1>1, <1>2, <1>3, <1>4, <1>5 DEF RemoveSession
LEMMA TypeNet ==
    ASSUME TypeOK, NetStep \/ Request
    PROVE  TypeOK'
<1>1. CASE AddLock
  <2>1. net' \in Handler
    BY <1>1 DEF TypeOK, AddLock, Handler
  <2> QED
    BY <1>1, <2>1 DEF TypeOK, AddLock, Threads
<1>2. ASSUME NEW s \in Sessions, NEW flag \in BOOLEAN,
             NEW idle \in {0, MaxIdle}, NEW limit \in {0, Timeout},
             AddAppend(s, flag, idle, limit)
      PROVE  TypeOK'
  <2>1. [Unallocated EXCEPT !.status = "alive", !.mutated = flag,
                            !.idled = idle, !.timeout = limit] \in Session
    BY UnallocatedType, SessionUpdates, IdleBounds
  <2>2. heap' \in [Sessions -> Session]
    BY <1>2, <2>1 DEF TypeOK, AddAppend
  <2>3. net' \in Handler
    BY <1>2 DEF TypeOK, AddAppend, Handler
  <2>4. sessions' \in Seq(Sessions)
    BY <1>2 DEF TypeOK, AddAppend
  <2> QED
    BY <1>2, <2>2, <2>3, <2>4 DEF TypeOK, AddAppend
<1>3. CASE AddMemset
  <2>1. heap' \in [Sessions -> Session]
    BY <1>3, SessionUpdates, IdleBounds DEF TypeOK, AddMemset
  <2>2. net' \in Handler
    BY <1>3 DEF TypeOK, AddMemset, Handler
  <2> QED
    BY <1>3, <2>1, <2>2 DEF TypeOK, AddMemset
<1>4. CASE AddMarkUnlock
  <2>1. heap' \in [Sessions -> Session]
    BY <1>4, FieldUpdates DEF TypeOK, AddMarkUnlock
  <2>2. net' \in Handler
    BY <1>4 DEF TypeOK, AddMarkUnlock, Handler
  <2> QED
    BY <1>4, <2>1, <2>2 DEF TypeOK, AddMarkUnlock
<1>5. CASE AddFields
  <2>0. net.ch \in Channels \cup {NULL} /\ net.obj \in Sessions \cup {NULL}
    BY DEF TypeOK, Handler
  <2>1. heap' \in [Sessions -> Session]
    BY <1>5, <2>0, SessionUpdates, IdleBounds DEF TypeOK, AddFields
  <2>2. net' \in Handler
    BY <1>5 DEF TypeOK, AddFields, Handler
  <2> QED
    BY <1>5, <2>1, <2>2 DEF TypeOK, AddFields
<1>6. CASE CreateGood
  <2>1. heap' \in [Sessions -> Session]
    BY <1>6, SessionUpdates DEF TypeOK, CreateGood
  <2>2. net' \in Handler
    BY <1>6 DEF TypeOK, CreateGood, Handler, Return
  <2> QED
    BY <1>6, <2>1, <2>2 DEF TypeOK, CreateGood
<1>7. CASE CreateBad
  <2>1. heap' \in [Sessions -> Session]
    BY <1>7, FieldUpdates DEF TypeOK, CreateBad
  <2>2. net' \in Handler
    BY <1>7 DEF TypeOK, CreateBad, Handler
  <2>3. rm' \in [Threads -> Remover]
    BY <1>7 DEF TypeOK, CreateBad, CallRemove, Remover
  <2> QED
    BY <1>7, <2>1, <2>2, <2>3 DEF TypeOK, CreateBad
<1>8. CASE HandlerGet
  <2>1. net' \in Handler
    <3>1. PICK p \in Sessions \cup {NULL} :
             net' = IF p = NULL THEN Return
                    ELSE [net EXCEPT !.pc = AfterGet(net.op), !.obj = p]
      BY <1>8 DEF HandlerGet
    <3>2. Return \in Handler
      BY DEF Return, Handler
    <3>3. AfterGet(net.op) \in {"channel", "activated", "valid"}
      BY DEF AfterGet
    <3>4. [net EXCEPT !.pc = AfterGet(net.op), !.obj = p] \in Handler
      BY <3>3 DEF TypeOK, Handler
    <3> QED
      BY <3>1, <3>2, <3>4
  <2> QED
    BY <1>8, <2>1 DEF TypeOK, HandlerGet
<1>9. CASE CheckChannel
  <2>1. net' \in Handler
    BY <1>9 DEF TypeOK, CheckChannel, Handler, Return
  <2> QED
    BY <1>9, <2>1 DEF TypeOK, CheckChannel
<1>10. ASSUME Invalid \/ Valid
       PROVE  /\ net' \in Handler
              /\ rm' \in [Threads -> Remover]
              /\ points' \in SUBSET (Sessions \cup {NULL})
  <2>1. net' \in Handler
    BY <1>10 DEF TypeOK, Invalid, Valid, Handler, Return
  <2>2. net.tok \in Sessions \cup {NULL}
    BY DEF TypeOK, Handler
  <2>3. rm' \in [Threads -> Remover]
    BY <1>10, <2>2 DEF TypeOK, Invalid, Valid, CallRemove, Remover
  <2>4. points' \in SUBSET (Sessions \cup {NULL})
    BY <1>10 DEF TypeOK, Invalid, Valid
  <2> QED
    BY <2>1, <2>3, <2>4
<1>11. CASE ValidGet
  <2>1. CASE Invalid
    BY <1>10, <1>11, <2>1 DEF TypeOK, ValidGet
  <2>2. CASE ~Invalid
    <3>1. net' \in Handler
      BY <1>11, <2>2 DEF TypeOK, ValidGet, Handler
    <3> QED
      BY <1>11, <2>2, <3>1 DEF TypeOK, ValidGet
  <2> QED
    BY <2>1, <2>2
<1>12. CASE ValidFlags
  <2>1. CASE Invalid
    BY <1>10, <1>12, <2>1 DEF TypeOK, ValidFlags
  <2>2. CASE ~Invalid
    <3>1. net' \in Handler
      BY <1>12, <2>2 DEF TypeOK, ValidFlags, Handler
    <3> QED
      BY <1>12, <2>2, <3>1 DEF TypeOK, ValidFlags
  <2> QED
    BY <2>1, <2>2
<1>13. CASE ValidTouch
  <2>1. heap' \in [Sessions -> Session]
    BY <1>13, IdleBounds DEF TypeOK, ValidTouch, Session
  <2> QED
    BY <1>10, <1>13, <2>1 DEF TypeOK, ValidTouch
<1>14. CASE ActivateCheck
  <2>1. net.ch \in Channels \cup {NULL}
    BY DEF TypeOK, Handler
  <2>2. heap' \in [Sessions -> Session]
    <3>1. CASE UNCHANGED heap
      BY <3>1 DEF TypeOK
    <3>2. CASE heap' = [heap EXCEPT ![net.obj] = [@ EXCEPT !.channel = net.ch,
                                                           !.idled = 0]]
      BY <2>1, <3>2, SessionUpdates, IdleBounds DEF TypeOK
    <3> QED
      BY <1>14, <3>1, <3>2 DEF ActivateCheck
  <2>3. net' \in Handler
    BY <1>14 DEF TypeOK, ActivateCheck, Handler, Return
  <2> QED
    BY <1>14, <2>2, <2>3 DEF TypeOK, ActivateCheck
<1>15. CASE ActivateVerify
  <2>1. heap' \in [Sessions -> Session]
    <3>1. CASE heap' = heap
      BY <3>1 DEF TypeOK
    <3>2. CASE heap' = [heap EXCEPT ![net.obj].activated = TRUE]
      BY <3>2, FieldUpdates DEF TypeOK
    <3> QED
      BY <1>15, <3>1, <3>2 DEF ActivateVerify
  <2>2. net' \in Handler
    BY <1>15 DEF ActivateVerify, Handler, Return
  <2> QED
    BY <1>15, <2>1, <2>2 DEF TypeOK, ActivateVerify
<1>16. CASE ServiceWork
  <2>1. net' \in Handler
    BY <1>16 DEF ServiceWork, Handler, Return
  <2>2. net.tok \in Sessions \cup {NULL}
    BY DEF TypeOK, Handler
  <2>3. points' \in SUBSET (Sessions \cup {NULL})
    BY <1>16, <2>2 DEF TypeOK, ServiceWork
  <2> QED
    BY <1>16, <2>1, <2>3 DEF TypeOK, ServiceWork
<1>17. CASE RemoveSession("net")
  BY <1>17, TypeRemove DEF Threads
<1>18. CASE Request
  <2>1. net' \in Handler
    BY <1>18 DEF Request, Receive, Handler
  <2> QED
    BY <1>18, <2>1 DEF TypeOK, Request, Receive
<1> QED
  BY <1>1, <1>2, <1>3, <1>4, <1>5, <1>6, <1>7, <1>8, <1>9, <1>11, <1>12,
     <1>13, <1>14, <1>15, <1>16, <1>17, <1>18 DEF NetStep

LEMMA PassUpdates ==
    ASSUME NEW r \in Pass
    PROVE  /\ \A n \in Nat \ {0}, k \in 0 .. MaxIdle :
                 [r EXCEPT !.pc = "loop", !.i = n, !.obj = NULL, !.idled = k]
                    \in Pass
           /\ \A p \in Sessions \cup {NULL} :
                 [r EXCEPT !.pc = "mutated", !.obj = p] \in Pass
           /\ \A n \in Nat \ {0} :
                 /\ [r EXCEPT !.pc = "loop", !.i = n] \in Pass
                 /\ [r EXCEPT !.pc = "idle", !.i = n] \in Pass
BY DEF Pass

LEMMA NextSlotType == TypeOK => NextSlot \in Pass
<1> SUFFICES ASSUME TypeOK PROVE NextSlot \in Pass
  OBVIOUS
<1>1. tm \in Pass /\ tm.i + 1 \in Nat \ {0}
  BY DEF TypeOK, Pass
<1> QED
  BY <1>1, PassUpdates, IdleBounds DEF NextSlot

LEMMA TypeTimer ==
    ASSUME TypeOK, TimerStep
    PROVE  TypeOK'
<1>1. CASE TickAccumulate
  <2>1. acc + 1 \in Nat
    BY DEF TypeOK
  <2>2. Cap(acc + 1) \in 0 .. MaxIdle
    BY <2>1, CapType
  <2> QED
    BY <1>1, <2>2 DEF TypeOK, TickAccumulate
<1>2. CASE TickStart
  <2>1. 1 \in Nat \ {0}
    OBVIOUS
  <2>2. tm' \in Pass
    BY <1>2, <2>1, PassUpdates DEF TypeOK, TickStart
  <2> QED
    BY <1>2, <2>2 DEF TypeOK, TickStart
<1>3. CASE TickLoop
  <2>1. tm' \in Pass
    BY <1>3 DEF TypeOK, TickLoop, Pass
  <2> QED
    BY <1>3, <2>1 DEF TypeOK, TickLoop
<1>4. CASE TickLoad
  <2>1. tm' \in Pass
    <3> DEFINE p == IF tm.i <= Len(sessions) THEN sessions[tm.i] ELSE NULL
    <3>1. tm \in Pass /\ tm.i \in Nat \ {0}
      BY DEF TypeOK, Pass
    <3>2. p \in Sessions \cup {NULL}
      BY <3>1 DEF TypeOK
    <3> QED
      BY <1>4, <3>1, <3>2, PassUpdates DEF TypeOK, TickLoad
  <2> QED
    BY <1>4, <2>1 DEF TypeOK, TickLoad
<1>5. CASE TickRead
  <2>1. tm.obj \in Sessions => heap[tm.obj].idled \in 0 .. MaxIdle
    BY DEF TypeOK, Session
  <2>2. tm.obj \in Sessions
    BY <1>5 DEF TypeOK, TickRead, Alive, Pass
  <2>3. tm' \in Pass
    BY <1>5, <2>1, <2>2, NextSlotType DEF TypeOK, TickRead, Pass
  <2> QED
    BY <1>5, <2>3 DEF TypeOK, TickRead
<1>6. CASE TickAdd
  <2>1. tm.idled + 1 + acc \in Nat
    BY ConstantsAssumption DEF TypeOK, Pass, MaxIdle
  <2>2. Cap(tm.idled + 1 + acc) \in 0 .. MaxIdle
    BY <2>1, CapType
  <2>3. heap' \in [Sessions -> Session]
    BY <1>6, <2>2, FieldUpdates DEF TypeOK, TickAdd
  <2>4. tm' \in Pass
    BY <1>6, NextSlotType DEF TypeOK, TickAdd, Pass
  <2> QED
    BY <1>6, <2>3, <2>4 DEF TypeOK, TickAdd
<1>7. CASE TickExpire
  <2>1. heap' \in [Sessions -> Session]
    <3>1. CASE UNCHANGED heap
      BY <3>1 DEF TypeOK
    <3>2. CASE heap' = [heap EXCEPT ![tm.obj].mutated = TRUE]
      BY <3>2, FieldUpdates DEF TypeOK
    <3> QED
      BY <1>7, <3>1, <3>2 DEF TickExpire
  <2>2. tm' \in Pass
    BY <1>7, NextSlotType DEF TypeOK, TickExpire, Pass
  <2>3. rm' \in [Threads -> Remover]
    BY <1>7 DEF TypeOK, TickExpire, CallRemove, Remover
  <2> QED
    BY <1>7, <2>1, <2>2, <2>3 DEF TypeOK, TickExpire
<1>8. CASE TickClear
  BY <1>8, NextSlotType DEF TypeOK, TickClear
<1>9. CASE TickEnd
  <2>0. {} \in SUBSET Sessions /\ 1 \in Nat \ {0}
    OBVIOUS
  <2>1. tm' \in Pass
    BY <1>9, <2>0, PassUpdates DEF TypeOK, TickEnd
  <2> QED
    BY <1>9, <2>1, IdleBounds DEF TypeOK, TickEnd
<1>10. CASE RemoveSession("timer")
  BY <1>10, TypeRemove DEF Threads
<1> QED
  BY <1>1, <1>2, <1>3, <1>4, <1>5, <1>6, <1>7, <1>8, <1>9, <1>10 DEF TimerStep

LEMMA TypeNext == TypeOK /\ [Next]_vars => TypeOK'
<1> SUFFICES ASSUME TypeOK, [Next]_vars PROVE TypeOK'
  OBVIOUS
<1>1. CASE \E t \in Threads : Undefined(t)
  BY <1>1 DEF TypeOK, Undefined
<1>2. CASE UNCHANGED vars
  BY <1>2 DEF TypeOK, vars
<1> QED
  BY <1>1, <1>2, TypeNet, TypeTimer DEF Next, Halted

(* The table, the structs in it and both threads keep their types.         *)
THEOREM TypeCorrect == Spec => []TypeOK
BY TypeInit, TypeNext, PTL DEF Spec
-----------------------------------------------------------------------------
(* Mutual exclusion.  Every action other than a lock and an unlock keeps   *)
(* the owner and who is between them.                                      *)
LEMMA MutexInit == Init => MutexExclusion /\ Calls
BY ThreadsAssumption DEF Init, MutexExclusion, Calls, InCritical, Out, Return,
    Threads

LEMMA MutexRemove ==
    ASSUME TypeOK, MutexExclusion, Calls, NEW t \in Threads, RemoveSession(t)
    PROVE  MutexExclusion' /\ Calls'
<1> USE ThreadsAssumption DEF TypeOK, Threads, Remover
<1>0. t = "net" \/ t = "timer"
  OBVIOUS
<1>1. CASE RemoveLock(t)
  BY <1>0, <1>1 DEF RemoveLock, MutexExclusion, Calls, InCritical
<1>2. CASE RemoveUnlink(t)
  <2>1. PICK i \in 1 .. Len(sessions) :
           rm' = [rm EXCEPT ![t].pc = "free", ![t].obj = sessions[i]]
    BY <1>2 DEF RemoveUnlink
  <2> QED
    BY <1>0, <1>2, <2>1 DEF RemoveUnlink, MutexExclusion, Calls, InCritical
<1>3. CASE RemoveNotFound(t)
  BY <1>0, <1>3 DEF RemoveNotFound, MutexExclusion, Calls, InCritical
<1>4. CASE RemoveFree(t)
  BY <1>0, <1>4 DEF RemoveFree, MutexExclusion, Calls, InCritical
<1>5. CASE RemoveUnlock(t)
  BY <1>0, <1>5 DEF RemoveUnlock, MutexExclusion, Calls, InCritical, Out,
     Return, Handler, Pass
<1> QED
  BY <1>1, <1>2, <1>3, <1>4, <1>5 DEF RemoveSession

LEMMA MutexNet ==
    ASSUME TypeOK, MutexExclusion, Calls, NetStep \/ Request
    PROVE  MutexExclusion' /\ Calls'
<1> USE ThreadsAssumption DEF TypeOK, Threads
<1> DEFINE Keep == /\ UNCHANGED <<mutex, rm, tm>>
                   /\ net.pc \notin {"append", "memset", "mark", "remove"}
                   /\ net'.pc \notin {"append", "memset", "mark", "remove"}
           Call == /\ UNCHANGED <<mutex, tm>>
                   /\ net.pc \notin {"append", "memset", "mark", "remove"}
                   /\ net'.pc = "remove"
                   /\ \E tok : CallRemove("net", tok)
<1>1. CASE AddLock
  BY <1>1 DEF AddLock, MutexExclusion, Calls, InCritical, Handler
<1>2. ASSUME NEW s \in Sessions, NEW flag \in BOOLEAN,
             NEW idle \in {0, MaxIdle}, NEW limit \in {0, Timeout},
             AddAppend(s, flag, idle, limit)
      PROVE  MutexExclusion' /\ Calls'
  BY <1>2 DEF AddAppend, MutexExclusion, Calls, InCritical, Handler
<1>3. CASE AddMemset
  BY <1>3 DEF AddMemset, MutexExclusion, Calls, InCritical, Handler
<1>4. CASE AddMarkUnlock
  BY <1>4 DEF AddMarkUnlock, MutexExclusion, Calls, InCritical, Handler
<1>5. CASE Keep
  BY <1>5 DEF MutexExclusion, Calls, InCritical
<1>6. CASE Call
  BY <1>6 DEF MutexExclusion, Calls, InCritical, CallRemove
<1>7. CASE AddFields
  BY <1>5, <1>7 DEF AddFields, Handler
<1>8. CASE CreateGood
  BY <1>5, <1>8 DEF CreateGood, Return
<1>9. CASE CreateBad
  BY <1>6, <1>9 DEF CreateBad, Handler
<1>10. CASE HandlerGet
  <2>1. AfterGet(net.op) \in {"channel", "activated", "valid"}
    BY DEF AfterGet
  <2>2. net'.pc \in {"idle", "channel", "activated", "valid"}
    BY <1>10, <2>1 DEF HandlerGet, Return, Handler
  <2> QED
    BY <1>5, <1>10, <2>2 DEF HandlerGet
<1>11. CASE CheckChannel
  BY <1>5, <1>11 DEF CheckChannel, Return, Handler
<1>12. CASE ValidGet
  <2>0. net.pc = "valid" /\ UNCHANGED <<mutex, tm>>
    BY <1>12 DEF ValidGet
  <2>1. CASE Invalid
    BY <1>5, <1>6, <2>0, <2>1 DEF Invalid, Return, Handler
  <2>2. CASE ~Invalid
    BY <1>5, <1>12, <2>2 DEF ValidGet, Handler
  <2> QED
    BY <2>1, <2>2
<1>13. CASE ValidFlags
  BY <1>5, <1>6, <1>13 DEF ValidFlags, Invalid, Return, Handler
<1>14. CASE ValidTouch
  BY <1>5, <1>6, <1>14 DEF ValidTouch, Invalid, Valid, Return, Handler
<1>15. CASE ActivateCheck
  BY <1>5, <1>15 DEF ActivateCheck, Return, Handler
<1>16. CASE ActivateVerify
  BY <1>5, <1>16 DEF ActivateVerify, Return
<1>17. CASE ServiceWork
  BY <1>5, <1>17 DEF ServiceWork, Return
<1>18. CASE RemoveSession("net")
  BY <1>18, MutexRemove
<1>19. CASE Request
  BY <1>5, <1>19 DEF Request, Receive
<1> QED
  BY <1>1, <1>2, <1>3, <1>4, <1>7, <1>8, <1>9, <1>10, <1>11, <1>12, <1>13,
     <1>14, <1>15, <1>16, <1>17, <1>18, <1>19 DEF NetStep
LEMMA MutexTimer ==
    ASSUME TypeOK, MutexExclusion, Calls, TimerStep
    PROVE  MutexExclusion' /\ Calls'
<1> USE ThreadsAssumption DEF TypeOK, Threads
<1> DEFINE Keep == /\ UNCHANGED <<mutex, rm, net>>
                   /\ tm.pc # "remove"
                   /\ tm'.pc # "remove"
<1>1. CASE Keep
  BY <1>1 DEF MutexExclusion, Calls, InCritical
<1>2. NextSlot.pc = "loop"
  BY DEF NextSlot, Pass
<1>3. CASE TickAccumulate
  BY <1>1, <1>3 DEF TickAccumulate
<1>4. CASE TickStart
  BY <1>1, <1>4 DEF TickStart, Pass
<1>5. CASE TickLoop
  BY <1>1, <1>5 DEF TickLoop, Pass
<1>6. CASE TickLoad
  BY <1>1, <1>6 DEF TickLoad, Pass
<1>7. CASE TickRead
  BY <1>1, <1>2, <1>7 DEF TickRead, Pass
<1>8. CASE TickAdd
  BY <1>1, <1>2, <1>8 DEF TickAdd, Pass
<1>9. CASE TickExpire
  <2>1. CASE tm' = NextSlot /\ UNCHANGED rm
    BY <1>1, <1>2, <1>9, <2>1 DEF TickExpire
  <2>2. CASE tm'.pc = "remove" /\ CallRemove("timer", NULL)
    BY <1>9, <2>2 DEF TickExpire, MutexExclusion, Calls, InCritical, CallRemove
  <2> QED
    BY <1>9, <2>1, <2>2 DEF TickExpire, Pass
<1>10. CASE TickClear
  BY <1>1, <1>2, <1>10 DEF TickClear
<1>11. CASE TickEnd
  BY <1>1, <1>11 DEF TickEnd, Pass
<1>12. CASE RemoveSession("timer")
  BY <1>12, MutexRemove
<1> QED
  BY <1>3, <1>4, <1>5, <1>6, <1>7, <1>8, <1>9, <1>10, <1>11, <1>12 DEF TimerStep

-----------------------------------------------------------------------------
(* The table.  ListInv is what the list contributes to TableInv.           *)
ListInv == SessionListSound /\ RemoverHolds

(* A step that leaves the table, the allocation state of every struct and  *)
(* the sessions being freed alone keeps ListInv.                           *)
LEMMA ListFrame ==
    ASSUME TypeOK, ListInv, UNCHANGED sessions,
           \A s \in Sessions : heap'[s].status = heap[s].status,
           \A t \in Threads : /\ rm'[t].pc = "free" <=> rm[t].pc = "free"
                              /\ rm[t].pc = "free" => rm'[t].obj = rm[t].obj
    PROVE  ListInv'
<1>1. \A s : Listed(s)' <=> Listed(s)
  BY DEF Listed
<1>2. \A i \in 1 .. Len(sessions) : sessions[i] \in Sessions
  BY DEF TypeOK
<1>3. ListedAlive' /\ NoDuplicates'
  BY <1>2 DEF ListInv, SessionListSound, ListedAlive, NoDuplicates, Alive
<1>4. NoLeak'
  BY <1>1 DEF ListInv, SessionListSound, NoLeak
<1>5. RemoverHolds'
  BY <1>1 DEF ListInv, RemoverHolds
<1> QED
  BY <1>3, <1>4, <1>5 DEF ListInv, SessionListSound
LEMMA ListRemove ==
    ASSUME TypeOK, MutexExclusion, ListInv, NEW t \in Threads, RemoveSession(t)
    PROVE  ListInv'
<1> USE DEF Threads
<1>0. t = "net" \/ t = "timer"
  OBVIOUS
<1>1. CASE RemoveLock(t)
  BY <1>1, ListFrame DEF RemoveLock, TypeOK, Remover
<1>2. CASE RemoveUnlink(t)
  <2>1. PICK i \in 1 .. Len(sessions) :
           /\ sessions' = Shift(sessions, i)
           /\ rm' = [rm EXCEPT ![t].pc = "free", ![t].obj = sessions[i]]
    BY <1>2 DEF RemoveUnlink
  <2>2. /\ heap' = heap /\ rm[t].pc = "search"
        /\ \A u \in Threads : u # t => rm[u].pc # "free"
    BY <1>2 DEF RemoveUnlink, MutexExclusion, InCritical
  <2>3. /\ Len(sessions') = Len(sessions) - 1
        /\ \A j \in 1 .. Len(sessions) - 1 :
              sessions'[j] = IF j < i THEN sessions[j] ELSE sessions[j + 1]
    BY <2>1, ShiftFacts DEF TypeOK
  <2>4. /\ Len(sessions) \in Nat
        /\ \A j \in 1 .. Len(sessions) : sessions[j] \in Sessions
    BY DEF TypeOK
  <2>5. /\ \A j \in 1 .. Len(sessions) : Alive(sessions[j])
        /\ \A j, k \in 1 .. Len(sessions) : sessions[j] = sessions[k] => j = k
    BY DEF ListInv, SessionListSound, ListedAlive, NoDuplicates
  <2>6. \A j \in 1 .. Len(sessions') :
           \E k \in 1 .. Len(sessions) : k # i /\ sessions'[j] = sessions[k]
                                               /\ k = IF j < i THEN j ELSE j + 1
    BY <2>3, <2>4
  <2>7. ListedAlive'
    BY <2>2, <2>5, <2>6 DEF ListedAlive, Alive
  <2>8. NoDuplicates'
    <3> SUFFICES ASSUME NEW j \in 1 .. Len(sessions'),
                        NEW k \in 1 .. Len(sessions'),
                        sessions'[j] = sessions'[k]
                 PROVE  j = k
      BY DEF NoDuplicates
    <3>1. (IF j < i THEN j ELSE j + 1) = (IF k < i THEN k ELSE k + 1)
      BY <2>5, <2>6
    <3> QED
      BY <2>3, <2>4, <3>1
  <2>9. \A s : Listed(s) => s = sessions[i] \/ Listed(s)'
    <3> SUFFICES ASSUME NEW k \in 1 .. Len(sessions), k # i
                 PROVE  \E j \in 1 .. Len(sessions') : sessions'[j] = sessions[k]
      BY DEF Listed
    <3>1. CASE k < i
      BY <2>3, <2>4, <3>1
    <3>2. CASE k > i
      <4>1. k - 1 \in 1 .. Len(sessions') /\ ~(k - 1 < i) /\ (k - 1) + 1 = k
        BY <2>3, <2>4, <3>2
      <4> QED
        BY <2>3, <4>1
    <3> QED
      BY <2>4, <3>1, <3>2
  <2>10. \A s : s = sessions[i] => ~Listed(s)'
    BY <2>5, <2>6 DEF Listed
  <2>11. rm'[t].pc = "free" /\ rm'[t].obj = sessions[i]
    BY <2>1 DEF TypeOK, Remover
  <2>12. NoLeak'
    BY <2>2, <2>9, <2>11 DEF ListInv, SessionListSound, NoLeak
  <2>13. \A u \in Threads : u # t => rm'[u] = rm[u]
    BY <2>1 DEF TypeOK
  <2>14. RemoverHolds'
    BY <2>2, <2>4, <2>5, <2>10, <2>11, <2>13 DEF RemoverHolds, Alive
  <2> QED
    BY <2>7, <2>8, <2>12, <2>14 DEF ListInv, SessionListSound
<1>3. CASE RemoveNotFound(t)
  BY <1>3, ListFrame DEF RemoveNotFound, TypeOK, Remover
<1>4. CASE RemoveFree(t)
  <2> DEFINE o == rm[t].obj
  <2>1. o \in Sessions /\ ~Listed(o) /\ rm[t].pc = "free" /\ sessions' = sessions
    BY <1>4 DEF RemoveFree, ListInv, RemoverHolds
  <2>2. \A u \in Threads : rm'[u].pc # "free"
    BY <1>0, <1>4 DEF RemoveFree, MutexExclusion, InCritical, TypeOK, Remover
  <2>3. /\ heap'[o].status = "freed"
        /\ \A s \in Sessions : s # o => heap'[s] = heap[s]
    BY <1>4, <2>1, UnallocatedType DEF RemoveFree, TypeOK, Session
  <2>4. \A s : Listed(s)' <=> Listed(s)
    BY <2>1 DEF Listed
  <2>5. \A i \in 1 .. Len(sessions) : sessions[i] \in Sessions /\ sessions[i] # o
    BY <2>1 DEF TypeOK, Listed
  <2>6. ListedAlive' /\ NoDuplicates'
    BY <2>1, <2>3, <2>5
       DEF ListInv, SessionListSound, ListedAlive, NoDuplicates, Alive
  <2>7. NoLeak'
    <3>1. \A u \in Threads : u # t => rm[u].pc # "free"
      BY <1>0, <1>4 DEF RemoveFree, MutexExclusion, InCritical
    <3>2. \A s \in Sessions : heap'[s].status = "alive" => Listed(s)
      BY <2>1, <2>3, <3>1 DEF ListInv, SessionListSound, NoLeak
    <3> QED
      BY <2>4, <3>2 DEF NoLeak
  <2>8. RemoverHolds'
    BY <2>2 DEF RemoverHolds
  <2> QED
    BY <2>6, <2>7, <2>8 DEF ListInv, SessionListSound
<1>5. CASE RemoveUnlock(t)
  BY <1>5, ListFrame DEF RemoveUnlock, TypeOK, Remover, Out
<1> QED
  BY <1>1, <1>2, <1>3, <1>4, <1>5 DEF RemoveSession
LEMMA ListNet ==
    ASSUME TypeOK, MutexExclusion, Calls, ListInv, NetStep \/ Request
    PROVE  ListInv'
<1> DEFINE SameList == UNCHANGED sessions
           SameStatus == \A s \in Sessions : heap'[s].status = heap[s].status
           SameFree == \A t \in Threads :
                          /\ rm'[t].pc = "free" <=> rm[t].pc = "free"
                          /\ rm[t].pc = "free" => rm'[t].obj = rm[t].obj
<1>1. ASSUME NEW s \in Sessions, NEW flag \in BOOLEAN,
             NEW idle \in {0, MaxIdle}, NEW limit \in {0, Timeout},
             AddAppend(s, flag, idle, limit)
      PROVE  ListInv'
  <2>1. /\ heap[s].status = "none" /\ rm' = rm
        /\ sessions' = Append(sessions, s)
    BY <1>1 DEF AddAppend
  <2>2. /\ Len(sessions') = Len(sessions) + 1
        /\ \A i \in 1 .. Len(sessions) : sessions'[i] = sessions[i]
        /\ sessions'[Len(sessions) + 1] = s
        /\ Len(sessions) \in Nat
    BY <2>1 DEF TypeOK
  <2>3. \A i \in 1 .. Len(sessions) :
           sessions[i] \in Sessions /\ sessions[i] # s
    BY <2>1 DEF TypeOK, ListInv, SessionListSound, ListedAlive, Alive
  <2>4. /\ heap'[s].status = "alive"
        /\ \A r \in Sessions : r # s => heap'[r] = heap[r]
    BY <1>1, UnallocatedType DEF AddAppend, TypeOK, Session
  <2>5. \A r : Listed(r)' <=> Listed(r) \/ r = s
    BY <2>2 DEF Listed
  <2>6. ListedAlive'
    BY <2>2, <2>3, <2>4, ConstantsAssumption
       DEF ListInv, SessionListSound, ListedAlive, Alive
  <2>7. NoDuplicates'
    BY <2>2, <2>3 DEF ListInv, SessionListSound, NoDuplicates
  <2>8. NoLeak'
    BY <2>1, <2>4, <2>5 DEF ListInv, SessionListSound, NoLeak
  <2>9. RemoverHolds'
    BY <2>1, <2>4, <2>5 DEF ListInv, RemoverHolds
  <2> QED
    BY <2>6, <2>7, <2>8, <2>9 DEF ListInv, SessionListSound
<1>2. CASE SameList /\ SameStatus /\ SameFree
  BY <1>2, ListFrame
<1>3. CASE RemoveSession("net")
  BY <1>3, ListRemove DEF Threads
<1>4. ASSUME CallRemove("net", NULL) \/ CallRemove("net", net.tok),
             net.pc # "remove"
      PROVE  SameFree
  BY <1>4 DEF CallRemove, Calls, TypeOK, Threads
<1>5. ASSUME Invalid \/ Valid, net.pc # "remove"
      PROVE  SameFree
  BY <1>4, <1>5 DEF Invalid, Valid
<1>6. CASE AddLock \/ HandlerGet \/ CheckChannel \/ ServiceWork \/ Request
  BY <1>2, <1>6 DEF AddLock, HandlerGet, CheckChannel, ServiceWork, Request,
     Receive
<1>7. CASE AddMemset
  <2>1. SameStatus
    BY <1>7 DEF AddMemset, TypeOK, Session
  <2> QED
    BY <1>2, <1>7, <2>1 DEF AddMemset
<1>8. CASE AddMarkUnlock
  <2>1. SameStatus
    BY <1>8 DEF AddMarkUnlock, TypeOK, Session
  <2> QED
    BY <1>2, <1>8, <2>1 DEF AddMarkUnlock
<1>9. CASE AddFields
  <2>1. SameStatus
    BY <1>9 DEF AddFields, TypeOK, Session
  <2> QED
    BY <1>2, <1>9, <2>1 DEF AddFields
<1>10. CASE CreateGood
  <2>1. SameStatus
    BY <1>10 DEF CreateGood, TypeOK, Session
  <2> QED
    BY <1>2, <1>10, <2>1 DEF CreateGood
<1>11. CASE CreateBad
  <2>1. SameStatus
    BY <1>11 DEF CreateBad, TypeOK, Session
  <2> QED
    BY <1>2, <1>4, <1>11, <2>1 DEF CreateBad
<1>12. CASE ValidGet
  BY <1>2, <1>5, <1>12 DEF ValidGet
<1>13. CASE ValidFlags
  BY <1>2, <1>5, <1>13 DEF ValidFlags
<1>14. CASE ValidTouch
  <2>1. SameStatus
    BY <1>14 DEF ValidTouch, TypeOK, Session
  <2> QED
    BY <1>2, <1>5, <1>14, <2>1 DEF ValidTouch
<1>15. CASE ActivateCheck
  <2>1. CASE UNCHANGED heap
    BY <1>2, <1>15, <2>1 DEF ActivateCheck
  <2>2. CASE heap' = [heap EXCEPT ![net.obj] = [@ EXCEPT !.channel = net.ch,
                                                         !.idled = 0]]
    <3>1. SameStatus
      BY <2>2 DEF TypeOK, Session
    <3> QED
      BY <1>2, <1>15, <3>1 DEF ActivateCheck
  <2> QED
    BY <1>15, <2>1, <2>2 DEF ActivateCheck
<1>16. CASE ActivateVerify
  <2>1. SameStatus
    BY <1>16 DEF ActivateVerify, TypeOK, Session
  <2> QED
    BY <1>2, <1>16, <2>1 DEF ActivateVerify
<1> QED
  BY <1>1, <1>3, <1>6, <1>7, <1>8, <1>9, <1>10, <1>11, <1>12, <1>13, <1>14,
     <1>15, <1>16 DEF NetStep

LEMMA ListTimer ==
    ASSUME TypeOK, MutexExclusion, Calls, ListInv, TimerStep
    PROVE  ListInv'
<1>1. CASE TickAccumulate \/ TickStart \/ TickLoop \/ TickLoad \/ TickRead
           \/ TickClear \/ TickEnd
  BY <1>1, ListFrame DEF TickAccumulate, TickStart, TickLoop, TickLoad,
     TickRead, TickClear, TickEnd
<1>2. CASE TickAdd
  <2>1. \A s \in Sessions : heap'[s].status = heap[s].status
    BY <1>2 DEF TickAdd, TypeOK, Session
  <2> QED
    BY <1>2, <2>1, ListFrame DEF TickAdd
<1>3. CASE TickExpire
  <2>1. \A s \in Sessions : heap'[s].status = heap[s].status
    BY <1>3 DEF TickExpire, TypeOK, Session
  <2>2. \A t \in Threads : /\ rm'[t].pc = "free" <=> rm[t].pc = "free"
                           /\ rm[t].pc = "free" => rm'[t].obj = rm[t].obj
    BY <1>3 DEF TickExpire, CallRemove, Calls, TypeOK, Threads
  <2> QED
    BY <1>3, <2>1, <2>2, ListFrame DEF TickExpire
<1>4. CASE RemoveSession("timer")
  BY <1>4, ListRemove DEF Threads
<1> QED
  BY <1>1, <1>2, <1>3, <1>4 DEF TimerStep

LEMMA TableInit == Init => TableInv
<1> SUFFICES ASSUME Init PROVE TableInv
  OBVIOUS
<1>1. Len(sessions) = 0
  BY DEF Init
<1>2. SessionListSound
  BY <1>1 DEF Init, SessionListSound, ListedAlive, NoDuplicates, NoLeak,
     Unallocated
<1>3. RemoverHolds
  BY DEF Init, RemoverHolds, Out
<1> QED
  BY <1>2, <1>3, TypeInit, MutexInit DEF TableInv

LEMMA TableNext == TableInv /\ [Next]_vars => TableInv'
<1> SUFFICES ASSUME TableInv, [Next]_vars PROVE TableInv'
  OBVIOUS
<1> USE DEF TableInv, ListInv
<1>0. TypeOK'
  BY TypeNext
<1>1. CASE NetStep \/ Request
  BY <1>0, <1>1, MutexNet, ListNet
<1>2. CASE TimerStep
  BY <1>0, <1>2, MutexTimer, ListTimer
<1>3. CASE UNCHANGED <<heap, sessions, mutex, rm, net, tm>>
  <2>1. MutexExclusion' /\ Calls'
    BY <1>3 DEF MutexExclusion, Calls, InCritical
  <2>2. ListInv'
    BY <1>3, ListFrame
  <2> QED
    BY <1>0, <2>1, <2>2
<1> QED
  BY <1>1, <1>2, <1>3 DEF Next, Undefined, Halted, vars

(* SessionMutex is held exactly between a lock and its unlock.             *)
THEOREM MutexTheorem == Spec => []MutexExclusion
<1>1. TableInv => MutexExclusion
  BY DEF TableInv
<1> QED
  BY <1>1, TableInit, TableNext, PTL DEF Spec

(* The table never holds a freed session or the same session twice, and no *)
(* session is lost from it.                                                *)
THEOREM SessionListTheorem == Spec => []SessionListSound
<1>1. TableInv => SessionListSound
  BY DEF TableInv
<1> QED
  BY <1>1, TableInit, TableNext, PTL DEF Spec
-----------------------------------------------------------------------------
(* Authorisation.                                                          *)
LEMMA AuthInit == Init => AuthInv
BY DEF Init, AuthInv, TokenNamesSession, LookupsAgree, TouchActivated,
    WorkAuthorised, Unallocated, Return

(* A step of the timer, or one that only frees, keeps AuthInv.             *)
LEMMA AuthFrame ==
    ASSUME TypeOK, AuthInv, UNCHANGED net,
           \A s \in Sessions : heap'[s].status = "alive" =>
              /\ heap[s].status = "alive"
              /\ heap'[s].token = heap[s].token
              /\ heap'[s].activated = heap[s].activated
              /\ heap'[s].channel = heap[s].channel
    PROVE  AuthInv'
<1>1. net.obj \in Sessions \cup {NULL} /\ net.valid \in Sessions \cup {NULL}
  BY DEF TypeOK, Handler
<1>2. TokenNamesSession'
  BY DEF AuthInv, TokenNamesSession
<1>3. LookupsAgree'
  BY DEF AuthInv, LookupsAgree
<1>4. TouchActivated' /\ WorkAuthorised'
  BY <1>1 DEF AuthInv, TouchActivated, WorkAuthorised, Alive
<1> QED
  BY <1>2, <1>3, <1>4 DEF AuthInv

(* So does a handler's return, its call of RemoveSession and a request.    *)
LEMMA AuthLeave ==
    ASSUME TypeOK, AuthInv,
           net.pc \notin {"memset", "mark", "fields"},
           net'.pc \in {"idle", "lockAdd", "append", "get", "remove"},
           \A s \in Sessions : /\ heap'[s].status = heap[s].status
                               /\ heap'[s].token = heap[s].token
    PROVE  AuthInv'
<1>1. TokenNamesSession'
  BY DEF AuthInv, TokenNamesSession
<1>2. LookupsAgree' /\ TouchActivated' /\ WorkAuthorised'
  BY DEF LookupsAgree, TouchActivated, WorkAuthorised
<1> QED
  BY <1>1, <1>2 DEF AuthInv

LEMMA AuthRemove ==
    ASSUME TypeOK, AuthInv, ListInv, Calls, NEW t \in Threads, RemoveSession(t)
    PROVE  AuthInv'
<1>1. CASE RemoveLock(t) \/ RemoveUnlink(t) \/ RemoveNotFound(t)
  BY <1>1, AuthFrame DEF RemoveLock, RemoveUnlink, RemoveNotFound
<1>2. CASE RemoveFree(t)
  <2>1. /\ rm[t].obj \in Sessions
        /\ heap'[rm[t].obj].status = "freed"
        /\ \A s \in Sessions : s # rm[t].obj => heap'[s] = heap[s]
    BY <1>2, UnallocatedType
       DEF RemoveFree, TypeOK, Session, ListInv, RemoverHolds
  <2> QED
    BY <1>2, <2>1, AuthFrame DEF RemoveFree
<1>3. CASE RemoveUnlock(t)
  <2>1. CASE t = "net"
    BY <1>3, <2>1, AuthLeave DEF RemoveUnlock, Return, Calls
  <2>2. CASE t = "timer"
    BY <1>3, <2>2, AuthFrame DEF RemoveUnlock
  <2> QED
    BY <2>1, <2>2 DEF Threads
<1> QED
  BY <1>1, <1>2, <1>3 DEF RemoveSession
(* GetSession returns the session the token names, or NULL.                *)
LEMMA LookupFinds ==
    ASSUME TypeOK, AuthInv, ListedAlive,
           net.pc \notin {"memset", "mark", "fields"},
           NEW tok, NEW p \in Sessions, GetSession(tok, p)
    PROVE  p = tok
<1>1. PICK i \in 1 .. Len(sessions) :
         p = sessions[i] /\ heap[sessions[i]].token = tok
  BY ConstantsAssumption DEF GetSession, Matches
<1>2. heap[p].status = "alive"
  BY <1>1 DEF ListedAlive, Alive
<1> QED
  BY <1>1, <1>2 DEF AuthInv, TokenNamesSession

LEMMA AuthNet ==
    ASSUME TypeOK, AuthInv, ListInv, Calls, NetStep \/ Request
    PROVE  AuthInv'
<1> DEFINE SameKey == \A s \in Sessions : /\ heap'[s].status = heap[s].status
                                          /\ heap'[s].token = heap[s].token
<1>0. /\ net \in Handler
      /\ net.obj \in Sessions \cup {NULL} /\ net.valid \in Sessions \cup {NULL}
  BY DEF TypeOK, Handler
<1>1. CASE AddLock \/ Request
  BY <1>0, <1>1, AuthLeave DEF AddLock, Request, Receive, Handler
<1>2. ASSUME NEW s \in Sessions, NEW flag \in BOOLEAN,
             NEW idle \in {0, MaxIdle}, NEW limit \in {0, Timeout},
             AddAppend(s, flag, idle, limit)
      PROVE  AuthInv'
  <2>1. net'.pc = "memset" /\ net'.obj = s /\ net.pc = "append"
    BY <1>0, <1>2 DEF AddAppend, Handler
  <2>2. \A r \in Sessions : r # s => heap'[r] = heap[r]
    BY <1>2 DEF AddAppend, TypeOK
  <2>3. TokenNamesSession'
    BY <2>1, <2>2 DEF AuthInv, TokenNamesSession
  <2>4. LookupsAgree' /\ TouchActivated' /\ WorkAuthorised'
    BY <2>1 DEF LookupsAgree, TouchActivated, WorkAuthorised
  <2> QED
    BY <2>3, <2>4 DEF AuthInv
<1>3. CASE AddMemset \/ AddMarkUnlock
  <2>1. SameKey
    <3>1. CASE AddMemset
      BY <3>1 DEF AddMemset, TypeOK, Session
    <3>2. CASE AddMarkUnlock
      BY <3>2 DEF AddMarkUnlock, TypeOK, Session
    <3> QED
      BY <1>3, <3>1, <3>2
  <2>2. net'.pc \in {"mark", "fields"} /\ net'.obj = net.obj
        /\ net.pc \in {"memset", "mark"}
    BY <1>0, <1>3 DEF AddMemset, AddMarkUnlock, Handler
  <2>3. TokenNamesSession'
    BY <2>1, <2>2 DEF AuthInv, TokenNamesSession
  <2>4. LookupsAgree' /\ TouchActivated' /\ WorkAuthorised'
    BY <2>2 DEF LookupsAgree, TouchActivated, WorkAuthorised
  <2> QED
    BY <2>3, <2>4 DEF AuthInv
<1>4. CASE AddFields
  <2>1. net'.pc = "finish" /\ net.pc = "fields" /\ net.obj \in Sessions
    BY <1>0, <1>4 DEF AddFields, Handler, Alive
  <2>2. /\ heap'[net.obj].token = net.obj
        /\ \A r \in Sessions : r # net.obj => heap'[r] = heap[r]
    BY <1>4, <2>1 DEF AddFields, TypeOK, Session
  <2>3. TokenNamesSession'
    BY <2>1, <2>2 DEF AuthInv, TokenNamesSession
  <2>4. LookupsAgree' /\ TouchActivated' /\ WorkAuthorised'
    BY <2>1 DEF LookupsAgree, TouchActivated, WorkAuthorised
  <2> QED
    BY <2>3, <2>4 DEF AuthInv
<1>5. CASE CreateGood
  <2>1. SameKey
    BY <1>5 DEF CreateGood, TypeOK, Session
  <2> QED
    BY <1>5, <2>1, AuthLeave DEF CreateGood, Return
<1>6. CASE CreateBad
  <2>1. SameKey
    BY <1>6 DEF CreateBad, TypeOK, Session
  <2> QED
    BY <1>0, <1>6, <2>1, AuthLeave DEF CreateBad, Handler
<1>7. CASE HandlerGet
  <2>1. PICK p \in Sessions \cup {NULL} :
           /\ GetSession(net.tok, p)
           /\ net' = IF p = NULL THEN Return
                     ELSE [net EXCEPT !.pc = AfterGet(net.op), !.obj = p]
    BY <1>7 DEF HandlerGet
  <2>2. net.pc = "get" /\ heap' = heap
    BY <1>7 DEF HandlerGet
  <2>3. CASE p = NULL
    BY <2>1, <2>2, <2>3, AuthLeave DEF Return
  <2>4. CASE p \in Sessions /\ p # NULL
    <3>1. p = net.tok
      BY <2>1, <2>2, <2>4, LookupFinds DEF ListInv, SessionListSound
    <3>2. AfterGet(net.op) \in {"channel", "activated", "valid"}
      BY DEF AfterGet
    <3>3. /\ net'.pc \in {"channel", "activated", "valid"}
          /\ net'.obj = p /\ net'.tok = net.tok
      BY <1>0, <2>1, <2>4, <3>2 DEF Handler
    <3>4. TokenNamesSession'
      BY <2>2 DEF AuthInv, TokenNamesSession
    <3>5. LookupsAgree' /\ TouchActivated' /\ WorkAuthorised'
      BY <3>1, <3>3 DEF LookupsAgree, TouchActivated, WorkAuthorised
    <3> QED
      BY <3>4, <3>5 DEF AuthInv
  <2> QED
    BY <2>1, <2>3, <2>4
<1>8. CASE CheckChannel
  <2>1. heap' = heap /\ net.pc = "channel"
    BY <1>8 DEF CheckChannel
  <2>2. CASE net' = Return
    BY <2>1, <2>2, AuthLeave DEF Return
  <2>3. CASE net' = [net EXCEPT !.pc = "valid"]
    <3>1. net'.pc = "valid" /\ net'.obj = net.obj /\ net'.tok = net.tok
      BY <1>0, <2>3 DEF Handler
    <3> QED
      BY <2>1, <3>1 DEF AuthInv, TokenNamesSession, LookupsAgree,
         TouchActivated, WorkAuthorised
  <2> QED
    BY <1>8, <2>2, <2>3 DEF CheckChannel
<1>9. ASSUME net' = [net EXCEPT !.pc = "verify"], SameKey,
             net.pc \in {"valid", "check", "touch"}
      PROVE  AuthInv'
  <2>1. net'.pc = "verify" /\ net'.obj = net.obj /\ net'.tok = net.tok
    BY <1>0, <1>9 DEF Handler
  <2> QED
    BY <1>9, <2>1 DEF AuthInv, TokenNamesSession, LookupsAgree,
       TouchActivated, WorkAuthorised
<1>10. ASSUME Invalid, SameKey, net.pc \in {"valid", "check", "touch"}
       PROVE  AuthInv'
  <2>1. CASE net' = [net EXCEPT !.pc = "remove"]
    BY <1>0, <1>10, <2>1, AuthLeave DEF Handler
  <2>2. CASE net' = Return
    BY <1>10, <2>2, AuthLeave DEF Return
  <2> QED
    BY <1>9, <1>10, <2>1, <2>2 DEF Invalid
<1>11. CASE ValidGet
  <2>1. heap' = heap /\ net.pc = "valid"
    BY <1>11 DEF ValidGet
  <2>2. CASE Invalid
    BY <1>10, <2>1, <2>2
  <2>3. CASE ~Invalid
    <3>1. PICK p \in Sessions :
             /\ GetSession(net.tok, p)
             /\ net' = [net EXCEPT !.pc = "check", !.valid = p]
      BY <1>11, <2>3 DEF ValidGet
    <3>2. p = net.tok
      BY <2>1, <3>1, LookupFinds DEF ListInv, SessionListSound
    <3>3. /\ net'.pc = "check" /\ net'.valid = p
          /\ net'.tok = net.tok /\ net'.obj = net.obj
      BY <1>0, <3>1 DEF Handler
    <3> QED
      BY <2>1, <3>2, <3>3 DEF AuthInv, TokenNamesSession, LookupsAgree,
         TouchActivated, WorkAuthorised
  <2> QED
    BY <2>2, <2>3
<1>12. CASE ValidFlags
  <2>1. heap' = heap /\ net.pc = "check"
    BY <1>12 DEF ValidFlags
  <2>2. CASE Invalid
    BY <1>10, <2>1, <2>2
  <2>3. CASE ~Invalid
    <3>1. FlagsPass /\ net' = [net EXCEPT !.pc = "touch"]
      BY <1>12, <2>3 DEF ValidFlags
    <3>2. /\ net'.pc = "touch" /\ net'.valid = net.valid /\ net'.op = net.op
          /\ net'.tok = net.tok /\ net'.obj = net.obj
      BY <1>0, <3>1 DEF Handler
    <3>3. TouchActivated'
      BY <2>1, <3>1, <3>2 DEF TouchActivated, FlagsPass, Alive
    <3> QED
      BY <2>1, <3>2, <3>3 DEF AuthInv, TokenNamesSession, LookupsAgree,
         WorkAuthorised
  <2> QED
    BY <2>2, <2>3
<1>13. CASE ValidTouch
  <2>1. /\ net.pc = "touch" /\ Alive(net.valid)
        /\ \A s \in Sessions : /\ heap'[s].status = heap[s].status
                               /\ heap'[s].token = heap[s].token
                               /\ heap'[s].activated = heap[s].activated
                               /\ heap'[s].channel = heap[s].channel
    BY <1>13 DEF ValidTouch, TypeOK, Session
  <2>2. CASE Invalid
    BY <1>10, <2>1, <2>2
  <2>3. CASE Valid /\ heap[net.valid].channel = net.ch
    <3>1. CASE net' = [net EXCEPT !.pc = "remove"]
      BY <1>0, <2>1, <3>1, AuthLeave DEF Handler
    <3>2. CASE net' = Return
      BY <2>1, <3>2, AuthLeave DEF Return
    <3>3. CASE net' = [net EXCEPT !.pc = "work"] /\ net.op = "service"
      <4>1. /\ net'.pc = "work" /\ net'.valid = net.valid /\ net'.ch = net.ch
            /\ net'.tok = net.tok /\ net'.obj = net.obj
        BY <1>0, <3>3 DEF Handler
      <4>2. net.obj = net.tok /\ net.valid = net.tok /\ net.valid \in Sessions
        BY <1>0, <2>1 DEF AuthInv, LookupsAgree, Alive
      <4>3. heap[net.valid].activated
        BY <2>1, <3>3 DEF AuthInv, TouchActivated
      <4>4. WorkAuthorised'
        BY <2>1, <2>3, <4>1, <4>2, <4>3 DEF WorkAuthorised
      <4> QED
        BY <2>1, <4>1, <4>2, <4>4 DEF AuthInv, TokenNamesSession, LookupsAgree,
           TouchActivated
    <3> QED
      BY <1>9, <2>1, <2>3, <3>1, <3>2, <3>3 DEF Valid
  <2> QED
    BY <1>13, <2>2, <2>3 DEF ValidTouch
<1>14. CASE ActivateCheck
  <2>1. SameKey /\ net.pc = "activated"
    <3>1. CASE UNCHANGED heap
      BY <1>14, <3>1 DEF ActivateCheck
    <3>2. CASE heap' = [heap EXCEPT ![net.obj] = [@ EXCEPT !.channel = net.ch,
                                                           !.idled = 0]]
      BY <1>14, <3>2 DEF ActivateCheck, TypeOK, Session
    <3> QED
      BY <1>14, <3>1, <3>2 DEF ActivateCheck
  <2>2. CASE net' = Return
    BY <2>1, <2>2, AuthLeave DEF Return
  <2>3. CASE net' = [net EXCEPT !.pc = "valid"]
    <3>1. net'.pc = "valid" /\ net'.obj = net.obj /\ net'.tok = net.tok
      BY <1>0, <2>3 DEF Handler
    <3> QED
      BY <2>1, <3>1 DEF AuthInv, TokenNamesSession, LookupsAgree,
         TouchActivated, WorkAuthorised
  <2> QED
    BY <1>14, <2>2, <2>3 DEF ActivateCheck
<1>15. CASE ActivateVerify
  <2>1. SameKey
    BY <1>15 DEF ActivateVerify, TypeOK, Session
  <2> QED
    BY <1>15, <2>1, AuthLeave DEF ActivateVerify, Return
<1>16. CASE ServiceWork
  BY <1>16, AuthLeave DEF ServiceWork, Return
<1>17. CASE RemoveSession("net")
  BY <1>17, AuthRemove DEF Threads
<1> QED
  BY <1>1, <1>2, <1>3, <1>4, <1>5, <1>6, <1>7, <1>8, <1>11, <1>12, <1>13,
     <1>14, <1>15, <1>16, <1>17 DEF NetStep

LEMMA AuthTimer ==
    ASSUME TypeOK, AuthInv, ListInv, Calls, TimerStep
    PROVE  AuthInv'
<1>1. CASE TickAccumulate \/ TickStart \/ TickLoop \/ TickLoad \/ TickRead
           \/ TickClear \/ TickEnd
  BY <1>1, AuthFrame DEF TickAccumulate, TickStart, TickLoop, TickLoad,
     TickRead, TickClear, TickEnd
<1>2. CASE TickAdd
  <2>1. \A s \in Sessions : /\ heap'[s].status = heap[s].status
                            /\ heap'[s].token = heap[s].token
                            /\ heap'[s].activated = heap[s].activated
                            /\ heap'[s].channel = heap[s].channel
    BY <1>2 DEF TickAdd, TypeOK, Session
  <2> QED
    BY <1>2, <2>1, AuthFrame DEF TickAdd
<1>3. CASE TickExpire
  <2>1. \A s \in Sessions : /\ heap'[s].status = heap[s].status
                            /\ heap'[s].token = heap[s].token
                            /\ heap'[s].activated = heap[s].activated
                            /\ heap'[s].channel = heap[s].channel
    BY <1>3 DEF TickExpire, TypeOK, Session
  <2> QED
    BY <1>3, <2>1, AuthFrame DEF TickExpire
<1>4. CASE RemoveSession("timer")
  BY <1>4, AuthRemove DEF Threads
<1> QED
  BY <1>1, <1>2, <1>3, <1>4 DEF TimerStep

LEMMA AuthNext == TableInv /\ AuthInv /\ [Next]_vars => AuthInv'
<1> SUFFICES ASSUME TableInv, AuthInv, [Next]_vars PROVE AuthInv'
  OBVIOUS
<1> USE DEF TableInv, ListInv
<1>1. CASE NetStep \/ Request
  BY <1>1, AuthNet
<1>2. CASE TimerStep
  BY <1>2, AuthTimer
<1>3. CASE UNCHANGED <<heap, net>>
  BY <1>3, AuthFrame
<1> QED
  BY <1>1, <1>2, <1>3 DEF Next, Undefined, Halted, vars

(* A service only ever works on the activated session its token names,     *)
(* over the channel that session is bound to.                              *)
THEOREM WorkAuthorisedTheorem == Spec => []WorkAuthorised
<1>1. AuthInv => WorkAuthorised
  BY DEF AuthInv
<1> QED
  BY <1>1, TableInit, TableNext, AuthInit, AuthNext, PTL DEF Spec
-----------------------------------------------------------------------------
(* Continuation points.  A point belongs to a session that was created; a  *)
(* session that CreateSession is still at has none; and what the network   *)
(* thread is removing has lost its own before the search begins.           *)
Creating == net.pc \in {"lockAdd", "append", "memset", "mark", "fields", "finish"}

PointOwners == \A s \in points : s \in Sessions /\ heap[s].status # "none"

NewHasNoPoints ==
    /\ Creating => net.op = "create"
    /\ net.op = "create" /\ net.pc \in {"memset", "mark", "fields", "finish", "remove"} =>
          net.obj \in Sessions /\ net.obj \notin points

RemovedHasNoPoints ==
    /\ net.pc = "remove" => \/ net.op = "create"
                            \/ net.op \in {"service", "close"} /\ rm["net"].tok \notin points
    /\ rm["net"].pc = "free" => heap[rm["net"].obj].token \notin points

PointsInv == PointOwners /\ NewHasNoPoints /\ RemovedHasNoPoints

LEMMA PointsInit == Init => PointsInv
BY DEF Init, PointsInv, PointOwners, NewHasNoPoints, RemovedHasNoPoints, Creating, Return, Out, Threads

(* A step of the timer keeps it.                                           *)
LEMMA PointsFrame ==
    ASSUME TypeOK, PointsInv, UNCHANGED <<net, points>>, rm'["net"] = rm["net"],
           \A s \in Sessions : heap[s].status # "none" => heap'[s].status # "none",
           rm["net"].pc = "free" => heap'[rm["net"].obj].token = heap[rm["net"].obj].token
    PROVE  PointsInv'
<1>1. PointOwners'
  BY DEF PointsInv, PointOwners
<1>2. NewHasNoPoints'
  BY DEF PointsInv, NewHasNoPoints, Creating
<1>3. RemovedHasNoPoints'
  BY DEF PointsInv, RemovedHasNoPoints
<1> QED
  BY <1>1, <1>2, <1>3 DEF PointsInv

(* So does a step of a handler that is neither creating nor removing.      *)
LEMMA PointsLeave ==
    ASSUME Calls, PointsInv, net.pc # "remove", rm' = rm,
           net'.pc \notin {"memset", "mark", "fields", "finish", "remove"},
           Creating' => net'.op = "create",
           \A s \in points' : s \in points \/ (s \in Sessions /\ heap[s].status # "none"),
           \A s \in Sessions : heap'[s].status = heap[s].status
    PROVE  PointsInv'
<1>1. PointOwners'
  BY DEF PointsInv, PointOwners
<1>2. NewHasNoPoints'
  BY DEF NewHasNoPoints
<1>3. RemovedHasNoPoints'
  BY DEF RemovedHasNoPoints, Calls
<1> QED
  BY <1>1, <1>2, <1>3 DEF PointsInv

(* RemoveSession on the network thread: the search compares tokens, so it  *)
(* can only find a session whose points are gone.                          *)
LEMMA PointsRemoveNet ==
    ASSUME TypeOK, AuthInv, ListInv, Calls, PointsInv, RemoveSession("net")
    PROVE  PointsInv'
<1>0. /\ "net" \in Threads /\ rm \in [Threads -> Remover] /\ rm["net"] \in Remover
      /\ net \in Handler /\ points' = points
  BY DEF TypeOK, Threads, RemoveSession, RemoveLock, RemoveUnlink, RemoveNotFound, RemoveFree, RemoveUnlock
<1>1. net.pc = "remove"
  BY <1>0 DEF Calls, RemoveSession, RemoveLock, RemoveUnlink, RemoveNotFound, RemoveFree, RemoveUnlock
<1>2. CASE RemoveLock("net") \/ RemoveNotFound("net")
  <2>1. /\ rm'["net"].pc \in {"search", "unlock"} /\ rm'["net"].tok = rm["net"].tok
        /\ heap' = heap /\ net' = net
    BY <1>0, <1>2 DEF RemoveLock, RemoveNotFound, Remover
  <2> QED
    BY <1>0, <2>1 DEF PointsInv, PointOwners, NewHasNoPoints, RemovedHasNoPoints, Creating
<1>3. CASE RemoveUnlink("net")
  <2>1. PICK i \in 1 .. Len(sessions) :
           /\ heap[sessions[i]].token = SearchedToken("net")
           /\ rm' = [rm EXCEPT !["net"].pc = "free", !["net"].obj = sessions[i]]
    BY <1>3 DEF RemoveUnlink
  <2>2. heap' = heap /\ net' = net /\ SearchReadable("net")
    BY <1>3 DEF RemoveUnlink
  <2>3. rm'["net"].pc = "free" /\ rm'["net"].obj = sessions[i] /\ rm'["net"].tok = rm["net"].tok
    BY <1>0, <2>1 DEF Remover
  <2>4. SearchedToken("net") \notin points
    <3>1. CASE net.op = "create"
      <4>1. net.obj \in Sessions /\ net.obj \notin points /\ net.obj # NULL
        BY <1>1, <3>1, ConstantsAssumption DEF PointsInv, NewHasNoPoints
      <4>2. TokenOwner("net") = net.obj
        BY <3>1 DEF TokenOwner
      <4>3. heap[net.obj].token = net.obj
        BY <1>1, <2>2, <4>1, <4>2 DEF SearchReadable, Alive, AuthInv, TokenNamesSession
      <4> QED
        BY <4>1, <4>2, <4>3 DEF SearchedToken
    <3>2. CASE net.op # "create"
      <4>1. rm["net"].tok \notin points
        BY <1>1, <3>2 DEF PointsInv, RemovedHasNoPoints
      <4>2. TokenOwner("net") = NULL
        BY <3>2 DEF TokenOwner
      <4> QED
        BY <4>1, <4>2 DEF SearchedToken
    <3> QED
      BY <3>1, <3>2
  <2>5. heap'[rm'["net"].obj].token \notin points'
    BY <1>0, <2>1, <2>2, <2>3, <2>4
  <2> QED
    BY <1>0, <2>2, <2>3, <2>5 DEF PointsInv, PointOwners, NewHasNoPoints, RemovedHasNoPoints, Creating
<1>4. CASE RemoveFree("net")
  <2>1. /\ rm["net"].obj \in Sessions
        /\ \A s \in Sessions : heap[s].status # "none" => heap'[s].status # "none"
    BY <1>4, UnallocatedType
       DEF RemoveFree, TypeOK, Session, ListInv, RemoverHolds, Threads
  <2>2. rm'["net"].pc = "unlock" /\ rm'["net"].tok = rm["net"].tok /\ net' = net
    BY <1>0, <1>4 DEF RemoveFree, Remover
  <2> QED
    BY <1>0, <2>1, <2>2 DEF PointsInv, PointOwners, NewHasNoPoints, RemovedHasNoPoints, Creating
<1>5. CASE RemoveUnlock("net")
  <2>1. rm'["net"].pc = "out" /\ net'.pc = "idle" /\ heap' = heap
    BY <1>0, <1>5 DEF RemoveUnlock, Return, Out
  <2> QED
    BY <1>0, <2>1 DEF PointsInv, PointOwners, NewHasNoPoints, RemovedHasNoPoints, Creating
<1> QED
  BY <1>2, <1>3, <1>4, <1>5 DEF RemoveSession

LEMMA PointsTimer ==
    ASSUME TypeOK, ListInv, MutexExclusion, PointsInv, TimerStep
    PROVE  PointsInv'
<1>0. "net" \in Threads /\ "timer" \in Threads /\ rm \in [Threads -> Remover]
  BY DEF TypeOK, Threads
<1>1. CASE TickAccumulate \/ TickStart \/ TickLoop \/ TickLoad \/ TickRead
           \/ TickClear \/ TickEnd
  BY <1>1, PointsFrame DEF TickAccumulate, TickStart, TickLoop, TickLoad,
     TickRead, TickClear, TickEnd
<1>2. CASE TickAdd \/ TickExpire
  <2>1. \A s \in Sessions : /\ heap'[s].status = heap[s].status
                            /\ heap'[s].token = heap[s].token
    <3>1. CASE TickAdd
      BY <3>1 DEF TickAdd, TypeOK, Session
    <3>2. CASE TickExpire
      BY <3>2 DEF TickExpire, TypeOK, Session
    <3> QED
      BY <1>2, <3>1, <3>2
  <2>2. UNCHANGED <<net, points>> /\ rm'["net"] = rm["net"]
    BY <1>0, <1>2 DEF TickAdd, TickExpire, CallRemove
  <2>3. rm["net"].pc = "free" => rm["net"].obj \in Sessions
    BY <1>0 DEF ListInv, RemoverHolds
  <2> QED
    BY <2>1, <2>2, <2>3, PointsFrame
<1>3. CASE RemoveSession("timer")
  <2>1. UNCHANGED <<net, points>> /\ rm'["net"] = rm["net"]
    BY <1>0, <1>3 DEF RemoveSession, RemoveLock, RemoveUnlink, RemoveNotFound, RemoveFree, RemoveUnlock
  <2>2. CASE RemoveFree("timer")
    <3>1. rm["net"].pc # "free" /\ rm["timer"].obj \in Sessions
      <4>1. rm["timer"].pc = "free"
        BY <2>2 DEF RemoveFree
      <4>2. InCritical("timer") /\ (rm["net"].pc = "free" => InCritical("net"))
        BY <4>1 DEF InCritical
      <4> QED
        BY <1>0, <4>1, <4>2 DEF MutexExclusion, ListInv, RemoverHolds
    <3>2. \A s \in Sessions : heap[s].status # "none" => heap'[s].status # "none"
      BY <2>2, <3>1, UnallocatedType DEF RemoveFree, TypeOK, Session
    <3> QED
      BY <2>1, <3>1, <3>2, PointsFrame
  <2>3. CASE heap' = heap
    BY <2>1, <2>3, PointsFrame
  <2> QED
    BY <1>3, <2>2, <2>3 DEF RemoveSession, RemoveLock, RemoveUnlink, RemoveNotFound, RemoveUnlock
<1> QED
  BY <1>1, <1>2, <1>3 DEF TimerStep

LEMMA PointsNet ==
    ASSUME TypeOK, AuthInv, ListInv, Calls, PointsInv, NetStep \/ Request
    PROVE  PointsInv'
<1>0. /\ "net" \in Threads /\ rm \in [Threads -> Remover] /\ net \in Handler
      /\ net.obj \in Sessions \cup {NULL} /\ net.valid \in Sessions \cup {NULL}
  BY DEF TypeOK, Handler, Threads
<1>1. CASE Request
  BY <1>0, <1>1, PointsLeave DEF Request, Receive, Handler, Creating
<1>2. CASE AddLock
  BY <1>0, <1>2, PointsLeave DEF AddLock, Handler, Creating, PointsInv, NewHasNoPoints
<1>3. ASSUME NEW s \in Sessions, NEW flag \in BOOLEAN,
             NEW idle \in {0, MaxIdle}, NEW limit \in {0, Timeout},
             AddAppend(s, flag, idle, limit)
      PROVE  PointsInv'
  <2>1. net.pc = "append" /\ net'.pc = "memset" /\ net'.obj = s /\ net'.op = net.op
    BY <1>0, <1>3 DEF AddAppend, Handler
  <2>2. points' = points /\ rm' = rm /\ heap[s].status = "none"
    BY <1>3 DEF AddAppend
  <2>3. heap'[s].status = "alive" /\ \A r \in Sessions : r # s => heap'[r] = heap[r]
    BY <1>3, UnallocatedType DEF AddAppend, TypeOK, Session
  <2>4. s \notin points /\ net.op = "create" /\ rm["net"].pc = "out"
    BY <2>1, <2>2 DEF PointsInv, PointOwners, NewHasNoPoints, Creating, Calls
  <2> QED
    BY <2>1, <2>2, <2>3, <2>4
       DEF PointsInv, PointOwners, NewHasNoPoints, RemovedHasNoPoints, Creating
<1>4. CASE AddMemset \/ AddMarkUnlock \/ AddFields
  <2>1. \A s \in Sessions : heap'[s].status = heap[s].status
    <3>1. CASE AddMemset
      BY <3>1 DEF AddMemset, TypeOK, Session
    <3>2. CASE AddMarkUnlock
      BY <3>2 DEF AddMarkUnlock, TypeOK, Session
    <3>3. CASE AddFields
      BY <3>3 DEF AddFields, TypeOK, Session
    <3> QED
      BY <1>4, <3>1, <3>2, <3>3
  <2>2. /\ net.pc \in {"memset", "mark", "fields"} /\ net'.pc \in {"mark", "fields", "finish"}
        /\ net'.obj = net.obj /\ net'.op = net.op /\ points' = points /\ rm' = rm
    BY <1>0, <1>4 DEF AddMemset, AddMarkUnlock, AddFields, Handler
  <2>3. rm["net"].pc = "out"
    BY <2>2 DEF Calls
  <2> QED
    BY <2>1, <2>2, <2>3 DEF PointsInv, PointOwners, NewHasNoPoints, RemovedHasNoPoints, Creating
<1>5. CASE CreateGood
  <2>1. \A s \in Sessions : heap'[s].status = heap[s].status
    BY <1>5 DEF CreateGood, TypeOK, Session
  <2> QED
    BY <1>5, <2>1, PointsLeave DEF CreateGood, Return, Creating
<1>6. ASSUME net' = [net EXCEPT !.pc = "remove"], rm'["net"].pc = "lock",
             \A s \in Sessions : heap'[s].status = heap[s].status,
             points' \subseteq points,
             \/ net.op = "create" /\ net.pc = "finish"
             \/ net.op \in {"service", "close"} /\ rm'["net"].tok \notin points'
      PROVE  PointsInv'
  <2>1. net'.pc = "remove" /\ net'.op = net.op /\ net'.obj = net.obj
    BY <1>0, <1>6 DEF Handler
  <2> QED
    BY <1>6, <2>1 DEF PointsInv, PointOwners, NewHasNoPoints, RemovedHasNoPoints, Creating
<1>7. CASE CreateBad
  <2>1. \A s \in Sessions : heap'[s].status = heap[s].status
    BY <1>7 DEF CreateBad, TypeOK, Session
  <2>2. net.op = "create" /\ net.pc = "finish"
    BY <1>7 DEF CreateBad, PointsInv, NewHasNoPoints, Creating
  <2>3. net' = [net EXCEPT !.pc = "remove"] /\ points' \subseteq points /\ rm'["net"].pc = "lock"
    BY <1>0, <1>7 DEF CreateBad, CallRemove
  <2> QED
    BY <1>6, <2>1, <2>2, <2>3
<1>8. CASE HandlerGet
  <2>1. PICK p \in Sessions \cup {NULL} :
           net' = IF p = NULL THEN Return ELSE [net EXCEPT !.pc = AfterGet(net.op), !.obj = p]
    BY <1>8 DEF HandlerGet
  <2>2. AfterGet(net.op) \in {"channel", "activated", "valid"}
    BY DEF AfterGet
  <2>3. net'.pc \in {"idle", "channel", "activated", "valid"}
    BY <1>0, <2>1, <2>2 DEF Handler, Return
  <2> QED
    BY <1>8, <2>3, PointsLeave DEF HandlerGet, Creating
<1>9. CASE CheckChannel
  <2>1. net'.pc \in {"idle", "valid"}
    BY <1>0, <1>9 DEF CheckChannel, Handler, Return
  <2> QED
    BY <1>9, <2>1, PointsLeave DEF CheckChannel, Creating
<1>10. ASSUME Invalid \/ Valid, net.pc \in {"valid", "check", "touch"},
              \A s \in Sessions : heap'[s].status = heap[s].status
       PROVE  PointsInv'
  <2>1. CASE /\ net' = [net EXCEPT !.pc = "remove"] /\ CallRemove("net", net.tok)
             /\ points' = points \ {net.tok} /\ net.op \in {"service", "close"}
    <3>1. rm'["net"].pc = "lock" /\ rm'["net"].tok = net.tok
      BY <1>0, <2>1 DEF CallRemove
    <3> QED
      BY <1>6, <1>10, <2>1, <3>1
  <2>2. CASE UNCHANGED <<points, rm>> /\ net' \in {Return, [net EXCEPT !.pc = "verify"], [net EXCEPT !.pc = "work"]}
    <3>1. net'.pc \in {"idle", "verify", "work"}
      BY <1>0, <2>2 DEF Handler, Return
    <3> QED
      BY <1>10, <2>2, <3>1, PointsLeave DEF Creating
  <2> QED
    BY <1>10, <2>1, <2>2 DEF Invalid, Valid
<1>11. CASE ValidGet \/ ValidFlags
  <2>1. heap' = heap /\ net.pc \in {"valid", "check"}
    BY <1>11 DEF ValidGet, ValidFlags
  <2>2. CASE Invalid
    BY <1>10, <2>1, <2>2
  <2>3. CASE ~Invalid
    <3>1. UNCHANGED <<points, rm>> /\ net'.pc \in {"check", "touch"}
      BY <1>0, <1>11, <2>3 DEF ValidGet, ValidFlags, Handler
    <3> QED
      BY <2>1, <3>1, PointsLeave DEF Creating
  <2> QED
    BY <2>2, <2>3
<1>12. CASE ValidTouch
  <2>1. net.pc = "touch" /\ \A s \in Sessions : heap'[s].status = heap[s].status
    BY <1>12 DEF ValidTouch, TypeOK, Session
  <2> QED
    BY <1>10, <1>12, <2>1 DEF ValidTouch
<1>13. CASE ActivateCheck \/ ActivateVerify
  <2>1. \A s \in Sessions : heap'[s].status = heap[s].status
    <3>1. CASE ActivateVerify
      BY <3>1 DEF ActivateVerify, TypeOK, Session
    <3>2. CASE ActivateCheck
      <4>1. CASE UNCHANGED heap
        BY <4>1
      <4>2. CASE heap' = [heap EXCEPT ![net.obj] = [@ EXCEPT !.channel = net.ch, !.idled = 0]]
        BY <4>2 DEF TypeOK, Session
      <4> QED
        BY <3>2, <4>1, <4>2 DEF ActivateCheck
    <3> QED
      BY <1>13, <3>1, <3>2
  <2>2. /\ net.pc \in {"activated", "verify"} /\ net'.pc \in {"idle", "valid"}
        /\ UNCHANGED <<points, rm>>
    BY <1>0, <1>13 DEF ActivateCheck, ActivateVerify, Handler, Return
  <2> QED
    BY <2>1, <2>2, PointsLeave DEF Creating
<1>14. CASE ServiceWork
  <2>1. net.pc = "work" /\ Alive(net.obj) /\ heap' = heap /\ rm' = rm /\ net'.pc = "idle"
    BY <1>14 DEF ServiceWork, Return
  <2>2. net.tok = net.obj /\ net.obj \in Sessions /\ heap[net.obj].status = "alive"
    BY <1>0, <2>1 DEF Alive, AuthInv, LookupsAgree
  <2>3. \A s \in points' : s \in points \/ s = net.obj
    BY <1>14, <2>2 DEF ServiceWork
  <2> QED
    BY <2>1, <2>2, <2>3, PointsLeave DEF Creating
<1>15. CASE RemoveSession("net")
  BY <1>15, PointsRemoveNet
<1> QED
  BY <1>1, <1>2, <1>3, <1>4, <1>5, <1>7, <1>8, <1>9, <1>11, <1>12, <1>13, <1>14, <1>15 DEF NetStep

LEMMA PointsNext == TableInv /\ AuthInv /\ PointsInv /\ [Next]_vars => PointsInv'
<1> SUFFICES ASSUME TableInv, AuthInv, PointsInv, [Next]_vars PROVE PointsInv'
  OBVIOUS
<1> USE DEF TableInv, ListInv
<1>1. CASE NetStep \/ Request
  BY <1>1, PointsNet
<1>2. CASE TimerStep
  BY <1>2, PointsTimer
<1>3. CASE UNCHANGED <<heap, net, points, rm>>
  BY <1>3, PointsFrame
<1> QED
  BY <1>1, <1>2, <1>3 DEF Next, Undefined, Halted, vars

(* No handler adds a point while RemoveSession is about to free.           *)
LEMMA PointsRest ==
    ASSUME TypeOK, Calls, [Next]_vars, rm["net"].pc = "free"
    PROVE  points' = points
<1>1. net.pc = "remove"
  BY DEF Calls
<1>2. CASE NetStep
  BY <1>1, <1>2 DEF NetStep, AddLock, AddAppend, AddMemset, AddMarkUnlock, AddFields, CreateGood, CreateBad,
     HandlerGet, CheckChannel, ValidGet, ValidFlags, ValidTouch, ActivateCheck, ActivateVerify, ServiceWork,
     RemoveSession, RemoveLock, RemoveUnlink, RemoveNotFound, RemoveFree, RemoveUnlock
<1>3. CASE TimerStep
  BY <1>3 DEF TimerStep, TickAccumulate, TickStart, TickLoop, TickLoad, TickRead, TickAdd, TickExpire,
     TickClear, TickEnd, RemoveSession, RemoveLock, RemoveUnlink, RemoveNotFound, RemoveFree, RemoveUnlock
<1> QED
  BY <1>2, <1>3 DEF Next, Request, Receive, Undefined, Halted, vars

(* CloseSession and a refused service free a session only when none of its *)
(* continuation points is left, whatever the timer does meanwhile.         *)
THEOREM PointsTheorem == Spec => PointsLeaveWithSession
<1> DEFINE Leaves == \A s \in Sessions :
                        rm["net"].pc = "free" /\ rm["net"].obj = s /\ heap'[s].status = "freed"
                           => heap[s].token \notin points'
<1>1. TableInv /\ PointsInv /\ [Next]_vars => [Leaves]_vars
  BY PointsRest DEF TableInv, PointsInv, RemovedHasNoPoints
<1> HIDE DEF Leaves
<1>2. Spec => [][Leaves]_vars
  BY <1>1, TableInit, TableNext, AuthInit, AuthNext, PointsInit, PointsNext, PTL DEF Spec
<1> QED
  BY <1>2 DEF PointsLeaveWithSession, Leaves
=============================================================================
