------------------------------- MODULE UASQL -------------------------------
(***************************************************************************)
(* The database side of one session: its ODBC environment and connection,  *)
(* the table of statements its client allocated, and the methods that work *)
(* on them (UASQLFunctions.c, EXECUTE_SQLVariant.c, DML_SQLVariant.c).     *)
(* The network thread runs one method at a time, so a method is one step;  *)
(* what the ODBC driver answers is a parameter of the step.  Cursors are   *)
(* the business of module Fetch.                                           *)
(*                                                                         *)
(* Freeing memory twice, or handing freed memory to realloc or to the      *)
(* driver, is undefined behaviour: it sets ub and the model stops.         *)
(***************************************************************************)
EXTENDS Naturals, Sequences, PointerTable

CONSTANTS Ids,          \* UInt32 values clients name statements by
          MaxMarker,    \* bound: parameter markers of an SQL text
          MaxBuffers,   \* bound: Bind calls per statement
          MaxRows       \* bound: rows of one Insert

ASSUME UASQLAssumption == /\ MaxMarker \in Nat
                          /\ MaxBuffers \in Nat
                          /\ MaxRows \in Nat \ {0}

VARIABLES
    gone,         \* RemoveSession has freed the session
    env,          \* SessionDBEnvHandle is not NULL
    conn,         \* SessionDBConnHandle is not NULL
    connected,    \* IsConnected
    stmts,        \* PreparedStatements[0 .. NumPreparedStatements-1]
    autocommit,   \* driver: the connection commits every statement
    pending,      \* driver: a transaction with changes is open
    open,         \* driver: the connection to the database exists
    misuse,       \* ghost: how dangling pointers came about
    ub            \* freed memory has been used

sqlVars == <<gone, env, conn, connected, stmts, autocommit, pending, open,
             misuse, ub>>

Markers == 1 .. MaxMarker

(* ID_PreparedStatement, with the driver's view of its Statement.          *)
Statement == [id : Ids,
              handle : BOOLEAN,                  \* Statement is not NULL
              num : 0 .. MaxBuffers,             \* NumBuffers
              arrays : {"null", "live", "freed"},  \* Buffers and the others
              bound : [Markers -> {"none", "buffer", "freed"}]]  \* driver

Unbound == [k \in Markers |-> "none"]

(* malloc and memset of a new ID_PreparedStatement.                        *)
Fresh(id) == [id |-> id, handle |-> FALSE, num |-> 0, arrays |-> "null",
              bound |-> Unbound]

SqlInit == /\ gone = FALSE
           /\ env = FALSE /\ conn = FALSE /\ connected = FALSE
           /\ stmts = <<>>
           /\ autocommit = TRUE /\ pending = FALSE /\ open = FALSE
           /\ misuse = {}
           /\ ub = FALSE

-----------------------------------------------------------------------------
(* ID_CHECK_SESSION_ACTIVATED: the session is there.                       *)
Present == ~gone /\ ~ub

(* ID_CHECK_SESSION_ACTIVATED and ID_CHECK_DB_INITIALIZED.                 *)
Ready == Present /\ env /\ conn /\ connected

(* ID_FIND_PREPARED_STATEMENT: the slots with the identifier.              *)
Slots(id) == {i \in 1 .. Len(stmts) : stmts[i].id = id}

Undefined == /\ ub' = TRUE
             /\ UNCHANGED <<gone, env, conn, connected, stmts, autocommit,
                            pending, open, misuse>>

(* What a step leaves alone that works on statements only.                 *)
KeepConnection == UNCHANGED <<gone, env, conn, connected, autocommit, open, ub>>

(* A change of the database is durable at once, or part of a transaction.  *)
Changed == pending' = (pending \/ ~autocommit)

(* ID_UASQLConnect: what the driver refuses (or nothing) decides how far   *)
(* it gets; unless it is connected in the end both handles are freed.      *)
ConnectRefused ==
    /\ Present
    /\ env \/ conn
    /\ env' = (env /\ connected)
    /\ conn' = (conn /\ connected)
    /\ UNCHANGED <<gone, connected, stmts, autocommit, pending, open, misuse,
                   ub>>

Connect(ok) ==
    /\ Present
    /\ ~env /\ ~conn
    /\ env' = ok /\ conn' = ok /\ connected' = ok /\ open' = ok
    /\ autocommit' = TRUE
    /\ UNCHANGED <<gone, stmts, pending, misuse, ub>>

(* ID_UASQLSetCommit; switching to autocommit commits what is pending.     *)
SetCommit(on) ==
    /\ Ready
    /\ autocommit' = on
    /\ pending' = (pending /\ ~on)
    /\ UNCHANGED <<gone, env, conn, connected, stmts, open, misuse, ub>>

(* ID_UASQLCommit: COMMIT or ROLLBACK.                                     *)
Commit ==
    /\ Ready
    /\ pending' = FALSE
    /\ UNCHANGED <<gone, env, conn, connected, stmts, autocommit, open,
                   misuse, ub>>

(* ID_PreparedStatement_Free frees the arrays; its caller frees the struct *)
(* or goes on with pointers to them.                                       *)
Dangling(S) == \E i \in S : stmts[i].arrays = "freed"

(* Mutant: IsConnected is cleared before SQLDisconnect has succeeded.      *)
DisconnectTooSoon(freeConn, freeEnv) ==
    /\ Present
    /\ ~(conn /\ connected /\ Dangling(1 .. Len(stmts)))
    /\ LET refused == conn /\ connected /\ pending
           left == conn /\ (refused \/ ~freeConn)
       IN  /\ stmts' = IF conn /\ connected THEN <<>> ELSE stmts
           /\ open' = (open /\ ~(conn /\ connected /\ ~refused))
           /\ connected' = (connected /\ ~conn)
           /\ conn' = left
           /\ env' = (env /\ (left \/ ~freeEnv))
    /\ UNCHANGED <<gone, autocommit, pending, misuse, ub>>

(* ID_UASQLDisconnect.  The driver refuses to disconnect while a           *)
(* transaction is open, and may fail to free either handle.                *)
Disconnect(freeConn, freeEnv) ==
    /\ Present
    /\ \/ conn /\ connected /\ Dangling(1 .. Len(stmts)) /\ Undefined
       \/ /\ ~(conn /\ connected /\ Dangling(1 .. Len(stmts)))
          /\ LET refused == conn /\ connected /\ pending
                 left == conn /\ (refused \/ ~freeConn)
             IN  /\ stmts' = IF conn /\ connected THEN <<>> ELSE stmts
                 /\ open' = (open /\ ~(conn /\ connected /\ ~refused))
                 /\ connected' = (connected /\ (~conn \/ refused))
                 /\ conn' = left
                 /\ env' = (env /\ (left \/ ~freeEnv))
          /\ UNCHANGED <<gone, autocommit, pending, misuse, ub>>

-----------------------------------------------------------------------------
(* Mutant: the identifier is not searched for.                             *)
AllocAppends(id, ok) ==
    /\ Ready
    /\ stmts' = Append(stmts, [Fresh(id) EXCEPT !.handle = ok])
    /\ UNCHANGED <<pending, misuse>>
    /\ KeepConnection

(* ID_UASQLAllocHandle: an identifier in use is emptied first.  The        *)
(* statement stays in the table when the driver has no handle for it.      *)
AllocNew(id, ok) ==
    /\ Ready
    /\ Slots(id) = {}
    /\ stmts' = Append(stmts, [Fresh(id) EXCEPT !.handle = ok])
    /\ UNCHANGED <<pending, misuse>>
    /\ KeepConnection

AllocAgain(i, ok) ==
    /\ Ready
    /\ \/ Dangling({i}) /\ Undefined
       \/ /\ ~Dangling({i})
          /\ stmts' = [stmts EXCEPT ![i] =
                [@ EXCEPT !.handle = ok, !.bound = Unbound,
                          !.arrays = IF stmts[i].arrays = "live"
                                     THEN "freed" ELSE stmts[i].arrays]]
          /\ misuse' = IF stmts[i].arrays = "live"
                       THEN misuse \cup {"realloc"} ELSE misuse
          /\ UNCHANGED pending
          /\ KeepConnection

(* Mutant: the array pointers are not set to NULL.                         *)
ResetLeavesDangling(i) ==
    /\ Ready
    /\ stmts[i].handle
    /\ \/ Dangling({i}) /\ Undefined
       \/ /\ ~Dangling({i})
          /\ stmts' = [stmts EXCEPT ![i] = [@ EXCEPT !.bound = Unbound,
                                                     !.num = 0,
                                                     !.arrays = "freed"]]
          /\ UNCHANGED <<pending, misuse>>
          /\ KeepConnection

(* Mutant: SQL_RESET_PARAMS is missing.                                    *)
ResetKeepsBound(i) ==
    /\ Ready
    /\ ~Dangling({i})
    /\ stmts' = [stmts EXCEPT ![i] = [@ EXCEPT !.num = 0, !.arrays = "null"]]
    /\ UNCHANGED <<pending, misuse>>
    /\ KeepConnection

(* ID_UASQLResetParamsHandle: the driver forgets the parameters before the *)
(* buffers are freed.                                                      *)
ResetParams(i) ==
    /\ Ready
    /\ stmts[i].handle
    /\ \/ Dangling({i}) /\ Undefined
       \/ /\ ~Dangling({i})
          /\ stmts' = [stmts EXCEPT ![i] = [@ EXCEPT !.bound = Unbound,
                                                     !.num = 0,
                                                     !.arrays = "null"]]
          /\ UNCHANGED <<pending, misuse>>
          /\ KeepConnection

(* ID_UASQLFreeHandle.                                                     *)
FreeHandle(i) ==
    /\ Ready
    /\ \/ Dangling({i}) /\ Undefined
       \/ /\ ~Dangling({i})
          /\ stmts' = Shift(stmts, i)
          /\ UNCHANGED <<pending, misuse>>
          /\ KeepConnection

(* ID_UASQLBind.  Malformed input is refused without a change, and so is a *)
(* short binary value, although that is reported as a success; when the    *)
(* driver refuses the parameter the arrays have already grown.  What the   *)
(* error path reads one past the end of Buffers is not used.               *)
Bind(i, k, ok) ==
    /\ Ready
    /\ stmts[i].num < MaxBuffers
    /\ ok => stmts[i].handle
    /\ \/ Dangling({i}) /\ Undefined
       \/ /\ ~Dangling({i})
          /\ stmts' = [stmts EXCEPT ![i] =
                [@ EXCEPT !.arrays = "live",
                          !.num = IF ok THEN stmts[i].num + 1
                                        ELSE stmts[i].num,
                          !.bound = IF ok
                                    THEN [stmts[i].bound EXCEPT ![k] = "buffer"]
                                    ELSE stmts[i].bound]]
          /\ UNCHANGED <<pending, misuse>>
          /\ KeepConnection

(* The driver runs an SQL text and reads the parameters that the text has  *)
(* markers for.                                                            *)
Run(i, used) ==
    /\ Ready
    /\ stmts[i].handle
    /\ \A k \in 1 .. used : stmts[i].bound[k] # "none"
    /\ \/ /\ \E k \in 1 .. used : stmts[i].bound[k] = "freed"
          /\ Undefined
       \/ /\ \A k \in 1 .. used : stmts[i].bound[k] # "freed"
          /\ Changed
          /\ UNCHANGED <<stmts, misuse>>
          /\ KeepConnection

(* ID_UASQLExecDirect, and ID_UASQLExecute after ID_UASQLPrepare, which by *)
(* itself changes nothing here.                                            *)
ExecDirect(i, used) == Run(i, used)
Execute(i, used) == Run(i, used)

(* ID_UASQLInsert when every row succeeds, and is followed by              *)
(* SQL_RESET_PARAMS.                                                       *)
Insert(i) ==
    /\ Ready
    /\ stmts[i].handle
    /\ Changed
    /\ stmts' = [stmts EXCEPT ![i] = [@ EXCEPT !.bound = Unbound]]
    /\ UNCHANGED misuse
    /\ KeepConnection

(* ... and when a row fails, after the driver was given n buffers, which   *)
(* ID_SQLInsert frees, and possibly after the row was executed.  Earlier   *)
(* rows stay; SQL_RESET_PARAMS is not reached.                             *)
InsertFails(i, row, n, executed) ==
    /\ Ready
    /\ stmts[i].handle
    /\ executed => n > 0
    /\ pending' = (pending \/ ((row > 1 \/ executed) /\ ~autocommit))
    /\ stmts' = [stmts EXCEPT ![i] = [@ EXCEPT !.bound =
                   [k \in Markers |-> IF k <= n THEN "freed"
                                      ELSE IF row > 1 THEN "none"
                                      ELSE stmts[i].bound[k]]]]
    /\ misuse' = IF n = 0 THEN misuse ELSE misuse \cup {"failedRow"}
    /\ KeepConnection

(* ID_UASQLUpdate is the same with one row.                                *)
Update(i) == Insert(i)
UpdateFails(i, n, executed) == InsertFails(i, 1, n, executed)

(* ID_UASQLDelete executes on a driver handle of its own (and never frees  *)
(* it), so that the parameters of the statement do not matter.             *)
Delete(i) ==
    /\ Ready
    /\ Changed
    /\ UNCHANGED <<stmts, misuse>>
    /\ KeepConnection

(* ID_SessionManager_RemoveSession: statements, connection, environment.   *)
RemoveSession ==
    /\ Present
    /\ \/ Dangling(1 .. Len(stmts)) /\ Undefined
       \/ /\ ~Dangling(1 .. Len(stmts))
          /\ gone' = TRUE
          /\ stmts' = <<>>
          /\ env' = FALSE /\ conn' = FALSE
          /\ open' = (open /\ pending)
          /\ UNCHANGED <<connected, autocommit, pending, misuse, ub>>

SqlNext ==
    \/ ConnectRefused
    \/ \E ok \in BOOLEAN : Connect(ok)
    \/ \E on \in BOOLEAN : SetCommit(on)
    \/ Commit
    \/ \E c, e \in BOOLEAN : Disconnect(c, e)
    \/ \E id \in Ids, ok \in BOOLEAN : AllocNew(id, ok)
    \/ \E i \in 1 .. Len(stmts) :
          \/ \E ok \in BOOLEAN : AllocAgain(i, ok)
          \/ ResetParams(i)
          \/ FreeHandle(i)
          \/ \E k \in Markers, ok \in BOOLEAN : Bind(i, k, ok)
          \/ \E used \in 0 .. MaxMarker : ExecDirect(i, used) \/ Execute(i, used)
          \/ Insert(i) \/ Update(i)
          \/ \E row \in 1 .. MaxRows, n \in 0 .. MaxMarker,
                executed \in BOOLEAN : InsertFails(i, row, n, executed)
          \/ \E n \in 0 .. MaxMarker, executed \in BOOLEAN :
                UpdateFails(i, n, executed)
          \/ Delete(i)
    \/ RemoveSession

SqlSpec == SqlInit /\ [][SqlNext]_sqlVars

-----------------------------------------------------------------------------
(* The types; a statement's arrays are NULL, allocated or dangling, never  *)
(* what malloc left there.                                                 *)
SqlTypeOK ==
    /\ gone \in BOOLEAN /\ env \in BOOLEAN /\ conn \in BOOLEAN
    /\ connected \in BOOLEAN /\ autocommit \in BOOLEAN
    /\ pending \in BOOLEAN /\ open \in BOOLEAN /\ ub \in BOOLEAN
    /\ stmts \in Seq(Statement)
    /\ misuse \subseteq {"realloc", "failedRow"}

(* Whatever fails half-way in Connect, Disconnect or AllocHandle, the      *)
(* session's handles fit together: IsConnected says whether the database   *)
(* connection exists, a connection has its environment, and statements     *)
(* exist only on a connection.                                             *)
HandlesFit ==
    ~gone => /\ connected => env /\ conn
             /\ conn => env
             /\ stmts # <<>> => connected
             /\ open = connected

(* A client's identifier names one statement, so that the search, which    *)
(* takes the last match, and FreeHandle, which removes one slot, agree.    *)
OneStatementPerId ==
    \A i, j \in 1 .. Len(stmts) : stmts[i].id = stmts[j].id => i = j

(* Memory is never used after it was freed except in two ways: AllocHandle *)
(* on an identifier whose statement has buffers, and a row of Insert or    *)
(* Update that failed after parameters had been bound.                     *)
MemorySafe == ub => misuse # {}

(* The driver never holds a pointer to a buffer of Bind that was freed.    *)
BoundBuffersLive ==
    \A i \in 1 .. Len(stmts), k \in Markers :
        stmts[i].bound[k] = "buffer" =>
            stmts[i].arrays = "live" /\ stmts[i].num > 0

(* Why they hold: a pointer of statement s dangles only after one of the   *)
(* misuses in m.                                                           *)
Sound(s, m) ==
    /\ \A k \in Markers : s.bound[k] = "buffer" => s.arrays = "live" /\ s.num > 0
    /\ s.arrays = "freed" => "realloc" \in m
    /\ \A k \in Markers : s.bound[k] = "freed" => "failedRow" \in m

SqlInv == /\ SqlTypeOK
          /\ HandlesFit
          /\ OneStatementPerId
          /\ MemorySafe
          /\ \A i \in 1 .. Len(stmts) : Sound(stmts[i], misuse)

-----------------------------------------------------------------------------
(* A statement made in the source that the code does not keep.             *)

(* AllocHandle on an identifier in use frees the content of the statement  *)
(* and allocates a new driver handle for it: unless a row failed, which is *)
(* another story, the statement is usable afterwards and no memory is      *)
(* freed twice or used after it was freed.                                 *)
ReallocatedUsable == misuse = {"realloc"} => ~ub
=============================================================================
