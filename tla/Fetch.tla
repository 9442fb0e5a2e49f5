------------------------------- MODULE Fetch -------------------------------
(***************************************************************************)
(* Paging through the rows of a query on one statement handle              *)
(* (QUERY_SQLVariant.c).  ID_Fetch reads the driver's cursor row by row    *)
(* until the limit; with a driver that can move relatively it reads one    *)
(* row beyond the limit and scrolls back, otherwise it stops at the limit. *)
(* The driver's cursor is external: SQLFetch moves it forward, and only a  *)
(* static cursor, which Select asks for and Execute does not, can move     *)
(* back.                                                                   *)
(***************************************************************************)
EXTENDS Naturals

CONSTANTS Totals,   \* numbers of rows a query may return
          Limit     \* ID_SINGULAR_FETCH_LIMIT

ASSUME FetchAssumption == /\ Totals \subseteq Nat
                          /\ Limit \in Nat \ {0}

VARIABLES
    style,     \* ID_GetSupportedFetchStyle for this driver
    static,    \* driver: SQL_ATTR_CURSOR_TYPE is SQL_CURSOR_STATIC
    opened,    \* driver: the statement has a cursor
    pos,       \* driver: rows before and at the cursor
    total,     \* driver: rows of the query
    pc,        \* "idle", or "loop" inside ID_Fetch
    limit,     \* fetchSize
    numRows,   \* rows in rowObject: the last numRows before the cursor
    got,       \* ghost: rows the client has received
    told,      \* the last reply of Select or Fetch
    whole      \* ghost: no failure of the driver has cost rows

fetchVars == <<style, static, opened, pos, total, pc, limit, numRows, got,
               told, whole>>
cursor == <<style, static, opened, total>>

FetchInit == /\ style \in {"PRIOR", "ABSOLUTE"}
             /\ static = FALSE /\ opened = FALSE
             /\ pos = 0 /\ total = 0
             /\ pc = "idle" /\ limit = Limit /\ numRows = 0
             /\ got = {} /\ told = "none" /\ whole = TRUE

-----------------------------------------------------------------------------
(* A query with n rows is executed and its cursor is before the first.     *)
OpenCursor(n) == /\ ~opened
                 /\ opened' = TRUE
                 /\ total' = n /\ pos' = 0
                 /\ got' = {} /\ told' = "none" /\ whole' = TRUE

(* ID_UASQLSelect: the cursor type is set, the query executed, and ID_Fetch *)
(* called.                                                                 *)
Select(n) == /\ pc = "idle"
             /\ OpenCursor(n)
             /\ static' = TRUE
             /\ pc' = "loop" /\ limit' = Limit /\ numRows' = 0
             /\ UNCHANGED style

(* The query is refused, after the cursor type was set unless a cursor is  *)
(* still open.                                                             *)
SelectFails == /\ pc = "idle"
               /\ static' = (static \/ ~opened)
               /\ told' = "failed"
               /\ UNCHANGED <<style, opened, pos, total, pc, limit, numRows,
                              got, whole>>

(* ID_UASQLExecute or ID_UASQLExecDirect with a query.                     *)
SQLExecute(n) == /\ pc = "idle"
                 /\ OpenCursor(n)
                 /\ UNCHANGED <<style, static, pc, limit, numRows>>

(* Mutant: the client's number is taken as it is.                          *)
FetchUnclamped(n) == /\ pc = "idle"
                     /\ pc' = "loop" /\ numRows' = 0
                     /\ limit' = n
                     /\ UNCHANGED <<cursor, pos, got, told, whole>>

(* ID_UASQLFetch, with or without a cursor; 0 stands for the limit.        *)
Fetch(n) == /\ pc = "idle"
            /\ pc' = "loop" /\ numRows' = 0
            /\ limit' = IF n = 0 \/ n > Limit THEN Limit ELSE n
            /\ UNCHANGED <<cursor, pos, got, told, whole>>

(* ID_UASQLCloseHandle: SQL_CLOSE discards the cursor and its rows.        *)
Discard == /\ opened' = FALSE
           /\ total' = 0 /\ pos' = 0
           /\ got' = {} /\ told' = "none" /\ whole' = TRUE

CloseHandle == /\ pc = "idle"
               /\ Discard
               /\ UNCHANGED <<style, static, pc, limit, numRows>>

(* ID_UASQLAllocHandle: a new driver handle has default attributes.        *)
AllocHandle == /\ pc = "idle"
               /\ Discard
               /\ static' = FALSE
               /\ UNCHANGED <<style, pc, limit, numRows>>

(* ID_UASQLCommit: the driver may close the cursors of the connection.     *)
SQLCommit == /\ pc = "idle"
             /\ opened
             /\ opened' = FALSE
             /\ whole' = FALSE
             /\ UNCHANGED <<style, static, pos, total, pc, limit, numRows, got,
                            told>>

-----------------------------------------------------------------------------
(* ID_Fetch.  The rows in rowObject when the cursor is at p.               *)
Page(p, n) == (p + 1) - n .. p

(* The reply with n rows up to p, or without any after an error.           *)
Return(p, n, hasMore) == /\ got' = got \cup Page(p, n)
                         /\ told' = hasMore
                         /\ pc' = "idle" /\ numRows' = 0

Fail == /\ told' = "failed"
        /\ whole' = FALSE
        /\ pc' = "idle" /\ numRows' = 0
        /\ UNCHANGED got

(* SQLFetch finds a row and its columns can be read and converted.         *)
RowAdded == /\ pc = "loop" /\ opened /\ pos < total
            /\ numRows < limit
            /\ pos' = pos + 1
            /\ UNCHANGED <<cursor, limit, whole>>
            /\ \/ /\ numRows + 1 >= limit /\ style # "PRIOR"
                  /\ Return(pos + 1, numRows + 1, "more")
               \/ /\ numRows + 1 < limit \/ style = "PRIOR"
                  /\ numRows' = numRows + 1
                  /\ UNCHANGED <<pc, got, told>>

(* ... they cannot.                                                        *)
RowFails == /\ pc = "loop" /\ opened /\ pos < total
            /\ numRows < limit
            /\ pos' = pos + 1
            /\ Fail
            /\ UNCHANGED <<cursor, limit>>

(* Mutants: the cursor is not scrolled back; hasMore is not set.           *)
LimitNotScrolled == /\ pc = "loop" /\ opened /\ pos < total
                    /\ numRows >= limit
                    /\ pos' = pos + 1
                    /\ Return(pos, numRows, "more")
                    /\ UNCHANGED <<cursor, limit, whole>>

LimitNotFlagged == /\ pc = "loop" /\ opened /\ pos < total
                   /\ numRows >= limit
                   /\ pos' = pos
                   /\ Return(pos, numRows, "end")
                   /\ UNCHANGED <<cursor, limit, whole>>

(* SQLFetch finds a row beyond the limit: back to the last one delivered,  *)
(* which a cursor that is not static refuses.                              *)
LimitReached == /\ pc = "loop" /\ opened /\ pos < total
                /\ numRows >= limit
                /\ UNCHANGED <<cursor, limit>>
                /\ \/ /\ static
                      /\ pos' = pos
                      /\ Return(pos, numRows, "more")
                      /\ UNCHANGED whole
                   \/ /\ ~static
                      /\ pos' = pos + 1
                      /\ Fail

(* SQLFetch returns SQL_NO_DATA.                                           *)
NoMoreRows == /\ pc = "loop" /\ opened /\ pos = total
              /\ Return(pos, numRows, "end")
              /\ UNCHANGED <<cursor, pos, limit, whole>>

(* SQLFetch fails, for want of a cursor or otherwise: the loop ends as if  *)
(* there were no more rows.                                                *)
FetchFails == /\ pc = "loop"
              /\ Return(pos, numRows, "end")
              /\ whole' = (whole /\ ~opened)
              /\ UNCHANGED <<cursor, pos, limit>>

(* The columns cannot be described: the cursor has not moved.              *)
DescribeFails == /\ pc = "loop" /\ numRows = 0
                 /\ told' = "failed"
                 /\ pc' = "idle"
                 /\ UNCHANGED <<cursor, pos, limit, numRows, got, whole>>

FetchNext == \/ \E n \in Totals : Select(n) \/ SQLExecute(n)
             \/ SelectFails
             \/ \E n \in 0 .. Limit + 1 : Fetch(n)
             \/ CloseHandle \/ AllocHandle \/ SQLCommit
             \/ RowAdded \/ RowFails \/ LimitReached \/ NoMoreRows
             \/ FetchFails \/ DescribeFails

FetchSpec == FetchInit /\ [][FetchNext]_fetchVars

-----------------------------------------------------------------------------
Flags == static \in BOOLEAN /\ opened \in BOOLEAN /\ whole \in BOOLEAN

(* The types; a page never exceeds the limit it was asked for, nor the     *)
(* server's.                                                               *)
FetchTypeOK == /\ style \in {"PRIOR", "ABSOLUTE"}
               /\ Flags
               /\ total \in Nat /\ pos \in 0 .. total
               /\ pc \in {"idle", "loop"}
               /\ limit \in 1 .. Limit
               /\ numRows \in 0 .. limit /\ numRows <= pos
               /\ got \subseteq 1 .. total
               /\ told \in {"none", "more", "end", "failed"}

(* Between two calls the cursor is where the client is: unless the driver  *)
(* failed, the client has all rows up to the cursor and none beyond it,    *)
(* whichever of the two ways to stop at the limit the driver calls for.    *)
NoGap == pc = "idle" /\ whole => got = 1 .. pos

(* Why it holds, and what the refinement needs.                            *)
CursorInv == /\ FetchTypeOK
             /\ pc = "idle" => numRows = 0
             /\ \A r \in got : r <= pos - numRows
             /\ whole => got = 1 .. pos - numRows
             /\ whole /\ ~opened => total = 0

(* Select and Fetch implement the stream of rows.                          *)
Stream == INSTANCE RowStream WITH
            Totals <- Totals, total <- total, got <- got, told <- told, whole <- whole
StreamRefined == Stream!StreamSpec

(* The first value of a reply indicates success or failure of the database *)
(* operation: a client that is told of success and of no more rows has all *)
(* of them.                                                                *)
EndMeansAll == told = "end" => got = 1 .. total
=============================================================================
