----------------------------- MODULE RowStream -----------------------------
(***************************************************************************)
(* What Select and Fetch promise the client of one statement: the rows of  *)
(* a query, numbered from 1, arrive in order and at most once, and as long *)
(* as the driver has not failed none is left out and the reply without     *)
(* hasMore comes after the last one.                                       *)
(***************************************************************************)
EXTENDS Naturals

CONSTANT Totals   \* numbers of rows a query may return

VARIABLES total,   \* rows of the current query
          got,     \* rows the client has received
          told,    \* the last reply: "none", "more", "end" or "failed"
          whole    \* no failure of the driver has cost rows of this query

streamVars == <<total, got, told, whole>>

Empty == total = 0 /\ got = {} /\ told = "none" /\ whole = TRUE

Query == /\ total' \in Totals
         /\ got' = {}
         /\ told' \in {"none", "failed"}
         /\ whole' = TRUE

(* A reply; "failed" and "none" carry no rows.                             *)
Reply == /\ UNCHANGED total
         /\ got \subseteq got' /\ got' \subseteq 1 .. total
         /\ \A r \in got' \ got, q \in got : q < r
         /\ told' \in {"none", "more", "end", "failed"}
         /\ told' \in {"none", "failed"} => got' = got
         /\ whole' => whole /\ \E m \in 0 .. total : got' = 1 .. m
         /\ told' = "end" /\ whole' => got' = 1 .. total

Close == Empty'

StreamNext == Query \/ Reply \/ Close

StreamSpec == Empty /\ [][StreamNext]_streamVars
=============================================================================
