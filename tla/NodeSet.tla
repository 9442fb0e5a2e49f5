------------------------------ MODULE NodeSet ------------------------------
(***************************************************************************)
(* What the table of nodes promises its callers: a set of identifiers, and *)
(* lookups whose answer was right at some moment of the call, whatever the *)
(* other threads add or remove meanwhile.                                  *)
(***************************************************************************)
CONSTANTS Threads, Ids, Initial, None

VARIABLES present,  \* the identifiers of the nodes
          call,     \* the identifier each thread is looking up, or None
          seen,     \* the answers that were right since the call began
          reply     \* the answer of each thread's last lookup

setVars == <<present, call, seen, reply>>

SetInit == /\ present = Initial
           /\ call = [t \in Threads |-> None]
           /\ seen = [t \in Threads |-> {}]
           /\ reply = [t \in Threads |-> FALSE]

(* Callers that ask for id see that it has become present or absent.       *)
Observe(id, is) ==
  seen' = [t \in Threads |-> IF call[t] = id THEN seen[t] \cup {is} ELSE seen[t]]

Add(id) == /\ id \notin present
           /\ present' = present \cup {id}
           /\ Observe(id, TRUE)
           /\ UNCHANGED <<call, reply>>

Remove(id) == /\ id \in present
              /\ present' = present \ {id}
              /\ Observe(id, FALSE)
              /\ UNCHANGED <<call, reply>>

Ask(t, id) == /\ call[t] = None
              /\ call' = [call EXCEPT ![t] = id]
              /\ seen' = [seen EXCEPT ![t] = {(id \in present)}]
              /\ UNCHANGED <<present, reply>>

Answer(t, is) == /\ call[t] # None
                 /\ is \in seen[t]
                 /\ reply' = [reply EXCEPT ![t] = is]
                 /\ call' = [call EXCEPT ![t] = None]
                 /\ seen' = [seen EXCEPT ![t] = {}]
                 /\ UNCHANGED present

SetNext == \/ \E id \in Ids : Add(id) \/ Remove(id)
           \/ \E t \in Threads : \/ \E id \in Ids : Ask(t, id)
                                 \/ \E is \in BOOLEAN : Answer(t, is)

SetSpec == SetInit /\ [][SetNext]_setVars
=============================================================================
