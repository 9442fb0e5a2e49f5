----------------------------- MODULE Association -----------------------------
(***************************************************************************)
(* The certificates that the session manager keeps for secure channels.    *)
(* The stack reports what happens to a channel through the endpoint        *)
(* callback: on the network thread when a client opens, renews or closes   *)
(* it, on the timer thread when the stack's watchdog finds that it has     *)
(* expired.  The callback links a certificate with the channel or removes  *)
(* the link; CreateSession and ActivateSession look the certificate up.    *)
(* Every search of the table runs outside AssociationMutex, and            *)
(* Unassociate takes the mutex only after it has found its index.          *)
(***************************************************************************)
EXTENDS Naturals, FiniteSets

CONSTANTS Network, Timer,   \* the two threads
          MaxChannels,      \* channels the stack ever opens (bound)
          Free,             \* what an address holds that no association occupies
          None              \* no thread

ASSUME AssociationAssumption ==
  /\ Network # Timer /\ None \notin {Network, Timer}
  /\ MaxChannels \in Nat \ {0}
  /\ Free \notin [channel : Nat, cert : Nat]

Threads == {Network, Timer}
NULL == 0
Ptrs == 1 .. MaxChannels + 1        \* one per channel and one for InvalidId

(* Channel identifiers come from a counter and are not used again.  The    *)
(* stack reports a refused request to open, and a request that it cannot   *)
(* decode, with the identifier 0.                                          *)
InvalidId == 0
Channels == 1 .. MaxChannels
Ids == Channels \cup {InvalidId}

(* A client presents the certificate that bears its channel's number.      *)
Empty == 0
Refused == MaxChannels + 1
Certificates == Channels \cup {Empty, Refused}
Associations == [channel : Ids, cert : Certificates]

VARIABLES slots,    \* Associations, the array of pointers
          count,    \* AssociatedCount
          heap,     \* for each address the association there, or Free
          mutex,    \* the holder of AssociationMutex, or None
          op,       \* where each thread is
          call,     \* the call it is in
          at,       \* its index i, from 1
          move,     \* its index j while it closes the gap
          ptr,      \* what its lookup returned
          chan,     \* the stack's state of each channel
          wild,     \* a thread has used an association after its release
          crashed   \* a thread has dereferenced NULL

table == <<slots, count, heap>>
local == <<call, at, move, ptr>>
assocVars == <<slots, count, heap, mutex, op, call, at, move, ptr, chan, wild, crashed>>

NoCall == [kind |-> "none", channel |-> InvalidId, cert |-> Empty]
Calls == [kind : {"none", "associate", "get", "unassociate"}, channel : Ids, cert : Certificates]

-----------------------------------------------------------------------------
AssocInit ==
  /\ slots = [k \in Ptrs |-> NULL] /\ count = 0
  /\ heap = [p \in Ptrs |-> Free]
  /\ mutex = None
  /\ op = [t \in Threads |-> "idle"]
  /\ call = [t \in Threads |-> NoCall]
  /\ at = [t \in Threads |-> 0] /\ move = [t \in Threads |-> 0]
  /\ ptr = [t \in Threads |-> NULL]
  /\ chan = [c \in Channels |-> "unused"]
  /\ wild = FALSE /\ crashed = FALSE

Goto(t, where) == op' = [op EXCEPT ![t] = where]

Begin(t, kind, id, cert) ==
  /\ ~crashed /\ op[t] = "idle"
  /\ Goto(t, "scan")
  /\ call' = [call EXCEPT ![t] = [kind |-> kind, channel |-> id, cert |-> cert]]
  /\ at' = [at EXCEPT ![t] = 1]
  /\ UNCHANGED <<table, mutex, move, ptr, wild, crashed>>

Return(t) == /\ Goto(t, "idle")
             /\ call' = [call EXCEPT ![t] = NoCall]
             /\ at' = [at EXCEPT ![t] = 0] /\ move' = [move EXCEPT ![t] = 0]
             /\ ptr' = [ptr EXCEPT ![t] = NULL]

Crash == crashed' = TRUE /\ UNCHANGED <<table, mutex, op, local, wild>>

-----------------------------------------------------------------------------
(* What the stack reports on the network thread.                           *)

Becomes(c, state) == chan' = [chan EXCEPT ![c] = state]

OpenChannel(c) == /\ chan[c] = "unused" /\ \A d \in Channels : d < c => chan[d] # "unused"
                  /\ Becomes(c, "open")
                  /\ Begin(Network, "associate", c, c)

(* The endpoint passes no certificate with a renewal.                      *)
RenewChannel(c) == /\ chan[c] = "open"
                   /\ Begin(Network, "associate", c, Empty)
                   /\ UNCHANGED chan

(* A renewal whose certificate is no longer valid comes as an opening.     *)
RefuseRenewal(c) == /\ chan[c] = "open"
                    /\ Begin(Network, "associate", c, c)
                    /\ UNCHANGED chan

RefuseOpening == /\ Begin(Network, "associate", InvalidId, Refused)
                 /\ UNCHANGED chan

CloseChannel(c) == /\ chan[c] = "open"
                   /\ Becomes(c, "closed")
                   /\ Begin(Network, "unassociate", c, Empty)

DecoderError == /\ Begin(Network, "unassociate", InvalidId, Empty)
                /\ UNCHANGED chan

(* CreateSession with security, and ActivateSession from another channel,  *)
(* ask for the certificate of the channel that the request came through.   *)
LookUp(c) == /\ chan[c] = "open"
             /\ Begin(Network, "get", c, Empty)
             /\ UNCHANGED chan

(* The watchdog, on the timer thread: a channel that no request uses goes  *)
(* with an event, one in use goes without.                                 *)
Expire(c) == /\ chan[c] = "open" /\ call[Network].channel # c
             /\ Becomes(c, "expired")
             /\ Begin(Timer, "unassociate", c, Empty)

ExpireInUse(c) == /\ ~crashed /\ op[Timer] = "idle"
                  /\ chan[c] = "open" /\ call[Network] = [kind |-> "get", channel |-> c, cert |-> Empty]
                  /\ Becomes(c, "expired")
                  /\ UNCHANGED <<table, mutex, op, local, wild, crashed>>

-----------------------------------------------------------------------------
(* The session manager.  One turn of a search reads the pointer and then   *)
(* the association; what a freed association holds is arbitrary.           *)

LooksAlike(p, c) ==    \* mutant: the first association passes for every channel
  IF heap[p] = Free THEN BOOLEAN ELSE {TRUE}

Looks(p, c) == IF heap[p] = Free THEN BOOLEAN ELSE {heap[p].channel = c}

Found(t) == [associate |-> "copy", get |-> "use", unassociate |-> "lock"][call[t].kind]
NotFound(t) == [associate |-> "append", get |-> "use", unassociate |-> "idle"][call[t].kind]

Scan(t) ==
  /\ ~crashed /\ op[t] = "scan" /\ at[t] <= count
  /\ LET p == slots[at[t]] IN
       \/ p = NULL /\ Crash
       \/ /\ p # NULL
          /\ \E same \in Looks(p, call[t].channel) :
               \/ /\ same
                  /\ Goto(t, Found(t))
                  /\ ptr' = [ptr EXCEPT ![t] = IF call[t].kind = "get" THEN p ELSE NULL]
                  /\ UNCHANGED at
               \/ /\ ~same
                  /\ at' = [at EXCEPT ![t] = @ + 1]
                  /\ UNCHANGED <<op, ptr>>
          /\ wild' = (wild \/ heap[p] = Free)
          /\ UNCHANGED <<table, mutex, call, move, crashed>>
  /\ UNCHANGED chan

ScanEnds(t) ==
  /\ ~crashed /\ op[t] = "scan" /\ at[t] > count
  /\ IF NotFound(t) = "idle" THEN Return(t) ELSE Goto(t, NotFound(t)) /\ UNCHANGED local
  /\ UNCHANGED <<table, mutex, chan, wild, crashed>>

(* An existing link is cleared and rewritten, without the mutex.           *)
Copy(t) ==
  /\ ~crashed /\ op[t] = "copy"
  /\ LET p == slots[at[t]] IN
       \/ p = NULL /\ Crash
       \/ /\ p # NULL
          /\ heap' = IF heap[p] = Free THEN heap ELSE [heap EXCEPT ![p].cert = call[t].cert]
          /\ wild' = (wild \/ heap[p] = Free)
          /\ Return(t)
          /\ UNCHANGED <<slots, count, mutex, crashed>>
  /\ UNCHANGED chan

Append(t) ==
  /\ ~crashed /\ op[t] = "append" /\ mutex = None
  /\ \E p \in Ptrs :
       /\ heap[p] = Free
       /\ heap' = [heap EXCEPT ![p] = [channel |-> call[t].channel, cert |-> call[t].cert]]
       /\ slots' = [slots EXCEPT ![count + 1] = p]
  /\ count' = count + 1
  /\ Return(t)
  /\ UNCHANGED <<mutex, chan, wild, crashed>>

(* Under the mutex: free the association at the index found before it.     *)
Release(t) ==
  /\ ~crashed /\ op[t] = "lock" /\ mutex = None
  /\ LET p == slots[at[t]] IN
       \/ p = NULL /\ Crash
       \/ /\ p # NULL
          /\ mutex' = t
          /\ heap' = [heap EXCEPT ![p] = Free]
          /\ move' = [move EXCEPT ![t] = at[t] + 1]
          /\ Goto(t, "shift")
          /\ wild' = (wild \/ heap[p] = Free)
          /\ UNCHANGED <<slots, count, call, at, ptr, crashed>>
  /\ UNCHANGED chan

MoveDown(t) ==
  /\ op[t] = "shift" /\ ~crashed /\ move[t] <= count
  /\ slots' = [slots EXCEPT ![move[t] - 1] = slots[move[t]]]
  /\ move' = [move EXCEPT ![t] = @ + 1]
  /\ UNCHANGED <<count, heap, mutex, op, call, at, ptr, chan, wild, crashed>>

DropLeaving(t) ==      \* mutant: the last pointer stays
  /\ op[t] = "shift" /\ ~crashed /\ move[t] > count
  /\ count' = count - 1
  /\ mutex' = None
  /\ Return(t)
  /\ UNCHANGED <<slots, heap, chan, wild, crashed>>

DropLocked(t) ==       \* mutant: the mutex is not given back
  /\ op[t] = "shift" /\ ~crashed /\ move[t] > count
  /\ slots' = [slots EXCEPT ![count] = NULL]
  /\ count' = count - 1
  /\ Return(t)
  /\ UNCHANGED <<heap, mutex, chan, wild, crashed>>

Drop(t) ==
  /\ op[t] = "shift" /\ ~crashed /\ move[t] > count
  /\ slots' = [slots EXCEPT ![count] = NULL]
  /\ count' = count - 1
  /\ mutex' = None
  /\ Return(t)
  /\ UNCHANGED <<heap, chan, wild, crashed>>

(* The caller compares what its lookup returned with a certificate.        *)
UseCertificate(t) ==
  /\ ~crashed /\ op[t] = "use"
  /\ \/ ptr[t] = NULL /\ Crash
     \/ /\ ptr[t] # NULL
        /\ wild' = (wild \/ heap[ptr[t]] = Free)
        /\ Return(t)
        /\ UNCHANGED <<table, mutex, crashed>>
  /\ UNCHANGED chan

Step(t) == \/ Scan(t) \/ ScanEnds(t) \/ Copy(t) \/ Append(t)
           \/ Release(t) \/ MoveDown(t) \/ Drop(t) \/ UseCertificate(t)

Report == \/ \E c \in Channels : \/ OpenChannel(c) \/ RenewChannel(c) \/ RefuseRenewal(c)
                                 \/ CloseChannel(c) \/ LookUp(c)
                                 \/ Expire(c) \/ ExpireInUse(c)
          \/ RefuseOpening \/ DecoderError

AssocNext == Report \/ \E t \in Threads : Step(t)

(* Each thread goes on with the call it is in; no client has to call.      *)
AssocSpec == AssocInit /\ [][AssocNext]_assocVars /\ \A t \in Threads : WF_assocVars(Step(t))

-----------------------------------------------------------------------------
(* Properties.                                                             *)

AssocTypeOK ==
  /\ slots \in [Ptrs -> Ptrs \cup {NULL}] /\ count \in 0 .. MaxChannels + 1
  /\ heap \in [Ptrs -> Associations \cup {Free}]
  /\ mutex \in Threads \cup {None}
  /\ op \in [Threads -> {"idle", "scan", "copy", "append", "lock", "shift", "use"}]
  /\ call \in [Threads -> Calls]
  /\ at \in [Threads -> 0 .. MaxChannels + 2]
  /\ move \in [Threads -> 0 .. MaxChannels + 2] /\ \A t \in Threads : move[t] <= count + 1
  /\ ptr \in [Threads -> Ptrs \cup {NULL}]
  /\ chan \in [Channels -> {"unused", "open", "closed", "expired"}]
  /\ wild \in BOOLEAN /\ crashed \in BOOLEAN

(* Whenever the mutex is free the pointers below AssociatedCount are       *)
(* distinct and lead to associations, every association is among them and  *)
(* the rest of the array is NULL, whatever index a removal has used.       *)
TableCompact ==
  mutex = None =>
    /\ \A k \in Ptrs : slots[k] # NULL <=> k <= count
    /\ \A j, k \in 1 .. count : slots[j] = slots[k] => j = k
    /\ {p \in Ptrs : heap[p] # Free} = {slots[k] : k \in 1 .. count}

Links(c) == {p \in Ptrs : heap[p] # Free /\ heap[p].channel = c}

(* Until a channel first expires: between two calls of the network thread *)
(* an open channel has exactly one link, so that the callers, which do not *)
(* test for NULL, find a certificate, and never another channel's; a       *)
(* closed channel has none.                                                *)
LinksFollowChannels ==
  op[Network] = "idle" /\ (\A c \in Channels : chan[c] # "expired") =>
    /\ ~crashed /\ ~wild
    /\ \A c \in Channels : /\ Cardinality(Links(c)) = IF chan[c] = "open" THEN 1 ELSE 0
                           /\ \A p \in Links(c) : heap[p].cert \in {c, Empty}

(* Unless the process crashes, a search ends although the other thread     *)
(* changes the table under it, and a removal gives the mutex back.  (A     *)
(* thread may wait for the mutex for long: the other may take it first.)   *)
ThreadsGetOn == \A t \in Threads : /\ op[t] = "scan" ~> op[t] # "scan" \/ crashed
                                   /\ mutex = t ~> mutex # t \/ crashed

(* SessionManager.c:30 says of AssociationMutex "control access to         *)
(* Associations": no thread uses an association that the other has freed.  *)
AccessControlled == ~wild /\ ~crashed

(* SessionManager.h:84 says "Unassociate certificate and secure channel    *)
(* id": what is freed is the link of the channel that is asked for.        *)
UnassociatesItsOwn ==
  [][\A t \in Threads : Release(t) /\ ~crashed'
        => heap[slots[at[t]]] # Free /\ heap[slots[at[t]]].channel = call[t].channel]_assocVars

(* main.c:159 says of a renewal "link securechannelid with client          *)
(* certificate": an open channel stays linked with its own certificate.    *)
RenewalLinksCertificate ==
  op[Network] = "idle" =>
    \A c \in Channels : \A p \in Links(c) : chan[c] = "open" => heap[p].cert = c

=============================================================================
