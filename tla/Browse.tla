------------------------------- MODULE Browse -------------------------------
(***************************************************************************)
(* Browse and BrowseNext (Access.c) on top of the alias table and the      *)
(* continuation points.  A request for several nodes or points is as many  *)
(* requests for one, in that order.                                        *)
(***************************************************************************)
EXTENDS Integers, FiniteSets, Aliaser, Continuer

CONSTANTS References,   \* References[n]: the reference list of node n
          Filters,      \* reference types a client asks for
          Covers,       \* Covers[f]: the types filter f accepts
          Batches,      \* requested maximum of references per node
          Directions,   \* "forward", "inverse", "both"
          Half,         \* 2^31: requests hold unsigned words, ID_Browse signed
          NoFilter      \* the null NodeId

ASSUME BrowseAssumption ==
    /\ DOMAIN References = Nodes /\ \A n \in Nodes : Len(References[n]) \in Nat
    /\ DOMAIN Covers = Filters
    /\ NoFilter \notin Filters
    /\ Half \in Nat \ {0}
    /\ Batches \subseteq 0 .. (2 * Half - 1)

VARIABLES live,    \* sessions that exist
          closed,  \* sessions that were closed or refused, not expired
          reply    \* the last BrowseResult, and a ghost of its whole chain

browseVars == <<table, lifo, points, counter, depth, added,
                live, closed, reply>>

NoReply == [status |-> "None", chain |-> {}, node |-> NoNode,
            want |-> NoFilter, dir |-> "both", more |-> FALSE]

BrowseInit == /\ AliasInit
              /\ ContinuerInit
              /\ live = Tokens
              /\ closed = {}
              /\ reply = NoReply

-----------------------------------------------------------------------------
(* The references of node n, from slot start on, that pass the filters.    *)
Matching(n, start, filter, dir) ==
    {r \in start .. Len(References[n]) :
        /\ dir = "both" \/ dir = References[n][r].dir
        /\ filter = NoFilter \/ References[n][r].type \in Covers[filter]}

(* The loop stops at the first match beyond the maximum, 0 being none.     *)
Signed(n) == IF n < Half THEN n ELSE n - 2 * Half
Before(S, r) == {q \in S : q < r}
Page(S, max) == {r \in S : max = 0 \/ Cardinality(Before(S, r)) < max}

(* A refusal leaves the points alone; which status code it has makes no    *)
(* difference to them.                                                     *)
Refuse ==
    /\ reply' = [NoReply EXCEPT !.status = "Bad"]
    /\ UNCHANGED pointVars

(* Mutant: the point goes on after as many slots as references were sent.  *)
BrowseNodeCounts(s, n, filter, dir, max) ==
    LET all == Matching(n, 1, filter, dir)
        page == Page(all, max)
    IN  /\ page # all
        /\ AddContinuationPoint(
              [id |-> Identifier(counter + 1), sess |-> s, node |-> n,
               type |-> NoFilter, dir |-> dir, batch |-> max,
               offset |-> Cardinality(page) + 1, want |-> filter, got |-> page])
        /\ reply' = [status |-> "Good", chain |-> page, node |-> n,
                     want |-> filter, dir |-> dir, more |-> TRUE]

(* ID_Browse without a point, for a node named by itself or by an alias.   *)
BrowseNode(s, n, filter, dir, max) ==
    LET all == Matching(n, 1, filter, dir)
        page == Page(all, max)
    IN  /\ \/ page = all /\ UNCHANGED pointVars
           \/ /\ page # all
              /\ AddContinuationPoint(
                    [id |-> Identifier(counter + 1), sess |-> s, node |-> n,
                     type |-> NoFilter, dir |-> dir, batch |-> max,
                     offset |-> First(all \ page),
                     want |-> filter, got |-> page])
        /\ reply' = [status |-> "Good", chain |-> page, node |-> n,
                     want |-> filter, dir |-> dir, more |-> page # all]

(* ID_UA_Browse: the name is a node's own id or an alias.                  *)
BrowseRequest(s, name, filter, dir, max) ==
    /\ s \in live
    /\ \/ /\ GetOriginal(name) # NoNode
          /\ BrowseNode(s, GetOriginal(name), filter, dir, Signed(max))
       \/ /\ GetOriginal(name) = NoNode
          /\ name \in Nodes
          /\ BrowseNode(s, name, filter, dir, Signed(max))
       \/ /\ GetOriginal(name) = NoNode
          /\ name \notin Nodes
          /\ Refuse
    /\ UNCHANGED <<table, lifo, live, closed>>

(* ... and its checks of the request alone: the view, the direction, the   *)
(* reference type, and whether the view organizes the node.                *)
BrowseRefused(s) == /\ s \in live
                    /\ Refuse
                    /\ UNCHANGED <<table, lifo, live, closed>>

(* Mutants: the Offset is not stored, or is the slot after the reference   *)
(* that did not fit.                                                       *)
ContinueAt(i, offset) ==
    LET p == points[i]
        rest == Matching(p.node, p.offset, p.type, p.dir)
        page == Page(rest, p.batch)
    IN  /\ \/ /\ page # rest
              /\ points' = [points EXCEPT ![i].offset = offset,
                                          ![i].got = @ \cup page]
              /\ UNCHANGED <<counter, depth, added>>
           \/ /\ page = rest
              /\ RemoveContinuationPoint(p.id)
        /\ reply' = [status |-> "Good", chain |-> p.got \cup page,
                     node |-> p.node, want |-> p.want, dir |-> p.dir,
                     more |-> page # rest]
ContinueInPlace(i) == ContinueAt(i, points[i].offset)
ContinueSkips(i) == ContinueAt(i, points[i].offset + points[i].batch + 1)

(* ID_Browse for the point in slot i: it moves on, or leaves the table.    *)
Continue(i) ==
    LET p == points[i]
        rest == Matching(p.node, p.offset, p.type, p.dir)
        page == Page(rest, p.batch)
    IN  /\ \/ /\ page # rest
              /\ points' = [points EXCEPT
                               ![i].offset = First(rest \ page),
                               ![i].got = @ \cup page]
              /\ UNCHANGED <<counter, depth, added>>
           \/ /\ page = rest
              /\ RemoveContinuationPoint(p.id)
        /\ reply' = [status |-> "Good", chain |-> p.got \cup page,
                     node |-> p.node, want |-> p.want, dir |-> p.dir,
                     more |-> page # rest]

(* ID_UA_BrowseNext: any session may name any identifier.                  *)
BrowseNext(s, id, release) ==
    /\ s \in live
    /\ LET i == GetContinuationPoint(id)
       IN  \/ i = 0 /\ Refuse
           \/ /\ i # 0 /\ release
              /\ RemoveContinuationPoint(points[i].id)
              /\ reply' = NoReply
           \/ i # 0 /\ ~release /\ Continue(i)
    /\ UNCHANGED <<table, lifo, live, closed>>

(* CloseSession, and a service refused by ID_CHECK_SESSION, remove the     *)
(* points of the session; the expiry by the timer does not.                *)
CloseSession(s) ==
    /\ s \in live
    /\ live' = live \ {s}
    /\ closed' = closed \cup {s}
    /\ RemoveContinuationPointWithSession(s)
    /\ UNCHANGED <<table, lifo, reply>>

ExpireSession(s) ==
    /\ s \in live
    /\ live' = live \ {s}
    /\ UNCHANGED <<table, lifo, points, counter, depth, added, closed, reply>>

Register == /\ AliasNext
            /\ live # {}
            /\ UNCHANGED <<points, counter, depth, added,
                           live, closed, reply>>

(* Identifiers a client can have seen, and one it has not.                 *)
Issued == {Identifier(c + k) : c \in Counters, k \in 1 .. MaxAdded}
Unknown == [lead |-> 0, length |-> 1]

BrowseNextStep ==
    \/ \E s \in Tokens, name \in Nodes \cup 1 .. Cardinality(Nodes),
          filter \in Filters \cup {NoFilter}, dir \in Directions,
          max \in Batches : BrowseRequest(s, name, filter, dir, max)
    \/ \E s \in Tokens : BrowseRefused(s)
    \/ \E s \in Tokens, id \in Issued \cup {Unknown}, release \in BOOLEAN :
          BrowseNext(s, id, release)
    \/ \E s \in Tokens : CloseSession(s) \/ ExpireSession(s)
    \/ Register

BrowseSpec == BrowseInit /\ [][BrowseNextStep]_browseVars

-----------------------------------------------------------------------------
Point == [id : [lead : 0 .. 9, length : 1 .. 10], sess : Tokens, node : Nodes,
          type : Filters \cup {NoFilter}, dir : Directions, batch : Int,
          offset : Nat \ {0}, want : Filters \cup {NoFilter}, got : SUBSET Nat]

BrowseTypeOK == /\ AliasTypeOK
                /\ points \in Seq(Point)
                /\ counter \in Nat /\ depth \in Nat
                /\ live \subseteq Tokens /\ closed \subseteq Tokens \ live

(* A Browse and its BrowseNext calls deliver every reference asked for:    *)
(* when the chain of pages ends without a continuation point, it has them  *)
(* all and none in another direction, whatever happened to the alias and   *)
(* to other points meanwhile and whoever called BrowseNext.                *)
Between(S, n, filter, dir) == /\ Matching(n, 1, filter, dir) \subseteq S
                              /\ S \subseteq Matching(n, 1, NoFilter, dir)
PagesComplete ==
    reply.status = "Good" /\ ~reply.more =>
        Between(reply.chain, reply.node, reply.want, reply.dir)

(* A page never repeats a reference of an earlier page of its chain, nor   *)
(* skips one that no later page delivers: the client was sent what it      *)
(* asked for below the point's Offset, and nothing from there on.          *)
OffsetSeparates ==
    \A i \in 1 .. Len(points) :
        LET p == points[i]
            Below(filter) == Before(Matching(p.node, 1, filter, p.dir), p.offset)
        IN  Below(p.want) \subseteq p.got /\ p.got \subseteq Below(NoFilter)

(* BrowseNext always gets further, so paging ends: a point that stays in   *)
(* its slot is left alone or moves to a later Offset, unless its maximum   *)
(* was so large that it turned negative.                                   *)
PagingAdvances ==
    [][\A i \in 1 .. Len(points) :
          /\ Len(points') = Len(points)
          /\ points'[i] # points[i]
          /\ points[i].batch > 0
          => points'[i].offset > points[i].offset]_browseVars

(* Closing a session removes every one of its points, although the loop    *)
(* removes by identifier and identifiers are not unique.                   *)
ClosedHasNoPoints == \A i \in 1 .. Len(points) : points[i].sess \notin closed

(* ContinuationMutex is free between requests: RemoveContinuationPoint,    *)
(* which only unlocks when it finds the identifier, is never called with   *)
(* one that is not in the table.                                           *)
MutexReleased == depth = 0

-----------------------------------------------------------------------------
(* Statements made in the source that the code does not keep.              *)

(* "identifier is the internalcounter + 1 in string form": so no two       *)
(* points have the same identifier.                                        *)
IdentifiersDiffer == \A i, j \in 1 .. Len(points) :
                        points[i].id = points[j].id => i = j

(* "Copy over relevant information": the pages of a filtered Browse hold   *)
(* what the filter accepts and nothing else.                               *)
FilterKept == reply.status = "Good" =>
    reply.chain \subseteq Matching(reply.node, 1, reply.want, reply.dir)
=============================================================================
