# TLA+ models of the OPC UA ODBC server

The server exposes ODBC through OPC UA methods. A client opens a session,
activates it, browses the address space, and calls methods that connect the
session to a database, allocate statements, bind parameters, run SQL and page
through rows. This directory holds TLA+ models of the parts of the server that
keep state, the TLC runs that check them, and proofs checked by TLAPS.

## 1. Inventory

| Component | State | Operations | What is hard | What makes it correct |
|---|---|---|---|---|
| Session manager (`SessionManager/SessionManager.c`) | `Sessions[]`, `Count`, `SessionMutex`, `SessionsBeingMutated`, `AccumulatedElapsedTime`; per session `IsBeingMutated`, `IsActivated`, `IdledTime`, channel | `AddSession`, `GetSession`, `IsSessionValid`, `RemoveSession`, `ValidateSessionLifetime` | Two threads; the timer walks the table without the mutex; pointers outlive the lookup | table sound, mutex balanced, services only for activated sessions on their channel, silent sessions expire |
| Session services (`Functions/Session.c`, `ID_CHECK_SESSION`) | none of their own | `CreateSession`, `ActivateSession`, `CloseSession`, the check at the start of every service | several lookups of one session in one handler | every request is answered; a closed session leaves nothing behind |
| Alias table (`Indexer/Aliaser.c`, `Functions/RegisterUnregisterNodes.c`) | two parallel arrays | `RegisterNodes`, `UnregisterNodes`, `GetOriginal` | numbers depend on the current count | one alias per node, aliases lead to their node |
| Continuation points (`Indexer/Continuer.c`) | array of points, `InternalCounter`, a recursive mutex | add, get, remove, remove with session | identifiers are computed; removal by identifier while iterating | no reference lost or repeated, mutex released |
| Browse, BrowseNext (`Functions/Access.c`) | Offset and filter of each point | `ID_UA_Browse`, `ID_UA_BrowseNext` | pages interleaved with alias changes and session ends | pages of one Browse add up to its result |
| Database methods (`Functions/UASQLFunctions.c`, `EXECUTE_`, `DML_SQLVariant.c`) | environment and connection handles, `IsConnected`, `PreparedStatements[]` with their buffers | connect, disconnect, commit, statement handles, bind, execute, insert, update, delete | the driver may refuse every call half-way; freed memory shared with the driver | handles fit together, one statement per identifier, no use of freed memory |
| Queries (`Functions/QUERY_SQLVariant.c`) | the driver's cursor | `Select`, `Fetch` | one row is read beyond the limit and given back; two driver styles | rows arrive in order, once, and without a gap |
| Address space (`AddressSpace/*.c`), Indexer (`Indexer/Indexer.c`), its contents (`UASpace/*.c`) | `allNodes[]`, `count`, `NodeMutex`, each node's references; `nextIndex` | create, clone, inherit references, link, rename, remove; `FindNodeWithID`, `GetNode` | recursion over arrays that grow; removal while another thread walks without the mutex | identifiers unique, references reciprocal, children inherited once, lookups right at some moment of the call |
| Read, Write (`Functions/Access.c`) | values, types, names and access levels of variables | one node of a request per action | index ranges, types, texts refused while they are copied | reads answer what was written last, a refused write changes nothing |
| Call, TranslateBrowsePaths (`Functions/Access.c`) | none of their own | `ID_UA_Call`, `ID_UA_TranslateBrowsePathsToNodeIds` | ids that are aliases; types several levels deep; graphs with references both ways | only entitled calls run, and all of them; paths end where their walks end |
| Channel certificates (`SessionManager.c`, `main.c` endpoint callback) | `Associations[]`, `AssociatedCount`, `AssociationMutex` | associate, look up, unassociate | events on two threads; searches outside the mutex | every open channel has its link |
| Main program (`main.c`) | global handles | start, timer callback, shutdown | the timer thread | its two threads are in `SessionManager`, `NodeTable` and `Association`, the time it stamps in `ReadWrite` |
| Security manager, Discovery, unimplemented services, Base64, cJSON, the OPC UA stack | none that changes after start-up, or third-party | | | not modelled |

Interaction: the stack is configured without a thread pool
(`main.c`, `bSecureListener_ThreadPool_Enabled` and
`bTcpListener_ClientThreadsEnabled` are false), so one *network thread* runs one
handler at a time to its end. The stack's *timer thread* calls `Timer_Callback`
every 5 ms. They share the session table, and through `RemoveSession` the
address space and a session's database handles. The stack's watchdog, which
expires secure channels, runs on the timer thread too and reaches the table of
channel certificates. Aliases, continuation points,
statements and cursors are used by the network thread only (except that the
timer frees the statements of an expired session), so in those models a service
call is one step, or one step per row in `Fetch`.

`PROJECT.json` lists the main hazards line by line. Further ones that no
property covers: `nextIndex` wraps after 2^32 sessions (also in
`KNOWN_ISSUES`), a failing Insert leaves its earlier rows in the database,
Delete allocates a driver handle on every call and never frees it, the error
path of Bind reads one past the last buffer, `RemoveSession` ignores that
`SQLDisconnect` may refuse, a byte string leaves `ArrayDimensions` stale and a
null byte string ends the process, a requested maximum from 2^31 on is negative
(`Access.c:33`) so that its pages never get further, and the pages after the
first lose the filter (`Continuer.c:51`).

## 2. Modules

| Module | Models | Proofs |
|---|---|---|
| `PointerTable` | the shift of a pointer array and the first-match search all tables share | `PointerTableProofs` |
| `SessionManager` | session table, session services and timer, statement by statement on two threads | `SessionManagerProofs` |
| `Aliaser` | alias table | `ServiceProofs` |
| `Continuer` | continuation points | `ServiceProofs` |
| `Browse` | Browse and BrowseNext; composes `Aliaser` and `Continuer` with sessions that close or expire | `ServiceProofs` |
| `UASQL` | the database side of one session | `DatabaseProofs` |
| `Fetch` | Select and Fetch on one statement; implements `RowStream` | `DatabaseProofs` |
| `RowStream` | abstract: what a client of Select and Fetch is promised | |
| `AddressSpace` | nodes, references, inheritance, identifiers and removal, as start-up and the running server call them | `AddressSpaceProofs` |
| `NodeTable` | the table of node pointers on two threads; implements `NodeSet` | `NodeTableProofs` |
| `NodeSet` | abstract: a set of identifiers with lookups that are right at some moment of the call | |
| `ReadWrite` | Read and Write beside the timer's clock | `ReadWriteProofs` |
| `Association` | the certificates of secure channels on two threads | `AssociationProofs` |
| `Call` | Call, on top of `Aliaser` | `ServiceProofs` |
| `Translate` | TranslateBrowsePathsToNodeIds, on top of `Aliaser` | `ServiceProofs` |
| `MCBrowse`, `MCAddressSpace`, `MCCall`, `MCTranslate` | symmetry sets and constant values for TLC | |

Definitions under a comment "Mutant" are faulty variants of the definition that follows them; they are not
part of any specification and serve to show that a property can fail.

### SessionManager

A session is the address of its struct. `heap[s].status` says whether the
address is unallocated, alive or freed; an address is not handed out again, so
that a stale pointer is recognisable. `rm[t]` is the activation of
`RemoveSession` on thread `t`, `net` the handler of the network thread with the
local variables `UserSession` (`obj`) and the pointer inside `IsSessionValid`
(`valid`), `tm` the timer's loop. Each step is a piece of code between two
accesses of shared memory that the other thread may interleave with; the piece
of `RemoveSession` that shifts the array is one step. `+=` on `IdledTime` is a load and
a store. Memory that `malloc` returned and that is already in the table before
`memset` has arbitrary contents (`AddAppend`'s parameters).

Following a pointer to freed or null memory is undefined behaviour: `Undefined`
sets `ub` and the model halts. Safety and liveness are therefore claims up to
the first such access, and that one can happen is the run
`session_use_after_free`.

Time: `IdledTime` and `AccumulatedElapsedTime` count ticks and saturate at the
first value beyond the timeout (`Cap`), which is all that is compared.
Signature, certificate, nonce and identity checks accept or refuse.

### Aliaser, Continuer, Browse

`table` is the alias table in slot order. A continuation point records its
identifier as the code computes it: the *leading digit* of the counter, in a
buffer with as many bytes as the counter has digits (`Identifier`). `want` and
`got` are ghosts: the filter the client asked for and the references it was
sent. `Half` stands for 2^31: the requested maximum is an unsigned word in the
request and signed in `ID_Browse`. References do not change while the model
runs. `NodeClassMask` (`Access.c:64`) is left out: it passes references over as
the direction does, and the point keeps it as it keeps the direction
(`Continuer.c:40`).

### UASQL

One session; `stmts` is `PreparedStatements`, each with the state of its buffer
arrays and what the driver holds for each parameter marker: nothing, a buffer
of `Bind`, or memory that has been freed. The driver's answers are parameters
of the actions. A method that is refused before it changes anything is a
stuttering step. `misuse` is a ghost that records the two events after which a
dangling pointer exists.

`Disconnect`, `FreeHandle`, `ResetParams`, `AllocHandle` and `RemoveSession`
free a statement's arrays; if those were freed before, that is a double free
and sets `ub`. SQL texts are not built: a text is the number of its markers.
Left out with them is `strlen(NULL)` in a Delete without a query
(`DML_SQLVariant.c:102`), which ends the process, and the read one past the last
buffer in Bind's error path (`EXECUTE_SQLVariant.c:339`), whose result is not
used further.

### Fetch and RowStream

`pos` is the driver's cursor, `numRows` the rows collected in the current call,
`got` the rows the client has received. The driver fetches row by row and may
fail anywhere. `style` is what `ID_GetSupportedFetchStyle` answers. `RowStream`
has no cursor and no limit: rows of the current query reach the client in
order, at most once, and `"end"` means that all have arrived unless the driver
has failed. `Fetch` implements it under the identity mapping on `total`, `got`,
`told` and `whole`; the steps inside the loop stutter.

### AddressSpace

`nodes` is `allNodes` in order. The tables of `UASpace` are hundreds of calls of
the same few helpers; `Tables` lets them come in any order and with any
arguments from small sets, so that the space the server builds is one of many
that are checked. `InheritReferences` and `CloneNode` call each other: `frames`
is that stack, and a step handles one reference. `RemoveNode` is a step per
node or reference. Only session nodes are removed by the running server, and
those have no references; the model lets any node be removed, as the interface
does. PropertyType exists first, the input and output arguments of a method
stand as one node, and the link "Other" is what `FileType`'s methods are hung by
(`ModellingRuleMandatory` is passed as reference type there). Left out: the
sorted fast list, copies of attribute values, and `RemoveUniReference`,
`RemoveBiReference` and the wrappers that nothing calls.

`StepsGoOn` stands for weak fairness of the steps inside a call: a step is
enabled in every state that is not quiet, which the deadlock check shows, and
stating it this way spares TLC the evaluation of ENABLED.

### NodeTable and NodeSet

The same table as pointers: `slots`, `count`, and `heap`, which gives for each
address the identifier there, or `Free`. `CreateNode` and `NameNode` are
AddSession's two steps, `RemoveNode` frees, shifts pointer by pointer, clears
the last slot, lowers the count. `GetNode` walks with the mutex and hands out a
pointer, `FindNodeWithID`, as Read, Write and Call use it, walks without. What a
freed address holds is arbitrary, a cleared slot crashes the process
(`crashed`), and the process stops there. `seen` is a history variable:
whether the identifier looked for was absent or present at some moment of the
walk. `NodeSet` has no table: `NodeTable` implements it with `present` the
identifiers in the heap and a call for every `GetNode` under way.

### ReadWrite

One node of a request per action. The variables stand for the kinds the server
builds (the arrays and most scalars exist in the debug build); the write masks
that start-up gives are in `WriteMask`. A behaviour uses one of the sets
`Instances`: variables do not influence each other except for the two clocks,
which are in one set. An index range is what the text holds between its colons;
`ToInt` wraps into `-IntMax - 1 .. IntMax` as the assignment to `int` does. Where too
few elements are supplied, what is stored is arbitrary (`Any` in the history
`latest`); a null array arrives as one without elements, for the decoder leaves
its count at 0 and refuses any other negative one
(`opcua_binarydecoder.c:121-140`). A null byte string does arrive, with length
-1, and copying that many bytes ends the process (`WriteNullBytes`). A range may
reach one element beyond the array; a store there ends the process or hits
nothing the model holds (`crashed` in `WriteArray`). A time that is half stored,
and a clock that goes backward, are not modelled.

### Association

`slots`, `count` and `heap` as above, for links of a channel with a
certificate. Network and timer thread each run `Associate`, `Get` or
`Unassociate` step by step; a search is outside the mutex. The events are those
the stack can report: an opening, a renewal (without a certificate), a renewal
or an opening that is refused, a closing, a request that cannot be decoded (the
last three with the identifier 0 where the stack has none), and the expiry of a
channel by the watchdog. A channel that expires while a request uses it goes
without an event. `wild` records the use of a freed link, `crashed` a null
pointer. The growth of the array is left out.

### Call

From the ids in the request to the function that runs. `Space` is the address
space as a constant; `MCCall`'s has the database object with a method that
declares arguments and one that declares none, a type three levels deep with a
method of its own (the shipped space has none, the helpers can build one), and
a method without a function as the standard nodes have. The entries of one
request are steps of their own, `CallEntry`, with `NextEntry` or `Sent` between
them. They share one thing, `codes`: every function is handed the
`InputArgumentResults` of the first entry (`Access.c:494`), and the type checks
of `id_opcua_db_private.h:92-111` store there when an argument has the wrong
type. If the first entry was refused there is no such array, and the store goes
through a null pointer (status `"Crash"` with a function in `ran`). A function
that has run and failed on its arguments is `"Ran"` here. What else the functions do
is `UASQL` and `Fetch`; `UASQL` has Disconnect although Call cannot reach it in
the shipped space (see section 4).

### Translate

Start-up builds any graph of up to `MaxEdges` references between different
nodes, then clients register nodes and send paths. `TranscribeBrowseResults` is
the recursive search; the property compares its answer with the walks in the
graph, defined without recursion.


## 3. Runs

| Run | Checks | Instance |
|---|---|---|
| `session` | `TypeOK`, `MutexExclusion`, `SessionListSound`, `WorkAuthorised`, `PointsLeaveWithSession`; live: `RequestCompletes`, `IdleSessionsExpire` | 2 sessions, 2 channels, timeout 1 tick; 959,245 states |
| `session_use_after_free` | finding: a session is freed while the other thread follows a pointer to it | 2 sessions, 1 channel |
| `browse` | `OneAliasPerNode`, `LifoAliasesResolve`, `PagesComplete`, `OffsetSeparates`, `ClosedHasNoPoints`, `MutexReleased`, `PagingAdvances` | 2 sessions, 2 nodes, 5 references, 2 points; 101,584 states |
| `sql` | `HandlesFit`, `OneStatementPerId`, `MemorySafe`, `BoundBuffersLive` | 2 identifiers, 2 markers, 2 buffers, 2 rows; 17,236 states |
| `fetch` | `FetchTypeOK`, `NoGap`, `StreamRefined` | 0, 1, 3, 4 or 6 rows, limit 3; 22,982 states |
| `fetch_failure` | finding: an error of SQLFetch is reported as the end of the rows | as `fetch` |
| `space` | `UniqueNodeIds`, `ReferencesReciprocal`, `InheritedOnce`; live: `OperationsEnd` | 3 standard identifiers, 2 modelling rules, 2 links, up to 9 nodes before a call, 1 session, 1 removal; 471,430 states |
| `node_table` | `TableSound`, `NeverMissed`, `NodeInUseKept`, `LookupsRefineSet`; live: `CallsEnd` | 1 permanent node, 3 sessions one after the other, 4 addresses; 469,990 states |
| `readwrite` | `ValueHasType`, `ReadsLatest`, `ClocksAgree`, `FailedWriteKeeps` | arrays of 2, up to 3 elements supplied, 2 elements, 2 clock readings; 44,639 states |
| `channels` | `TableCompact`, `LinksFollowChannels`; live: `ThreadsGetOn` | 2 channels and the identifier 0; 207,210 states |
| `call` | `RunsOnlyEntitled`, `EntitledRuns` | 11 nodes, 3 of them registered by clients, 0 to 2 arguments, of the declared type or not, requests of any number of entries; 193,900 states |
| `translate` | `TargetsAreWalks` | 3 nodes, 2 reference types, 2 references both ways, paths of up to 2 elements; 1.9 million states |

Bounds. Two sessions are enough for one to be created, expired or closed while
the other moves in the table, and for every pair of the two threads' steps.
Two channels are needed to have a session on the wrong one. One tick of timeout
gives idle values below, at and beyond it. `Counters = {9}` starts the
continuation points at the tenth, where identifiers begin to collide, since
`InternalCounter` is not initialised; five references in two directions with a
page of two make first, middle and last pages; a maximum of 7 with `Half` = 4
is one that turns negative. `MaxAdded` = 2 points allow two chains at once.
For `sql`, two identifiers, two markers and two buffers let one statement
dangle while the other is used, and two rows let the second fail. For `fetch`,
result sizes below, at and beyond one and two pages occur.

For `space`, three identifiers allow a type with a child, a subtype or a second
level of children, and an instance of it, with the nodes that come from the
indexer on top. For `node_table`, three session nodes and one that stays let a
removal shift two pointers under a walk. For `readwrite`, the numbers 0, 1, 2
and 17 with ints of 4 bits are below, at and beyond the end of an array of two
and one that wraps to 1. For `channels`, two channels and the identifier 0 give
a table of three links. For `translate`, two nodes of one name and a reference
type with a subtype let a path have several ends and go back where it came from.

The named bounds are `AddressLeft`, `MaxAdded`, `MaxBuffers`, `MaxRows`,
`Totals`, `MaxNodes`, `MaxSessions`, `MaxRemoved`, `Indices`, `MaxPtrs`,
`SessionIds`, `MaxSupplied`, `Numbers`, `MaxTime`, `MaxChannels`, `Registrable`,
`MayRegister`, `Counts`, `MaxEdges` and `MaxPath`.

Deadlock is checked where the system never stops: `session`, `fetch`, `space`,
`translate`. In `browse` all sessions may have ended; in `sql`, `node_table`,
`readwrite`, `channels` and `call` the process may have crashed, or, in `sql`,
the session is gone.

Fairness. `FairSpec` of `SessionManager`: weak fairness of the network thread's
steps, since the stack runs a handler it has started to the end, and of the
timer's, since the timer fires every 5 ms and runs to its end; both only as long
as no undefined behaviour occurred. `LiveTableSpec` and `AssocSpec`: weak
fairness of each thread's steps inside a call it is in. `LiveSpaceSpec`: of the
steps inside a call. There is no fairness on the arrival of requests, nor on
obtaining a mutex: `ThreadsGetOn` and `CallsEnd` promise that a mutex is given
back and that searches end, not that a thread that waits gets it, and
`RequestCompletes` relies on the mutex being held for a bounded piece of code by
a thread that is itself scheduled. `IdleSessionsExpire` is about behaviours in
which clients eventually stay silent.

The type invariants `BrowseTypeOK`, `SqlTypeOK`, `SpaceTypeOK`, `TableTypeOK`,
`RWTypeOK` and `AssocTypeOK` hold in these instances as well; they are stated
for the reader and for proofs and are not among the properties of the runs.

## 4. What the checks show

* However the two threads interleave, `SessionMutex` is held exactly in its
  critical sections, the table never holds a freed or duplicate session and
  never loses one, and a service only runs for an activated session on its own
  channel — although the validity check looks the session up a second time.
  Sessions whose clients fall silent are all removed, even though a removal
  shifts the table under the timer's loop and makes it skip one.
* A Browse and its BrowseNext calls deliver every reference asked for exactly
  once, also when points collide. Aliases are reliable as long as the last one
  is removed first.
* Database handles and statements stay consistent through every refusal of the
  driver. Freed memory is used in two ways only, after AllocHandle on a used
  identifier with buffers, and after a row that failed.
* Select and Fetch implement the stream of rows for both kinds of drivers.
* However start-up combines its helpers, identifiers stay unique, references
  stay reciprocal, also after a removal, and a child is inherited once.
* `GetNode` implements a lookup in a set. Even a walk without the mutex does not
  miss a node that is there all the time, because walk and shift both go
  towards the start of the table. What `GetNode` returned stays valid unless it
  is the node of a session that ended.
* Reads answer what was written last, whatever ranges, whole arrays and byte
  strings were mixed, and reach at most one element beyond the array; a refused
  write has changed nothing.
* Removals of channel certificates with a stale index still leave the table
  compact; until the first channel expires, every open channel has its link.
* Call runs only what the object is entitled to, whatever entries came before it
  in the request, and refuses nothing that declares its arguments and is called
  as it should be.

Some properties claim less than one might read into them, because the code keeps
no more:

* `PointsLeaveWithSession` is about the removals of the network thread; the
  timer leaves a session's points in the table.
* `LifoAliasesResolve` leaves out removals that are not of the last alias, after
  which two nodes can have one alias (`AliasResolves` below).
* `PagesComplete` says that nothing asked for is lost or repeated, not that
  nothing else is sent: later pages lose the filter (`FilterKept`).
* `PagingAdvances` is about positive maxima; a negative one never advances.
* `NodeInUseKept` leaves out the nodes of sessions that ended (`NodeInUseLives`).
* `LinksFollowChannels` ends with the first channel that expires
  (`AccessControlled`, `UnassociatesItsOwn`).
* `RunsOnlyEntitled` says nothing of calls that crash before a function runs, as
  one on an object named by its alias does (`AliasNamesObject`); a function that
  crashes on its arguments has run.

Two runs expect a violation; they are the findings in `PROJECT.json`. The
modules state further sentences of the source that the code does not keep. They
are not part of the runs; TLC refutes each when it takes the place of the
properties of the configuration named:

| Statement | Configuration | What TLC shows |
|---|---|---|
| `MarkedNotValidated` (action property) | `SessionManager.cfg` | "prevent IsSessionValid() from validating the session" (`SessionManager.c:201`): the mark is read once and the session validated later |
| `AliasResolves` | `Browse.cfg` | "Get the Original node for a given Alias" (`Aliaser.h:35`): numbers follow the current count, so two live aliases can have one |
| `IdentifiersDiffer` | `Browse.cfg` | "identifier is the internalcounter + 1 in string form" (`Continuer.c:59`): only the first digit is printed |
| `FilterKept` | `Browse.cfg` | "Copy over relevant information" (`Continuer.c:37`): the filter is cleared before it is copied, later pages are not filtered |
| `ReallocatedUsable` | `UASQL.cfg` | "destroy handle" (`UASQLFunctions.c:267`): the arrays are freed, their pointers and count stay |
| `PropertiesOnce` | `AddressSpace.cfg` | "create NodeVersion if not exists" (`AddressSpaceHelper.c:533`): the search asks in another namespace, a second one is created |
| `NodeInUseLives` | `NodeTable.cfg` | "to prevent a deletion operation from messing with this" (`AddressSpace.c:719`): the node is freed after the unlock, before its use |
| `WalkersReadNodes` | `NodeTable.cfg` | "Caller's responsibility to ensure that synchronous access is used" (`AddressSpace.c:344`): Read, Write and Call walk without the mutex |
| `IndexRangeHasData` | `ReadWrite.cfg` | the index one past the last element is read and written (`Access.c:668`) |
| `IndexRangeSyntax` | `ReadWrite.cfg` | any text of digits and colons is carried out (`Access.c:653`) |
| `AccessLevelGoverns` | `ReadWrite.cfg` | "check writemask or AccessLevel" (`Access.c:1207`): Write looks at UserAccessLevel only |
| `AccessControlled` | `Association.cfg` | "control access to Associations" (`SessionManager.c:30`): a search reads a link that the other thread has freed |
| `UnassociatesItsOwn` (action property) | `Association.cfg` | "Unassociate certificate and secure channel id" (`SessionManager.h:84`): the index is stale, another channel's link is freed |
| `RenewalLinksCertificate` | `Association.cfg` | "link securechannelid with client certificate" (`main.c:159`): a renewal comes without one and erases it |
| `PlainCallRuns` | `Call.cfg` | "SQLDisconnect()" (`README.md:105`): a method that declares no arguments is always refused |
| `AliasNamesObject` | `Call.cfg` | "Adds an alias for Original nodeid" (`Aliaser.h:20`): a call on an object named by its alias dereferences NULL |

## 5. Proofs

All theorems hold for every value of the constants that satisfies the
assumptions, which are named and stand in the modules that declare the
constants. Most say that markers such as `NULL`, `NoNode` or `Free` are none of
the things they are told from, and that bounds are natural numbers. The others:

* `BrowseAssumption`: every node has a list of references with a length, and
  requested maxima are unsigned words. `ReadWriteAssumption`: lengths of arrays
  fit an `int`. `RangeAssumption`: the two marks for a range that is absent or
  that no parser accepts are no index ranges.
* `SpaceAssumption`: identifiers are numbers; those of PropertyType and of the
  modelling rules are none of the standard ones that a table still gives out;
  no table links two nodes by HasModellingRule, the one type of reference that
  the helpers add in one direction only; optional properties are named by texts.
* `SupertypeAssumption` of `Translate` and `BuiltAssumption` of `Call` say what
  start-up has built. The helpers that create a type take the parent's node and
  add the subtype below it (`AddressSpaceHelper.c:808-830`), so every set of
  types has one whose parent lies outside it. An alias has a namespace of its
  own (`Aliaser.c:56`). A method is added to one node and given one list of
  arguments, and its `Executable` is set together with its function
  (`InitializeCustom.c`); a later Write to `Executable` is outside `Call`,
  which keeps the address space as it was built.

TLC evaluates all of them in the runs, so each holds at least in the instance
that is checked. Each inductive invariant was checked by TLC on the instance
of the component's run before it was proved.

* `SessionManagerProofs`: `TypeCorrect`, `MutexTheorem`, `SessionListTheorem`,
  `WorkAuthorisedTheorem`, `PointsTheorem`. `SessionListSound` is not inductive
  by itself: that a slot is not freed under the table needs to know that what a
  thread is about to free is already unlinked (`RemoverHolds`), that only the
  mutex owner is in that position (`MutexExclusion`) and that an activation of
  `RemoveSession` belongs to a waiting caller (`Calls`). `TableInv` is their
  conjunction. `WorkAuthorised` needs `AuthInv`: a session carries its own token
  once `AddSession` is done, so the two lookups of one request agree, and only
  the network thread changes activation and channel. `PointsLeaveWithSession`
  is an action property; `PointsInv` says which sessions have no points at each
  stage: one that CreateSession is still at, since points belong to sessions
  that exist and addresses are not reused, and one whose token the search of
  `RemoveSession` compares with.
* `ServiceProofs`, Browse: for the alias table alone `OneAliasTheorem` and `LifoTheorem`,
  from `AliasInv`: while removals are last in, first out, slot `i` holds alias
  `i`; and for Browse as a whole `BrowseKeepsAliases`, `PagesAreComplete`,
  `OffsetsSeparate`, `ClosedTakesPoints`, `MutexStaysFree` and the action
  property `PagingMovesOn`. `BrowseInv` adds that a continuation point keeps no
  filter and is `Separated`. The argument has two parts. `PageFacts` and
  `PageEnds`: a page is the beginning of what is left, so the Offset of the
  point is the first reference that did not fit. `PassFacts`: while
  `RemoveContinuationPointWithSession` goes down the table, no slot it has
  passed holds a point of the session: a removal at or below the current slot
  moves into that slot only what was passed, and the session's point, if it was
  another one that went, into the slot that comes next. That pass is a recursive
  function; that it exists, and what it computes, is shown by least
  counterexample (`CountUp`), from the library's `WFMin`.
* `ServiceProofs`, Call: `CallInvariant`, and from it `OnlyEntitledRun`,
  `EntitledIsRun` and `CallKeepsAliases`. What `Call` computes by climbing from
  type to type, `RunsOnlyEntitled` and `EntitledRuns` say without a climb: a
  type is below another if every set that has the one and is closed under
  parents has the other. That the climb, a recursive function, exists and
  agrees with this rests on the types being well-founded: a least type at which
  they differ has a parent at which they do not.
* `ServiceProofs`, Translate: `TranslateInvariant`, and from it `TargetsAreEnds`
  and `TranslateKeepsAliases`. `TargetsAreWalks` compares two counts, one in the
  answer of the recursive search and one of walks. `FlattenFacts` numbers the
  places of a concatenation by sequence and place in it, each once. With it
  `ListsMore` shows that the targets of a node list the walks from it, each
  once, if those of its neighbours do for what is left of the path: a walk is a
  first reference put before a walk of the rest, in one way only (`PutWalk`,
  `PutApart`, `TakeWalk`). `FoundLists` goes up from the end of the path, and
  `ListsCount` turns the list into a bijection between the places with a target
  and the walks that end there. The invariant itself only adds that references
  lead to nodes and that no request is answered before start-up ends.
* `AddressSpaceProofs`: `SpaceInvariant`, and from it `SpaceTypes`,
  `IdsAreUnique` and `ReferencesAreReciprocal`; `InheritInvariant`, and from it
  `InheritsOnce`; and `LiveSpaceIsSpace`, that the specification with fairness,
  which TLC runs, is one of those these theorems speak of. `SpaceInv` has five
  parts. `GraphInv`: identifiers are unique and every reference but a modelling
  rule is answered, with the node being removed left aside. `IndexInv`: no node
  has an index above `nextIndex` that is not reserved. `CallsInv`: the frames of
  `InheritReferences`, the calls that wait for it and the loop over missing
  references only name nodes that exist, and the identifier that a cloned
  method's arguments are still to be given names none. `PhaseInv` and
  `RemoveInv` say where a call can be and which nodes a removal has cleaned
  already. Most lemmas say of one helper how it enlarges a graph that is `Good`
  (`Enlarges`, `Added`), so that the steps of start-up are put together from
  these; `MapNodeToId` has lemmas of its own (`Renames`), for it changes an
  identifier in the node and in every reference to it. `InheritInv` adds what a
  frame has done: every mandatory child it has passed is there by name, no
  target has two children of one name, and no target of an open call is
  anybody's child yet, so that the clone a deeper call fills is linked under a
  name that is still free.
* `DatabaseProofs`, methods: `SqlInvTheorem` and its consequences `SqlTypeTheorem`,
  `HandlesTheorem`, `OneStatementTheorem`, `MemoryTheorem`,
  `BoundBuffersTheorem`. `SqlInv` adds to the checked properties that every
  statement is `Sound`: a dangling array exists only after `"realloc"`, a
  freed parameter only after `"failedRow"`. The lemmas about the table
  (`UpdateStep`, `AppendStep`, `ShiftStep`, `EmptyStep`) are shared by all
  methods.
* `DatabaseProofs`, queries: `FetchTypeTheorem`, `NoGapTheorem` and `StreamTheorem`, that
  `FetchSpec` implements `RowStream`. `CursorInv` relates the cursor, the rows
  collected and the rows delivered inside the loop.
* `NodeTableProofs`: `TableTypes`, `TableIsSound`, `WalksMissNothing`,
  `FoundNodesStay` and `TableImplementsSet`, that `TableSpec` implements
  `NodeSet`. `TableSound` speaks of the moments at which the mutex is free;
  `ListInv` describes the array at every moment, by leaving out the one slot
  (`Gap`) whose pointer was freed or already copied down. `NeverMissed` needs
  `WalkInv`: as long as the node has been there all the time, it is in a slot at
  or below the walk's, which is kept because a shift moves pointers the same
  way the walk goes. `NameInv` has identifiers unique among the addresses.
* `ReadWriteProofs`: `ValuesKeepType`, `ReadsAnswerLatest`,
  `ClocksStayTogether` and the action property `FailedWritesKeep`. `RWInv` adds
  that the history `latest` agrees with the array wherever it is determined
  (`LatestInv`). Lemmas say which elements a range names after its numbers were
  wrapped to `int` and compared with the length: those of the range itself if its
  numbers are ints, the last of them at most one beyond the array.
* `AssociationProofs`: `AssociationTypes`, `TableStaysCompact`, `LinksFollow`.
  `ArrayInv` holds whatever the two threads do: a stale index is below the
  count or finds a null pointer, so that a removal with it takes some link out,
  not necessarily its own, and leaves no hole. `QuietInv` holds until a channel
  expires, for until then the timer thread makes no call: a search has passed no
  link of its channel, and links and open channels differ only by the call that
  is under way. Once a channel has expired `LinksFollowChannels` claims nothing
  (`UnassociatesItsOwn` in section 4 is why).
* `PointerTableProofs`: what `Shift` and `First` return, and induction over an
  interval, cited by most of the above.

Only model-checked are the five liveness properties, `RequestCompletes`,
`IdleSessionsExpire`, `OperationsEnd`, `CallsEnd` and `ThreadsGetOn`: reasoning
from fairness is out of the prover's reach. The two findings are runs only, for
there is nothing to prove of a sentence that the code does not keep.

## 6. Not modelled

* Third-party code, which is 99% of the lines in the repository: the OPC UA
  stack, OpenSSL, ODBC headers, cJSON. What of it matters is in the models as
  scheduling, events and answers.
* The security manager and Discovery (files read once, answers from constants),
  the services that answer BadNotImplemented, Base64.
* Start-up and shutdown of the process, `SessionManager_Destroy`.
* The text of SQL statements and of error messages, column conversion,
  attributes other than those named above.
* The capacity of arrays and the address `realloc` returns: an array that moves
  under the other thread, and the store one past a full array in
  `RemoveContinuationPoint`, are hazards without a property.
* Cryptographic checks accept or refuse.

## 7. Plan

The modelling that was planned is done, and every safety invariant, action
property and refinement that a run checks is proved. Worth doing next:

1. The growth of the arrays of sessions and of continuation points, on which
   the two hazards without a property rest.
2. The claim of `AddressSpace` that each operation ends, as a bound on the steps
   a call still has to take, which would be a safety property.
