--------------------------- MODULE DatabaseProofs ---------------------------
(***************************************************************************)
(* The database side of a session, for any identifiers, any number of      *)
(* statements, markers and buffers: SqlInv is inductive.  And of one of    *)
(* its statements: paging never leaves a gap and implements the stream of  *)
(* rows, for every number of rows and every limit.                         *)
(***************************************************************************)
EXTENDS UASQL, Fetch, PointerTableProofs, TLAPS

(* The Boolean variables.                                                  *)
BooleansOK == /\ gone \in BOOLEAN /\ env \in BOOLEAN /\ conn \in BOOLEAN
              /\ connected \in BOOLEAN /\ autocommit \in BOOLEAN
              /\ pending \in BOOLEAN /\ open \in BOOLEAN /\ ub \in BOOLEAN

(* The statement table.                                                    *)
TableOK == /\ stmts \in Seq(Statement)
           /\ misuse \subseteq {"realloc", "failedRow"}
           /\ OneStatementPerId
           /\ \A i \in 1 .. Len(stmts) : Sound(stmts[i], misuse)

(* The parts of the invariant.                                             *)
LEMMA SqlParts == SqlInv <=> BooleansOK /\ TableOK /\ HandlesFit /\ MemorySafe
  BY DEF SqlInv, SqlTypeOK, BooleansOK, TableOK

-----------------------------------------------------------------------------
(* What the updates of a statement return.                                 *)
LEMMA FreshFacts ==
  ASSUME NEW id \in Ids, NEW ok \in BOOLEAN
  PROVE  LET r == [Fresh(id) EXCEPT !.handle = ok]
         IN  r \in Statement /\ r.id = id /\ \A m : Sound(r, m)
  BY UASQLAssumption DEF Fresh, Statement, Unbound, Sound

LEMMA ResetFacts ==
  ASSUME NEW s \in Statement
  PROVE  LET r == [s EXCEPT !.bound = Unbound, !.num = 0, !.arrays = "null"]
         IN  r \in Statement /\ r.id = s.id /\ \A m : Sound(r, m)
<1> DEFINE r == [s EXCEPT !.bound = Unbound, !.num = 0, !.arrays = "null"]
<1>0. /\ 0 \in 0 .. MaxBuffers
      /\ Unbound \in [Markers -> {"none", "buffer", "freed"}]
  BY UASQLAssumption DEF Unbound
<1>1. r \in Statement /\ r.id = s.id /\ r.bound = Unbound /\ r.arrays = "null"
  BY <1>0 DEF Statement
<1> HIDE DEF r
<1>2. \A k \in Markers : r.bound[k] = "none"
  BY <1>1 DEF Unbound
<1>3. \A m : Sound(r, m)
  BY <1>1, <1>2 DEF Sound
<1>4. QED
  BY <1>1, <1>3 DEF r

LEMMA BoundFacts ==
  ASSUME NEW s \in Statement,
         NEW b \in [Markers -> {"none", "buffer", "freed"}]
  PROVE  LET r == [s EXCEPT !.bound = b]
         IN  /\ r \in Statement /\ r.id = s.id /\ r.bound = b
             /\ r.arrays = s.arrays /\ r.num = s.num
  BY DEF Statement

-----------------------------------------------------------------------------
(* A sound statement stays sound when misuses are added.                   *)
LEMMA SoundMonotonic ==
  ASSUME NEW s, NEW m, NEW n, m \subseteq n, Sound(s, m)
  PROVE  Sound(s, n)
  BY DEF Sound

(* Replacing a statement by a sound one with the same identifier.          *)
LEMMA UpdateStep ==
  ASSUME TableOK, NEW i \in 1 .. Len(stmts), NEW r \in Statement,
         r.id = stmts[i].id, stmts' = [stmts EXCEPT ![i] = r],
         misuse \subseteq misuse', misuse' \subseteq {"realloc", "failedRow"},
         Sound(r, misuse')
  PROVE  TableOK'
<1>1. stmts' \in Seq(Statement) /\ Len(stmts') = Len(stmts)
  BY DEF TableOK
<1>2. \A j \in 1 .. Len(stmts) : stmts'[j] = IF j = i THEN r ELSE stmts[j]
  BY DEF TableOK
<1>3. \A j \in 1 .. Len(stmts) : stmts'[j].id = stmts[j].id
  BY <1>2
<1>4. OneStatementPerId'
  BY <1>1, <1>3 DEF TableOK, OneStatementPerId
<1>5. \A j \in 1 .. Len(stmts) : Sound(stmts[j], misuse')
  BY SoundMonotonic DEF TableOK
<1>6. \A j \in 1 .. Len(stmts) : Sound(stmts'[j], misuse')
  BY <1>2, <1>5
<1>7. QED
  BY <1>1, <1>4, <1>6 DEF TableOK

(* Appending a statement with an identifier nobody uses.                   *)
LEMMA AppendStep ==
  ASSUME TableOK, NEW r \in Statement, Slots(r.id) = {},
         Sound(r, misuse), stmts' = Append(stmts, r), UNCHANGED misuse
  PROVE  TableOK'
<1>1. stmts' \in Seq(Statement) /\ Len(stmts') = Len(stmts) + 1
  BY DEF TableOK
<1>2. /\ \A j \in 1 .. Len(stmts) : stmts'[j] = stmts[j]
      /\ stmts'[Len(stmts) + 1] = r
  BY DEF TableOK
<1>3. \A j \in 1 .. Len(stmts) : stmts[j].id # r.id
  BY DEF Slots
<1>4. Len(stmts) \in Nat
  BY DEF TableOK
<1>5. \A j \in 1 .. Len(stmts') : j \in 1 .. Len(stmts) \/ j = Len(stmts) + 1
  BY <1>1, <1>4
<1>6. OneStatementPerId'
  BY <1>2, <1>3, <1>5 DEF TableOK, OneStatementPerId
<1>7. \A j \in 1 .. Len(stmts') : Sound(stmts'[j], misuse')
  BY <1>2, <1>5 DEF TableOK
<1>8. QED
  BY <1>1, <1>6, <1>7 DEF TableOK

(* Removing a slot.                                                        *)
LEMMA ShiftStep ==
  ASSUME TableOK, NEW i \in 1 .. Len(stmts), stmts' = Shift(stmts, i),
         UNCHANGED misuse
  PROVE  TableOK'
<1> DEFINE old(j) == IF j < i THEN j ELSE j + 1
<1>1. /\ stmts' \in Seq(Statement) /\ Len(stmts') = Len(stmts) - 1
      /\ \A j \in 1 .. Len(stmts) - 1 :
            stmts'[j] = IF j < i THEN stmts[j] ELSE stmts[j + 1]
  BY ShiftFacts DEF TableOK
<1>2. Len(stmts) \in Nat
  BY DEF TableOK
<1>3. \A j \in 1 .. Len(stmts') :
         old(j) \in 1 .. Len(stmts) /\ stmts'[j] = stmts[old(j)]
  BY <1>1, <1>2
<1>4. \A j, k \in 1 .. Len(stmts') : old(j) = old(k) => j = k
  BY <1>1, <1>2
<1> HIDE DEF old
<1>5. OneStatementPerId'
  BY <1>3, <1>4 DEF TableOK, OneStatementPerId
<1>6. \A j \in 1 .. Len(stmts') : Sound(stmts'[j], misuse')
  BY <1>3 DEF TableOK
<1>7. QED
  BY <1>1, <1>5, <1>6 DEF TableOK

(* Emptying the table.                                                     *)
LEMMA EmptyStep ==
  ASSUME TableOK, stmts' = <<>>, UNCHANGED misuse
  PROVE  TableOK'
  BY DEF TableOK, OneStatementPerId

LEMMA SameStep ==
  ASSUME TableOK, UNCHANGED <<stmts, misuse>>
  PROVE  TableOK'
  BY DEF TableOK, OneStatementPerId

-----------------------------------------------------------------------------
LEMMA SqlInitInv == SqlInit => SqlInv
<1> SUFFICES ASSUME SqlInit PROVE SqlInv
  OBVIOUS
<1>1. BooleansOK
  BY Zenon DEF SqlInit, BooleansOK
<1>2. TableOK
  BY DEF SqlInit, TableOK, OneStatementPerId
<1>3. HandlesFit /\ MemorySafe
  BY DEF SqlInit, HandlesFit, MemorySafe
<1>4. QED
  BY <1>1, <1>2, <1>3, SqlParts

LEMMA BooleansStep ==
  ASSUME BooleansOK, [SqlNext]_sqlVars
  PROVE  BooleansOK'
<1> USE DEF BooleansOK, Undefined, KeepConnection, Changed
<1>1. CASE ConnectRefused
  BY <1>1, Zenon DEF ConnectRefused
<1>2. ASSUME NEW ok \in BOOLEAN, Connect(ok) PROVE BooleansOK'
  BY <1>2, Zenon DEF Connect
<1>3. ASSUME NEW on \in BOOLEAN, SetCommit(on) PROVE BooleansOK'
  BY <1>3, Zenon DEF SetCommit
<1>4. CASE Commit
  BY <1>4, Zenon DEF Commit
<1>5. ASSUME NEW c \in BOOLEAN, NEW e \in BOOLEAN, Disconnect(c, e)
      PROVE  BooleansOK'
  BY <1>5, Zenon DEF Disconnect
<1>6. ASSUME NEW id \in Ids, NEW ok \in BOOLEAN, AllocNew(id, ok)
      PROVE  BooleansOK'
  BY <1>6, Zenon DEF AllocNew
<1>7. ASSUME NEW i \in 1 .. Len(stmts), NEW ok \in BOOLEAN, AllocAgain(i, ok)
      PROVE  BooleansOK'
  BY <1>7, Zenon DEF AllocAgain
<1>8. ASSUME NEW i \in 1 .. Len(stmts), ResetParams(i) PROVE BooleansOK'
  BY <1>8, Zenon DEF ResetParams
<1>9. ASSUME NEW i \in 1 .. Len(stmts), FreeHandle(i) PROVE BooleansOK'
  BY <1>9, Zenon DEF FreeHandle
<1>10. ASSUME NEW i \in 1 .. Len(stmts), NEW k \in Markers, NEW ok \in BOOLEAN,
              Bind(i, k, ok)
       PROVE  BooleansOK'
  BY <1>10, Zenon DEF Bind
<1>11. ASSUME NEW i \in 1 .. Len(stmts), NEW used \in 0 .. MaxMarker,
              Run(i, used)
       PROVE  BooleansOK'
  BY <1>11, Zenon DEF Run
<1>12. ASSUME NEW i \in 1 .. Len(stmts), Insert(i) PROVE BooleansOK'
  BY <1>12, Zenon DEF Insert
<1>13. ASSUME NEW i \in 1 .. Len(stmts), NEW row \in 1 .. MaxRows,
              NEW n \in 0 .. MaxMarker, NEW executed \in BOOLEAN,
              InsertFails(i, row, n, executed)
       PROVE  BooleansOK'
  BY <1>13, Zenon DEF InsertFails
<1>14. ASSUME NEW i \in 1 .. Len(stmts), Delete(i) PROVE BooleansOK'
  BY <1>14, Zenon DEF Delete
<1>15. CASE RemoveSession
  BY <1>15, Zenon DEF RemoveSession
<1>16. CASE UNCHANGED sqlVars
  BY <1>16, Zenon DEF sqlVars
<1>17. QED
  BY <1>1, <1>2, <1>3, <1>4, <1>5, <1>6, <1>7, <1>8, <1>9, <1>10, <1>11,
     <1>12, <1>13, <1>14, <1>15, <1>16, UASQLAssumption
     DEF SqlNext, ExecDirect, Execute, Update, UpdateFails

(* Undefined behaviour leaves the table alone.                             *)
LEMMA UndefinedStep ==
  ASSUME TableOK, Undefined
  PROVE  TableOK'
  BY SameStep DEF Undefined

LEMMA TableStep ==
  ASSUME TableOK, [SqlNext]_sqlVars
  PROVE  TableOK'
<1>1. CASE ConnectRefused
  BY <1>1, SameStep DEF ConnectRefused
<1>2. ASSUME NEW ok \in BOOLEAN, Connect(ok) PROVE TableOK'
  BY <1>2, SameStep DEF Connect
<1>3. ASSUME NEW on \in BOOLEAN, SetCommit(on) PROVE TableOK'
  BY <1>3, SameStep DEF SetCommit
<1>4. CASE Commit
  BY <1>4, SameStep DEF Commit
<1>5. ASSUME NEW c \in BOOLEAN, NEW e \in BOOLEAN, Disconnect(c, e)
      PROVE  TableOK'
  <2>1. CASE Undefined
    BY <2>1, UndefinedStep
  <2>2. CASE stmts' \in {<<>>, stmts} /\ UNCHANGED misuse
    BY <2>2, SameStep, EmptyStep
  <2>3. QED
    BY <1>5, <2>1, <2>2 DEF Disconnect
<1>6. ASSUME NEW id \in Ids, NEW ok \in BOOLEAN, AllocNew(id, ok)
      PROVE  TableOK'
  <2> DEFINE r == [Fresh(id) EXCEPT !.handle = ok]
  <2>1. r \in Statement /\ r.id = id /\ Sound(r, misuse)
    BY FreshFacts
  <2>2. Slots(id) = {} /\ stmts' = Append(stmts, r) /\ UNCHANGED misuse
    BY <1>6 DEF AllocNew
  <2> HIDE DEF r
  <2>3. QED
    BY <2>1, <2>2, AppendStep
<1>7. ASSUME NEW i \in 1 .. Len(stmts), NEW ok \in BOOLEAN, AllocAgain(i, ok)
      PROVE  TableOK'
  <2>1. CASE Undefined
    BY <2>1, UndefinedStep
  <2>2. CASE ~Undefined
    <3> DEFINE a == IF stmts[i].arrays = "live" THEN "freed"
                                               ELSE stmts[i].arrays
               r == [stmts[i] EXCEPT !.handle = ok, !.bound = Unbound,
                                     !.arrays = a]
    <3>1. stmts[i] \in Statement /\ Sound(stmts[i], misuse)
      BY DEF TableOK
    <3>2. a \in {"null", "live", "freed"}
      BY <3>1 DEF Statement
    <3>3. stmts' = [stmts EXCEPT ![i] = r]
      BY <1>7, <2>2 DEF AllocAgain
    <3>4. misuse' = IF stmts[i].arrays = "live" THEN misuse \cup {"realloc"}
                                                ELSE misuse
      BY <1>7, <2>2 DEF AllocAgain
    <3>5. r = [stmts[i] EXCEPT !.handle = ok, !.bound = Unbound, !.arrays = a]
      OBVIOUS
    <3> HIDE DEF a, r
    <3>6. /\ r \in Statement /\ r.id = stmts[i].id /\ r.arrays = a
          /\ r.bound = Unbound
      BY <3>1, <3>2, <3>5 DEF Statement, Unbound
    <3>7. Sound(r, misuse')
      BY <3>1, <3>4, <3>6 DEF Sound, Unbound, a
    <3>8. /\ misuse \subseteq misuse'
          /\ misuse' \subseteq {"realloc", "failedRow"}
      BY <3>4 DEF TableOK
    <3>9. QED
      BY <3>3, <3>6, <3>7, <3>8, UpdateStep
  <2>3. QED
    BY <2>1, <2>2
<1>8. ASSUME NEW i \in 1 .. Len(stmts), ResetParams(i) PROVE TableOK'
  <2>1. CASE Undefined
    BY <2>1, UndefinedStep
  <2>2. CASE ~Undefined
    <3> DEFINE r == [stmts[i] EXCEPT !.bound = Unbound, !.num = 0,
                                     !.arrays = "null"]
    <3>1. stmts[i] \in Statement
      BY DEF TableOK
    <3>2. stmts' = [stmts EXCEPT ![i] = r] /\ UNCHANGED misuse
      BY <1>8, <2>2 DEF ResetParams
    <3>3. r \in Statement /\ r.id = stmts[i].id /\ Sound(r, misuse')
      BY <3>1, ResetFacts
    <3> HIDE DEF r
    <3>4. misuse' \subseteq {"realloc", "failedRow"}
      BY <3>2 DEF TableOK
    <3>5. QED
      BY <3>2, <3>3, <3>4, UpdateStep
  <2>3. QED
    BY <2>1, <2>2
<1>9. ASSUME NEW i \in 1 .. Len(stmts), FreeHandle(i) PROVE TableOK'
  <2>1. CASE Undefined
    BY <2>1, UndefinedStep
  <2>2. CASE stmts' = Shift(stmts, i) /\ UNCHANGED misuse
    BY <2>2, ShiftStep
  <2>3. QED
    BY <1>9, <2>1, <2>2 DEF FreeHandle
<1>10. ASSUME NEW i \in 1 .. Len(stmts), NEW k \in Markers, NEW ok \in BOOLEAN,
              Bind(i, k, ok)
       PROVE  TableOK'
  <2>1. CASE Undefined
    BY <2>1, UndefinedStep
  <2>2. CASE ~Undefined
    <3> DEFINE s == stmts[i]
               n == IF ok THEN s.num + 1 ELSE s.num
               b == IF ok THEN [s.bound EXCEPT ![k] = "buffer"] ELSE s.bound
               r == [s EXCEPT !.arrays = "live", !.num = n, !.bound = b]
    <3>1. s \in Statement /\ Sound(s, misuse)
      BY DEF TableOK
    <3>2. s.num \in 0 .. MaxBuffers /\ s.num < MaxBuffers
      BY <1>10, <3>1 DEF Bind, Statement
    <3>3. n \in 0 .. MaxBuffers /\ n >= s.num /\ (ok => n > 0)
      BY <3>2, UASQLAssumption
    <3>4. s.bound \in [Markers -> {"none", "buffer", "freed"}]
      BY <3>1 DEF Statement
    <3>5. b \in [Markers -> {"none", "buffer", "freed"}]
      BY <3>4
    <3>6. \A j \in Markers : \/ b[j] = s.bound[j]
                             \/ ok /\ b[j] = "buffer"
      BY <3>4
    <3>7. stmts' = [stmts EXCEPT ![i] = r] /\ UNCHANGED misuse
      BY <1>10, <2>2 DEF Bind
    <3>8. r = [s EXCEPT !.arrays = "live", !.num = n, !.bound = b]
      OBVIOUS
    <3> HIDE DEF s, n, b, r
    <3>9. /\ r \in Statement /\ r.id = s.id
          /\ r.arrays = "live" /\ r.num = n /\ r.bound = b
      BY <3>1, <3>3, <3>5, <3>8 DEF Statement
    <3>10. \A j \in Markers : r.bound[j] = "buffer" => n > 0
      <4> SUFFICES ASSUME NEW j \in Markers, b[j] = "buffer" PROVE n > 0
        BY <3>9
      <4>1. CASE ok
        BY <3>3, <4>1
      <4>2. CASE s.bound[j] = "buffer"
        <5>1. s.num > 0
          BY <3>1, <4>2 DEF Sound
        <5>2. QED
          BY <5>1, <3>2, <3>3
      <4>3. QED
        BY <3>6, <4>1, <4>2
    <3>11. \A j \in Markers : r.bound[j] = "freed" => s.bound[j] = "freed"
      BY <3>6, <3>9
    <3>12. Sound(r, misuse')
      BY <3>1, <3>7, <3>9, <3>10, <3>11 DEF Sound
    <3>13. misuse' \subseteq {"realloc", "failedRow"}
      BY <3>7 DEF TableOK
    <3>14. QED
      BY <3>7, <3>9, <3>12, <3>13, UpdateStep DEF s
  <2>3. QED
    BY <2>1, <2>2
<1>11. ASSUME NEW i \in 1 .. Len(stmts), NEW used \in 0 .. MaxMarker,
              Run(i, used)
       PROVE  TableOK'
  BY <1>11, SameStep DEF Run, Undefined
<1>12. ASSUME NEW i \in 1 .. Len(stmts), Insert(i) PROVE TableOK'
  <2> DEFINE r == [stmts[i] EXCEPT !.bound = Unbound]
  <2>1. stmts[i] \in Statement /\ Sound(stmts[i], misuse)
    BY DEF TableOK
  <2>2. stmts' = [stmts EXCEPT ![i] = r] /\ UNCHANGED misuse
    BY <1>12 DEF Insert
  <2>3. Unbound \in [Markers -> {"none", "buffer", "freed"}]
    BY DEF Unbound
  <2>4. /\ r \in Statement /\ r.id = stmts[i].id /\ r.bound = Unbound
        /\ r.arrays = stmts[i].arrays
    BY <2>1, <2>3, BoundFacts
  <2> HIDE DEF r
  <2>5. Sound(r, misuse')
    BY <2>1, <2>2, <2>4 DEF Sound, Unbound
  <2>6. misuse' \subseteq {"realloc", "failedRow"}
    BY <2>2 DEF TableOK
  <2>7. QED
    BY <2>2, <2>4, <2>5, <2>6, UpdateStep
<1>13. ASSUME NEW i \in 1 .. Len(stmts), NEW row \in 1 .. MaxRows,
              NEW n \in 0 .. MaxMarker, NEW executed \in BOOLEAN,
              InsertFails(i, row, n, executed)
       PROVE  TableOK'
  <2> DEFINE s == stmts[i]
             b == [k \in Markers |-> IF k <= n THEN "freed"
                                     ELSE IF row > 1 THEN "none"
                                     ELSE s.bound[k]]
             r == [s EXCEPT !.bound = b]
  <2>1. s \in Statement /\ Sound(s, misuse)
    BY DEF TableOK
  <2>2. stmts' = [stmts EXCEPT ![i] = r]
    BY <1>13 DEF InsertFails
  <2>3. misuse' = IF n = 0 THEN misuse ELSE misuse \cup {"failedRow"}
    BY <1>13 DEF InsertFails
  <2>4. s.bound \in [Markers -> {"none", "buffer", "freed"}]
    BY <2>1 DEF Statement
  <2>5. b \in [Markers -> {"none", "buffer", "freed"}]
    BY <2>4
  <2>6. \A k \in Markers : \/ b[k] = "freed" /\ n # 0
                           \/ b[k] = "none"
                           \/ b[k] = s.bound[k]
    BY UASQLAssumption DEF Markers
  <2> HIDE DEF b
  <2>7. /\ r \in Statement /\ r.id = s.id /\ r.bound = b
        /\ r.arrays = s.arrays /\ r.num = s.num
    BY <2>1, <2>5, BoundFacts
  <2> HIDE DEF r
  <2>8. misuse \subseteq misuse' /\ misuse' \subseteq {"realloc", "failedRow"}
    BY <2>3 DEF TableOK
  <2>9. \A k \in Markers : r.bound[k] = "buffer" => r.arrays = "live" /\ r.num > 0
    BY <2>1, <2>6, <2>7 DEF Sound
  <2>10. \A k \in Markers : r.bound[k] = "freed" => "failedRow" \in misuse'
    BY <2>1, <2>3, <2>6, <2>7 DEF Sound
  <2>11. Sound(r, misuse')
    BY <2>1, <2>7, <2>8, <2>9, <2>10 DEF Sound
  <2>12. QED
    BY <2>2, <2>7, <2>8, <2>11, UpdateStep
<1>14. ASSUME NEW i \in 1 .. Len(stmts), Delete(i) PROVE TableOK'
  BY <1>14, SameStep DEF Delete
<1>15. CASE RemoveSession
  <2>1. CASE Undefined
    BY <2>1, UndefinedStep
  <2>2. CASE stmts' = <<>> /\ UNCHANGED misuse
    BY <2>2, EmptyStep
  <2>3. QED
    BY <1>15, <2>1, <2>2 DEF RemoveSession
<1>16. CASE UNCHANGED sqlVars
  BY <1>16, SameStep DEF sqlVars
<1>17. QED
  BY <1>1, <1>2, <1>3, <1>4, <1>5, <1>6, <1>7, <1>8, <1>9, <1>10, <1>11,
     <1>12, <1>13, <1>14, <1>15, <1>16, UASQLAssumption
     DEF SqlNext, ExecDirect, Execute, Update, UpdateFails

-----------------------------------------------------------------------------
(* The handles: only Connect, Disconnect and RemoveSession change them,    *)
(* and a method that may fill the table found the session connected.       *)
LEMMA HandlesStep ==
  ASSUME BooleansOK, HandlesFit, [SqlNext]_sqlVars
  PROVE  HandlesFit'
<1> USE DEF HandlesFit
<1>1. CASE ConnectRefused
  BY <1>1 DEF ConnectRefused, Present, BooleansOK
<1>2. ASSUME NEW ok \in BOOLEAN, Connect(ok) PROVE HandlesFit'
  BY <1>2 DEF Connect, Present
<1>3. ASSUME NEW on \in BOOLEAN, SetCommit(on) PROVE HandlesFit'
  BY <1>3 DEF SetCommit
<1>4. CASE Commit
  BY <1>4 DEF Commit
<1>5. ASSUME NEW c \in BOOLEAN, NEW e \in BOOLEAN, Disconnect(c, e)
      PROVE  HandlesFit'
  <2>1. CASE Undefined
    BY <2>1 DEF Undefined
  <2>2. CASE ~Undefined
    BY <1>5, <2>2 DEF Disconnect, Present, BooleansOK
  <2>3. QED
    BY <2>1, <2>2
<1>6. CASE Undefined
  BY <1>6 DEF Undefined
<1>7. CASE Ready /\ KeepConnection
  BY <1>7 DEF Ready, KeepConnection
<1>8. CASE RemoveSession
  BY <1>8 DEF RemoveSession, Undefined
<1>9. CASE UNCHANGED sqlVars
  BY <1>9 DEF sqlVars
<1>10. QED
  BY <1>1, <1>2, <1>3, <1>4, <1>5, <1>6, <1>7, <1>8, <1>9
     DEF SqlNext, AllocNew, AllocAgain, ResetParams, FreeHandle, Bind, Run,
         ExecDirect, Execute, Insert, InsertFails, Update, UpdateFails, Delete

(* Freed memory is reached only through a dangling pointer, and those are  *)
(* on record.                                                              *)
LEMMA MemoryStep ==
  ASSUME TableOK, MemorySafe, [SqlNext]_sqlVars
  PROVE  MemorySafe'
<1>1. CASE UNCHANGED ub /\ misuse \subseteq misuse'
  BY <1>1 DEF MemorySafe
<1>2. CASE Dangling(1 .. Len(stmts)) /\ Undefined
  BY <1>2 DEF TableOK, Dangling, Sound, Undefined, MemorySafe
<1>3. ASSUME NEW i \in 1 .. Len(stmts), Dangling({i}), Undefined
      PROVE  MemorySafe'
  BY <1>3 DEF TableOK, Dangling, Sound, Undefined, MemorySafe
<1>4. ASSUME NEW i \in 1 .. Len(stmts), NEW used \in 0 .. MaxMarker,
             Run(i, used)
      PROVE  MemorySafe'
  <2>1. CASE UNCHANGED <<ub, misuse>>
    BY <1>1, <2>1
  <2>2. ASSUME NEW k \in 1 .. used, stmts[i].bound[k] = "freed", Undefined
        PROVE  MemorySafe'
    <3>1. k \in Markers
      BY UASQLAssumption DEF Markers
    <3>2. "failedRow" \in misuse
      BY <2>2, <3>1 DEF TableOK, Sound
    <3>3. QED
      BY <2>2, <3>2 DEF Undefined, MemorySafe
  <2>3. QED
    BY <1>4, <2>1, <2>2 DEF Run, KeepConnection
<1>5. CASE ConnectRefused \/ Commit \/ UNCHANGED sqlVars
  BY <1>1, <1>5 DEF ConnectRefused, Commit, sqlVars
<1>6. ASSUME NEW b \in BOOLEAN, Connect(b) \/ SetCommit(b)
      PROVE  MemorySafe'
  BY <1>1, <1>6 DEF Connect, SetCommit
<1>7. ASSUME NEW c \in BOOLEAN, NEW e \in BOOLEAN, Disconnect(c, e)
      PROVE  MemorySafe'
  BY <1>1, <1>2, <1>7 DEF Disconnect
<1>8. ASSUME NEW id \in Ids, NEW ok \in BOOLEAN, AllocNew(id, ok)
      PROVE  MemorySafe'
  BY <1>1, <1>8 DEF AllocNew, KeepConnection
<1>9. ASSUME NEW i \in 1 .. Len(stmts), NEW ok \in BOOLEAN, AllocAgain(i, ok)
      PROVE  MemorySafe'
  BY <1>1, <1>3, <1>9 DEF AllocAgain, KeepConnection
<1>10. ASSUME NEW i \in 1 .. Len(stmts),
              ResetParams(i) \/ FreeHandle(i) \/ Insert(i) \/ Delete(i)
       PROVE  MemorySafe'
  BY <1>1, <1>3, <1>10 DEF ResetParams, FreeHandle, Insert, Delete, KeepConnection
<1>11. ASSUME NEW i \in 1 .. Len(stmts), NEW k \in Markers, NEW ok \in BOOLEAN,
              Bind(i, k, ok)
       PROVE  MemorySafe'
  BY <1>1, <1>3, <1>11 DEF Bind, KeepConnection
<1>12. ASSUME NEW i \in 1 .. Len(stmts), NEW row \in 1 .. MaxRows,
              NEW n \in 0 .. MaxMarker, NEW executed \in BOOLEAN,
              InsertFails(i, row, n, executed)
       PROVE  MemorySafe'
  BY <1>1, <1>12 DEF InsertFails, KeepConnection
<1>13. CASE RemoveSession
  BY <1>1, <1>2, <1>13 DEF RemoveSession
<1>14. QED
  BY <1>4, <1>5, <1>6, <1>7, <1>8, <1>9, <1>10, <1>11, <1>12, <1>13,
     UASQLAssumption DEF SqlNext, ExecDirect, Execute, Update, UpdateFails

-----------------------------------------------------------------------------
(* SqlInv is inductive: every method of UASQLFunctions.c, EXECUTE_ and     *)
(* DML_SQLVariant.c keeps it.                                              *)
THEOREM SqlInvTheorem == SqlSpec => []SqlInv
<1>1. SqlInv /\ [SqlNext]_sqlVars => SqlInv'
  <2> SUFFICES ASSUME SqlInv, [SqlNext]_sqlVars PROVE SqlInv'
    OBVIOUS
  <2>1. BooleansOK /\ TableOK /\ HandlesFit /\ MemorySafe
    BY SqlParts
  <2>2. BooleansOK' /\ TableOK' /\ HandlesFit' /\ MemorySafe'
    BY <2>1, BooleansStep, TableStep, HandlesStep, MemoryStep
  <2>3. QED
    BY <2>2 DEF SqlInv, SqlTypeOK, BooleansOK, TableOK
<1>2. QED
  BY <1>1, SqlInitInv, PTL DEF SqlSpec

(* The types: a statement's arrays are never what malloc left there.       *)
THEOREM SqlTypeTheorem == SqlSpec => []SqlTypeOK
<1>1. SqlInv => SqlTypeOK
  BY DEF SqlInv
<1>2. QED
  BY <1>1, SqlInvTheorem, PTL

(* Environment, connection, IsConnected and the statements of a session    *)
(* fit together however Connect and Disconnect fail.                       *)
THEOREM HandlesTheorem == SqlSpec => []HandlesFit
<1>1. SqlInv => HandlesFit
  BY DEF SqlInv
<1>2. QED
  BY <1>1, SqlInvTheorem, PTL

(* AllocHandle never gives a client two statements of one identifier.      *)
THEOREM OneStatementTheorem == SqlSpec => []OneStatementPerId
<1>1. SqlInv => OneStatementPerId
  BY DEF SqlInv
<1>2. QED
  BY <1>1, SqlInvTheorem, PTL

(* Freed memory is used only after AllocHandle on an identifier with       *)
(* buffers, or after a failed row of Insert or Update.                     *)
THEOREM MemoryTheorem == SqlSpec => []MemorySafe
<1>1. SqlInv => MemorySafe
  BY DEF SqlInv
<1>2. QED
  BY <1>1, SqlInvTheorem, PTL

(* The driver holds no pointer to a freed buffer of Bind.                  *)
THEOREM BoundBuffersTheorem == SqlSpec => []BoundBuffersLive
<1>1. SqlInv => BoundBuffersLive
  BY DEF SqlInv, BoundBuffersLive, Sound
<1>2. QED
  BY <1>1, SqlInvTheorem, PTL

-----------------------------------------------------------------------------
(* The driver's cursor and the client stay together: CursorInv is          *)
(* inductive.                                                              *)
LEMMA CursorInit == FetchInit => CursorInv
<1> SUFFICES ASSUME FetchInit PROVE CursorInv
  OBVIOUS
<1>1. Flags
  BY DEF FetchInit, Flags
<1>2. QED
  BY <1>1, FetchAssumption DEF FetchInit, CursorInv, FetchTypeOK

LEMMA FlagsStep == Flags /\ [FetchNext]_fetchVars => Flags'
<1> SUFFICES ASSUME Flags, [FetchNext]_fetchVars PROVE Flags'
  OBVIOUS
<1> USE DEF Flags, cursor, OpenCursor, Discard, Return, Fail
<1>1. ASSUME NEW n \in Totals, Select(n) \/ SQLExecute(n) PROVE Flags'
  BY <1>1, Zenon DEF Select, SQLExecute
<1>2. CASE SelectFails
  BY <1>2, Zenon DEF SelectFails
<1>3. ASSUME NEW n \in 0 .. Limit + 1, Fetch(n) PROVE Flags'
  BY <1>3, Zenon DEF Fetch
<1>4. CASE CloseHandle \/ AllocHandle \/ SQLCommit
  BY <1>4, Zenon DEF CloseHandle, AllocHandle, SQLCommit
<1>5. CASE RowAdded \/ RowFails
  BY <1>5, Zenon DEF RowAdded, RowFails
<1>6. CASE LimitReached
  BY <1>6, Zenon DEF LimitReached
<1>7. CASE NoMoreRows \/ FetchFails \/ DescribeFails
  BY <1>7, Zenon DEF NoMoreRows, FetchFails, DescribeFails
<1>8. CASE UNCHANGED fetchVars
  BY <1>8, Zenon DEF fetchVars
<1>9. QED
  BY <1>1, <1>2, <1>3, <1>4, <1>5, <1>6, <1>7, <1>8 DEF FetchNext

(* After a reply the client has the rows up to the cursor.                 *)
LEMMA Delivered ==
  ASSUME CursorInv, NEW p \in {pos, pos + 1}, NEW n,
         n = numRows + (p - pos), got' = got \cup Page(p, n)
  PROVE  /\ whole => got' = 1 .. p
         /\ \A r \in got' : r \in 1 .. p
<1> USE DEF CursorInv, FetchTypeOK, Page
<1>1. n \in Nat /\ p \in Nat /\ (p + 1) - n = (pos - numRows) + 1
  OBVIOUS
<1>2. pos - numRows \in Nat /\ pos - numRows <= p
  OBVIOUS
<1>3. got' = got \cup ((pos - numRows) + 1 .. p)
  BY <1>1
<1>4. \A r \in got' : r \in 1 .. p
  BY <1>1, <1>2, <1>3
<1>5. whole => got' = 1 .. p
  BY <1>1, <1>2, <1>3
<1>6. QED
  BY <1>4, <1>5

LEMMA ReturnStep ==
  ASSUME CursorInv, Flags', NEW p \in {pos, pos + 1}, p <= total, pos' = p,
         NEW n, n = numRows + (p - pos), NEW hasMore \in {"more", "end"},
         Return(p, n, hasMore), UNCHANGED <<style, total, limit, opened>>,
         whole' => whole
  PROVE  CursorInv'
<1>1. (whole => got' = 1 .. p) /\ \A r \in got' : r \in 1 .. p
  BY Delivered DEF Return
<1>2. numRows' = 0 /\ pc' = "idle" /\ told' \in {"more", "end"}
  BY DEF Return
<1>3. pos' - numRows' = p /\ p \in Nat /\ p \in 0 .. total'
  BY <1>2 DEF CursorInv, FetchTypeOK
<1>4. FetchTypeOK'
  <2>1. got' \subseteq 1 .. total'
    BY <1>1, <1>3 DEF CursorInv, FetchTypeOK
  <2>2. QED
    BY <1>2, <1>3, <2>1 DEF CursorInv, FetchTypeOK
<1>5. (whole => got' = 1 .. pos' - numRows') /\ \A r \in got' : r <= pos' - numRows'
  BY <1>1, <1>3
<1>6. QED
  BY <1>2, <1>4, <1>5 DEF CursorInv

LEMMA CursorStep == CursorInv /\ [FetchNext]_fetchVars => CursorInv'
<1> SUFFICES ASSUME CursorInv, [FetchNext]_fetchVars PROVE CursorInv'
  OBVIOUS
<1>0. Flags'
  BY FlagsStep DEF CursorInv, FetchTypeOK, Flags
<1> USE FetchAssumption, <1>0 DEF CursorInv, FetchTypeOK, cursor
<1>1. ASSUME NEW n \in Totals, Select(n) PROVE CursorInv'
  BY <1>1 DEF Select, OpenCursor
<1>2. ASSUME NEW n \in Totals, SQLExecute(n) PROVE CursorInv'
  BY <1>2 DEF SQLExecute, OpenCursor
<1>3. CASE SelectFails
  BY <1>3 DEF SelectFails
<1>4. ASSUME NEW n \in 0 .. Limit + 1, Fetch(n) PROVE CursorInv'
  BY <1>4 DEF Fetch
<1>5. CASE CloseHandle
  BY <1>5 DEF CloseHandle, Discard
<1>6. CASE AllocHandle
  BY <1>6 DEF AllocHandle, Discard
<1>7. CASE SQLCommit
  BY <1>7 DEF SQLCommit
<1>8. CASE RowAdded
  <2>1. /\ pos < total /\ numRows < limit /\ pos' = pos + 1
        /\ UNCHANGED <<style, total, limit, whole, opened>>
    BY <1>8 DEF RowAdded
  <2>2. CASE numRows' = numRows + 1 /\ UNCHANGED <<pc, got, told>> /\ pc = "loop"
    BY <2>1, <2>2
  <2>3. CASE Return(pos + 1, numRows + 1, "more")
    <3>1. /\ numRows + 1 = numRows + ((pos + 1) - pos)
          /\ pos + 1 <= total
      BY <2>1
    <3> HIDE DEF CursorInv, FetchTypeOK
    <3>2. QED
      BY <2>1, <2>3, <3>1, ReturnStep
  <2>4. QED
    BY <1>8, <2>2, <2>3 DEF RowAdded
<1>9. CASE RowFails
  BY <1>9 DEF RowFails, Fail
<1>10. CASE LimitReached
  <2>1. CASE Fail
    BY <1>10, <2>1 DEF LimitReached, Fail
  <2>2. CASE pos' = pos /\ Return(pos, numRows, "more") /\ UNCHANGED whole
    <3>1. numRows = numRows + (pos - pos) /\ pos <= total
      OBVIOUS
    <3>2. UNCHANGED <<style, total, limit, opened>>
      BY <1>10 DEF LimitReached
    <3> HIDE DEF CursorInv, FetchTypeOK
    <3>3. QED
      BY <2>2, <3>1, <3>2, ReturnStep
  <2>3. QED
    BY <1>10, <2>1, <2>2 DEF LimitReached
<1>11. CASE NoMoreRows
  BY <1>11 DEF NoMoreRows, Return, Page
<1>12. CASE FetchFails
  <2>1. /\ Return(pos, numRows, "end") /\ UNCHANGED pos
        /\ UNCHANGED <<style, total, limit, opened>>
    BY <1>12 DEF FetchFails
  <2>2. whole' => whole
    BY <1>12, Zenon DEF FetchFails
  <2>3. numRows = numRows + (pos - pos) /\ pos <= total
    OBVIOUS
  <2> HIDE DEF CursorInv, FetchTypeOK
  <2>4. QED
    BY <2>1, <2>2, <2>3, ReturnStep
<1>13. CASE DescribeFails
  BY <1>13 DEF DescribeFails
<1>14. CASE UNCHANGED fetchVars
  BY <1>14 DEF fetchVars
<1>15. QED
  BY <1>1, <1>2, <1>3, <1>4, <1>5, <1>6, <1>7, <1>8, <1>9, <1>10, <1>11,
     <1>12, <1>13, <1>14 DEF FetchNext

LEMMA CursorAlways == FetchSpec => []CursorInv
  BY CursorInit, CursorStep, PTL DEF FetchSpec

(* No page exceeds its limit and every variable keeps its type.            *)
THEOREM FetchTypeTheorem == FetchSpec => []FetchTypeOK
<1>1. CursorInv => FetchTypeOK
  BY DEF CursorInv
<1>2. QED
  BY <1>1, CursorAlways, PTL

(* Between two calls, unless the driver failed, the client has exactly the *)
(* rows up to the cursor.                                                  *)
THEOREM NoGapTheorem == FetchSpec => []NoGap
<1>1. CursorInv => NoGap
  BY DEF CursorInv, NoGap, FetchTypeOK
<1>2. QED
  BY <1>1, CursorAlways, PTL

-----------------------------------------------------------------------------
(* A reply of ID_Fetch with the rows between the client and the cursor is  *)
(* a reply of the stream.                                                  *)
LEMMA PageIsReply ==
  ASSUME CursorInv, NEW p \in {pos, pos + 1}, p <= total,
         NEW n \in Nat, p - n = pos - numRows,
         NEW hasMore \in {"more", "end"}, Return(p, n, hasMore),
         UNCHANGED total, whole' \in BOOLEAN, whole' => whole,
         hasMore = "end" /\ whole' => p = total
  PROVE  Stream!Reply
<1> USE DEF CursorInv, FetchTypeOK, Return, Page
<1>1. got \subseteq got' /\ got' \subseteq 1 .. total
  OBVIOUS
<1>2. \A r \in got' \ got, q \in got : q < r
  OBVIOUS
<1>3. whole' => got' = 1 .. p
  OBVIOUS
<1>4. QED
  BY <1>1, <1>2, <1>3 DEF Stream!Reply

LEMMA FailureIsReply ==
  ASSUME CursorInv, told' = "failed", UNCHANGED <<total, got>>,
         whole' \in BOOLEAN, whole' => whole /\ numRows = 0
  PROVE  Stream!Reply
  BY DEF Stream!Reply, CursorInv, FetchTypeOK

LEMMA StreamStep ==
  CursorInv /\ [FetchNext]_fetchVars => [Stream!StreamNext]_Stream!streamVars
<1> SUFFICES ASSUME CursorInv, [FetchNext]_fetchVars
             PROVE  [Stream!StreamNext]_Stream!streamVars
  OBVIOUS
<1> USE FetchAssumption DEF Stream!StreamNext
<1>1. ASSUME NEW n \in Totals, Select(n) PROVE Stream!Query
  BY <1>1 DEF Select, OpenCursor, Stream!Query
<1>2. ASSUME NEW n \in Totals, SQLExecute(n) PROVE Stream!Query
  BY <1>2 DEF SQLExecute, OpenCursor, Stream!Query
<1>3. CASE SelectFails
  <2>1. told' = "failed" /\ UNCHANGED <<total, got, whole, numRows, pc>>
        /\ pc = "idle"
    BY <1>3 DEF SelectFails
  <2>2. numRows = 0 /\ whole' \in BOOLEAN
    BY <2>1 DEF CursorInv, FetchTypeOK, Flags
  <2>3. QED
    BY <2>1, <2>2, FailureIsReply
<1>4. ASSUME NEW n \in 0 .. Limit + 1, Fetch(n)
      PROVE  UNCHANGED Stream!streamVars
  BY <1>4 DEF Fetch, cursor, Stream!streamVars
<1>5. CASE CloseHandle
  BY <1>5 DEF CloseHandle, Discard, Stream!Close, Stream!Empty
<1>6. CASE AllocHandle
  BY <1>6 DEF AllocHandle, Discard, Stream!Close, Stream!Empty
<1>7. CASE SQLCommit
  BY <1>7 DEF SQLCommit, Stream!Reply, CursorInv, FetchTypeOK
<1>8. CASE RowAdded
  <2>1. CASE UNCHANGED <<pc, got, told>>
    BY <1>8, <2>1 DEF RowAdded, cursor, Stream!streamVars
  <2>2. CASE Return(pos + 1, numRows + 1, "more")
    <3>1. pos < total /\ UNCHANGED <<total, whole>>
      BY <1>8 DEF RowAdded, cursor
    <3>2. pos + 1 <= total /\ whole' \in BOOLEAN /\ numRows + 1 \in Nat
          /\ (pos + 1) - (numRows + 1) = pos - numRows
      BY <3>1 DEF CursorInv, FetchTypeOK, Flags
    <3>3. QED
      BY <2>2, <3>1, <3>2, PageIsReply
  <2>3. QED
    BY <1>8, <2>1, <2>2 DEF RowAdded
<1>9. CASE RowFails
  <2>1. told' = "failed" /\ whole' = FALSE /\ UNCHANGED <<total, got>>
    BY <1>9 DEF RowFails, Fail, cursor
  <2>2. QED
    BY <2>1, FailureIsReply
<1>10. CASE LimitReached
  <2>1. CASE Return(pos, numRows, "more") /\ UNCHANGED <<total, whole>>
    <3>1. pos <= total /\ whole' \in BOOLEAN /\ numRows \in Nat
      BY <2>1 DEF CursorInv, FetchTypeOK, Flags
    <3>2. QED
      BY <2>1, <3>1, PageIsReply
  <2>2. CASE Fail
    <3>1. told' = "failed" /\ whole' = FALSE /\ UNCHANGED <<total, got>>
      BY <1>10, <2>2 DEF LimitReached, Fail, cursor
    <3>2. QED
      BY <3>1, FailureIsReply
  <2>3. QED
    BY <1>10, <2>1, <2>2 DEF LimitReached, cursor
<1>11. CASE NoMoreRows
  <2>1. /\ Return(pos, numRows, "end") /\ pos = total
        /\ UNCHANGED <<total, whole>>
    BY <1>11 DEF NoMoreRows, cursor
  <2>2. pos <= total /\ whole' \in BOOLEAN /\ numRows \in Nat
    BY <2>1 DEF CursorInv, FetchTypeOK, Flags
  <2>3. QED
    BY <2>1, <2>2, PageIsReply
<1>12. CASE FetchFails
  <2>1. Return(pos, numRows, "end") /\ UNCHANGED total
        /\ whole' = (whole /\ ~opened)
    BY <1>12 DEF FetchFails, cursor
  <2>2. pos <= total /\ whole' \in BOOLEAN /\ numRows \in Nat
    BY <2>1 DEF CursorInv, FetchTypeOK, Flags
  <2>a. whole' => whole /\ ~opened
    BY <2>1, Zenon
  <2>3. whole' => whole /\ pos = total
    BY <2>a DEF CursorInv, FetchTypeOK
  <2>4. QED
    BY <2>1, <2>2, <2>3, PageIsReply
<1>13. CASE DescribeFails
  <2>1. told' = "failed" /\ UNCHANGED <<total, got, whole>> /\ numRows = 0
    BY <1>13 DEF DescribeFails, cursor
  <2>2. whole' \in BOOLEAN
    BY <2>1 DEF CursorInv, FetchTypeOK, Flags
  <2>3. QED
    BY <2>1, <2>2, FailureIsReply
<1>14. CASE UNCHANGED fetchVars
  BY <1>14 DEF fetchVars, Stream!streamVars
<1>15. QED
  BY <1>1, <1>2, <1>3, <1>4, <1>5, <1>6, <1>7, <1>8, <1>9, <1>10, <1>11,
     <1>12, <1>13, <1>14 DEF FetchNext

(* Select and Fetch implement the stream of rows: order, at most once, and *)
(* as long as the driver does not fail, completeness.                      *)
THEOREM StreamTheorem == FetchSpec => StreamRefined
<1>1. FetchInit => Stream!Empty
  BY DEF FetchInit, Stream!Empty
<1>2. QED
  BY <1>1, StreamStep, CursorAlways, PTL
     DEF FetchSpec, StreamRefined, Stream!StreamSpec
=============================================================================
