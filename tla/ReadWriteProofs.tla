--------------------------- MODULE ReadWriteProofs ---------------------------
(***************************************************************************)
(* Read and Write for every set of variables, every length of an array and *)
(* every width of an int.                                                  *)
(***************************************************************************)
EXTENDS ReadWrite, TLAPS

Longest == IF ArrayLength > MaxSupplied THEN ArrayLength ELSE MaxSupplied

LatestInv ==
  /\ latest = [n \in Nodes |-> latest[n]]
  /\ \A n \in Nodes \cap Arrays :
       /\ Len(value[n]) <= Longest
       /\ latest[n] \in [1 .. Len(value[n]) -> Nat \cup {Any}]
       /\ \A k \in 1 .. Len(value[n]) : latest[n][k] \in {value[n][k], Any}

ClockInv == stamped => Clocks \subseteq Nodes

RWInv == RWTypeOK /\ ValueHasType /\ LatestInv /\ ClockInv /\ ClocksAgree /\ ReadsLatest

-----------------------------------------------------------------------------
LEMMA ConstantFacts ==
  /\ ArrayLength \in Nat \ {0} /\ MaxSupplied \in Nat /\ MaxTime \in Nat /\ IntMax \in Nat
  /\ Longest \in Nat /\ Longest <= IntMax /\ ArrayLength <= Longest /\ MaxSupplied <= Longest
  /\ Elems \subseteq Nat /\ 0 \in Elems /\ Numbers \subseteq Nat
  /\ Any \in Int /\ Any \notin Nat
BY ReadWriteAssumption DEF Longest, Any

LEMMA NodeFacts ==
  ASSUME NEW used \in Instances, NEW n \in used
  PROVE  /\ n # NoNode
         /\ DataType[n] = "Integer" <=> n = "integer"
         /\ DataType[n] = "LocalizedText" <=> n = "text"
         /\ n # "integer" => DataType[n] \in Datatypes
<1>1. n \in {"doubles", "bytes", "integer", "boolean", "text", "maxQuery", "status", "currentTime"}
      /\ n # NoNode
  BY ReadWriteAssumption
<1> QED
  BY <1>1 DEF DataType, Datatypes

(* A sequence written out as a function.                                   *)
LEMMA SeqOf ==
  ASSUME NEW S, NEW m \in Nat, NEW f \in [1 .. m -> S]
  PROVE  f \in Seq(S) /\ Len(f) = m
OBVIOUS

LEMMA SuppliedFacts ==
  ASSUME NEW supplied \in Supplied
  PROVE  supplied \in Seq(Nat) /\ Len(supplied) <= MaxSupplied
<1>1. PICK k \in 0 .. MaxSupplied : supplied \in [1 .. k -> Elems]
  BY DEF Supplied
<1>2. k \in Nat /\ k <= MaxSupplied
  BY ConstantFacts
<1>3. supplied \in [1 .. k -> Nat]
  BY <1>1, ConstantFacts
<1> QED
  BY <1>2, <1>3, SeqOf

LEMMA ToIntType == \A p \in Parts : ToInt(p) \in Int
BY ReadWriteAssumption DEF Parts, ToInt

(* The numbers that name an element of an array pass unchanged.            *)
LEMMA ToIntSmall == \A p \in Numbers : p <= IntMax => ToInt(p) = p
<1> SUFFICES ASSUME NEW p \in Numbers, p <= IntMax PROVE ToInt(p) = p
  OBVIOUS
<1> DEFINE x == p + IntMax + 1
           m == 2 * (IntMax + 1)
<1>1. p \in Nat /\ p # Blank /\ IntMax \in Nat
  BY ReadWriteAssumption
<1>2. x \in Nat /\ m \in Nat /\ x < m
  BY <1>1
<1> HIDE DEF x, m
<1>3. x % m = x
  BY <1>2
<1>4. ToInt(p) = (x % m) - (IntMax + 1)
  BY <1>1 DEF ToInt, x, m
<1> QED
  BY <1>1, <1>3, <1>4 DEF x

LEMMA RangeType ==
  ASSUME NEW range \in Ranges, NEW length \in Nat
  PROVE  LET r == ConstructRange(range, length)
         IN  r.low \in Int /\ r.high \in Int
<1>1. range \in IndexTexts => range[1] \in Parts /\ (Len(range) # 1 => range[2] \in Parts)
  BY DEF IndexTexts, Parts
<1>2. CASE range = NoRange
  BY <1>2, RangeAssumption DEF ConstructRange, Chosen, IndexTexts, Parts
<1>3. CASE range = Malformed
  BY <1>3, RangeAssumption DEF ConstructRange, Refused, IndexTexts, Parts
<1>4. CASE range \in IndexTexts
  <2>1. range # NoRange /\ range # Malformed
    BY <1>4, RangeAssumption
  <2>2. ToInt(range[1]) \in Int /\ (Len(range) # 1 => ToInt(range[2]) \in Int)
    BY <1>1, <1>4, ToIntType
  <2> QED
    BY <2>1, <2>2 DEF ConstructRange, Chosen, Refused
<1> QED
  BY <1>2, <1>3, <1>4 DEF Ranges

First(range) == IF range = NoRange THEN 0 ELSE range[1]
Last(range, length) == IF range = NoRange THEN length - 1 ELSE range[Len(range)]

(* A well formed range of ints: ConstructRange chooses the elements it     *)
(* names, which go one beyond the array at most, or refuses it.            *)
LEMMA RangeMeaning ==
  ASSUME NEW range \in Ranges, NEW length \in Nat, WellFormed(range), InInts(range),
         ConstructRange(range, length).status = "Good"
  PROVE  LET r == ConstructRange(range, length)
         IN  /\ r.low = First(range) /\ r.high = Last(range, length)
             /\ r.low \in Nat /\ r.high \in Int /\ r.low <= r.high + 1 /\ r.high <= length
             /\ Named(range, length) = r.low .. r.high
<1> USE ConstantFacts
<1>1. CASE range = NoRange
  BY <1>1, RangeAssumption DEF ConstructRange, Chosen, First, Last, Named, IndexTexts, Parts
<1>2. CASE range # NoRange
  <2>1. range \in Seq(Numbers) /\ (Len(range) = 1 \/ (Len(range) = 2 /\ range[1] < range[2]))
    BY <1>2 DEF WellFormed
  <2> DEFINE a == range[1]
             b == range[Len(range)]
  <2>2. a \in Numbers /\ b \in Numbers /\ a \in Nat /\ b \in Nat /\ a <= b
    <3>1. Len(range) \in Nat /\ 1 \in 1 .. Len(range) /\ Len(range) \in 1 .. Len(range)
      BY <2>1
    <3>2. range[1] \in Numbers /\ range[Len(range)] \in Numbers
      BY <2>1, <3>1
    <3>3. a \in Nat /\ b \in Nat
      BY <3>2
    <3>4. a = b \/ a < b
      BY <2>1
    <3> QED
      BY <3>2, <3>3, <3>4
  <2>3. Named(range, length) = a .. b
    BY <1>2, <2>2 DEF Named
  <2>4. ToInt(a) = a /\ ToInt(b) = b
    BY <1>2, <2>2, ToIntSmall DEF InInts
  <2>5. range # <<Blank>>
    BY <2>2, ReadWriteAssumption
  <2>6. range # Malformed
    <3>1. CASE Len(range) = 1
      <4>1. range = <<a>>
        BY <2>1, <3>1
      <4> QED
        BY <2>2, <4>1, RangeAssumption DEF IndexTexts, Parts
    <3>2. CASE Len(range) = 2
      <4>1. range = <<a, b>>
        BY <2>1, <3>2
      <4> QED
        BY <2>2, <4>1, RangeAssumption DEF IndexTexts, Parts
    <3> QED
      BY <2>1, <3>1, <3>2
  <2>7. ConstructRange(range, length) = IF b > length THEN Refused("BadIndexRangeNoData")
                                        ELSE Chosen(a, b, b - a + 1)
    <3>1. CASE Len(range) = 1
      <4>1. a = b /\ ~(a < 0) /\ ~(Len(range) > 1) /\ ToInt(range[1]) = a
        BY <2>2, <2>4, <3>1
      <4> HIDE DEF a, b
      <4> QED
        BY <1>2, <2>5, <2>6, <3>1, <4>1 DEF ConstructRange
    <3>2. CASE Len(range) = 2
      <4>1. b = range[2] /\ a < b
        BY <2>1, <3>2
      <4>2. ~(a < 0) /\ ~(a >= b)
        BY <2>2, <4>1
      <4>3. ToInt(range[1]) = a /\ ToInt(range[2]) = b /\ ~(Len(range) = 1) /\ Len(range) > 1
        BY <2>4, <3>2, <4>1
      <4> HIDE DEF a, b
      <4> QED
        BY <1>2, <2>5, <2>6, <4>2, <4>3 DEF ConstructRange
    <3> QED
      BY <2>1, <3>1, <3>2
  <2>8. First(range) = a /\ Last(range, length) = b
    BY <1>2 DEF First, Last
  <2>9. ~(b > length)
    BY <2>7 DEF Refused
  <2> QED
    BY <2>2, <2>3, <2>7, <2>8, <2>9 DEF Chosen
<1> QED
  BY <1>1, <1>2

(* What CopyVariantArray copies out: the elements that are there, and      *)
(* whatever lies beyond.                                                   *)
LEMMA CopiedFacts ==
  ASSUME NEW seq \in Seq(Nat), NEW r, r.low \in Nat, r.high \in Int, r.low <= r.high + 1
  PROVE  /\ Len(Copied(seq, r)) = r.high - r.low + 1
         /\ \A k \in 1 .. (r.high - r.low + 1) :
              r.low + k <= Len(seq) => /\ r.low + k \in 1 .. Len(seq)
                                       /\ Copied(seq, r)[k] = seq[r.low + k]
<1> DEFINE lo == r.low
           hi == r.high
           m == hi - lo + 1
           f == Copied(seq, r)
<1>0. lo \in Nat /\ hi \in Int /\ lo <= hi + 1 /\ Len(seq) \in Nat
  OBVIOUS
<1>1. f = [k \in 1 .. m |-> At(seq, lo + k - 1)]
  BY DEF Copied
<1> HIDE DEF lo, hi, f
<1>2. m \in Nat
  BY <1>0
<1>3. ASSUME NEW k \in 1 .. m, lo + k <= Len(seq)
      PROVE  lo + k \in 1 .. Len(seq) /\ At(seq, lo + k - 1) = seq[lo + k]
  <2>1. lo + k \in 1 .. Len(seq) /\ lo + k - 1 < Len(seq) /\ lo + k - 1 + 1 = lo + k
    BY <1>0, <1>3
  <2> QED
    BY <2>1 DEF At
<1> HIDE DEF m
<1>4. f \in [1 .. m -> {At(seq, lo + k - 1) : k \in 1 .. m}]
  BY <1>1
<1>5. Len(f) = m
  BY <1>2, <1>4, SeqOf
<1>6. \A k \in 1 .. m : f[k] = At(seq, lo + k - 1)
  BY <1>1
<1>7. \A k \in 1 .. m : lo + k <= Len(seq) => lo + k \in 1 .. Len(seq) /\ f[k] = seq[lo + k]
  BY <1>3, <1>6
<1> QED
  BY <1>5, <1>7 DEF m, f, lo, hi

-----------------------------------------------------------------------------
LEMMA InitHolds == RWInit => RWInv
<1> SUFFICES ASSUME RWInit PROVE RWInv
  OBVIOUS
<1> USE ConstantFacts
<1>1. PICK used \in Instances :
         value = [n \in used |-> [k \in 1 .. (IF n \in Arrays THEN ArrayLength ELSE 1) |-> 0]]
  BY DEF RWInit
<1>2. Nodes = used
  BY <1>1 DEF Nodes
<1>3. ASSUME NEW n \in Nodes
      PROVE  /\ value[n] \in Seq(Nat) /\ Len(value[n]) = (IF n \in Arrays THEN ArrayLength ELSE 1)
             /\ \A k \in 1 .. Len(value[n]) : value[n][k] = 0
  <2> DEFINE m == IF n \in Arrays THEN ArrayLength ELSE 1
  <2>1. m \in Nat
    OBVIOUS
  <2>2. value[n] = [k \in 1 .. m |-> 0]
    BY <1>1, <1>2
  <2> HIDE DEF m
  <2>3. value[n] \in [1 .. m -> Nat]
    BY <2>2
  <2>4. value[n] \in Seq(Nat) /\ Len(value[n]) = m
    BY <2>1, <2>3, SeqOf
  <2> QED
    BY <2>2, <2>4 DEF m
<1>4. RWTypeOK
  <2>1. value \in [Nodes -> Seq(Nat)]
    BY <1>1, <1>2, <1>3
  <2>2. datatype \in [Nodes -> Datatypes]
    BY <1>2, NodeFacts DEF RWInit, Datatypes, Integers4
  <2>3. access \in [Nodes -> Levels]
    BY DEF RWInit, UserAccessLevel, Levels
  <2>4. names \in [Nodes -> [{"BrowseName", "DisplayName"} -> Texts]]
    BY DEF RWInit, Texts
  <2>5. stamped \in BOOLEAN /\ crashed \in BOOLEAN
    BY Zenon DEF RWInit
  <2>6. answer.node \in Nodes \cup {NoNode} /\ answer.range \in Ranges
    BY DEF RWInit, NoAnswer, Ranges
  <2> QED
    BY <1>2, <2>1, <2>2, <2>3, <2>4, <2>5, <2>6 DEF RWTypeOK
<1>5. ValueHasType
  <2> SUFFICES ASSUME NEW n \in Nodes
               PROVE  /\ IF DataType[n] = "Integer" THEN datatype[n] \in Integers4
                         ELSE datatype[n] = DataType[n]
                      /\ n \notin Arrays => Len(value[n]) = 1
                      /\ n = "doubles" => Len(value[n]) = ArrayLength
    BY DEF ValueHasType
  <2>1. datatype[n] = IF n = "integer" THEN "Int16" ELSE DataType[n]
    BY DEF RWInit
  <2> QED
    BY <1>2, <1>3, <2>1, NodeFacts DEF Integers4, Arrays
<1>6. LatestInv
  <2>1. latest = value
    BY DEF RWInit
  <2>2. latest = [n \in Nodes |-> latest[n]]
    BY <1>1, <1>2, <2>1
  <2>3. ASSUME NEW n \in Nodes \cap Arrays
        PROVE  /\ Len(value[n]) <= Longest
               /\ latest[n] \in [1 .. Len(value[n]) -> Nat \cup {Any}]
               /\ \A k \in 1 .. Len(value[n]) : latest[n][k] \in {value[n][k], Any}
    BY <1>3, <2>1
  <2> QED
    BY <2>2, <2>3 DEF LatestInv
<1>7. ClockInv /\ ClocksAgree
  <2>1. ~stamped
    BY DEF RWInit
  <2>2. Clocks \subseteq Nodes => value["currentTime"] = value["status"]
    BY <1>1, <1>2 DEF Clocks, Arrays
  <2> QED
    BY <2>1, <2>2 DEF ClockInv, ClocksAgree
<1>8. ReadsLatest
  BY DEF ReadsLatest, RWInit, NoAnswer
<1> QED
  BY <1>4, <1>5, <1>6, <1>7, <1>8 DEF RWInv

(* An answer that is not the elements of an array and changes no variable. *)
LEMMA AnswerOnly ==
  ASSUME RWInv, UNCHANGED <<store, stamped, latest, crashed>>,
         NEW o, NEW n \in Nodes \cup {NoNode}, NEW range \in Ranges, NEW status, NEW data,
         Answer(o, n, range, status, data),
         ~(o = "read" /\ status = "Good" /\ n \in Arrays)
  PROVE  RWInv'
<1>1. /\ value' = value /\ datatype' = datatype /\ access' = access /\ names' = names
      /\ stamped' = stamped /\ latest' = latest /\ crashed' = crashed /\ Nodes' = Nodes
  BY DEF store, Nodes
<1>2. /\ answer'.op = o /\ answer'.node = n /\ answer'.range = range /\ answer'.status = status
  BY DEF Answer
<1>3. RWTypeOK'
  BY <1>1, <1>2 DEF RWInv, RWTypeOK
<1>4. ValueHasType' /\ LatestInv' /\ ClockInv' /\ ClocksAgree'
  BY <1>1 DEF RWInv, ValueHasType, LatestInv, ClockInv, ClocksAgree
<1>5. ReadsLatest'
  BY <1>2 DEF ReadsLatest
<1> QED
  BY <1>3, <1>4, <1>5 DEF RWInv

LEMMA ReadArrayStep ==
  ASSUME RWInv, NEW n \in Nodes \cap Arrays, NEW range \in Ranges, ReadArray(n, range)
  PROVE  RWInv'
<1> USE ConstantFacts
<1> DEFINE r == ConstructRange(range, Len(value[n]))
           copied == Copied(value[n], r)
           data == IF r.status = "Good" THEN copied ELSE <<>>
<1>1. /\ value' = value /\ datatype' = datatype /\ access' = access /\ names' = names
      /\ stamped' = stamped /\ latest' = latest /\ Nodes' = Nodes
  BY DEF ReadArray, store, Nodes
<1>2. /\ answer'.op = "read" /\ answer'.node = n /\ answer'.range = range
      /\ answer'.status = r.status /\ answer'.data = data
  BY DEF ReadArray, Answer
<1>3. crashed' \in BOOLEAN
  BY DEF ReadArray
<1>4. RWTypeOK'
  BY <1>1, <1>2, <1>3 DEF RWInv, RWTypeOK
<1>5. ValueHasType' /\ LatestInv' /\ ClockInv' /\ ClocksAgree'
  BY <1>1 DEF RWInv, ValueHasType, LatestInv, ClockInv, ClocksAgree
<1>6. ASSUME r.status = "Good", WellFormed(range), InInts(range)
      PROVE  /\ \A k \in 1 .. Len(copied) :
                   First(range) + k <= Len(value[n]) => latest[n][First(range) + k] \in {copied[k], Any}
             /\ {First(range) + k - 1 : k \in 1 .. Len(copied)} = Named(range, Len(value[n]))
             /\ Named(range, Len(value[n])) \subseteq 0 .. Len(value[n])
  <2>1. value[n] \in Seq(Nat) /\ Len(value[n]) \in Nat
    BY DEF RWInv, RWTypeOK
  <2>2. /\ r.low = First(range) /\ r.low \in Nat /\ r.high \in Int
        /\ r.low <= r.high + 1 /\ r.high <= Len(value[n])
        /\ Named(range, Len(value[n])) = r.low .. r.high
    BY <1>6, <2>1, RangeMeaning
  <2> HIDE DEF r
  <2>3. /\ Len(copied) = r.high - r.low + 1
        /\ \A k \in 1 .. (r.high - r.low + 1) :
             r.low + k <= Len(value[n]) => /\ r.low + k \in 1 .. Len(value[n])
                                           /\ copied[k] = value[n][r.low + k]
    BY <2>1, <2>2, CopiedFacts
  <2> HIDE DEF copied
  <2>4. \A k \in 1 .. Len(copied) :
          r.low + k <= Len(value[n]) => latest[n][r.low + k] \in {copied[k], Any}
    BY <2>3 DEF RWInv, LatestInv
  <2>5. {r.low + k - 1 : k \in 1 .. Len(copied)} = r.low .. r.high
    <3>1. Len(copied) \in Nat /\ Len(copied) = r.high - r.low + 1
      BY <2>2, <2>3
    <3>2. ASSUME NEW x \in r.low .. r.high PROVE \E k \in 1 .. Len(copied) : x = r.low + k - 1
      <4>1. x - r.low + 1 \in 1 .. Len(copied) /\ x = r.low + (x - r.low + 1) - 1
        BY <2>2, <3>1
      <4> QED
        BY <4>1
    <3>3. \A k \in 1 .. Len(copied) : r.low + k - 1 \in r.low .. r.high
      BY <2>2, <3>1
    <3> QED
      BY <3>2, <3>3
  <2>6. r.low .. r.high \subseteq 0 .. Len(value[n])
    BY <2>1, <2>2
  <2> QED
    BY <2>2, <2>4, <2>5, <2>6
<1>7. ReadsLatest'
  <2>1. Named(range, Len(value[n]))' = Named(range, Len(value[n]))
    BY <1>1
  <2>2. ASSUME r.status = "Good", WellFormed(range), InInts(range)
        PROVE  /\ \A k \in 1 .. Len(data) :
                     First(range) + k <= Len(value[n]) => latest[n][First(range) + k] \in {data[k], Any}
               /\ {First(range) + k - 1 : k \in 1 .. Len(data)} = Named(range, Len(value[n]))
               /\ Named(range, Len(value[n])) \subseteq 0 .. Len(value[n])
    BY <1>6, <2>2
  <2> HIDE DEF data, r
  <2> QED
    BY <1>1, <1>2, <2>1, <2>2 DEF ReadsLatest, First
<1> QED
  BY <1>4, <1>5, <1>7 DEF RWInv

(* A Write of a value that fits its variable.                              *)
LEMMA WriteValue ==
  ASSUME RWInv, NEW n \in Nodes, n \notin Clocks,
         NEW v \in Seq(Nat), value' = [value EXCEPT ![n] = v],
         NEW l, latest' = [latest EXCEPT ![n] = l],
         n \in Arrays => /\ Len(v) <= Longest
                         /\ l \in [1 .. Len(v) -> Nat \cup {Any}]
                         /\ \A k \in 1 .. Len(v) : l[k] \in {v[k], Any},
         n \notin Arrays => Len(v) = 1, n = "doubles" => Len(v) = ArrayLength,
         NEW type \in Datatypes, datatype' = [datatype EXCEPT ![n] = type],
         IF DataType[n] = "Integer" THEN type \in Integers4 ELSE type = DataType[n],
         NEW status, Answer("write", n, NoRange, status, <<>>),
         UNCHANGED <<access, names, stamped>>, crashed' \in BOOLEAN
  PROVE  RWInv'
<1>1. /\ value \in [Nodes -> Seq(Nat)] /\ DOMAIN latest = Nodes /\ Nodes' = Nodes
      /\ datatype \in [Nodes -> Datatypes]
  BY DEF RWInv, RWTypeOK, LatestInv, Nodes
<1>2. /\ value'[n] = v /\ latest'[n] = l /\ datatype'[n] = type
      /\ \A m \in Nodes : m # n => value'[m] = value[m] /\ latest'[m] = latest[m] /\ datatype'[m] = datatype[m]
  BY <1>1
<1>3. RWTypeOK'
  <2>1. value' \in [Nodes -> Seq(Nat)]
    BY <1>1
  <2>2. datatype' \in [Nodes -> Datatypes]
    BY <1>1
  <2>3. answer'.node \in Nodes \cup {NoNode} /\ answer'.range \in Ranges
    BY DEF Answer, Ranges
  <2> QED
    BY <1>1, <2>1, <2>2, <2>3 DEF RWInv, RWTypeOK
<1>4. ValueHasType'
  BY <1>1, <1>2 DEF RWInv, ValueHasType
<1>5. LatestInv'
  <2>1. latest' = [m \in Nodes |-> latest'[m]]
    <3>1. latest = [m \in Nodes |-> latest[m]]
      BY DEF RWInv, LatestInv
    <3> QED
      BY <3>1
  <2>2. ASSUME NEW m \in Nodes \cap Arrays
        PROVE  /\ Len(value'[m]) <= Longest
               /\ latest'[m] \in [1 .. Len(value'[m]) -> Nat \cup {Any}]
               /\ \A k \in 1 .. Len(value'[m]) : latest'[m][k] \in {value'[m][k], Any}
    <3>1. CASE m = n
      BY <1>2, <3>1
    <3>2. CASE m # n
      BY <1>2, <3>2 DEF RWInv, LatestInv
    <3> QED
      BY <3>1, <3>2
  <2> QED
    BY <1>1, <2>1, <2>2 DEF LatestInv
<1>6. ClockInv' /\ ClocksAgree'
  BY <1>1, <1>2 DEF RWInv, ClockInv, ClocksAgree, Clocks
<1>7. ReadsLatest'
  BY DEF ReadsLatest, Answer
<1> QED
  BY <1>3, <1>4, <1>5, <1>6, <1>7 DEF RWInv

LEMMA WriteScalarStep ==
  ASSUME RWInv, NEW n \in Nodes \ Arrays, NEW type \in Datatypes, NEW e \in Elems,
         NEW known \in BOOLEAN, WriteScalar(n, type, e, known)
  PROVE  RWInv'
<1> USE ConstantFacts
<1>1. n \notin Clocks /\ n # "doubles" /\ n \notin Arrays
  BY DEF WriteScalar, Writable, UserAccessLevel, Arrays
<1>2. IF DataType[n] = "Integer" THEN type \in Integers4 ELSE type = DataType[n]
  BY DEF WriteScalar, CheckWriteTypeValidity, RWInv, ValueHasType
<1>3. /\ value \in [Nodes -> Seq(Nat)] /\ DOMAIN latest = Nodes /\ Len(value[n]) = 1
      /\ value[n] \in Seq(Nat)
  BY <1>1 DEF RWInv, RWTypeOK, LatestInv, ValueHasType
<1>4. /\ datatype' = [datatype EXCEPT ![n] = type] /\ UNCHANGED <<access, names, stamped>>
      /\ crashed' \in BOOLEAN
      /\ \E status \in {"Good", "BadWriteNotSupported"} : Answer("write", n, NoRange, status, <<>>)
  BY DEF WriteScalar, RWInv, RWTypeOK
<1>5. CASE known \/ type # "LocalizedText"
  <2>1. value' = [value EXCEPT ![n] = <<e>>] /\ latest' = [latest EXCEPT ![n] = <<e>>]
    BY <1>5 DEF WriteScalar
  <2>2. <<e>> \in Seq(Nat) /\ Len(<<e>>) = 1
    OBVIOUS
  <2> QED
    BY <1>1, <1>2, <1>4, <2>1, <2>2, WriteValue
<1>6. CASE ~(known \/ type # "LocalizedText")
  <2>1. value' = value /\ latest' = latest
    BY <1>6 DEF WriteScalar
  <2>2. value' = [value EXCEPT ![n] = value[n]]
    BY <1>3, <2>1
  <2>3. \E l : latest' = [latest EXCEPT ![n] = l]
    <3>1. latest' = [latest EXCEPT ![n] = latest[n]]
      BY <2>1 DEF RWInv, LatestInv
    <3> QED
      BY <3>1
  <2> QED
    BY <1>1, <1>2, <1>3, <1>4, <2>2, <2>3, WriteValue
<1> QED
  BY <1>5, <1>6

LEMMA WriteBytesStep ==
  ASSUME RWInv, NEW n \in Nodes \cap Arrays, NEW supplied \in Supplied, WriteBytes(n, supplied)
  PROVE  RWInv'
<1> USE ConstantFacts
<1>1. n \notin Clocks /\ n \in Arrays
  BY DEF Arrays, Clocks
<1>2. supplied \in Seq(Nat) /\ Len(supplied) \in Nat /\ Len(supplied) <= Longest
  BY SuppliedFacts
<1>3. /\ datatype \in [Nodes -> Datatypes] /\ datatype[n] = "Byte"
      /\ IF DataType[n] = "Integer" THEN datatype[n] \in Integers4 ELSE datatype[n] = DataType[n]
  BY DEF RWInv, RWTypeOK, ValueHasType, WriteBytes
<1>4. n # "doubles"
  BY <1>3 DEF DataType, Integers4
<1>5. /\ value' = [value EXCEPT ![n] = supplied] /\ latest' = [latest EXCEPT ![n] = supplied]
      /\ Answer("write", n, NoRange, "Good", <<>>) /\ datatype' = datatype
      /\ UNCHANGED <<access, names, stamped>> /\ crashed' \in BOOLEAN
  BY DEF WriteBytes, RWInv, RWTypeOK
<1>6. datatype' = [datatype EXCEPT ![n] = datatype[n]]
  BY <1>3, <1>5
<1>7. supplied \in [1 .. Len(supplied) -> Nat \cup {Any}]
  BY <1>2
<1> QED
  BY <1>1, <1>2, <1>3, <1>4, <1>5, <1>6, <1>7, WriteValue

LEMMA WriteNullBytesStep ==
  ASSUME RWInv, NEW n \in Nodes \cap Arrays, WriteNullBytes(n)
  PROVE  RWInv'
<1>1. /\ value' = value /\ datatype' = datatype /\ access' = access /\ names' = names
      /\ stamped' = stamped /\ answer' = answer /\ latest' = latest /\ Nodes' = Nodes
      /\ crashed' = TRUE
  BY DEF WriteNullBytes, store, Nodes
<1>2. RWTypeOK' /\ ValueHasType' /\ LatestInv'
  BY <1>1 DEF RWInv, RWTypeOK, ValueHasType, LatestInv
<1>3. ClockInv' /\ ClocksAgree'
  BY <1>1 DEF RWInv, ClockInv, ClocksAgree
<1>4. ReadsLatest'
  BY <1>1 DEF RWInv, ReadsLatest
<1> QED
  BY <1>2, <1>3, <1>4 DEF RWInv

LEMMA WriteArrayStep ==
  ASSUME RWInv, NEW n \in Nodes \cap Arrays, NEW range \in Ranges, NEW supplied \in Supplied,
         NEW arbitrary \in Elems, WriteArray(n, range, supplied, arbitrary)
  PROVE  RWInv'
<1> USE ConstantFacts
<1> DEFINE r == ConstructRange(range, Len(value[n]))
           old == value[n]
           v == [k \in 1 .. Len(old) |-> IF ~InRange(r, k) THEN old[k]
                  ELSE IF k - r.low <= Len(supplied) THEN supplied[k - r.low] ELSE arbitrary]
           l == [k \in 1 .. Len(old) |-> IF ~InRange(r, k) THEN latest[n][k]
                  ELSE IF k - r.low <= Len(supplied) THEN supplied[k - r.low] ELSE Any]
<1>1. n \notin Clocks /\ n \in Arrays
  BY DEF Arrays, Clocks
<1>2. /\ value' = [value EXCEPT ![n] = v] /\ latest' = [latest EXCEPT ![n] = l]
      /\ Answer("write", n, NoRange, "Good", <<>>) /\ datatype' = datatype
      /\ UNCHANGED <<access, names, stamped>>
      /\ crashed' \in IF r.high >= Len(value[n]) THEN BOOLEAN ELSE {FALSE}
  BY DEF WriteArray
<1>3. /\ old \in Seq(Nat) /\ Len(old) \in Nat /\ Len(old) <= Longest
      /\ latest[n] \in [1 .. Len(old) -> Nat \cup {Any}]
      /\ \A k \in 1 .. Len(old) : latest[n][k] \in {old[k], Any}
      /\ n = "doubles" => Len(old) = ArrayLength
  <2>1. old \in Seq(Nat)
    BY DEF RWInv, RWTypeOK
  <2>2. n = "doubles" => Len(old) = ArrayLength
    BY DEF RWInv, ValueHasType
  <2> QED
    BY <2>1, <2>2 DEF RWInv, LatestInv
<1>4. r.low \in Int /\ r.high \in Int
  BY <1>3, RangeType
<1>5. supplied \in Seq(Nat) /\ Len(supplied) \in Nat
  BY SuppliedFacts
<1> HIDE DEF r, old
<1>6. ASSUME NEW k \in 1 .. Len(old), InRange(r, k), k - r.low <= Len(supplied)
      PROVE  supplied[k - r.low] \in Nat
  <2>1. k - r.low \in 1 .. Len(supplied)
    BY <1>3, <1>4, <1>5, <1>6 DEF InRange
  <2> QED
    BY <1>5, <2>1
<1>7. v \in [1 .. Len(old) -> Nat]
  BY <1>3, <1>6
<1>8. l \in [1 .. Len(old) -> Nat \cup {Any}]
  BY <1>3, <1>6
<1>9. \A k \in 1 .. Len(old) : l[k] \in {v[k], Any}
  BY <1>3
<1> HIDE DEF v, l
<1>10. v \in Seq(Nat) /\ Len(v) = Len(old)
  BY <1>3, <1>7, SeqOf
<1>11. /\ datatype[n] \in Datatypes /\ datatype' = [datatype EXCEPT ![n] = datatype[n]]
       /\ IF DataType[n] = "Integer" THEN datatype[n] \in Integers4 ELSE datatype[n] = DataType[n]
  BY <1>2 DEF RWInv, RWTypeOK, ValueHasType
<1>12. crashed' \in BOOLEAN
  BY <1>2
<1> QED
  BY <1>1, <1>2, <1>3, <1>8, <1>9, <1>10, <1>11, <1>12, WriteValue

LEMMA WriteNameStep ==
  ASSUME RWInv, NEW n \in Nodes, NEW a \in Attributes, WriteName(n, a)
  PROVE  RWInv'
<1>1. /\ value' = value /\ datatype' = datatype /\ access' = access
      /\ stamped' = stamped /\ latest' = latest /\ crashed' = crashed /\ Nodes' = Nodes
      /\ answer'.op = "writeAttribute" /\ answer'.node = n /\ answer'.range = NoRange
  BY DEF WriteName, Answer, Nodes
<1>2. names' \in [Nodes -> [{"BrowseName", "DisplayName"} -> Texts]]
  BY DEF WriteName, RWInv, RWTypeOK
<1>3. RWTypeOK'
  BY <1>1, <1>2 DEF RWInv, RWTypeOK, Ranges
<1>4. ValueHasType' /\ LatestInv' /\ ClockInv' /\ ClocksAgree'
  BY <1>1 DEF RWInv, ValueHasType, LatestInv, ClockInv, ClocksAgree
<1>5. ReadsLatest'
  BY <1>1 DEF ReadsLatest
<1> QED
  BY <1>3, <1>4, <1>5 DEF RWInv

LEMMA WriteAccessLevelStep ==
  ASSUME RWInv, NEW n \in Nodes, NEW level \in Levels, WriteAccessLevel(n, level)
  PROVE  RWInv'
<1>1. /\ value' = value /\ datatype' = datatype /\ names' = names
      /\ stamped' = stamped /\ latest' = latest /\ crashed' = crashed /\ Nodes' = Nodes
      /\ answer'.op = "writeAttribute" /\ answer'.node = n /\ answer'.range = NoRange
  BY DEF WriteAccessLevel, Answer, Nodes
<1>2. access' \in [Nodes -> Levels]
  BY DEF WriteAccessLevel, RWInv, RWTypeOK
<1>3. RWTypeOK'
  BY <1>1, <1>2 DEF RWInv, RWTypeOK, Ranges
<1>4. ValueHasType' /\ LatestInv' /\ ClockInv' /\ ClocksAgree'
  BY <1>1 DEF RWInv, ValueHasType, LatestInv, ClockInv, ClocksAgree
<1>5. ReadsLatest'
  BY <1>1 DEF ReadsLatest
<1> QED
  BY <1>3, <1>4, <1>5 DEF RWInv

(* A step of the timer on one of the two clocks.                           *)
LEMMA ClockStep ==
  ASSUME RWInv, NEW c \in Clocks, Clocks \subseteq Nodes, NEW v \in Seq(Nat), Len(v) = 1,
         value' = [value EXCEPT ![c] = v], latest' = [latest EXCEPT ![c] = v],
         stamped' \in BOOLEAN, UNCHANGED <<datatype, access, names, answer, crashed>>
  PROVE  RWTypeOK' /\ ValueHasType' /\ LatestInv' /\ ClockInv' /\ ReadsLatest'
<1>1. /\ value \in [Nodes -> Seq(Nat)] /\ latest = [n \in Nodes |-> latest[n]]
      /\ Nodes' = Nodes /\ c \in Nodes /\ c \notin Arrays
  BY DEF RWInv, RWTypeOK, LatestInv, Nodes, Clocks, Arrays
<1>2. /\ value'[c] = v
      /\ \A n \in Nodes : n # c => value'[n] = value[n] /\ latest'[n] = latest[n]
  BY <1>1
<1>3. RWTypeOK'
  <2>1. value' \in [Nodes -> Seq(Nat)]
    BY <1>1
  <2> QED
    BY <1>1, <2>1 DEF RWInv, RWTypeOK
<1>4. ValueHasType'
  BY <1>1, <1>2 DEF RWInv, ValueHasType, Arrays
<1>5. LatestInv'
  <2>1. latest' = [n \in Nodes |-> latest'[n]]
    BY <1>1
  <2>2. \A n \in Nodes \cap Arrays : value'[n] = value[n] /\ latest'[n] = latest[n]
    BY <1>1, <1>2
  <2> QED
    BY <1>1, <2>1, <2>2 DEF RWInv, LatestInv
<1>6. ClockInv'
  BY <1>1 DEF ClockInv
<1>7. ReadsLatest'
  <2>1. CASE answer.node \in Arrays
    <3>1. answer.node \in Nodes \cup {NoNode}
      BY DEF RWInv, RWTypeOK
    <3>2. CASE answer.node \in Nodes
      <4>1. value'[answer.node] = value[answer.node] /\ latest'[answer.node] = latest[answer.node]
            /\ answer' = answer
        BY <1>1, <1>2, <2>1, <3>2
      <4> QED
        BY <4>1 DEF RWInv, ReadsLatest
    <3>3. CASE answer.node \notin Nodes
      <4>1. value'[answer.node] = value[answer.node] /\ latest'[answer.node] = latest[answer.node]
            /\ answer' = answer
        BY <1>1, <2>1, <3>3
      <4> QED
        BY <4>1 DEF RWInv, ReadsLatest
    <3> QED
      BY <3>2, <3>3
  <2>2. CASE answer.node \notin Arrays
    BY <2>2 DEF ReadsLatest
  <2> QED
    BY <2>1, <2>2
<1> QED
  BY <1>3, <1>4, <1>5, <1>6, <1>7

LEMMA StampStatusStep ==
  ASSUME RWInv, NEW now \in 1 .. MaxTime, StampStatus(now)
  PROVE  RWInv'
<1> USE ConstantFacts
<1>1. /\ Clocks \subseteq Nodes /\ "status" \in Nodes /\ "currentTime" \in Nodes /\ ~stamped
      /\ value \in [Nodes -> Seq(Nat)] /\ now > value["status"][1] /\ Nodes' = Nodes
      /\ "status" \in Clocks
  BY DEF StampStatus, Clocks, RWInv, RWTypeOK, Nodes
<1>2. <<now>> \in Seq(Nat) /\ Len(<<now>>) = 1 /\ <<now>>[1] = now
  OBVIOUS
<1>3. stamped' = TRUE /\ stamped' \in BOOLEAN
  BY DEF StampStatus
<1>4. RWTypeOK' /\ ValueHasType' /\ LatestInv' /\ ClockInv' /\ ReadsLatest'
  BY <1>1, <1>2, <1>3, ClockStep DEF StampStatus
<1>5. ClocksAgree'
  <2>1. value["currentTime"] = value["status"]
    BY <1>1 DEF RWInv, ClocksAgree
  <2>2. value'["status"] = <<now>> /\ value'["currentTime"] = value["currentTime"]
    BY <1>1 DEF StampStatus
  <2> QED
    BY <1>1, <1>2, <1>3, <2>1, <2>2 DEF ClocksAgree
<1> QED
  BY <1>4, <1>5 DEF RWInv

LEMMA StampCurrentTimeStep ==
  ASSUME RWInv, StampCurrentTime
  PROVE  RWInv'
<1>1. /\ Clocks \subseteq Nodes /\ "status" \in Nodes /\ "currentTime" \in Nodes
      /\ "currentTime" \in Clocks /\ "status" \notin Arrays
      /\ value \in [Nodes -> Seq(Nat)] /\ Nodes' = Nodes
  BY DEF StampCurrentTime, Clocks, Arrays, RWInv, RWTypeOK, ClockInv, Nodes
<1>2. value["status"] \in Seq(Nat) /\ Len(value["status"]) = 1
  BY <1>1 DEF RWInv, ValueHasType
<1>3. stamped' = FALSE /\ stamped' \in BOOLEAN
  BY DEF StampCurrentTime
<1>4. RWTypeOK' /\ ValueHasType' /\ LatestInv' /\ ClockInv' /\ ReadsLatest'
  BY <1>1, <1>2, <1>3, ClockStep DEF StampCurrentTime
<1>5. ClocksAgree'
  BY <1>1, <1>3 DEF ClocksAgree, StampCurrentTime
<1> QED
  BY <1>4, <1>5 DEF RWInv

LEMMA StutterHolds == RWInv /\ UNCHANGED rwVars => RWInv'
<1> SUFFICES ASSUME RWInv, UNCHANGED rwVars PROVE RWInv'
  OBVIOUS
<1>1. /\ value' = value /\ datatype' = datatype /\ access' = access /\ names' = names
      /\ stamped' = stamped /\ answer' = answer /\ latest' = latest /\ crashed' = crashed
      /\ Nodes' = Nodes
  BY DEF rwVars, Nodes
<1>2. RWTypeOK' /\ ValueHasType' /\ LatestInv'
  BY <1>1 DEF RWInv, RWTypeOK, ValueHasType, LatestInv
<1>3. ClockInv' /\ ClocksAgree'
  BY <1>1 DEF RWInv, ClockInv, ClocksAgree
<1>4. ReadsLatest'
  BY <1>1 DEF RWInv, ReadsLatest
<1> QED
  BY <1>2, <1>3, <1>4 DEF RWInv

LEMMA NextHolds == RWInv /\ [RWNext]_rwVars => RWInv'
<1> SUFFICES ASSUME RWInv, RWNext PROVE RWInv'
  BY StutterHolds
<1> USE DEF Ranges
<1>1. CASE \E s \in Services : Refuse("read", s)
  BY <1>1, AnswerOnly DEF Refuse, Services
<1>2. CASE \E s \in WriteServices : Refuse("write", s)
  BY <1>2, AnswerOnly DEF Refuse
<1>3. ASSUME NEW n \in Nodes \cap Arrays, NEW range \in Ranges, ReadArray(n, range) PROVE RWInv'
  BY <1>3, ReadArrayStep
<1>4. ASSUME NEW n \in Nodes \cap Arrays, NEW range \in Ranges, WriteRangeRefused(n, range) PROVE RWInv'
  BY <1>4, AnswerOnly DEF WriteRangeRefused
<1>5. ASSUME NEW n \in Nodes, NEW a \in Attributes, ReadAttribute(n, a) PROVE RWInv'
  BY <1>5, AnswerOnly DEF ReadAttribute
<1>6. ASSUME NEW n \in Nodes, NEW a \in Attributes, NotWritable(n, a) PROVE RWInv'
  BY <1>6, AnswerOnly DEF NotWritable
<1>7. ASSUME NEW n \in Nodes, NEW a \in Attributes, WriteName(n, a) PROVE RWInv'
  BY <1>7, WriteNameStep
<1>8. ASSUME NEW n \in Nodes, NEW a \in Attributes, NEW s, WriteNameRefused(n, a, s) PROVE RWInv'
  BY <1>8, AnswerOnly DEF WriteNameRefused
<1>9. ASSUME NEW n \in Nodes, NEW level \in Levels, WriteAccessLevel(n, level) PROVE RWInv'
  BY <1>9, WriteAccessLevelStep
<1>10. ASSUME NEW n \in Nodes \ Arrays, NEW type \in Datatypes, NEW e \in Elems, NEW known \in BOOLEAN,
              WriteScalar(n, type, e, known)
       PROVE  RWInv'
  BY <1>10, WriteScalarStep
<1>11. ASSUME NEW n \in Nodes, ReadDenied(n) \/ ReadScalar(n) \/ WriteMismatch(n) PROVE RWInv'
  BY <1>11, AnswerOnly DEF ReadDenied, ReadScalar, WriteMismatch
<1>12. ASSUME NEW n \in Nodes \cap Arrays, NEW range \in Ranges, NEW supplied \in Supplied,
              NEW arbitrary \in Elems, WriteArray(n, range, supplied, arbitrary)
       PROVE  RWInv'
  BY <1>12, WriteArrayStep
<1>13. ASSUME NEW n \in Nodes \cap Arrays, NEW supplied \in Supplied, WriteBytes(n, supplied) PROVE RWInv'
  BY <1>13, WriteBytesStep
<1>14. ASSUME NEW n \in Nodes \cap Arrays, WriteNullBytes(n) PROVE RWInv'
  BY <1>14, WriteNullBytesStep
<1>15. ASSUME NEW now \in 1 .. MaxTime, StampStatus(now) PROVE RWInv'
  BY <1>15, StampStatusStep
<1>16. CASE StampCurrentTime
  BY <1>16, StampCurrentTimeStep
<1> QED
  BY <1>1, <1>2, <1>3, <1>4, <1>5, <1>6, <1>7, <1>8, <1>9, <1>10, <1>11, <1>12, <1>13, <1>14, <1>15, <1>16
     DEF RWNext

(* For every set of variables and every length the inductive invariant     *)
(* holds; it contains the type of every variable.                          *)
THEOREM ReadWriteInvariant == RWSpec => []RWInv
BY InitHolds, NextHolds, PTL DEF RWSpec

(* A variable holds a value of its DataType and ValueRank after every      *)
(* sequence of writes.                                                     *)
THEOREM ValuesKeepType == RWSpec => []ValueHasType
<1>1. RWInv => ValueHasType
  BY DEF RWInv
<1> QED
  BY <1>1, ReadWriteInvariant, PTL

(* A Read answers what was written there last and goes no further than one *)
(* element beyond the array, for every length of the array and every range *)
(* of ints.                                                                *)
THEOREM ReadsAnswerLatest == RWSpec => []ReadsLatest
<1>1. RWInv => ReadsLatest
  BY DEF RWInv
<1> QED
  BY <1>1, ReadWriteInvariant, PTL

(* CurrentTime and the time in ServerStatus agree between two runs of the  *)
(* timer, and no request comes between its two stores.                     *)
THEOREM ClocksStayTogether == RWSpec => []ClocksAgree
<1>1. RWInv => ClocksAgree
  BY DEF RWInv
<1> QED
  BY <1>1, ReadWriteInvariant, PTL

LEMMA FailedStep ==
  ASSUME RWInv, RWNext, answer' # answer, answer'.status # "Good"
  PROVE  UNCHANGED store
<1>1. ASSUME NEW n \in Nodes \ Arrays, NEW type \in Datatypes, NEW e \in Elems, NEW known \in BOOLEAN,
             WriteScalar(n, type, e, known)
      PROVE  UNCHANGED store
  <2>1. type = "LocalizedText" /\ ~known /\ value' = value /\ access' = access /\ names' = names
        /\ datatype' = [datatype EXCEPT ![n] = type]
    BY <1>1 DEF WriteScalar, Answer
  <2>2. datatype[n] = type
    BY <1>1, <2>1 DEF WriteScalar, CheckWriteTypeValidity, Integers4
  <2>3. datatype' = datatype
    BY <2>1, <2>2 DEF RWInv, RWTypeOK
  <2> QED
    BY <2>1, <2>3 DEF store
<1>2. ASSUME NEW n \in Nodes, NEW a \in Attributes, WriteName(n, a) PROVE FALSE
  BY <1>2 DEF WriteName, Answer
<1>3. ASSUME NEW n \in Nodes, NEW level \in Levels, WriteAccessLevel(n, level) PROVE FALSE
  BY <1>3 DEF WriteAccessLevel, Answer
<1>4. ASSUME NEW n \in Nodes \cap Arrays, NEW range \in Ranges, NEW supplied \in Supplied,
             NEW arbitrary \in Elems, WriteArray(n, range, supplied, arbitrary)
      PROVE  FALSE
  BY <1>4 DEF WriteArray, Answer
<1>5. ASSUME NEW n \in Nodes \cap Arrays, NEW supplied \in Supplied, WriteBytes(n, supplied) PROVE FALSE
  BY <1>5 DEF WriteBytes, Answer
<1>6. ASSUME NEW now \in 1 .. MaxTime, StampStatus(now) PROVE FALSE
  BY <1>6 DEF StampStatus
<1>7. ~StampCurrentTime
  BY DEF StampCurrentTime
<1> QED
  BY <1>1, <1>2, <1>3, <1>4, <1>5, <1>6, <1>7
     DEF RWNext, Refuse, ReadArray, WriteRangeRefused, ReadAttribute, NotWritable, WriteNameRefused,
         ReadDenied, ReadScalar, WriteMismatch, WriteNullBytes

(* A Write that is answered with a bad status has changed nothing of the   *)
(* variable, not even where a text is refused while it is being copied.    *)
THEOREM FailedWritesKeep == RWSpec => FailedWriteKeeps
<1>1. RWInv /\ [RWNext]_rwVars => [answer' # answer /\ answer'.status # "Good" => UNCHANGED store]_rwVars
  BY FailedStep
<1> QED
  BY <1>1, ReadWriteInvariant, PTL DEF RWSpec, FailedWriteKeeps
=============================================================================
