----------------------------- MODULE ReadWrite -----------------------------
(***************************************************************************)
(* The Read and Write services on the variables a client can reach, one    *)
(* node of a request per action, beside the timer that stamps the server's *)
(* time.  The variables stand for the kinds the server builds: arrays and  *)
(* scalars of the debug build, MaxQueryContinuationPoints, ServerStatus    *)
(* and its CurrentTime.  An index range is what the text holds between     *)
(* its colons.                                                             *)
(***************************************************************************)
EXTENDS Integers, Sequences

CONSTANTS Instances,    \* sets of variables, of which the clients use one
          Elems,        \* what an element may hold
          ArrayLength,  \* elements an array is built with
          MaxSupplied,  \* elements of a written array or byte string (bound)
          IntMax,       \* the greatest int
          Numbers,      \* numbers a range is written with (bound)
          MaxTime,      \* clock readings (bound)
          NoRange,      \* no IndexRange string
          Malformed,    \* one with other characters than digits and colons
          Blank,        \* nothing between two colons
          Junk,         \* what lies beyond an array
          NoNode        \* no variable answered yet

ASSUME ReadWriteAssumption ==
  /\ UNION Instances \subseteq {"doubles", "bytes", "integer", "boolean", "text",
                                 "maxQuery", "status", "currentTime"}
  /\ Elems \subseteq Nat /\ 0 \in Elems
  /\ ArrayLength \in Nat \ {0} /\ MaxSupplied \in Nat /\ MaxTime \in Nat
  /\ IntMax \in Nat /\ ArrayLength <= IntMax /\ MaxSupplied <= IntMax  \* lengths are ints
  /\ Numbers \subseteq Nat /\ 0 \in Numbers
  /\ Blank \notin Numbers /\ Junk \notin Nat /\ NoNode \notin UNION Instances

(* What InitializeTest and InitializeObjects give each variable.           *)
DataType == [doubles |-> "Double", bytes |-> "Byte", integer |-> "Integer",
             boolean |-> "Boolean", text |-> "LocalizedText", maxQuery |-> "UInt16",
             status |-> "ExtensionObject", currentTime |-> "DateTime"]
Clocks == {"status", "currentTime"}
Arrays == {"doubles", "bytes"}
UserAccessLevel(n) == IF n \in Clocks THEN {"read"} ELSE {"read", "write"}
WriteMask(n) == CASE n = "maxQuery" -> {"DisplayName", "AccessLevel"}
                  [] n = "boolean" -> {"BrowseName", "DisplayName"}
                  [] OTHER -> {}

Integers4 == {"SByte", "Int16", "Int32", "Int64"}
Datatypes == {"Double", "Byte", "Boolean", "LocalizedText", "UInt16", "ExtensionObject",
              "DateTime", "ByteString"} \cup Integers4
Attributes == {"Value", "BrowseName", "DisplayName", "AccessLevel", "Other"}
Levels == SUBSET {"read", "write"}

(* What follows a second colon is not looked at.                          *)
Parts == Numbers \cup {Blank}
IndexTexts == {<<p>> : p \in Parts} \cup (Parts \X Parts) \cup (Numbers \X Numbers \X {0})
Ranges == {NoRange, Malformed} \cup IndexTexts
(* A missing text and a malformed one are told from the others.            *)
ASSUME RangeAssumption == NoRange # Malformed /\ {NoRange, Malformed} \cap IndexTexts = {}

Supplied == UNION {[1 .. k -> Elems] : k \in 0 .. MaxSupplied}

VARIABLES value,    \* the elements of each variable, a scalar has one
          datatype, \* Value.Datatype of each
          access,   \* AccessLevel of each
          names,    \* its BrowseName and DisplayName
          stamped,  \* the timer is between its two stores
          answer,   \* the last node of a request, its range if read, its result
          latest,   \* history: what was written to each element last
          crashed   \* the process has ended in a bad access

Nodes == DOMAIN value    \* the variables the clients use

store == <<value, datatype, access, names>>
rwVars == <<value, datatype, access, names, stamped, answer, latest, crashed>>

Any == -1
Texts == {"built", "written"}
NoAnswer == [op |-> "none", node |-> NoNode, range |-> NoRange, status |-> "Good", data |-> <<>>]

RWInit ==
  /\ \E used \in Instances :
       value = [n \in used |-> [k \in 1 .. (IF n \in Arrays THEN ArrayLength ELSE 1) |-> 0]]
  /\ datatype = [n \in Nodes |-> IF n = "integer" THEN "Int16" ELSE DataType[n]]
  /\ access = [n \in Nodes |-> UserAccessLevel(n)]
  /\ names = [n \in Nodes |-> [BrowseName |-> "built", DisplayName |-> "built"]]
  /\ stamped = FALSE
  /\ answer = NoAnswer
  /\ latest = value
  /\ crashed = FALSE

-----------------------------------------------------------------------------
(* An int keeps the low bits of what strtol returns; no digits are zero.   *)
ToInt(p) == IF p = Blank THEN 0
            ELSE ((p + IntMax + 1) % (2 * (IntMax + 1))) - (IntMax + 1)

Refused(status) == [status |-> status, low |-> 0, high |-> 0, elements |-> 0]
Chosen(low, high, elements) == [status |-> "Good", low |-> low, high |-> high, elements |-> elements]

ConstructRange(range, length) ==
  LET low  == ToInt(range[1])
      high == IF Len(range) = 1 THEN low ELSE ToInt(range[2])
  IN  CASE range = NoRange -> Chosen(0, length - 1, length)
        [] range = Malformed -> Refused("BadIndexRangeInvalid")
        [] range = <<Blank>> -> Chosen(0, 0, 0)
        [] OTHER -> IF low < 0 \/ (Len(range) > 1 /\ low >= high)
                    THEN Refused("BadIndexRangeInvalid")
                    ELSE IF high > length THEN Refused("BadIndexRangeNoData")
                    ELSE Chosen(low, high, high - low + 1)

(* The element at an index from 0; beyond the array there is no telling.   *)
At(seq, c) == IF c < Len(seq) THEN seq[c + 1] ELSE Junk

Answer(op, n, range, status, data) ==
  answer' = [op |-> op, node |-> n, range |-> range, status |-> status, data |-> data]

Running == ~crashed

-----------------------------------------------------------------------------
(* A request refused as a whole, and a node that is not there.             *)
Refuse(op, status) ==
  /\ Running
  /\ Answer(op, NoNode, NoRange, status, <<>>)
  /\ UNCHANGED <<store, stamped, latest, crashed>>

Readable(n) == "read" \in access[n] /\ "read" \in UserAccessLevel(n)

ReadDenied(n) ==
  /\ Running /\ ~Readable(n)
  /\ Answer("read", n, NoRange, "BadUserAccessDenied", <<>>)
  /\ UNCHANGED <<store, stamped, latest, crashed>>

ReadScalar(n) ==
  /\ Running /\ Readable(n) /\ n \notin Arrays
  /\ Answer("read", n, NoRange, "Good", value[n])
  /\ UNCHANGED <<store, stamped, latest, crashed>>

(* Mutant: every element is taken one further on.                          *)
CopiedShifted(seq, r) == [k \in 1 .. (r.high - r.low + 1) |-> At(seq, r.low + k)]

(* The elements CopyVariantArray copies out, from low to high.             *)
Copied(seq, r) == [k \in 1 .. (r.high - r.low + 1) |-> At(seq, r.low + k - 1)]

(* With no elements to answer nothing is allocated, yet one is copied.     *)
ReadArray(n, range) ==
  LET r == ConstructRange(range, Len(value[n]))
      copied == Copied(value[n], r)
  IN  /\ Running /\ Readable(n) /\ n \in Arrays
      /\ crashed' = (r.status = "Good" /\ r.elements = 0 /\ copied # <<>>)
      /\ Answer("read", n, range, r.status, IF r.status = "Good" THEN copied ELSE <<>>)
      /\ UNCHANGED <<store, stamped, latest>>

ReadAttribute(n, a) ==
  /\ Running /\ a # "Value"
  /\ \E s \in IF a = "Other" THEN {"Good", "BadNotReadable"} ELSE {"Good"} :
       Answer("readAttribute", n, NoRange, s, <<>>)
  /\ UNCHANGED <<store, stamped, latest, crashed>>

-----------------------------------------------------------------------------
(* CheckWriteMaskValidity for an attribute, UserAccessLevel for a value.   *)
Writable(n, a) == IF a = "Value" THEN "write" \in UserAccessLevel(n) ELSE a \in WriteMask(n)

NotWritable(n, a) ==
  /\ Running /\ ~Writable(n, a)
  /\ Answer("write", n, NoRange, "BadNotWritable", <<>>)
  /\ UNCHANGED <<store, stamped, latest, crashed>>

(* The text of a name comes in the type the attribute has.                 *)
WriteName(n, a) ==
  /\ Running /\ a \in {"BrowseName", "DisplayName"} /\ Writable(n, a)
  /\ \E text \in Texts : names' = [names EXCEPT ![n][a] = text]
  /\ Answer("writeAttribute", n, NoRange, "Good", <<>>)
  /\ UNCHANGED <<value, datatype, access, stamped, latest, crashed>>

(* A display name in another locale, or any attribute in another type.     *)
WriteNameRefused(n, a, status) ==
  /\ Running /\ a # "Value" /\ Writable(n, a)
  /\ status \in {"BadTypeMismatch"} \cup (IF a = "DisplayName" THEN {"BadWriteNotSupported"} ELSE {})
  /\ Answer("writeAttribute", n, NoRange, status, <<>>)
  /\ UNCHANGED <<store, stamped, latest, crashed>>

WriteAccessLevel(n, level) ==
  /\ Running /\ Writable(n, "AccessLevel")
  /\ access' = [access EXCEPT ![n] = level]
  /\ Answer("writeAttribute", n, NoRange, "Good", <<>>)
  /\ UNCHANGED <<value, datatype, names, stamped, latest, crashed>>

(* Mutant: an Integer takes a value of any type.                           *)
CheckWriteTypeValidityLoose(n, type) ==
  DataType[n] = "Integer" \/ datatype[n] = type

CheckWriteTypeValidity(n, type) ==
  IF DataType[n] = "Integer" THEN type \in Integers4 ELSE datatype[n] = type

(* Mutant: the old text is cleared before the locale is looked at.         *)
WriteScalarClearing(n, type, e, known) ==
  /\ Running /\ Writable(n, "Value") /\ n \notin Arrays
  /\ CheckWriteTypeValidity(n, type)
  /\ value' = [value EXCEPT ![n] = <<IF known THEN e ELSE 0>>]
  /\ latest' = [latest EXCEPT ![n] = value'[n]]
  /\ datatype' = [datatype EXCEPT ![n] = type]
  /\ Answer("write", n, NoRange, IF known THEN "Good" ELSE "BadWriteNotSupported", <<>>)
  /\ UNCHANGED <<access, names, stamped, crashed>>

(* CopyVariant; a text of another locale is refused when it is copied.     *)
WriteScalar(n, type, e, known) ==
  LET stored == known \/ type # "LocalizedText"
  IN  /\ Running /\ Writable(n, "Value") /\ n \notin Arrays
      /\ CheckWriteTypeValidity(n, type)
      /\ value' = IF stored THEN [value EXCEPT ![n] = <<e>>] ELSE value
      /\ latest' = IF stored THEN [latest EXCEPT ![n] = <<e>>] ELSE latest
      /\ datatype' = [datatype EXCEPT ![n] = type]
      /\ Answer("write", n, NoRange, IF stored THEN "Good" ELSE "BadWriteNotSupported", <<>>)
      /\ UNCHANGED <<access, names, stamped, crashed>>

(* A value of the wrong type or shape, or an array without elements, which *)
(* is what the stack makes of a null array.                                *)
WriteMismatch(n) ==
  /\ Running /\ Writable(n, "Value")
  /\ Answer("write", n, NoRange, "BadTypeMismatch", <<>>)
  /\ UNCHANGED <<store, stamped, latest, crashed>>

WriteRangeRefused(n, range) ==
  LET r == ConstructRange(range, Len(value[n]))
  IN  /\ Running /\ Writable(n, "Value") /\ n \in Arrays /\ r.status # "Good"
      /\ Answer("write", n, NoRange, r.status, <<>>)
      /\ UNCHANGED <<store, stamped, latest, crashed>>

InRange(r, k) == r.low <= k - 1 /\ k - 1 <= r.high

(* The elements low to high are replaced by the first that were supplied;  *)
(* where too few were, what is stored is arbitrary.  The store at high =   *)
(* length lies beyond the array: it may end the process, or hit nothing.   *)
WriteArray(n, range, supplied, arbitrary) ==
  LET r == ConstructRange(range, Len(value[n]))
      given(k) == k - r.low <= Len(supplied)
  IN  /\ Running /\ Writable(n, "Value") /\ n \in Arrays
      /\ r.status = "Good" /\ supplied # <<>>
      /\ value' = [value EXCEPT ![n] = [k \in 1 .. Len(value[n]) |->
                     IF ~InRange(r, k) THEN value[n][k]
                     ELSE IF given(k) THEN supplied[k - r.low] ELSE arbitrary]]
      /\ latest' = [latest EXCEPT ![n] = [k \in 1 .. Len(value[n]) |->
                      IF ~InRange(r, k) THEN latest[n][k]
                      ELSE IF given(k) THEN supplied[k - r.low] ELSE Any]]
      /\ crashed' \in IF r.high >= Len(value[n]) THEN BOOLEAN ELSE {FALSE}
      /\ Answer("write", n, NoRange, "Good", <<>>)
      /\ UNCHANGED <<datatype, access, names, stamped>>

(* A ByteString replaces a whole array of bytes; its range is not looked   *)
(* at, and ArrayDimensions stays as it was built.                          *)
WriteBytes(n, supplied) ==
  /\ Running /\ Writable(n, "Value") /\ n \in Arrays /\ datatype[n] = "Byte"
  /\ value' = [value EXCEPT ![n] = supplied]
  /\ latest' = [latest EXCEPT ![n] = supplied]
  /\ Answer("write", n, NoRange, "Good", <<>>)
  /\ UNCHANGED <<datatype, access, names, stamped, crashed>>

(* A null one has the length -1: malloc gives nothing for that many bytes, *)
(* and they are copied there.                                              *)
WriteNullBytes(n) ==
  /\ Running /\ Writable(n, "Value") /\ n \in Arrays /\ datatype[n] = "Byte"
  /\ crashed' = TRUE
  /\ UNCHANGED <<store, stamped, answer, latest>>

-----------------------------------------------------------------------------
(* The timer stamps the structure of ServerStatus with the time.           *)
StampStatus(now) ==
  /\ Running /\ ~stamped /\ Clocks \subseteq Nodes
  /\ now > value["status"][1]
  /\ value' = [value EXCEPT !["status"] = <<now>>]
  /\ latest' = [latest EXCEPT !["status"] = <<now>>]
  /\ stamped' = TRUE
  /\ UNCHANGED <<datatype, access, names, answer, crashed>>

(* Mutant: the clock is read a second time for the variable.               *)
StampCurrentTimeAgain ==
  /\ Running /\ stamped
  /\ \E now \in value["status"][1] .. MaxTime :
       /\ value' = [value EXCEPT !["currentTime"] = <<now>>]
       /\ latest' = [latest EXCEPT !["currentTime"] = <<now>>]
  /\ stamped' = FALSE
  /\ UNCHANGED <<datatype, access, names, answer, crashed>>

(* Then it copies that time into the variable CurrentTime.                 *)
StampCurrentTime ==
  /\ Running /\ stamped
  /\ value' = [value EXCEPT !["currentTime"] = value["status"]]
  /\ latest' = [latest EXCEPT !["currentTime"] = value["status"]]
  /\ stamped' = FALSE
  /\ UNCHANGED <<datatype, access, names, answer, crashed>>

Services == {"BadSessionIdInvalid", "BadNothingToDo", "BadMaxAgeInvalid",
             "BadTimestampsToReturnInvalid", "BadNodeIdUnknown", "BadAttributeIdInvalid",
             "BadDataEncodingUnsupported"}
WriteServices == {"BadSessionIdInvalid", "BadNothingToDo", "BadNodeIdUnknown", "BadAttributeIdInvalid"}

RWNext ==
  \/ \E s \in Services : Refuse("read", s)
  \/ \E s \in WriteServices : Refuse("write", s)
  \/ \E n \in Nodes \cap Arrays, range \in Ranges :
       ReadArray(n, range) \/ WriteRangeRefused(n, range)
  \/ \E n \in Nodes, a \in Attributes :
       \/ ReadAttribute(n, a) \/ NotWritable(n, a) \/ WriteName(n, a)
       \/ \E s \in {"BadTypeMismatch", "BadWriteNotSupported"} : WriteNameRefused(n, a, s)
  \/ \E n \in Nodes, level \in Levels : WriteAccessLevel(n, level)
  \/ \E n \in Nodes \ Arrays, type \in Datatypes, e \in Elems, known \in BOOLEAN : WriteScalar(n, type, e, known)
  \/ \E n \in Nodes : ReadDenied(n) \/ ReadScalar(n) \/ WriteMismatch(n)
  \/ \E n \in Nodes \cap Arrays, range \in Ranges, supplied \in Supplied, arbitrary \in Elems :
       WriteArray(n, range, supplied, arbitrary)
  \/ \E n \in Nodes \cap Arrays, supplied \in Supplied : WriteBytes(n, supplied)
  \/ \E n \in Nodes \cap Arrays : WriteNullBytes(n)
  \/ \E now \in 1 .. MaxTime : StampStatus(now)
  \/ StampCurrentTime

RWSpec == RWInit /\ [][RWNext]_rwVars

-----------------------------------------------------------------------------
RWTypeOK ==
  /\ Nodes \in Instances /\ value \in [Nodes -> Seq(Nat)]
  /\ datatype \in [Nodes -> Datatypes]
  /\ access \in [Nodes -> Levels]
  /\ names \in [Nodes -> [{"BrowseName", "DisplayName"} -> Texts]]
  /\ stamped \in BOOLEAN /\ crashed \in BOOLEAN
  /\ answer.node \in Nodes \cup {NoNode} /\ answer.range \in Ranges

(* Whatever sequence of writes went before, a variable holds a value of    *)
(* its DataType and of its ValueRank, so a later Read describes what it    *)
(* copies: Write changes Value.Datatype only within the signed integers.   *)
ValueHasType ==
  \A n \in Nodes : /\ IF DataType[n] = "Integer" THEN datatype[n] \in Integers4
                      ELSE datatype[n] = DataType[n]
                   /\ n \notin Arrays => Len(value[n]) = 1
                   /\ n = "doubles" => Len(value[n]) = ArrayLength

WellFormed(range) ==
  \/ range = NoRange
  \/ range \in Seq(Numbers) /\ (Len(range) = 1 \/ (Len(range) = 2 /\ range[1] < range[2]))

(* The indexes a well formed range names, from 0, in an array.             *)
Named(range, length) == IF range = NoRange THEN 0 .. length - 1 ELSE range[1] .. range[Len(range)]

(* The numbers of a range are ints, so none of them is wrapped.            *)
InInts(range) == range # NoRange => range[1] <= IntMax /\ range[Len(range)] <= IntMax

(* A Read of a range answers element for element what was written there    *)
(* last, by writes of other ranges, of the whole array or of a byte string *)
(* that changed its length, however they were mixed; and it reaches no     *)
(* further than the one element that the comparison of high with the       *)
(* length lets pass.                                                       *)
ReadsLatest ==
  LET n == answer.node
      first == IF answer.range = NoRange THEN 0 ELSE answer.range[1]
  IN  answer.op = "read" /\ answer.status = "Good" /\ n \in Arrays
        /\ WellFormed(answer.range) /\ InInts(answer.range) =>
        /\ \A k \in 1 .. Len(answer.data) :
             first + k <= Len(value[n]) => latest[n][first + k] \in {answer.data[k], Any}
        /\ {first + k - 1 : k \in 1 .. Len(answer.data)} = Named(answer.range, Len(value[n]))
        /\ Named(answer.range, Len(value[n])) \subseteq 0 .. Len(value[n])

(* Between two runs of the timer the variable CurrentTime holds the time   *)
(* in the structure of ServerStatus, and during one it is behind: no       *)
(* request and no order of the timer's steps sets one without the other.   *)
ClocksAgree ==
  Clocks \subseteq Nodes =>
    /\ ~stamped => value["currentTime"] = value["status"]
    /\ stamped => value["currentTime"][1] < value["status"][1]

(* A Write answered with a bad status has changed nothing of the node,     *)
(* though values are copied in place and refused while they are copied.    *)
FailedWriteKeeps ==
  [][answer' # answer /\ answer'.status # "Good" => UNCHANGED store]_rwVars

(* A Read with an index range that is carried out names elements that      *)
(* exist: BadIndexRangeNoData is there for the others (Access.c:668).      *)
IndexRangeHasData ==
  answer.op = "read" /\ answer.status = "Good" /\ answer.node \in Arrays
    /\ WellFormed(answer.range)
    => Named(answer.range, Len(value[answer.node])) \subseteq 0 .. Len(value[answer.node]) - 1

(* An index range that is carried out has the syntax of one: one number,   *)
(* or two of which the first is lower (Access.c:649).                      *)
IndexRangeSyntax ==
  answer.op = "read" /\ answer.status = "Good" /\ answer.node \in Arrays
    => WellFormed(answer.range)

(* A value is written only while the AccessLevel of the variable allows it *)
(* (Access.c:1207), which a client with write mask can take back.          *)
AccessLevelGoverns ==
  answer.op = "write" /\ answer.status = "Good" => "write" \in access[answer.node]

=============================================================================
