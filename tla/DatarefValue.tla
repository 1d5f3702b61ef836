------------------------------ MODULE DatarefValue ------------------------------
(***************************************************************************)
(* One registered dataref between the texts of requests and the cells the  *)
(* simulator holds: ExtractJsonValue turns the Value of a request into a   *)
(* text, SetValue the text into numbers divided by the conversion factor,  *)
(* GetValue the numbers, multiplied by it, into a text.  A FlightFactor    *)
(* value is multiplied too, but not divided; the kinds FF... are those.    *)
(*                                                                         *)
(* A real number is counted in units of 1/Den, what is less is cut off.  A *)
(* scalar has one cell, an array and the bytes of Data have Size of them;  *)
(* 0 is NUL.  A FlightFactor value is set by the add-on's next callback,   *)
(* when NetworkUpdate of the registry applies it: that is the moment here. *)
(***************************************************************************)
EXTENDS Integers, Sequences

CONSTANTS
  Half,      \* an int holds -Half .. Half - 1
  Den,       \* units of a real number in 1.0
  Size,      \* cells of an array, bytes of Data
  Kinds,     \* subset of {"Int", "Real", "IntArray", "FloatArray", "Data",
             \*            "FFInt", "FFReal", "FFShort"}
  Factors,   \* conversion factors, in units
  NotNumber, \* a factor std::stod rejects
  Inputs,    \* [Kinds -> what the "Value" of a request may be]
  Simulated, \* [Kinds -> what the simulator may write]
  None,      \* a field that is missing; a cell no request has set
  Stray,     \* the byte behind the buffer of GetValue
  MaxBack    \* bound: the numbers a client still sets back

ASSUME WidthAssumption ==
  Half \in Nat \ {0} /\ Den \in Nat \ {0} /\ Size \in Nat \ {0}
ASSUME FactorsAssumption == Factors \subseteq (Int \ {0}) \cup {NotNumber}
ASSUME TagsAssumption == NotNumber \notin Int /\ None \notin Int /\ Stray \in Int

Ints == -Half .. Half - 1

Arrays == {"IntArray", "FloatArray"}
FFKinds == {"FFInt", "FFReal", "FFShort"}
IntegerKinds == {"Int", "IntArray", "FFInt", "FFShort"}
CellsOf(k) == 1 .. (IF k \in Arrays \cup {"Data"} THEN Size ELSE 1)
CellValues(k) == IF k \in IntegerKinds THEN Ints ELSE Int

-----------------------------------------------------------------------------
(* Texts are records with a form.  A "number" is whole when it has no      *)
(* decimal point.  A "word" is no number, and for Data any text, with its  *)
(* bytes.  Inside an "array" (items) or an "object" (value, offset) a JSON *)
(* string is "quoted" and holds a text.                                    *)

NumberText == [form : {"number"}, whole : BOOLEAN, num : Int]
WordText == [form : {"word"}, bytes : Seq(Nat)]
QuotedText == [form : {"quoted"}, of : NumberText \cup WordText]
Item == NumberText \cup WordText \cup QuotedText
ArrayText == [form : {"array"}, items : Seq(Item)]
ObjectText == [form : {"object"}, value : Item \cup ArrayText \cup {None},
               offset : Item \cup {None}]
Text == Item \cup ArrayText \cup ObjectText

\* The "Value" of a request as the JSON type it has, and the text it holds or
\* dumps to; json is "other" for a Boolean and null.
Value == [json : {"string", "container", "other"}, text : Text]
           \cup [json : {"number"}, text : NumberText]

ASSUME KindsAssumption ==
  /\ Kinds \subseteq {"Real", "FloatArray", "Data", "FFReal"} \cup IntegerKinds
  /\ \A k \in Kinds : /\ Inputs[k] \subseteq Value
                      /\ k = "Data" => \A j \in Inputs[k] : j.text \in WordText
                      /\ Simulated[k] \subseteq [CellsOf(k) -> CellValues(k)]

VARIABLES
  kind,     \* m_type, or ValueType of a FlightFactor value
  factor,   \* m_conversionFactor
  raw,      \* the cells in the simulator
  last,     \* the number a request asked for last in each cell, taken over or
            \* not; None after another writer
  given,    \* the form it was given in
  shown,    \* the numbers or bytes GetValue returned last
  aborted   \* an exception or a division by zero has ended the process

vars == <<kind, factor, raw, last, given, shown, aborted>>

Wrap(n) == ((n + Half) % (2 * Half)) - Half   \* the conversion to int
Abs(n) == IF n < 0 THEN -n ELSE n
\* Division that truncates.
Quot(a, b) == IF (a < 0) = (b < 0) THEN Abs(a) \div Abs(b) ELSE -(Abs(a) \div Abs(b))

Cells == CellsOf(kind)

\* In an array of strings, as one string, an integer, a number with a decimal
\* point, or as the bytes of a text.
Forms == {"array", "quoted", "integer", "real", "word", "none"}

TypeOK ==
  /\ kind \in Kinds /\ factor \in Factors /\ aborted \in BOOLEAN
  /\ raw \in [Cells -> CellValues(kind)]
  /\ last \in [Cells -> Int \cup {None}] /\ given \in [Cells -> Forms]

Init ==
  /\ kind \in Kinds /\ factor \in Factors
  /\ raw \in Simulated[kind]
  /\ last = [i \in Cells |-> None] /\ given = [i \in Cells |-> "none"]
  /\ shown = <<>> /\ aborted = FALSE

-----------------------------------------------------------------------------
(* From a request to a text, and from a text to a number.                  *)

AnyInt(t) == t.form = "number"   \* mutant: std::stoi never out of range

\* What std::stoi and std::stof read, and when they do not throw.
Stoi(t) == Quot(t.num, Den)
IsReal(t) == t.form = "number"
IsInt(t) == IsReal(t) /\ Stoi(t) \in Ints

\* ExtractJsonValue: get<int> and get<unsigned int> cut a number that is too
\* large, everything else goes to the text as it is.
Extract(j) ==
  IF j.json = "number" /\ j.text.whole
  THEN LET n == Stoi(j.text)
       IN  [j.text EXCEPT !.num = (IF n < 0 THEN Wrap(n) ELSE n % (2 * Half)) * Den]
  ELSE j.text

\* (int)std::stod(m_conversionFactor), and the factor applied to a real number.
IntFactor == Quot(factor, Den)
Divided(num) == Quot(num * Den, factor)
Multiplied(num) == Quot(num * factor, Den)

-----------------------------------------------------------------------------
(* SetValue, one operator per type.                                        *)

Throw == aborted' = TRUE /\ UNCHANGED <<raw, last, given>>
Ignore == UNCHANGED <<raw, last, given, aborted>>

FormOf(t) == CASE t.form # "number" -> t.form
               [] t.form = "number" -> IF t.whole THEN "integer" ELSE "real"

\* XPLMSetData: the cells after the first ones become these, as far as there
\* are any.  The request asked for these numbers after the cell at.
Placed(cells, first, new) ==
  [i \in Cells |-> IF i - first \in DOMAIN new THEN new[i - first] ELSE cells[i]]
Asks(at, asked, form) ==
  last' = Placed(last, at, asked) /\ given' = Placed(given, at, [i \in DOMAIN asked |-> form])
Put(first, stored, at, asked, form) ==
  raw' = Placed(raw, first, stored) /\ Asks(at, asked, form) /\ UNCHANGED aborted

\* Nothing is written, whatever was asked.
Drop(at, asked, form) == Asks(at, asked, form) /\ UNCHANGED <<raw, aborted>>

Fill(v) == [i \in 1..Size |-> v]

SwappedInt(t) ==   \* mutant: the factor is multiplied by, as in GetValue
  IF IsInt(t) /\ factor # NotNumber THEN Put(0, <<Wrap(Stoi(t) * IntFactor)>>, 0, <<Stoi(t)>>, FormOf(t))
  ELSE Throw

\* A factor below 1 is the integer 0.
SetInt(t) ==
  IF /\ IsInt(t) /\ factor # NotNumber
     /\ IntFactor # 0 /\ Quot(Stoi(t), IntFactor) \in Ints
  THEN Put(0, <<Quot(Stoi(t), IntFactor)>>, 0, <<Stoi(t)>>, FormOf(t))
  ELSE Throw

SetReal(t) ==
  IF IsReal(t) /\ factor # NotNumber
  THEN Put(0, <<Divided(t.num)>>, 0, <<t.num>>, FormOf(t))
  ELSE Throw

\* setIntArrayFromJson of a text that is no object: only strings are read from
\* an array, any integer fills it, a number with a decimal point is dropped,
\* nothing is divided.
SetIntArray(t, first, at) ==
  \/ /\ t.form = "array"
     /\ IF \A i \in DOMAIN t.items : t.items[i].form = "quoted" /\ IsInt(t.items[i].of)
        THEN LET data == [i \in DOMAIN t.items \cap (1 .. Size) |-> Stoi(t.items[i].of)]
             IN  Put(first, data, at, data, "array")
        ELSE Throw
  \/ /\ t.form = "quoted"
     /\ IF IsInt(t.of)
        THEN Put(first, Fill(Stoi(t.of)), at, Fill(Stoi(t.of)), "quoted")
        ELSE Throw
  \/ /\ t.form = "number" /\ t.whole
     /\ Put(first, Fill(Wrap(Stoi(t))), at, Fill(Stoi(t)), "integer")
  \/ t.form = "number" /\ ~t.whole /\ Drop(at, Fill(Stoi(t)), "real")
  \/ t.form = "word" /\ Ignore

\* setFloatArrayFromJson: an array is not divided, a number is, a string puts
\* down zeros and an integer nothing.
SetFloatArray(t, first, at) ==
  \/ /\ t.form = "array"
     /\ IF \A i \in DOMAIN t.items : t.items[i].form = "quoted" /\ IsReal(t.items[i].of)
        THEN LET data == [i \in DOMAIN t.items \cap (1 .. Size) |-> t.items[i].of.num]
             IN  Put(first, data, at, data, "array")
        ELSE Throw
  \/ /\ t.form = "quoted"
     /\ Put(first, Fill(0), at, Fill(IF IsReal(t.of) THEN t.of.num ELSE None), "quoted")
  \/ /\ t.form = "number" /\ ~t.whole
     /\ IF factor = NotNumber THEN Throw
        ELSE Put(first, Fill(Divided(t.num)), at, Fill(t.num), "real")
  \/ t.form = "number" /\ t.whole /\ Drop(at, Fill(t.num), "integer")
  \/ t.form = "word" /\ Ignore

SetFrom(t, first, at) ==
  \/ kind = "IntArray" /\ SetIntArray(t, first, at)
  \/ kind = "FloatArray" /\ SetFloatArray(t, first, at)

\* The offset of an object, a text in quotes or else 0: of a float array it is
\* divided by the factor, as an integer.  An offset that is no text is skipped
\* with a warning: nothing is asked for it.
IsQuoted(o) == o # None /\ o.form = "quoted"
OffsetGood(o) ==
  IsQuoted(o) => IsInt(o.of) /\ (kind = "FloatArray" => factor # NotNumber /\ IntFactor # 0)
AskedOffset(o) == IF IsQuoted(o) THEN Stoi(o.of) ELSE 0
Offset(o) ==
  IF IsQuoted(o) /\ kind = "FloatArray" THEN Quot(AskedOffset(o), IntFactor) ELSE AskedOffset(o)

SetArray(t) ==
  \/ t.form # "object" /\ SetFrom(t, 0, 0)
  \/ t.form = "object" /\ t.value = None /\ Ignore
  \/ /\ t.form = "object" /\ t.value # None
     /\ IF OffsetGood(t.offset)
        THEN SetFrom(t.value, Offset(t.offset), AskedOffset(t.offset))
        ELSE Throw

UnclearedData(t) ==   \* mutant: no zeros before the bytes
  LET bytes == [i \in DOMAIN t.bytes \cap Cells |-> t.bytes[i]]
  IN  Put(0, bytes, 0, [i \in Cells |-> IF i \in DOMAIN bytes THEN bytes[i] ELSE 0], "word")

\* Zeros first, then the bytes that fit.
SetData(t) ==
  LET bytes == [i \in Cells |-> IF i \in DOMAIN t.bytes THEN t.bytes[i] ELSE 0]
  IN  Put(0, bytes, 0, bytes, "word")

\* DoSetValue, which knows three types, of which a short is none, and catches
\* std::invalid_argument only.
SetFF(t) ==
  \/ ~IsReal(t) /\ Ignore
  \/ kind = "FFShort" /\ IsReal(t) /\ Drop(0, <<Stoi(t)>>, FormOf(t))
  \/ kind = "FFReal" /\ IsReal(t) /\ Put(0, <<t.num>>, 0, <<t.num>>, FormOf(t))
  \/ kind = "FFInt" /\ IsInt(t) /\ Put(0, <<Stoi(t)>>, 0, <<Stoi(t)>>, FormOf(t))
  \/ kind = "FFInt" /\ IsReal(t) /\ ~IsInt(t) /\ Throw

SetValue(t) ==
  /\ ~aborted
  /\ \/ kind = "Int" /\ SetInt(t)
     \/ kind = "Real" /\ SetReal(t)
     \/ kind \in Arrays /\ SetArray(t)
     \/ kind = "Data" /\ SetData(t)
     \/ kind \in FFKinds /\ SetFF(t)
  /\ UNCHANGED <<kind, factor, shown>>

-----------------------------------------------------------------------------

\* What GetValue makes of the cells: of Data, the bytes before the first NUL.
Reading ==
  [i \in Cells |->
     CASE kind \in IntegerKinds -> Wrap(raw[i] * IntFactor)
       [] kind = "Data" -> IF \E j \in 1..i : raw[j] = 0 THEN 0 ELSE raw[i]
       [] OTHER -> Multiplied(raw[i])]

\* Bytes without a NUL are read on behind the buffer.
GetValue ==
  /\ ~aborted
  /\ IF factor = NotNumber /\ kind # "Data" THEN Throw /\ UNCHANGED shown
     ELSE /\ Ignore
          /\ \/ shown' = Reading
             \/ /\ kind = "Data" /\ \A i \in Cells : raw[i] # 0
                /\ shown' = Append(Reading, Stray)
  /\ UNCHANGED <<kind, factor>>

\* SET_REG_DATA and SET_DATA refuse a Value that is empty, a Boolean or null.
IsEmpty(j) == j.json = "other" \/ (j.text.form = "word" /\ j.text.bytes = <<>>)
SetRequest(j) ==
  /\ ~aborted
  /\ IF IsEmpty(j) THEN UNCHANGED vars ELSE SetValue(Extract(j))

\* The text of what was shown.
Number(i) == [form |-> "number", whole |-> kind \in IntegerKinds,
              num |-> IF kind \in IntegerKinds THEN shown[i] * Den ELSE shown[i]]
Shown ==
  IF kind \in Arrays THEN [form |-> "array", items |-> [i \in DOMAIN shown |-> Number(i)]]
  ELSE IF kind = "Data"
  THEN [form |-> "word", bytes |-> [i \in {j \in DOMAIN shown : shown[j] # 0} |-> shown[i]]]
  ELSE Number(1)

\* A client sets what it has read.
WriteBack ==
  /\ shown # <<>> /\ (kind = "Data" => shown[1] # 0)
  /\ \A i \in DOMAIN shown : Abs(shown[i]) <= MaxBack
  /\ SetValue(Shown)

SimulatorWrites ==
  /\ ~aborted /\ raw' \in Simulated[kind]
  /\ last' = [i \in Cells |-> None] /\ given' = [i \in Cells |-> "none"]
  /\ UNCHANGED <<kind, factor, shown, aborted>>

Next ==
  \/ \E j \in Inputs[kind] : SetRequest(j)
  \/ GetValue
  \/ WriteBack
  \/ SimulatorWrites

Spec == Init /\ [][Next]_vars

-----------------------------------------------------------------------------
(* Properties.                                                             *)

\* A real number reads as the one that was set, up to what is lost where its
\* quotient by the factor is cut off.
ReadsBack(read, set) == (Abs(read - set) - 1) * Den < (Abs(set) * Den) % Abs(factor)

\* The cell reads as what was asked for: up to what an integer or a real factor
\* cuts off, and of bytes as far as the first NUL.
Undone(i) ==
  CASE kind = "Int" -> Abs(Reading[i] - last[i]) < Abs(IntFactor)
    [] kind = "Real" -> ReadsBack(Reading[i], last[i])
    [] kind = "Data" -> Reading[i] = last[i] \/ \E j \in 1 .. i - 1 : last[j] = 0
    [] OTHER -> Reading[i] = last[i]

\* A number w given in the form f is one that SetValue takes over.  It is not, if
\* it is no integer of the width of int, or has a decimal point, and goes to an
\* int array; if it is a string, which writes zeros, or an integer, which writes
\* nothing, and goes to a float array; or if it goes to a FlightFactor short.
Taken(w, f) ==
  /\ w # None
  /\ kind = "IntArray" => w \in Ints /\ f # "real"
  /\ kind = "FloatArray" => f \notin {"quoted", "integer"}
  /\ kind # "FFShort"

\* A number that SetValue takes over is what a read returns, until somebody else
\* writes: whatever was set before or elsewhere in the array, and whether the
\* bytes fill the dataref or not.  For ints and reals with every factor that is a
\* number, for bytes, but for arrays and FlightFactor values with the factor 1
\* only.  It says nothing of the numbers that are not Taken: there SetValue
\* (Dataref.cpp:251, 282, FFDataref.cpp:139) does not do what Dataref.h:91 says.  Asked
\* is what the text of ExtractJsonValue says: a JSON number too large for it has
\* been cut before, and an int is asked the integer part.
ReadsShowWrites ==
  kind = "Data" \/ (factor # NotNumber /\ (kind \in Arrays \cup FFKinds => factor = Den)) =>
    \A i \in Cells : Taken(last[i], given[i]) => Undone(i)

\* Setting what was just read changes no reading of a single number whose product
\* with the factor has not overflowed, nor of bytes.  A FlightFactor value is
\* left alone only with the factor 1.  An array refuses its own text, which ends
\* the process: it is not spoken of.
WriteBackKeepsReading ==
  [][WriteBack /\ shown = Reading /\ kind \notin Arrays
       /\ (kind \in IntegerKinds => \A i \in Cells : raw[i] * IntFactor \in Ints)
       /\ (kind \in FFKinds => factor = Den)
     => \A i \in Cells : IF kind = "Real" THEN ReadsBack(Reading'[i], Reading[i])
                        ELSE Reading'[i] = Reading[i]]_vars

\* Dataref.h:98: the factor is multiplied by on get and divided by on set, so that
\* a number SetValue takes over reads as it was set, with every factor.
FactorIsUndone ==
  kind \notin FFKinds /\ factor # NotNumber =>
    \A i \in Cells : Taken(last[i], given[i]) => Undone(i)
=============================================================================
