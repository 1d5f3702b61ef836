--------------------------- MODULE DatarefValue_proofs ---------------------------
(***************************************************************************)
(* Theorems about DatarefValue, for integers of any width, reals in any    *)
(* unit, arrays of any size, any factors and any requests.                 *)
(*                                                                         *)
(* First what the truncating division of the code does to a number that is *)
(* divided by a factor and multiplied by it again; then what each branch   *)
(* of SetValue may do to the cells; and from both, that a read shows what  *)
(* SetValue has taken over.                                                *)
(***************************************************************************)
EXTENDS DatarefValue, TLAPS

-----------------------------------------------------------------------------
(* Arithmetic.                                                             *)

LEMMA Division ==
  ASSUME NEW x \in Nat, NEW y \in Nat \ {0}
  PROVE  /\ x \div y \in Nat /\ x % y \in 0 .. y - 1
         /\ x = y * (x \div y) + (x % y)
OBVIOUS

LEMMA DivisionExact ==
  ASSUME NEW q \in Nat, NEW y \in Nat \ {0}
  PROVE  (q * y) \div y = q
<1>1. q * y \in Nat
  OBVIOUS
<1>2. PICK r \in Nat : r = (q * y) \div y
  BY <1>1, Division
<1>3. PICK m \in 0 .. y - 1 : q * y = y * r + m
  BY <1>1, <1>2, Division
<1>4. CASE r < q
  <2>1. y * r + y <= y * q
    BY <1>4
  <2> QED
    BY <1>3, <2>1
<1>5. CASE r > q
  <2>1. y * q + y <= y * r
    BY <1>5
  <2> QED
    BY <1>3, <2>1
<1> QED
  BY <1>2, <1>4, <1>5

LEMMA AbsFacts ==
  /\ \A a \in Int : Abs(a) \in Nat /\ (a # 0 => Abs(a) # 0)
  /\ \A a, b \in Int : Abs(a * b) = Abs(a) * Abs(b)
BY DEF Abs

\* A quotient is cut off towards zero: multiplied again it has lost the
\* remainder, and no more.
LEMMA QuotCuts ==
  ASSUME NEW a \in Int, NEW b \in Int \ {0}
  PROVE  /\ Quot(a, b) \in Int
         /\ Abs(a) % Abs(b) \in 0 .. Abs(b) - 1
         /\ Abs(Quot(a, b) * b) = Abs(a) - (Abs(a) % Abs(b))
         /\ a >= 0 => Quot(a, b) * b >= 0
         /\ a <= 0 => Quot(a, b) * b <= 0
<1>1. Abs(a) \in Nat /\ Abs(b) \in Nat \ {0}
  BY AbsFacts
<1>2. PICK q \in Nat : q = Abs(a) \div Abs(b)
  BY <1>1, Division
<1>3. Abs(a) % Abs(b) \in 0 .. Abs(b) - 1 /\ Abs(a) = Abs(b) * q + (Abs(a) % Abs(b))
  BY <1>1, <1>2, Division
<1>4. Quot(a, b) = (IF (a < 0) = (b < 0) THEN q ELSE -q)
  BY <1>2 DEF Quot
<1>5. Quot(a, b) \in Int /\ Abs(Quot(a, b)) = q
  BY <1>4 DEF Abs
<1>6. Abs(Quot(a, b) * b) = q * Abs(b)
  BY <1>5, AbsFacts
<1>7. (a >= 0 => Quot(a, b) * b >= 0) /\ (a <= 0 => Quot(a, b) * b <= 0)
  <2>1. CASE a > 0
    BY <1>4, <2>1
  <2>2. CASE a < 0
    BY <1>4, <2>2
  <2>3. CASE a = 0
    <3>1. Abs(a) = 0
      BY <2>3 DEF Abs
    <3>2. CASE q = 0
      BY <1>4, <3>2
    <3>3. CASE q > 0
      <4>1. Abs(b) * q >= Abs(b)
        BY <1>1, <3>3
      <4> QED
        BY <1>1, <1>3, <3>1, <4>1
    <3> QED
      BY <3>2, <3>3
  <2> QED
    BY <2>1, <2>2, <2>3
<1>8. Abs(b) * q = q * Abs(b) /\ q * Abs(b) \in Nat /\ Abs(a) % Abs(b) \in Int
  BY <1>1, <1>3
<1> QED
  BY <1>1, <1>3, <1>5, <1>6, <1>7, <1>8

\* A product is divided without a rest.
LEMMA QuotOfProduct ==
  ASSUME NEW c \in Int, NEW b \in Int \ {0}
  PROVE  Quot(c * b, b) = c
<1>1. Abs(c) \in Nat /\ Abs(b) \in Nat \ {0} /\ c * b \in Int /\ Abs(c * b) = Abs(c) * Abs(b)
  BY AbsFacts
<1>2. Abs(c * b) \div Abs(b) = Abs(c)
  BY <1>1, DivisionExact
<1>3. CASE c = 0
  BY <1>2, <1>3 DEF Quot, Abs
<1>4. CASE c > 0
  <2>1. (c * b < 0) = (b < 0)
    BY <1>4
  <2> QED
    BY <1>2, <1>4, <2>1 DEF Quot, Abs
<1>5. CASE c < 0
  <2>1. (c * b < 0) # (b < 0)
    BY <1>5
  <2> QED
    BY <1>2, <1>5, <2>1 DEF Quot, Abs
<1> QED
  BY <1>3, <1>4, <1>5

\* The conversion to int: into its range, and the identity there.
LEMMA WrapFacts ==
  /\ Ints \subseteq Int
  /\ \A n \in Int : Wrap(n) \in Ints
  /\ \A n \in Ints : Wrap(n) = n
<1>1. Half \in Nat \ {0} /\ 2 * Half \in Nat \ {0}
  BY WidthAssumption
<1>2. \A n \in Int : (n + Half) % (2 * Half) \in 0 .. 2 * Half - 1
  BY <1>1
<1>3. \A n \in Ints : n + Half \in 0 .. 2 * Half - 1
  BY <1>1 DEF Ints
<1>4. \A m \in 0 .. 2 * Half - 1 : m % (2 * Half) = m
  BY <1>1
<1> QED
  BY <1>1, <1>2, <1>3, <1>4 DEF Ints, Wrap

\* An int divided by an integer factor and multiplied again has lost less than
\* the factor, and cannot have overflowed.
LEMMA IntReadsBack ==
  ASSUME NEW n \in Ints, NEW b \in Int \ {0}
  PROVE  Abs(Wrap(Quot(n, b) * b) - n) < Abs(b)
<1>1. n \in Int /\ Half \in Nat \ {0} /\ Abs(b) \in Nat /\ Abs(n) \in Nat
  BY WrapFacts, AbsFacts, WidthAssumption
<1>2. PICK p \in Int : p = Quot(n, b) * b
  BY <1>1, QuotCuts
<1>3. PICK r \in 0 .. Abs(b) - 1 : r = Abs(n) % Abs(b)
  BY <1>1, QuotCuts
<1>4. Abs(p) = Abs(n) - r /\ (n >= 0 => p >= 0) /\ (n <= 0 => p <= 0)
  BY <1>1, <1>2, <1>3, QuotCuts
<1>5. p \in Ints /\ Abs(p - n) = r
  BY <1>1, <1>4 DEF Ints, Abs
<1>6. Wrap(p) = p
  BY <1>5, WrapFacts
<1> QED
  BY <1>1, <1>2, <1>5, <1>6

\* A real number divided by the factor and multiplied again has lost the rest
\* of the division, and less than one unit when the product is cut off.
LEMMA RealReadsBack ==
  ASSUME NEW n \in Int, factor \in Int \ {0}
  PROVE  /\ Divided(n) \in Int
         /\ ReadsBack(Multiplied(Divided(n)), n)
<1>1. Den \in Nat \ {0} /\ Abs(Den) = Den /\ n * Den \in Int /\ Abs(n) \in Nat
  BY WidthAssumption, AbsFacts DEF Abs
<1>2. Abs(n * Den) = Abs(n) * Den
  BY <1>1, AbsFacts
<1>3. Divided(n) = Quot(n * Den, factor) /\ Divided(n) \in Int
  BY <1>1, QuotCuts DEF Divided
<1>4. PICK p \in Int : p = Divided(n) * factor
  BY <1>3
<1>5. PICK r \in Int : r = Abs(n * Den) % Abs(factor)
  BY <1>1, QuotCuts
<1>6. Abs(p) = Abs(n * Den) - r /\ (n * Den >= 0 => p >= 0) /\ (n * Den <= 0 => p <= 0)
  BY <1>1, <1>3, <1>4, <1>5, QuotCuts
<1>7. PICK m \in Int : m = Quot(p, Den)
  BY <1>1, QuotCuts
<1>8. PICK s \in 0 .. Den - 1 : s = Abs(p) % Abs(Den)
  BY <1>1, QuotCuts
<1>9. Abs(m * Den) = Abs(p) - s /\ (p >= 0 => m * Den >= 0) /\ (p <= 0 => m * Den <= 0)
  <2>1. Den \in Int \ {0}
    BY <1>1
  <2>2. /\ Abs(Quot(p, Den) * Den) = Abs(p) - (Abs(p) % Abs(Den))
        /\ p >= 0 => Quot(p, Den) * Den >= 0
        /\ p <= 0 => Quot(p, Den) * Den <= 0
    BY <2>1, QuotCuts
  <2> QED
    BY <1>7, <1>8, <2>2, Zenon
<1>10. PICK d \in Int : d = m * Den /\ d - n * Den = (m - n) * Den
  BY <1>1
<1>11. PICK w \in Int : w = n * Den
  BY <1>1
<1>12. 0 <= r
  BY <1>1, <1>5, QuotCuts
<1>13. Abs(d - w) = r + s
  <2>1. Abs(p) = Abs(w) - r /\ (w >= 0 => p >= 0) /\ (w <= 0 => p <= 0)
    BY <1>6, <1>11
  <2>2. Abs(d) = Abs(p) - s /\ (p >= 0 => d >= 0) /\ (p <= 0 => d <= 0)
    BY <1>9, <1>10
  <2> QED
    BY <1>1, <1>8, <1>12, <2>1, <2>2 DEF Abs
<1>14. PICK k \in Nat : k = Abs(m - n)
  <2>1. m - n \in Int
    BY <1>7
  <2> QED
    BY <2>1, AbsFacts
<1>15. k * Den = r + s
  <2>1. Den \in Int /\ m - n \in Int /\ d - w = (m - n) * Den
    BY <1>1, <1>10, <1>11
  <2>2. Abs((m - n) * Den) = Abs(m - n) * Abs(Den)
    BY <2>1, AbsFacts
  <2>3. Abs((m - n) * Den) = r + s
    BY <1>13, <2>1, Zenon
  <2> QED
    BY <1>1, <1>14, <2>2, <2>3, Zenon
<1>16. (k - 1) * Den < r
  BY <1>1, <1>8, <1>14, <1>15
<1>17. Multiplied(Divided(n)) = m /\ (Abs(n) * Den) % Abs(factor) = r
  BY <1>2, <1>4, <1>5, <1>7 DEF Multiplied
<1> QED
  BY <1>3, <1>14, <1>16, <1>17 DEF ReadsBack

-----------------------------------------------------------------------------
(* The inductive invariant.                                                *)

\* What GetValue makes of the number in one cell.
ReadCell(v) == IF kind \in IntegerKinds THEN Wrap(v * IntFactor) ELSE Multiplied(v)

\* A cell that holds v reads as the number w somebody asked for.
Shows(v, w) ==
  CASE kind = "Int" -> Abs(ReadCell(v) - w) < Abs(IntFactor)
    [] kind = "Real" -> ReadsBack(ReadCell(v), w)
    [] OTHER -> ReadCell(v) = w

\* Where ReadsShowWrites speaks of numbers.
Promised == factor # NotNumber /\ (kind \in Arrays \cup FFKinds => factor = Den)

\* The cells hold what makes the numbers taken over last readable; the bytes of
\* Data are these numbers.
CellsHoldLast ==
  IF kind = "Data" THEN last = raw \/ \A i \in Cells : last[i] = None
  ELSE Promised => \A i \in Cells : Taken(last[i], given[i]) => Shows(raw[i], last[i])

\* What GetValue returned are numbers, one of each cell.
ShownIsRead ==
  \/ shown = <<>>
  \/ kind = "Data" /\ \A i \in DOMAIN shown : shown[i] \in Int
  \/ kind # "Data" /\ factor # NotNumber /\ shown \in [Cells -> Int]

IInv == TypeOK /\ CellsHoldLast /\ ShownIsRead

\* With the factor 1 a cell reads as it is.
LEMMA FactorOne ==
  ASSUME factor = Den
  PROVE  /\ \A v \in Int : Divided(v) = v /\ Multiplied(v) = v
         /\ \A v \in CellValues(kind) : ReadCell(v) = v
<1>1. Den \in Int \ {0}
  BY WidthAssumption
<1>2. \A v \in Int : Quot(v * Den, Den) = v
  BY <1>1, QuotOfProduct
<1>3. IntFactor = 1
  <2>1. 1 * Den = Den
    BY <1>1
  <2> QED
    BY <1>2, <2>1 DEF IntFactor
<1>4. \A v \in Ints : v * 1 = v /\ Wrap(v) = v
  BY WrapFacts
<1> QED
  BY <1>2, <1>3, <1>4 DEF Divided, Multiplied, ReadCell, CellValues

-----------------------------------------------------------------------------
(* What a step may do to the cells.                                        *)

\* The cells stay typed, and they hold what was asked for last.
CellsKept ==
  /\ raw' \in [Cells -> CellValues(kind)] /\ last' \in [Cells -> Int \cup {None}]
  /\ given' \in [Cells -> Forms] /\ aborted' \in BOOLEAN
  /\ IF kind = "Data" THEN last' = raw' \/ \A i \in Cells : last'[i] = None
     ELSE Promised => \A i \in Cells : Taken(last'[i], given'[i]) => Shows(raw'[i], last'[i])

LEMMA KeptIsEnough ==
  ASSUME TypeOK, CellsKept, UNCHANGED <<kind, factor>>
  PROVE  TypeOK' /\ CellsHoldLast'
<1>1. kind' = kind /\ factor' = factor /\ Cells' = Cells /\ Promised' = Promised
  BY DEF Cells, Promised
<1>2. TypeOK'
  BY <1>1, Zenon DEF TypeOK, CellsKept
<1>3. CASE kind = "Data"
  BY <1>1, <1>2, <1>3 DEF CellsKept, CellsHoldLast
<1>4. CASE kind # "Data"
  <2>1. ASSUME Promised', NEW i \in Cells', Taken(last[i], given[i])'
        PROVE  Shows(raw[i], last[i])'
    <3>1. Taken(last'[i], given'[i])
      BY <1>1, <2>1, Zenon DEF Taken
    <3>2. Shows(raw'[i], last'[i])
      BY <1>1, <1>4, <2>1, <3>1 DEF CellsKept
    <3> QED
      BY <1>1, <3>2, Zenon DEF Shows, ReadCell, ReadsBack, Multiplied, IntFactor
  <2> QED
    BY <1>1, <1>2, <1>4, <2>1 DEF CellsHoldLast
<1> QED
  BY <1>2, <1>3, <1>4

LEMMA IdleKeeps ==
  ASSUME TypeOK, CellsHoldLast, Throw \/ Ignore
  PROVE  CellsKept
BY DEF TypeOK, CellsHoldLast, CellsKept, Throw, Ignore

\* Numbers that are asked for in a form.
LEMMA AsksTyped ==
  ASSUME TypeOK, NEW at \in Int, NEW D \in SUBSET Int,
         NEW asked \in [D -> Int \cup {None}], NEW form \in Forms,
         Asks(at, asked, form)
  PROVE  /\ last' = [i \in Cells |-> IF i - at \in D THEN asked[i - at] ELSE last[i]]
         /\ given' = [i \in Cells |-> IF i - at \in D THEN form ELSE given[i]]
         /\ last' \in [Cells -> Int \cup {None}] /\ given' \in [Cells -> Forms]
<1>1. last' = [i \in Cells |-> IF i - at \in D THEN asked[i - at] ELSE last[i]]
  BY DEF Asks, Placed
<1>2. given' = [i \in Cells |-> IF i - at \in D THEN form ELSE given[i]]
  BY DEF Asks, Placed
<1> QED
  BY <1>1, <1>2 DEF TypeOK

\* Numbers that are put where they were asked for, each of them readable if it is
\* one that is taken over.
LEMMA PutKeeps ==
  ASSUME TypeOK, CellsHoldLast, kind # "Data",
         NEW first \in Int, NEW at \in Int, NEW D \in SUBSET Int, NEW form \in Forms,
         NEW stored \in [D -> CellValues(kind)], NEW asked \in [D -> Int \cup {None}],
         Promised => /\ first = at
                     /\ \A i \in D : Taken(asked[i], form) => Shows(stored[i], asked[i]),
         Put(first, stored, at, asked, form)
  PROVE  CellsKept
<1>1. /\ raw' = [i \in Cells |-> IF i - first \in D THEN stored[i - first] ELSE raw[i]]
      /\ aborted' = aborted
  BY DEF Put, Placed
<1>2. /\ last' = [i \in Cells |-> IF i - at \in D THEN asked[i - at] ELSE last[i]]
      /\ given' = [i \in Cells |-> IF i - at \in D THEN form ELSE given[i]]
      /\ last' \in [Cells -> Int \cup {None}] /\ given' \in [Cells -> Forms]
  BY AsksTyped DEF Put
<1>3. raw' \in [Cells -> CellValues(kind)] /\ aborted' \in BOOLEAN
  BY <1>1 DEF TypeOK
<1>4. ASSUME Promised, NEW i \in Cells, Taken(last'[i], given'[i])
      PROVE  Shows(raw'[i], last'[i])
  <2>1. CASE i - first \in D
    <3>1. raw'[i] = stored[i - first] /\ last'[i] = asked[i - first] /\ given'[i] = form
      BY <1>1, <1>2, <1>4, <2>1
    <3> QED
      BY <1>4, <2>1, <3>1
  <2>2. CASE i - first \notin D
    <3>1. raw'[i] = raw[i] /\ last'[i] = last[i] /\ given'[i] = given[i]
      BY <1>1, <1>2, <1>4, <2>2
    <3> QED
      BY <1>4, <3>1 DEF CellsHoldLast
  <2> QED
    BY <2>1, <2>2
<1> QED
  BY <1>2, <1>3, <1>4 DEF CellsKept

\* Numbers that are dropped, none of them one that is taken over.
LEMMA DropKeeps ==
  ASSUME TypeOK, CellsHoldLast, kind # "Data",
         NEW at \in Int, NEW D \in SUBSET Int, NEW form \in Forms,
         NEW asked \in [D -> Int \cup {None}], \A i \in D : ~Taken(asked[i], form),
         Drop(at, asked, form)
  PROVE  CellsKept
<1>1. /\ last' = [i \in Cells |-> IF i - at \in D THEN asked[i - at] ELSE last[i]]
      /\ given' = [i \in Cells |-> IF i - at \in D THEN form ELSE given[i]]
      /\ last' \in [Cells -> Int \cup {None}] /\ given' \in [Cells -> Forms]
  BY AsksTyped DEF Drop
<1>2. raw' = raw /\ aborted' = aborted
  BY DEF Drop
<1>3. ASSUME Promised, NEW i \in Cells, Taken(last'[i], given'[i])
      PROVE  Shows(raw'[i], last'[i])
  <2>1. i - at \notin D
    <3>1. ASSUME i - at \in D PROVE FALSE
      <4>1. last'[i] = asked[i - at] /\ given'[i] = form
        BY <1>1, <1>3, <3>1
      <4> QED
        BY <1>3, <3>1, <4>1
    <3> QED
      BY <3>1
  <2>2. last'[i] = last[i] /\ given'[i] = given[i]
    BY <1>1, <1>3, <2>1
  <2> QED
    BY <1>2, <1>3, <2>2 DEF CellsHoldLast
<1> QED
  BY <1>1, <1>2, <1>3 DEF CellsKept, TypeOK

-----------------------------------------------------------------------------
(* The numbers in a text.                                                  *)

LEMMA Stored ==
  /\ Ints \subseteq Int /\ CellValues(kind) \subseteq Int
  /\ kind = "Data" => CellValues(kind) = Int
  /\ 1 .. 1 \in SUBSET Int /\ 1 .. Size \in SUBSET Int /\ Cells \in SUBSET Int
  /\ \A v : <<v>> \in [1 .. 1 -> {v}] /\ Fill(v) \in [1 .. Size -> {v}]
BY WrapFacts, WidthAssumption DEF CellValues, IntegerKinds, Fill, Cells, CellsOf

LEMMA FormsOfNumbers ==
  /\ "array" \in Forms /\ "quoted" \in Forms /\ "word" \in Forms
  /\ "integer" \in Forms /\ "real" \in Forms
  /\ \A t : t.form = "number" => FormOf(t) \in Forms
BY DEF Forms, FormOf

LEMMA TextNumbers ==
  ASSUME NEW t \in Text \cup NumberText \cup WordText
  PROVE  /\ t.form = "number" => t \in NumberText /\ t.num \in Int /\ t.whole \in BOOLEAN
                                 /\ Stoi(t) \in Int /\ Wrap(Stoi(t)) \in Ints
         /\ t.form = "quoted" => t.of \in NumberText \cup WordText
         /\ t.form = "array" => t.items \in Seq(Item)
         /\ t.form = "object" => /\ t.value \in Item \cup ArrayText \cup {None}
                                 /\ t.offset \in Item \cup {None}
         /\ t.form = "word" => t.bytes \in Seq(Nat)
<1>1. t.form = "number" => t \in NumberText /\ t.num \in Int /\ t.whole \in BOOLEAN
  BY DEF Text, Item, NumberText, WordText, QuotedText, ArrayText, ObjectText
<1>2. t.form = "number" => Stoi(t) \in Int /\ Wrap(Stoi(t)) \in Ints
  BY <1>1, WidthAssumption, QuotCuts, WrapFacts DEF Stoi
<1> QED
  BY <1>1, <1>2 DEF Text, Item, NumberText, WordText, QuotedText, ArrayText, ObjectText

-----------------------------------------------------------------------------
(* SetValue, type by type.                                                 *)

LEMMA ScalarPutKeeps ==
  ASSUME TypeOK, CellsHoldLast, kind # "Data",
         NEW v \in CellValues(kind), NEW w \in Int, Promised => Shows(v, w),
         NEW form \in Forms, Put(0, <<v>>, 0, <<w>>, form)
  PROVE  CellsKept
<1> DEFINE D == 1 .. 1
<1>1. D \in SUBSET Int
  OBVIOUS
<1>2. PICK stored \in [D -> CellValues(kind)] : stored = <<v>> /\ \A i \in D : stored[i] = v
  OBVIOUS
<1>3. PICK asked \in [D -> Int \cup {None}] : asked = <<w>> /\ \A i \in D : asked[i] = w
  OBVIOUS
<1>4. Put(0, stored, 0, asked, form) /\ (Promised => \A i \in D : Shows(stored[i], asked[i]))
  BY <1>2, <1>3, Zenon
<1> HIDE DEF D
<1> QED
  BY <1>1, <1>4, PutKeeps

LEMMA FillPutKeeps ==
  ASSUME TypeOK, CellsHoldLast, kind # "Data",
         NEW first \in Int, NEW at \in Int,
         NEW v \in CellValues(kind), NEW w \in Int \cup {None}, NEW form \in Forms,
         Promised => first = at /\ (Taken(w, form) => Shows(v, w)),
         Put(first, Fill(v), at, Fill(w), form)
  PROVE  CellsKept
<1> DEFINE D == 1 .. Size
<1>1. D \in SUBSET Int
  BY WidthAssumption
<1>2. PICK stored \in [D -> CellValues(kind)] : stored = Fill(v) /\ \A i \in D : stored[i] = v
  <2>1. Fill(v) \in [D -> CellValues(kind)] /\ \A i \in D : Fill(v)[i] = v
    BY DEF Fill
  <2> QED
    BY <2>1, Zenon
<1>3. PICK asked \in [D -> Int \cup {None}] : asked = Fill(w) /\ \A i \in D : asked[i] = w
  <2>1. Fill(w) \in [D -> Int \cup {None}] /\ \A i \in D : Fill(w)[i] = w
    BY DEF Fill
  <2> QED
    BY <2>1, Zenon
<1>4. /\ Put(first, stored, at, asked, form)
      /\ Promised => first = at /\ \A i \in D : Taken(asked[i], form) => Shows(stored[i], asked[i])
  BY <1>2, <1>3, Zenon
<1> HIDE DEF D
<1> QED
  BY <1>1, <1>4, PutKeeps

LEMMA FillDropKeeps ==
  ASSUME TypeOK, CellsHoldLast, kind # "Data",
         NEW at \in Int, NEW w \in Int \cup {None}, NEW form \in Forms, ~Taken(w, form),
         Drop(at, Fill(w), form)
  PROVE  CellsKept
<1> DEFINE D == 1 .. Size
<1>1. D \in SUBSET Int
  BY WidthAssumption
<1>2. PICK asked \in [D -> Int \cup {None}] : asked = Fill(w) /\ \A i \in D : asked[i] = w
  <2>1. Fill(w) \in [D -> Int \cup {None}] /\ \A i \in D : Fill(w)[i] = w
    BY DEF Fill
  <2> QED
    BY <2>1, Zenon
<1>3. Drop(at, asked, form) /\ \A i \in D : ~Taken(asked[i], form)
  BY <1>2, Zenon
<1> HIDE DEF D
<1> QED
  BY <1>1, <1>3, DropKeeps

LEMMA FactorOfNumber ==
  ASSUME TypeOK, factor # NotNumber
  PROVE  factor \in Int \ {0} /\ IntFactor \in Int
<1>1. factor \in Int \ {0}
  BY FactorsAssumption DEF TypeOK
<1>2. Den \in Int \ {0}
  BY WidthAssumption
<1> QED
  BY <1>1, <1>2, QuotCuts DEF IntFactor

LEMMA SetIntKeeps ==
  ASSUME TypeOK, CellsHoldLast, kind = "Int",
         NEW t \in Text, SetInt(t)
  PROVE  CellsKept
<1>1. CASE Throw
  BY <1>1, IdleKeeps
<1>2. CASE /\ IsInt(t) /\ factor # NotNumber
           /\ IntFactor # 0 /\ Quot(Stoi(t), IntFactor) \in Ints
           /\ Put(0, <<Quot(Stoi(t), IntFactor)>>, 0, <<Stoi(t)>>, FormOf(t))
  <2>1. IntFactor \in Int \ {0} /\ Stoi(t) \in Ints
    BY <1>2, FactorOfNumber DEF IsInt
  <2>2. Shows(Quot(Stoi(t), IntFactor), Stoi(t))
    BY <2>1, IntReadsBack DEF Shows, ReadCell, IntegerKinds
  <2>3. CellValues(kind) = Ints /\ Stoi(t) \in Int /\ FormOf(t) \in Forms
    BY <1>2, <2>1, WrapFacts, FormsOfNumbers DEF CellValues, IntegerKinds, IsInt, IsReal
  <2> QED
    BY <1>2, <2>2, <2>3, ScalarPutKeeps
<1> QED
  BY <1>1, <1>2 DEF SetInt

LEMMA SetRealKeeps ==
  ASSUME TypeOK, CellsHoldLast, kind = "Real",
         NEW t \in Text, SetReal(t)
  PROVE  CellsKept
<1>1. CASE Throw
  BY <1>1, IdleKeeps
<1>2. CASE IsReal(t) /\ factor # NotNumber /\ Put(0, <<Divided(t.num)>>, 0, <<t.num>>, FormOf(t))
  <2>1. t.num \in Int /\ factor \in Int \ {0}
    BY <1>2, TextNumbers, FactorOfNumber DEF IsReal
  <2>2. Divided(t.num) \in Int /\ ReadsBack(Multiplied(Divided(t.num)), t.num)
    BY <2>1, RealReadsBack
  <2>3. Shows(Divided(t.num), t.num) /\ CellValues(kind) = Int /\ FormOf(t) \in Forms
    BY <1>2, <2>2, FormsOfNumbers DEF Shows, ReadCell, CellValues, IntegerKinds, IsReal
  <2> QED
    BY <1>2, <2>1, <2>2, <2>3, ScalarPutKeeps
<1> QED
  BY <1>1, <1>2 DEF SetReal

LEMMA SetFFKeeps ==
  ASSUME TypeOK, CellsHoldLast, kind \in FFKinds,
         NEW t \in Text, SetFF(t)
  PROVE  CellsKept
<1>1. CASE Throw \/ Ignore
  BY <1>1, IdleKeeps
<1>2. ASSUME NEW v \in CellValues(kind), IsReal(t), Put(0, <<v>>, 0, <<v>>, FormOf(t))
      PROVE  CellsKept
  <2>1. kind # "Data" /\ v \in Int /\ FormOf(t) \in Forms
    BY <1>2, Stored, FormsOfNumbers DEF FFKinds, IsReal
  <2>2. Promised => Shows(v, v)
    BY FactorOne DEF Promised, Shows, FFKinds
  <2> QED
    BY <1>2, <2>1, <2>2, ScalarPutKeeps
<1>3. CASE kind = "FFReal" /\ IsReal(t) /\ Put(0, <<t.num>>, 0, <<t.num>>, FormOf(t))
  <2>1. t.num \in CellValues(kind)
    BY <1>3, TextNumbers DEF IsReal, CellValues, IntegerKinds
  <2> QED
    BY <1>2, <1>3, <2>1
<1>4. CASE kind = "FFInt" /\ IsInt(t) /\ Put(0, <<Stoi(t)>>, 0, <<Stoi(t)>>, FormOf(t))
  <2>1. Stoi(t) \in CellValues(kind) /\ IsReal(t)
    BY <1>4 DEF IsInt, CellValues, IntegerKinds
  <2> QED
    BY <1>2, <1>4, <2>1
<1>5. CASE kind = "FFShort" /\ IsReal(t) /\ Drop(0, <<Stoi(t)>>, FormOf(t))
  <2> DEFINE D == 1 .. 1
  <2>1. Stoi(t) \in Int /\ FormOf(t) \in Forms /\ D \in SUBSET Int
    BY <1>5, TextNumbers, FormsOfNumbers DEF IsReal
  <2>2. PICK asked \in [D -> Int \cup {None}] : asked = <<Stoi(t)>>
    <3>1. PICK w \in Int : w = Stoi(t)
      BY <2>1
    <3>2. <<w>> \in [D -> Int \cup {None}]
      OBVIOUS
    <3> QED
      BY <3>1, <3>2, Zenon
  <2>3. Drop(0, asked, FormOf(t)) /\ \A i \in D : ~Taken(asked[i], FormOf(t))
    BY <1>5, <2>2 DEF Taken
  <2> HIDE DEF D
  <2> QED
    BY <1>5, <2>1, <2>3, DropKeeps
<1> QED
  BY <1>1, <1>3, <1>4, <1>5 DEF SetFF

\* The numbers a client asks an array to hold are readable with the factor 1.
LEMMA ArrayShows ==
  ASSUME kind \in Arrays, Promised
  PROVE  factor = Den /\ IntFactor = 1 /\ \A v \in CellValues(kind) : Shows(v, v)
<1>1. factor = Den
  BY DEF Promised
<1>2. IntFactor = 1
  <2>1. 1 * Den = Den /\ Den \in Int \ {0}
    BY WidthAssumption
  <2> QED
    BY <1>1, <2>1, QuotOfProduct DEF IntFactor
<1> QED
  BY <1>1, <1>2, FactorOne, Stored DEF Shows, Arrays

\* The items of an array text, as far as the array has cells.
LEMMA ItemsPutKeeps ==
  ASSUME TypeOK, CellsHoldLast, kind \in Arrays,
         NEW first \in Int, NEW at \in Int, Promised => first = at,
         NEW D \in SUBSET Int, NEW data \in [D -> CellValues(kind)],
         Put(first, data, at, data, "array")
  PROVE  CellsKept
<1>1. kind # "Data" /\ "array" \in Forms
  BY FormsOfNumbers DEF Arrays
<1>2. data \in [D -> Int \cup {None}]
  BY Stored
<1>3. Promised => \A i \in D : Shows(data[i], data[i])
  BY ArrayShows
<1> QED
  BY <1>1, <1>2, <1>3, PutKeeps

LEMMA SetIntArrayKeeps ==
  ASSUME TypeOK, CellsHoldLast, kind = "IntArray",
         NEW t \in Item \cup ArrayText, NEW first \in Int, NEW at \in Int,
         Promised => first = at, SetIntArray(t, first, at)
  PROVE  CellsKept
<1>1. kind \in Arrays /\ kind # "Data" /\ CellValues(kind) = Ints /\ Ints \subseteq Int
  BY WrapFacts DEF Arrays, CellValues, IntegerKinds
<1>2. t \in Text
  BY DEF Text
<1>3. CASE Throw \/ Ignore
  BY <1>3, IdleKeeps
<1>4. ASSUME NEW w \in Int, NEW form \in Forms, Put(first, Fill(Wrap(w)), at, Fill(w), form)
      PROVE  CellsKept
  <2>1. Wrap(w) \in CellValues(kind) /\ w \in Int \cup {None}
    BY <1>1, WrapFacts
  <2>2. Taken(w, form) => Wrap(w) = w
    BY WrapFacts DEF Taken
  <2>3. Promised => (Taken(w, form) => Shows(Wrap(w), w))
    BY <1>1, <2>1, <2>2, ArrayShows
  <2> QED
    BY <1>1, <1>4, <2>1, <2>3, FillPutKeeps
<1>5. ASSUME t.form = "array",
             \A i \in DOMAIN t.items : t.items[i].form = "quoted" /\ IsInt(t.items[i].of),
             NEW data, data = [i \in DOMAIN t.items \cap (1 .. Size) |-> Stoi(t.items[i].of)],
             Put(first, data, at, data, "array")
      PROVE  CellsKept
  <2>1. DOMAIN t.items \cap (1 .. Size) \in SUBSET Int
    BY WidthAssumption
  <2>2. \A i \in DOMAIN t.items \cap (1 .. Size) : Stoi(t.items[i].of) \in Ints
    BY <1>5 DEF IsInt
  <2>3. data \in [DOMAIN t.items \cap (1 .. Size) -> CellValues(kind)]
    BY <1>1, <1>5, <2>2
  <2> QED
    BY <1>1, <1>5, <2>1, <2>3, ItemsPutKeeps
<1>6. CASE /\ t.form = "quoted" /\ IsInt(t.of)
           /\ Put(first, Fill(Stoi(t.of)), at, Fill(Stoi(t.of)), "quoted")
  <2>1. Stoi(t.of) \in Int /\ Wrap(Stoi(t.of)) = Stoi(t.of)
    BY <1>6, WrapFacts DEF IsInt
  <2> QED
    BY <1>4, <1>6, <2>1, FormsOfNumbers
<1>7. CASE t.form = "number" /\ Put(first, Fill(Wrap(Stoi(t))), at, Fill(Stoi(t)), "integer")
  BY <1>2, <1>4, <1>7, TextNumbers, FormsOfNumbers
<1>8. CASE t.form = "number" /\ Drop(at, Fill(Stoi(t)), "real")
  <2>1. Stoi(t) \in Int \cup {None} /\ ~Taken(Stoi(t), "real")
    BY <1>2, <1>8, TextNumbers DEF Taken
  <2> QED
    BY <1>1, <1>8, <2>1, FormsOfNumbers, FillDropKeeps
<1> QED
  BY <1>3, <1>5, <1>6, <1>7, <1>8 DEF SetIntArray

LEMMA SetFloatArrayKeeps ==
  ASSUME TypeOK, CellsHoldLast, kind = "FloatArray",
         NEW t \in Item \cup ArrayText, NEW first \in Int, NEW at \in Int,
         Promised => first = at, SetFloatArray(t, first, at)
  PROVE  CellsKept
<1>1. kind \in Arrays /\ kind # "Data" /\ CellValues(kind) = Int
  BY DEF Arrays, CellValues, IntegerKinds
<1>2. t \in Text
  BY DEF Text
<1>3. CASE Throw \/ Ignore
  BY <1>3, IdleKeeps
<1>4. ASSUME t.form = "array",
             \A i \in DOMAIN t.items : t.items[i].form = "quoted" /\ IsReal(t.items[i].of),
             NEW data, data = [i \in DOMAIN t.items \cap (1 .. Size) |-> t.items[i].of.num],
             Put(first, data, at, data, "array")
      PROVE  CellsKept
  <2>1. DOMAIN t.items \cap (1 .. Size) \in SUBSET Int
    BY WidthAssumption
  <2>2. ASSUME NEW i \in DOMAIN t.items \cap (1 .. Size)
        PROVE  t.items[i].of.num \in Int
    <3>1. t.items[i] \in Item /\ t.items[i].form = "quoted" /\ IsReal(t.items[i].of)
      BY <1>2, <1>4, <2>2, TextNumbers
    <3>2. t.items[i].of \in NumberText \cup WordText
      BY <3>1, TextNumbers DEF Text
    <3> QED
      BY <3>1, <3>2, TextNumbers DEF IsReal
  <2>3. data \in [DOMAIN t.items \cap (1 .. Size) -> CellValues(kind)]
    BY <1>1, <1>4, <2>2
  <2> QED
    BY <1>1, <1>4, <2>1, <2>3, ItemsPutKeeps
<1>5. CASE /\ t.form = "quoted"
           /\ Put(first, Fill(0), at, Fill(IF IsReal(t.of) THEN t.of.num ELSE None), "quoted")
  <2>1. PICK w \in Int \cup {None} : w = IF IsReal(t.of) THEN t.of.num ELSE None
    <3>1. t.of \in NumberText \cup WordText
      BY <1>2, <1>5, TextNumbers
    <3>2. IsReal(t.of) => t.of.num \in Int
      BY <3>1, TextNumbers DEF IsReal
    <3> QED
      BY <3>2
  <2>2. 0 \in CellValues(kind) /\ ~Taken(w, "quoted")
    BY <1>1 DEF Taken
  <2>3. Put(first, Fill(0), at, Fill(w), "quoted")
    BY <1>5, <2>1
  <2> QED
    BY <1>1, <2>2, <2>3, FormsOfNumbers, FillPutKeeps
<1>6. CASE /\ t.form = "number" /\ factor # NotNumber
           /\ Put(first, Fill(Divided(t.num)), at, Fill(t.num), "real")
  <2>1. t.num \in Int
    BY <1>2, <1>6, TextNumbers
  <2>2. Divided(t.num) \in CellValues(kind)
    BY <1>1, <1>6, <2>1, FactorOfNumber, RealReadsBack
  <2>3. Promised => Divided(t.num) = t.num
    BY <1>1, <2>1, ArrayShows, FactorOne
  <2>4. Promised => Shows(Divided(t.num), t.num)
    BY <1>1, <2>2, <2>3, ArrayShows
  <2> QED
    BY <1>1, <1>6, <2>1, <2>2, <2>4, FormsOfNumbers, FillPutKeeps
<1>7. CASE t.form = "number" /\ Drop(at, Fill(t.num), "integer")
  <2>1. t.num \in Int \cup {None} /\ ~Taken(t.num, "integer")
    BY <1>2, <1>7, TextNumbers DEF Taken
  <2> QED
    BY <1>1, <1>7, <2>1, FormsOfNumbers, FillDropKeeps
<1> QED
  BY <1>3, <1>4, <1>5, <1>6, <1>7 DEF SetFloatArray

LEMMA SetFromKeeps ==
  ASSUME TypeOK, CellsHoldLast,
         NEW t \in Item \cup ArrayText, NEW first \in Int, NEW at \in Int,
         Promised => first = at, SetFrom(t, first, at)
  PROVE  CellsKept
BY SetIntArrayKeeps, SetFloatArrayKeeps DEF SetFrom

\* The offset of an object; with the factor 1 it is the one that was asked for.
LEMMA Offsets ==
  ASSUME TypeOK, kind \in Arrays,
         NEW o \in Item \cup {None}, OffsetGood(o)
  PROVE  /\ Offset(o) \in Int /\ AskedOffset(o) \in Int
         /\ Promised => Offset(o) = AskedOffset(o)
<1>1. AskedOffset(o) \in Int
  <2>1. CASE IsQuoted(o)
    <3>1. Stoi(o.of) \in Int
      BY <2>1, WrapFacts DEF OffsetGood, IsInt
    <3> QED
      BY <2>1, <3>1 DEF AskedOffset
  <2>2. CASE ~IsQuoted(o)
    BY <2>2 DEF AskedOffset
  <2> QED
    BY <2>1, <2>2
<1>2. CASE IsQuoted(o) /\ kind = "FloatArray"
  <2>1. IntFactor \in Int \ {0}
    BY <1>2, FactorOfNumber DEF OffsetGood
  <2>2. Offset(o) = Quot(AskedOffset(o), IntFactor) /\ Offset(o) \in Int
    BY <1>1, <1>2, <2>1, QuotCuts DEF Offset
  <2>3. Quot(AskedOffset(o) * 1, 1) = AskedOffset(o)
    BY <1>1, QuotOfProduct
  <2>4. AskedOffset(o) * 1 = AskedOffset(o)
    BY <1>1
  <2> QED
    BY <1>1, <2>2, <2>3, <2>4, ArrayShows
<1>3. CASE ~(IsQuoted(o) /\ kind = "FloatArray")
  BY <1>1, <1>3 DEF Offset
<1> QED
  BY <1>2, <1>3

LEMMA SetArrayKeeps ==
  ASSUME TypeOK, CellsHoldLast, kind \in Arrays,
         NEW t \in Text, SetArray(t)
  PROVE  CellsKept
<1>1. CASE Throw \/ Ignore
  BY <1>1, IdleKeeps
<1>2. CASE t.form # "object" /\ SetFrom(t, 0, 0)
  <2>1. t \in Item \cup ArrayText
    BY <1>2 DEF Text, ObjectText
  <2> QED
    BY <1>2, <2>1, SetFromKeeps
<1>3. CASE /\ t.form = "object" /\ t.value # None /\ OffsetGood(t.offset)
           /\ SetFrom(t.value, Offset(t.offset), AskedOffset(t.offset))
  <2>1. t.value \in Item \cup ArrayText /\ t.offset \in Item \cup {None}
    BY <1>3, TextNumbers
  <2>2. /\ Offset(t.offset) \in Int /\ AskedOffset(t.offset) \in Int
        /\ Promised => Offset(t.offset) = AskedOffset(t.offset)
    BY <1>3, <2>1, Offsets
  <2> QED
    BY <1>3, <2>1, <2>2, SetFromKeeps
<1> QED
  BY <1>1, <1>2, <1>3 DEF SetArray

\* What SetValue is given: for Data bytes, otherwise any text.
Settable(t) ==
  IF kind = "Data" THEN \A i \in DOMAIN t.bytes : t.bytes[i] \in Int ELSE t \in Text

LEMMA SetDataKeeps ==
  ASSUME TypeOK, kind = "Data", NEW t, Settable(t), SetData(t)
  PROVE  CellsKept
<1> DEFINE bytes == [i \in Cells |-> IF i \in DOMAIN t.bytes THEN t.bytes[i] ELSE 0]
<1>1. Put(0, bytes, 0, bytes, "word")
  BY DEF SetData
<1>2. bytes \in [Cells -> Int]
  BY DEF Settable
<1>3. DOMAIN bytes = Cells /\ \A i \in Cells : i - 0 = i
  BY Stored
<1> HIDE DEF bytes
<1>4. /\ raw' = [i \in Cells |-> bytes[i]] /\ last' = [i \in Cells |-> bytes[i]]
      /\ aborted' = aborted
  BY <1>1, <1>3 DEF Put, Asks, Placed
<1>5. given' \in [Cells -> Forms]
  BY <1>1, <1>3, FormsOfNumbers DEF Put, Asks, Placed, TypeOK
<1> QED
  BY <1>2, <1>4, <1>5, Stored DEF CellsKept, TypeOK

LEMMA SetValueKeeps ==
  ASSUME TypeOK, CellsHoldLast, NEW t, Settable(t), SetValue(t)
  PROVE  CellsKept /\ UNCHANGED <<kind, factor, shown>>
<1>1. CASE kind = "Data"
  BY <1>1, SetDataKeeps DEF SetValue, Arrays, FFKinds
<1>2. CASE kind # "Data"
  <2>1. t \in Text
    BY <1>2 DEF Settable
  <2> QED
    BY <1>2, <2>1, SetIntKeeps, SetRealKeeps, SetArrayKeeps, SetFFKeeps DEF SetValue
<1> QED
  BY <1>1, <1>2 DEF SetValue

\* A request and a reading are texts SetValue can be given.
LEMMA ExtractIsSettable ==
  ASSUME TypeOK, NEW j \in Inputs[kind]
  PROVE  Settable(Extract(j))
<1>1. j \in Value /\ (kind = "Data" => j.text \in WordText)
  BY KindsAssumption DEF TypeOK
<1>2. j.text \in Text /\ (j.json = "number" => j.text \in NumberText)
  BY <1>1 DEF Value, Text, Item
<1>3. CASE j.json = "number" /\ j.text.whole
  <2>1. kind # "Data" /\ j.text \in NumberText
    BY <1>1, <1>2, <1>3 DEF NumberText, WordText
  <2>2. Stoi(j.text) \in Int
    BY <2>1, TextNumbers DEF NumberText
  <2>3. ASSUME NEW n \in Int
        PROVE  (IF n < 0 THEN Wrap(n) ELSE n % (2 * Half)) * Den \in Int
    <3>1. PICK m \in Nat \ {0} : m = 2 * Half
      BY WidthAssumption
    <3>2. Wrap(n) \in Int
      <4>1. Wrap(n) \in Ints
        BY WrapFacts
      <4> QED
        BY <4>1, WrapFacts
    <3>3. n % m \in Int
      BY <3>1
    <3>4. PICK k \in Int : k = IF n < 0 THEN Wrap(n) ELSE n % m
      BY <3>2, <3>3
    <3> QED
      BY <3>1, <3>2, <3>4, WidthAssumption
  <2>4. \A num \in Int : [j.text EXCEPT !.num = num] \in NumberText
    BY <2>1 DEF NumberText
  <2> QED
    BY <1>3, <2>1, <2>2, <2>3, <2>4 DEF Extract, Settable, Text, Item
<1>4. CASE ~(j.json = "number" /\ j.text.whole)
  BY <1>1, <1>2, <1>4 DEF Extract, Settable, WordText
<1> QED
  BY <1>3, <1>4

LEMMA ShownIsSettable ==
  ASSUME TypeOK, ShownIsRead, shown # <<>>
  PROVE  Settable(Shown)
<1> DEFINE numbers == [i \in DOMAIN shown |-> Number(i)]
<1>1. CASE kind = "Data"
  <2>1. Shown = [form |-> "word", bytes |-> [i \in {j \in DOMAIN shown : shown[j] # 0} |-> shown[i]]]
    BY <1>1 DEF Shown, Arrays
  <2>2. \A i \in DOMAIN shown : shown[i] \in Int
    BY <1>1 DEF ShownIsRead
  <2> QED
    BY <1>1, <2>1, <2>2 DEF Settable
<1>2. CASE kind # "Data"
  <2>1. shown \in [Cells -> Int] /\ Den \in Int
    BY <1>2, WidthAssumption DEF ShownIsRead
  <2>2. ASSUME NEW i \in Cells
        PROVE  Number(i) \in NumberText
    <3>1. shown[i] \in Int /\ shown[i] * Den \in Int /\ (kind \in IntegerKinds) \in BOOLEAN
      BY <2>1, <2>2
    <3> QED
      BY <3>1 DEF Number, NumberText
  <2>3. CASE kind \in Arrays
    <3>1. Shown = [form |-> "array", items |-> numbers]
      BY <2>3 DEF Shown
    <3>2. Cells = 1 .. Size /\ Size \in Nat
      BY <2>3, WidthAssumption DEF Cells, CellsOf
    <3>3. numbers \in [1 .. Size -> Item]
      BY <2>1, <2>2, <3>2 DEF Item
    <3> HIDE DEF numbers
    <3>4. numbers \in Seq(Item)
      BY <3>2, <3>3
    <3> QED
      BY <1>2, <3>1, <3>4 DEF Settable, Text, ArrayText
  <2>4. CASE kind \notin Arrays
    <3>1. 1 \in Cells
      BY <1>2, <2>4, WidthAssumption DEF Cells, CellsOf
    <3>2. Shown = Number(1)
      BY <1>2, <2>1, <2>4, <3>1 DEF Shown
    <3> QED
      BY <1>2, <2>2, <3>1, <3>2 DEF Settable, Text, Item
  <2> QED
    BY <2>3, <2>4
<1> QED
  BY <1>1, <1>2

-----------------------------------------------------------------------------
(* The theorems.                                                           *)

LEMMA ReadingIsTyped ==
  ASSUME TypeOK, kind = "Data" \/ factor # NotNumber
  PROVE  Reading \in [Cells -> Int]
<1>1. raw \in [Cells -> CellValues(kind)] /\ CellValues(kind) \subseteq Int
  BY Stored DEF TypeOK
<1>2. kind = "Data" => kind \notin IntegerKinds
  BY DEF IntegerKinds
<1>3. CASE kind = "Data"
  BY <1>1, <1>2, <1>3 DEF Reading
<1>4. CASE kind # "Data"
  <2>1. factor \in Int /\ IntFactor \in Int /\ Den \in Int \ {0}
    BY <1>4, FactorOfNumber, WidthAssumption
  <2>2. ASSUME NEW v \in Int
        PROVE  Wrap(v * IntFactor) \in Int /\ Multiplied(v) \in Int
    <3>1. v * factor \in Int /\ v * IntFactor \in Int
      BY <2>1
    <3> QED
      BY <2>1, <3>1, WrapFacts, QuotCuts DEF Multiplied
  <2> QED
    BY <1>1, <1>4, <2>2 DEF Reading
<1> QED
  BY <1>3, <1>4

LEMMA IInvInit == Init => IInv
<1> SUFFICES ASSUME Init PROVE IInv
  OBVIOUS
<1>1. raw \in [Cells -> CellValues(kind)]
  BY KindsAssumption DEF Init, Cells
<1>2. \A i \in Cells : last[i] = None
  BY DEF Init
<1>3. given \in [Cells -> Forms]
  BY DEF Init, Forms
<1> QED
  BY <1>1, <1>2, <1>3 DEF Init, IInv, TypeOK, CellsHoldLast, ShownIsRead, Taken

LEMMA IInvNext == IInv /\ [Next]_vars => IInv'
<1> SUFFICES ASSUME IInv, [Next]_vars PROVE IInv'
  OBVIOUS
<1>1. TypeOK /\ CellsHoldLast /\ ShownIsRead
  BY DEF IInv
<1>2. ASSUME CellsKept, UNCHANGED <<kind, factor, shown>>
      PROVE  IInv'
  <2>1. ShownIsRead'
    BY <1>1, <1>2 DEF ShownIsRead, Cells
  <2> QED
    BY <1>1, <1>2, <2>1, KeptIsEnough DEF IInv
<1>3. CASE UNCHANGED vars
  BY <1>1, <1>2, <1>3, IdleKeeps DEF vars, Ignore
<1>4. ASSUME NEW j \in Inputs[kind], SetRequest(j)
      PROVE  IInv'
  <2>1. CASE UNCHANGED vars
    BY <1>3, <2>1
  <2>2. CASE SetValue(Extract(j))
    BY <1>1, <1>2, <2>2, ExtractIsSettable, SetValueKeeps
  <2> QED
    BY <1>4, <2>1, <2>2 DEF SetRequest
<1>5. CASE GetValue
  <2>1. CellsKept /\ UNCHANGED <<kind, factor>>
    BY <1>1, <1>5, IdleKeeps DEF GetValue
  <2>2. ShownIsRead'
    <3>1. CASE UNCHANGED shown
      BY <1>1, <2>1, <3>1 DEF ShownIsRead, Cells
    <3>2. CASE kind # "Data" /\ factor # NotNumber /\ shown' = Reading
      BY <1>1, <2>1, <3>2, ReadingIsTyped DEF ShownIsRead, Cells
    <3>3. CASE kind = "Data" /\ shown' \in {Reading, Append(Reading, Stray)}
      <4>1. Reading \in [1 .. Size -> Int] /\ Size \in Nat /\ Stray \in Int
        BY <1>1, <3>3, ReadingIsTyped, WidthAssumption, TagsAssumption DEF Cells, CellsOf
      <4>2. PICK r \in Seq(Int) : r = Reading
        BY <4>1
      <4>3. Append(r, Stray) \in Seq(Int)
        BY <4>1, <4>2
      <4>4. shown' \in Seq(Int)
        BY <3>3, <4>2, <4>3
      <4> QED
        BY <2>1, <3>3, <4>4 DEF ShownIsRead
    <3> QED
      BY <1>5, <3>1, <3>2, <3>3 DEF GetValue
  <2> QED
    BY <1>1, <2>1, <2>2, KeptIsEnough DEF IInv
<1>6. CASE WriteBack
  BY <1>1, <1>2, <1>6, ShownIsSettable, SetValueKeeps DEF WriteBack
<1>7. CASE SimulatorWrites
  <2>1. raw' \in [Cells -> CellValues(kind)]
    BY <1>1, <1>7, KindsAssumption DEF SimulatorWrites, TypeOK, Cells
  <2>2. (\A i \in Cells : last'[i] = None) /\ given' \in [Cells -> Forms]
    BY <1>7 DEF SimulatorWrites, Forms
  <2>3. CellsKept
    BY <1>1, <1>7, <2>1, <2>2 DEF SimulatorWrites, CellsKept, TypeOK, Taken
  <2> QED
    BY <1>2, <1>7, <2>3 DEF SimulatorWrites
<1> QED
  BY <1>3, <1>4, <1>5, <1>6, <1>7 DEF Next

\* The invariant holds in every state.
THEOREM ValueInvariant == Spec => []IInv
<1>1. Init => IInv
  BY IInvInit
<1>2. IInv /\ [Next]_vars => IInv'
  BY IInvNext
<1> QED
  BY <1>1, <1>2, PTL DEF Spec

\* Whatever requests set, and whether the process survives it, the cells hold
\* numbers of their type: no setter writes outside the range of an int, and none
\* writes a cell the dataref does not have.
THEOREM ValueTypeCorrect == Spec => []TypeOK
<1>1. IInv => TypeOK
  BY DEF IInv
<1> QED
  BY <1>1, ValueInvariant, PTL

LEMMA HeldIsRead ==
  ASSUME IInv
  PROVE  ReadsShowWrites
<1> SUFFICES ASSUME kind = "Data" \/ Promised, NEW i \in Cells, Taken(last[i], given[i])
             PROVE  Undone(i)
  BY DEF ReadsShowWrites, Promised
<1>1. TypeOK /\ CellsHoldLast /\ i \in Int
  BY Stored DEF IInv
<1>2. CASE kind = "Data"
  <2>1. last = raw
    BY <1>1, <1>2 DEF CellsHoldLast, Taken
  <2>2. Reading[i] = IF \E j \in 1 .. i : raw[j] = 0 THEN 0 ELSE raw[i]
    BY <1>2 DEF Reading, IntegerKinds
  <2>3. \A j \in 1 .. i : j = i \/ j \in 1 .. i - 1
    BY <1>1
  <2>4. CASE \E j \in 1 .. i - 1 : raw[j] = 0
    BY <1>2, <2>1, <2>4 DEF Undone
  <2>5. CASE ~ \E j \in 1 .. i - 1 : raw[j] = 0
    <3>1. Reading[i] = last[i]
      BY <2>1, <2>2, <2>3, <2>5
    <3> QED
      BY <1>2, <3>1 DEF Undone
  <2> QED
    BY <2>4, <2>5
<1>3. CASE kind # "Data"
  <2>1. Reading[i] = ReadCell(raw[i])
    BY <1>3 DEF Reading, ReadCell
  <2>2. Shows(raw[i], last[i])
    BY <1>1, <1>3 DEF CellsHoldLast
  <2> QED
    BY <1>3, <2>1, <2>2 DEF Shows, Undone
<1> QED
  BY <1>2, <1>3

\* For integers of any width and reals in any unit: a number that SetValue takes
\* over is what a read returns until somebody else writes the dataref.  Of an int
\* or a real this holds with any factor that is a number, up to what the division
\* cuts off; of bytes as far as the first NUL; of arrays and FlightFactor values
\* only with the factor 1.  Numbers in a form that SetValue drops, or replaces by
\* zeros, are not Taken, and nothing is proved of them.
THEOREM ReadsShowWhatWasSet == Spec => []ReadsShowWrites
<1>1. IInv => ReadsShowWrites
  BY HeldIsRead
<1> QED
  BY <1>1, ValueInvariant, PTL

-----------------------------------------------------------------------------
(* Setting what was read.                                                  *)

\* The text of a scalar is its number, in whole units for an integer.
LEMMA ShownScalar ==
  ASSUME TypeOK, ShownIsRead, shown # <<>>, kind \notin Arrays \cup {"Data"}
  PROVE  /\ Cells = 1 .. 1 /\ shown[1] \in Int
         /\ IsReal(Shown) /\ factor \in Int \ {0} /\ factor # NotNumber
         /\ kind \in IntegerKinds => Stoi(Shown) = shown[1]
         /\ kind \notin IntegerKinds => Shown.num = shown[1]
<1>1. Cells = 1 .. 1 /\ 1 \in Cells
  BY DEF Cells, CellsOf
<1>2. shown \in [Cells -> Int] /\ factor # NotNumber
  BY DEF ShownIsRead
<1>3. Shown = [form |-> "number", whole |-> kind \in IntegerKinds,
               num |-> IF kind \in IntegerKinds THEN shown[1] * Den ELSE shown[1]]
  BY DEF Shown, Number
<1>4. shown[1] \in Int /\ Den \in Int \ {0}
  BY <1>1, <1>2, WidthAssumption
<1>5. kind \in IntegerKinds => Stoi(Shown) = shown[1]
  BY <1>3, <1>4, QuotOfProduct DEF Stoi
<1> QED
  BY <1>1, <1>2, <1>3, <1>4, <1>5, FactorOfNumber DEF IsReal

\* The same cells read the same.
LEMMA SameCells ==
  ASSUME TypeOK, UNCHANGED <<kind, factor>>, \A i \in Cells : raw'[i] = raw[i],
         raw' \in [Cells -> CellValues(kind)]
  PROVE  Reading' = Reading
<1>1. raw' = raw
  BY DEF TypeOK
<1> QED
  BY <1>1 DEF Reading, Cells, IntFactor, Multiplied

LEMMA WriteBackOfInt ==
  ASSUME TypeOK, ShownIsRead, WriteBack, shown = Reading, kind = "Int",
         \A i \in Cells : raw[i] * IntFactor \in Ints
  PROVE  \A i \in Cells : raw'[i] = raw[i]
<1>1. /\ Cells = 1 .. 1 /\ Stoi(Shown) = shown[1]
      /\ factor # NotNumber /\ SetInt(Shown)
  BY ShownScalar DEF WriteBack, SetValue, IntegerKinds, Arrays, FFKinds
<1>2. IntFactor \in Int /\ raw[1] \in Int /\ raw[1] * IntFactor \in Ints
  BY <1>1, FactorOfNumber, Stored DEF TypeOK
<1>3. Stoi(Shown) = raw[1] * IntFactor
  BY <1>1, <1>2, WrapFacts DEF Reading, IntegerKinds
<1>4. CASE Throw
  BY <1>4 DEF Throw
<1>5. CASE /\ IntFactor # 0
           /\ Put(0, <<Quot(Stoi(Shown), IntFactor)>>, 0, <<Stoi(Shown)>>, FormOf(Shown))
  <2>1. Quot(Stoi(Shown), IntFactor) = raw[1]
    BY <1>2, <1>3, <1>5, QuotOfProduct
  <2>2. raw' = Placed(raw, 0, <<raw[1]>>)
    BY <1>5, <2>1 DEF Put
  <2> QED
    BY <1>1, <2>2 DEF Placed
<1> QED
  BY <1>1, <1>4, <1>5 DEF SetInt

LEMMA WriteBackOfReal ==
  ASSUME TypeOK, ShownIsRead, WriteBack, shown = Reading, kind = "Real"
  PROVE  \A i \in Cells : ReadsBack(Reading'[i], Reading[i])
<1>1. /\ Cells = 1 .. 1 /\ IsReal(Shown) /\ Shown.num = shown[1] /\ shown[1] \in Int
      /\ factor \in Int \ {0} /\ factor # NotNumber
      /\ SetReal(Shown) /\ UNCHANGED <<kind, factor>>
  BY ShownScalar DEF WriteBack, SetValue, IntegerKinds, Arrays, FFKinds
<1>2. raw' = Placed(raw, 0, <<Divided(shown[1])>>)
  BY <1>1 DEF SetReal, Put, Throw
<1>3. raw'[1] = Divided(shown[1])
  BY <1>1, <1>2 DEF Placed
<1>4. Reading'[1] = Multiplied(Divided(shown[1]))
  BY <1>1, <1>3 DEF Reading, IntegerKinds, Cells, Multiplied
<1>5. ReadsBack(Multiplied(Divided(shown[1])), shown[1])
  BY <1>1, RealReadsBack
<1> QED
  BY <1>1, <1>4, <1>5

\* The bytes up to the first NUL, and zeros behind it, read as before.
LEMMA WriteBackOfData ==
  ASSUME TypeOK, WriteBack, shown = Reading, kind = "Data"
  PROVE  \A i \in Cells : Reading'[i] = Reading[i]
<1>1. /\ Reading = [i \in Cells |-> IF \E j \in 1 .. i : raw[j] = 0 THEN 0 ELSE raw[i]]
      /\ Reading' = [i \in Cells |-> IF \E j \in 1 .. i : raw'[j] = 0 THEN 0 ELSE raw'[i]]
  BY DEF Reading, IntegerKinds, WriteBack, SetValue, Cells
<1>2. SetData(Shown) /\ Shown.bytes = [i \in {j \in Cells : Reading[j] # 0} |-> Reading[i]]
  BY <1>1 DEF WriteBack, SetValue, Arrays, FFKinds, Shown
<1>3. Cells = 1 .. Size /\ Size \in Nat
  BY WidthAssumption DEF Cells, CellsOf
<1>4. raw' = [i \in Cells |-> Reading[i]]
  <2> DEFINE bytes == [i \in Cells |-> IF i \in DOMAIN Shown.bytes THEN Shown.bytes[i] ELSE 0]
  <2>1. bytes = [i \in Cells |-> Reading[i]]
    BY <1>2
  <2>2. raw' = Placed(raw, 0, bytes)
    BY <1>2 DEF SetData, Put
  <2>3. DOMAIN bytes = Cells /\ \A i \in Cells : i - 0 = i
    BY <1>3
  <2> HIDE DEF bytes
  <2>4. raw' = [i \in Cells |-> bytes[i]]
    BY <2>2, <2>3 DEF Placed
  <2> QED
    BY <2>1, <2>4
<1>5. ASSUME NEW i \in Cells, NEW j \in 1 .. i, Reading[j] = 0
      PROVE  Reading[i] = 0
  <2>1. j \in Cells
    BY <1>3, <1>5
  <2>2. PICK k \in 1 .. j : raw[k] = 0
    BY <1>1, <1>5, <2>1
  <2>3. k \in 1 .. i
    BY <1>3, <1>5, <2>1, <2>2
  <2> QED
    BY <1>1, <2>2, <2>3
<1>6. ASSUME NEW i \in Cells
      PROVE  Reading'[i] = Reading[i]
  <2>1. \A j \in 1 .. i : raw'[j] = Reading[j]
    BY <1>3, <1>4, <1>6
  <2>2. raw'[i] = Reading[i] /\ Reading'[i] = IF \E j \in 1 .. i : raw'[j] = 0 THEN 0 ELSE raw'[i]
    BY <1>1, <1>4, <1>6
  <2>3. CASE \E j \in 1 .. i : Reading[j] = 0
    BY <1>5, <1>6, <2>1, <2>2, <2>3
  <2>4. CASE ~ \E j \in 1 .. i : Reading[j] = 0
    BY <2>1, <2>2, <2>4
  <2> QED
    BY <2>3, <2>4
<1> QED
  BY <1>6

LEMMA WriteBackOfFF ==
  ASSUME TypeOK, ShownIsRead, WriteBack, shown = Reading, kind \in FFKinds, factor = Den
  PROVE  \A i \in Cells : raw'[i] = raw[i]
<1>1. /\ Cells = 1 .. 1 /\ kind \notin Arrays /\ kind # "Data"
      /\ kind \in IntegerKinds => Stoi(Shown) = shown[1]
      /\ kind \notin IntegerKinds => Shown.num = shown[1]
      /\ SetFF(Shown)
  BY ShownScalar DEF WriteBack, SetValue, Arrays, FFKinds
<1>2. shown[1] = raw[1]
  <2>1. raw[1] \in CellValues(kind)
    BY <1>1 DEF TypeOK
  <2>2. Reading[1] = ReadCell(raw[1])
    BY <1>1 DEF Reading, ReadCell
  <2> QED
    BY <2>1, <2>2, FactorOne
<1>3. CASE Ignore \/ Throw \/ Drop(0, <<Stoi(Shown)>>, FormOf(Shown))
  BY <1>3 DEF Ignore, Throw, Drop
<1>4. CASE Put(0, <<raw[1]>>, 0, <<raw[1]>>, FormOf(Shown))
  BY <1>1, <1>4 DEF Put, Placed
<1> QED
  BY <1>1, <1>2, <1>3, <1>4 DEF SetFF, IntegerKinds, FFKinds

LEMMA WriteBackKeeps ==
  ASSUME IInv, WriteBack, shown = Reading, kind \notin Arrays,
         kind \in IntegerKinds => \A i \in Cells : raw[i] * IntFactor \in Ints,
         kind \in FFKinds => factor = Den
  PROVE  \A i \in Cells : IF kind = "Real" THEN ReadsBack(Reading'[i], Reading[i])
                          ELSE Reading'[i] = Reading[i]
<1>1. TypeOK /\ CellsHoldLast /\ ShownIsRead
  BY DEF IInv
<1>2. raw' \in [Cells -> CellValues(kind)] /\ UNCHANGED <<kind, factor>>
  BY <1>1, ShownIsSettable, SetValueKeeps DEF WriteBack, CellsKept
<1>3. CASE kind = "Real"
  BY <1>1, <1>3, WriteBackOfReal
<1>4. CASE kind = "Data"
  BY <1>1, <1>4, WriteBackOfData
<1>5. CASE kind \in {"Int"} \cup FFKinds
  <2>1. \A i \in Cells : raw'[i] = raw[i]
    BY <1>1, <1>5, WriteBackOfInt, WriteBackOfFF DEF IntegerKinds
  <2>2. Reading' = Reading
    BY <1>1, <1>2, <2>1, SameCells
  <2> QED
    BY <1>5, <2>2 DEF FFKinds
<1>6. kind \in {"Int", "Real", "Data"} \cup FFKinds
  BY <1>1, KindsAssumption DEF TypeOK, IntegerKinds, Arrays, FFKinds
<1> QED
  BY <1>3, <1>4, <1>5, <1>6

\* A client that sets what it has just read changes no reading of bytes, also with
\* a NUL among them, of an int whose product with its factor did not overflow, of
\* a FlightFactor value with the factor 1; of a real no more than the division by
\* the factor cuts off.  Of arrays nothing is proved: setting back their text ends
\* the process.
THEOREM WritingBackKeepsReading == Spec => WriteBackKeepsReading
<1>1. IInv /\ [Next]_vars =>
        [WriteBack /\ shown = Reading /\ kind \notin Arrays
           /\ (kind \in IntegerKinds => \A i \in Cells : raw[i] * IntFactor \in Ints)
           /\ (kind \in FFKinds => factor = Den)
         => \A i \in Cells : IF kind = "Real" THEN ReadsBack(Reading'[i], Reading[i])
                            ELSE Reading'[i] = Reading[i]]_vars
  BY WriteBackKeeps
<1> QED
  BY <1>1, ValueInvariant, PTL DEF Spec, WriteBackKeepsReading

=============================================================================
