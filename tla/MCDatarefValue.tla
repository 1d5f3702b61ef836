----------------------------- MODULE MCDatarefValue -----------------------------
(* Instances of DatarefValue for TLC: four-bit integers, factors 1/2, 1, 3/2,  *)
(* 2, 10/3, -1 and one that is no number.  Of them only 10/3 cuts reals off.   *)
EXTENDS DatarefValue

Whole(n) == [form |-> "number", whole |-> TRUE, num |-> n * Den]
Point(n) == [form |-> "number", whole |-> FALSE, num |-> n]
Word(b) == [form |-> "word", bytes |-> b]
Quoted(t) == [form |-> "quoted", of |-> t]
Array(s) == [form |-> "array", items |-> s]
Object(v, o) == [form |-> "object", value |-> v, offset |-> o]

Json(k, t) == [json |-> k, text |-> t]
Any == Json("other", Word(<<>>))

SomeFactors == {3, 6, 9, 12, 20, -6, NotNumber}
WholeFactors == {6, 12}

\* In and out of the range of int and of unsigned int, as numbers and strings.
Numbers ==
  {Json("number", Whole(n)) : n \in {-9, -8, -3, 0, 5, 7, 8, 17}}
    \cup {Json("string", Whole(n)) : n \in {-9, -8, 3, 8}}
    \cup {Json("number", Point(18)), Json("string", Point(-18)), Json("string", Word(<<1>>)), Any}

\* Strings, fewer and more than there are cells, and items that are none.
ArrayTexts ==
  { Array(<<Quoted(Whole(3)), Quoted(Whole(-2))>>),
    Array(<<Quoted(Whole(1)), Quoted(Whole(2)), Quoted(Whole(3)), Quoted(Whole(4))>>),
    Array(<<Quoted(Whole(1)), Whole(2)>>), Array(<<Quoted(Word(<<1>>))>>) }

Offsets == {None, Whole(1), Quoted(Whole(1)), Quoted(Whole(2)), Quoted(Whole(7)), Quoted(Word(<<1>>))}

\* Each form at an offset, and each offset with an array.
Objects ==
  {Object(None, None)}
    \cup {Object(Array(<<Quoted(Whole(3)), Quoted(Whole(-2))>>), o) : o \in Offsets}
    \cup {Object(v, Quoted(Whole(2))) : v \in {Whole(-3), Quoted(Whole(3)), Point(18), Quoted(Word(<<1>>))}}

Containers ==
  {Json("container", t) : t \in ArrayTexts \cup Objects}
    \cup {Json("number", Whole(-3)), Json("number", Whole(10)), Json("number", Point(18)),
          Json("string", Word(<<1>>)), Any}

Bytes == {Json("string", Word(b)) : b \in {<<>>, <<1>>, <<2, 1>>, <<1, 2, 2>>, <<2, 0, 1>>, <<2, 1, 1, 2>>}} \cup {Any}

SomeInputs ==
  [k \in Kinds |-> CASE k \in Arrays -> Containers [] k = "Data" -> Bytes [] OTHER -> Numbers]

SomeCells ==
  [k \in Kinds |->
     CASE k = "IntArray" -> {<<0, 1, -8>>, <<7, 2, 0>>}
       [] k = "FloatArray" -> {<<0, 12, -36>>}
       [] k = "Data" -> {<<0, 0, 0>>, <<1, 0, 2>>, <<2, 2, 1>>}
       [] k \in {"Real", "FFReal"} -> {<<0>>, <<12>>, <<-36>>}
       [] OTHER -> {<<n>> : n \in Ints}]
=============================================================================
