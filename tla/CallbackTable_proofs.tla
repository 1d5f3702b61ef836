-------------------------- MODULE CallbackTable_proofs --------------------------
(***************************************************************************)
(* The table of operations, for every set of DLLs and whatever they offer. *)
(*                                                                         *)
(* The inductive invariant adds to the properties why no DLL comes before  *)
(* the default one: the table of a manager is empty, and LOAD_DLL unknown, *)
(* or the default DLL has already filled in all it offers (DefaultsFirst); *)
(* and before the first manager there is nothing in it.                    *)
(***************************************************************************)
EXTENDS CallbackTable, WellFoundedInduction, TLAPS

Offered == {o \in Ops : Entries(DefaultDll, o) # {}}

DefaultsFirst ==
  \/ Known = {}
  \/ \A o \in Offered : o \in Known /\ table[o].dll = DefaultDll

NoManagerNoTable == manager = 0 => Known = {}

IInv == TypeOK /\ HandlersAreLoaded /\ DefaultsFirst /\ NoManagerNoTable

-----------------------------------------------------------------------------

\* A set of indices has a first one.
LEMMA FirstIsFirst ==
  ASSUME NEW S \in SUBSET Nat, S # {}
  PROVE  First(S) \in S /\ \A j \in S : First(S) <= j
<1> DEFINE R == {ss \in Nat \X Nat : ss[1] < ss[2]}
<1>1. IsWellFoundedOn(R, Nat)
  BY NatLessThanWellFounded, Zenon DEF OpToRel
<1> HIDE DEF R
<1>2. PICK i \in S : \A j \in S : <<j, i>> \notin R
  BY <1>1, WFMin
<1>3. \A j \in S : ~(j < i)
  BY <1>2 DEF R
<1>4. \A j \in S : i <= j
  BY <1>3
<1> QED
  BY <1>4 DEF First

\* What AppendCallback is given for an operation is a function that was found.
LEMMA FirstIsHandler ==
  ASSUME NEW d \in Dlls, NEW o \in Ops, Entries(d, o) # {}
  PROVE  [dll |-> d, index |-> First(Entries(d, o))] \in Handler
<1>1. DOMAIN Offers[d] \subseteq Nat
  BY DllsAssumption
<1>2. First(Entries(d, o)) \in Entries(d, o)
  BY <1>1, FirstIsFirst DEF Entries
<1>3. /\ First(Entries(d, o)) \in DOMAIN Offers[d]
      /\ Offers[d][First(Entries(d, o))].resolved
  BY <1>2 DEF Entries
<1> QED
  BY <1>3 DEF Handler

LEMMA AppendedIsTable ==
  ASSUME NEW t \in [Ops -> Handler \cup {None}], NEW d \in Dlls
  PROVE  Appended(t, d) \in [Ops -> Handler \cup {None}]
BY FirstIsHandler DEF Appended

\* It replaces nothing, and what it adds is from d.
LEMMA AppendedKeeps ==
  ASSUME NEW t \in [Ops -> Handler \cup {None}], NEW d \in Dlls, NEW o \in Ops
  PROVE  /\ t[o] # None => Appended(t, d)[o] = t[o]
         /\ t[o] = None /\ Appended(t, d)[o] # None => Appended(t, d)[o].dll = d
         /\ t[o] = None /\ Entries(d, o) # {} => /\ Appended(t, d)[o] # None
                                                /\ Appended(t, d)[o].dll = d
<1>1. Appended(t, d)[o] = IF t[o] # None \/ Entries(d, o) = {} THEN t[o]
                          ELSE [dll |-> d, index |-> First(Entries(d, o))]
  BY DEF Appended
<1>2. CASE Entries(d, o) # {}
  <2>1. [dll |-> d, index |-> First(Entries(d, o))] \in Handler
    BY <1>2, FirstIsHandler
  <2>2. [dll |-> d, index |-> First(Entries(d, o))] # None
    <3> DEFINE h == [dll |-> d, index |-> First(Entries(d, o))]
    <3>1. h \in Handler
      BY <2>1
    <3> HIDE DEF h
    <3>2. h # None
      BY <3>1, NoneAssumption
    <3> QED
      BY <3>2 DEF h
  <2>3. CASE t[o] = None
    BY <1>1, <1>2, <2>1, <2>2, <2>3
  <2>4. CASE t[o] # None
    BY <1>1, <2>4
  <2> QED
    BY <2>3, <2>4
<1> QED
  BY <1>1, <1>2

LEMMA EmptyIsTable == EmptyTable \in [Ops -> Handler \cup {None}]
BY DEF EmptyTable

-----------------------------------------------------------------------------

\* LoadCallbackDLL on the table t, the manager's or an empty one.
LEMMA LoadKeeps ==
  ASSUME IInv, NEW t \in {table, EmptyTable}, NEW d \in Dlls, LoadCallbackDLL(t, d)
  PROVE  /\ hDLL' \in Dlls \cup {None} /\ refs' \in [Dlls -> Nat]
         /\ table' \in [Ops -> Handler \cup {None}]
         /\ HandlersAreLoaded'
         /\ table' \in {t, Appended(t, d)}
<1> USE DEF IInv
<1>1. t \in [Ops -> Handler \cup {None}]
  BY EmptyIsTable DEF TypeOK
<1>2. table' \in {t, Appended(t, d)}
  BY DEF LoadCallbackDLL
<1>3. table' \in [Ops -> Handler \cup {None}]
  BY <1>1, <1>2, AppendedIsTable
<1>4. /\ hDLL' \in Dlls \cup {None} /\ refs' \in [Dlls -> Nat]
      /\ \A e \in Dlls : refs'[e] >= refs[e]
      /\ table' = Appended(t, d) => table' = t \/ refs'[d] > 0
  BY DEF TypeOK, LoadCallbackDLL, LoadLibrary
<1>5. HandlersAreLoaded'
  <2> SUFFICES ASSUME NEW o \in Ops, table'[o] # None PROVE refs'[table'[o].dll] > 0
    BY DEF HandlersAreLoaded, Known
  <2>1. CASE t[o] = None
    <3>1. table' = Appended(t, d) /\ table' # t
      BY <1>2, <2>1
    <3>2. table'[o].dll = d
      BY <1>1, <2>1, <3>1, AppendedKeeps
    <3> QED
      BY <1>4, <3>1, <3>2
  <2>2. CASE t[o] # None
    <3>1. t = table
      BY <2>2 DEF EmptyTable
    <3>2. table'[o] = table[o]
      BY <1>1, <1>2, <2>2, <3>1, AppendedKeeps
    <3>3. table[o].dll \in Dlls /\ refs[table[o].dll] > 0
      BY <2>2, <3>1 DEF TypeOK, Handler, HandlersAreLoaded, Known
    <3> QED
      BY <1>4, <3>2, <3>3 DEF TypeOK
  <2> QED
    BY <2>1, <2>2
<1> QED
  BY <1>2, <1>3, <1>4, <1>5

LEMMA InitIInv == Init => IInv
<1> SUFFICES ASSUME Init PROVE IInv
  OBVIOUS
<1>1. Known = {}
  BY DEF Init, Known, EmptyTable
<1>2. table \in [Ops -> Handler \cup {None}]
  BY EmptyIsTable DEF Init
<1>3. refs \in [Dlls -> Nat] /\ hDLL \in Dlls \cup {None}
  BY DEF Init
<1>4. manager \in Nat
  BY DEF Init
<1>5. aborted \in BOOLEAN
  BY DEF Init
<1>6. TypeOK
  BY <1>2, <1>3, <1>4, <1>5 DEF TypeOK
<1> QED
  BY <1>1, <1>6 DEF IInv, HandlersAreLoaded, DefaultsFirst, NoManagerNoTable

LEMMA EnableIInv ==
  ASSUME IInv, XPluginEnable
  PROVE  IInv'
<1>0. manager' # 0
  BY DEF IInv, TypeOK, XPluginEnable
<1>1. DefaultDll \in Dlls /\ LoadCallbackDLL(EmptyTable, DefaultDll)
  BY DllsAssumption DEF XPluginEnable
<1>2. TypeOK' /\ HandlersAreLoaded' /\ table' \in {EmptyTable, Appended(EmptyTable, DefaultDll)}
  BY <1>1, LoadKeeps DEF IInv, TypeOK, XPluginEnable
<1>3. CASE table' = EmptyTable
  BY <1>0, <1>2, <1>3 DEF IInv, DefaultsFirst, Known, EmptyTable, NoManagerNoTable
<1>4. CASE table' = Appended(EmptyTable, DefaultDll)
  <2>1. \A o \in Offered : table'[o] # None /\ table'[o].dll = DefaultDll
    BY <1>1, <1>4, EmptyIsTable, AppendedKeeps DEF Offered, EmptyTable
  <2> QED
    BY <1>0, <1>2, <2>1 DEF IInv, DefaultsFirst, Known, Offered, NoManagerNoTable
<1> QED
  BY <1>2, <1>3, <1>4

\* LOAD_DLL is known only to a table that the default DLL has filled.
LEMMA LoadIInv ==
  ASSUME IInv, NEW d \in Dlls, LoadDll(d)
  PROVE  IInv' /\ manager' = manager /\ \A o \in Known : table'[o] = table[o]
<1>1. LoadCallbackDLL(table, d) /\ Known # {}
  BY DEF LoadDll
<1>2. TypeOK' /\ HandlersAreLoaded' /\ table' \in {table, Appended(table, d)}
  BY <1>1, LoadKeeps DEF IInv, TypeOK, LoadDll
<1>3. \A o \in Known : table'[o] = table[o]
  BY <1>2, AppendedKeeps DEF IInv, TypeOK, Known
<1>4. \A o \in Offered : table'[o] # None /\ table'[o].dll = DefaultDll
  BY <1>1, <1>3 DEF IInv, DefaultsFirst, Known
<1> QED
  BY <1>2, <1>3, <1>4 DEF IInv, DefaultsFirst, Known, Offered, LoadDll, NoManagerNoTable

\* An empty table has nothing to run.
LEMMA EmptyIInv ==
  ASSUME IInv, Unloaded \/ NewProcess
  PROVE  IInv' /\ (manager' = manager => \A o \in Known : table'[o] = table[o])
<1>1. TypeOK'
  <2>1. manager' \in Nat /\ hDLL' \in Dlls \cup {None}
    BY DEF Unloaded, NewProcess
  <2>2. refs' \in [Dlls -> Nat]
    BY DEF Unloaded, NewProcess, IInv, TypeOK
  <2>3. aborted' \in BOOLEAN
    <3>1. CASE aborted' = aborted
      BY <3>1 DEF IInv, TypeOK
    <3>2. CASE aborted' = FALSE
      BY <3>2
    <3> QED
      BY <3>1, <3>2 DEF Unloaded, NewProcess
  <2>4. table' \in [Ops -> Handler \cup {None}]
    BY EmptyIsTable DEF Unloaded, NewProcess
  <2> QED
    BY <2>1, <2>2, <2>3, <2>4 DEF TypeOK
<1>2. Known' = {} /\ manager' = 0
  BY DEF Unloaded, NewProcess, Known, EmptyTable
<1> QED
  BY <1>1, <1>2 DEF IInv, HandlersAreLoaded, DefaultsFirst, NoManagerNoTable

\* One step, with what it does to the operations of the manager in use.
LEMMA NextIInv ==
  ASSUME IInv, [Next]_vars
  PROVE  IInv' /\ (manager' = manager => \A o \in Known : table'[o] = table[o])
<1>1. CASE UNCHANGED vars \/ OtherOperation \/ ProcessEnds
  BY <1>1 DEF vars, OtherOperation, ProcessEnds, IInv, TypeOK, HandlersAreLoaded,
              DefaultsFirst, Known, NoManagerNoTable
<1>2. CASE XPluginEnable
  BY <1>2, EnableIInv DEF XPluginEnable, IInv, TypeOK
<1>3. ASSUME NEW d \in Dlls, LoadDll(d)
      PROVE  IInv' /\ (manager' = manager => \A o \in Known : table'[o] = table[o])
  BY <1>3, LoadIInv
<1>4. CASE Unloaded \/ NewProcess
  BY <1>4, EmptyIInv
<1> QED
  BY <1>1, <1>2, <1>3, <1>4 DEF Next

LEMMA Invariance == Spec => []IInv
<1>1. IInv /\ [Next]_vars => IInv'
  BY NextIInv
<1> QED
  BY <1>1, InitIInv, PTL DEF Spec

\* The table holds callbacks of the DLLs, and none that is a null pointer.
THEOREM TableTypeCorrect == Spec => []TypeOK
BY Invariance, PTL DEF IInv

\* No operation ever runs code of a DLL that is not loaded.
THEOREM NoHandlerIsUnloaded == Spec => []HandlersAreLoaded
BY Invariance, PTL DEF IInv

\* No DLL, whenever it is loaded, runs an operation the default DLL offers.
THEOREM DefaultsAreNeverOverridden == Spec => []DefaultsPrevail
<1>1. IInv => DefaultsPrevail
  BY DEF IInv, DefaultsFirst, DefaultsPrevail, Offered, Known
<1> QED
  BY <1>1, Invariance, PTL

\* A handler stays where it is for as long as its manager is in use.
THEOREM HandlersAreFinal == Spec => FirstHandlerStays
<1>1. IInv /\ [Next]_vars
        => [manager' = manager => \A o \in Known : table'[o] = table[o]]_vars
  BY NextIInv
<1> QED
  BY <1>1, Invariance, PTL DEF Spec, FirstHandlerStays
=============================================================================
