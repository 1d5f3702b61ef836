------------------------- MODULE DatarefRegistry_safety -------------------------
(***************************************************************************)
(* What a step of DatarefRegistry may never do, and the counter: theorems  *)
(* for every set of names, links, values, objects, files and requests.     *)
(*                                                                         *)
(* The action properties need the invariant IInv of DatarefRegistry_proofs: *)
(* a name keeps its dataref because the object it points to is live, so    *)
(* that no new one is built in its place.                                  *)
(***************************************************************************)
EXTENDS DatarefRegistry_proofs, FiniteSetTheorems

-----------------------------------------------------------------------------
(* Steps that leave the maps alone.                                        *)

\* The maps stay, and so do the objects but for what FlightFactor targets note.
MapsStay ==
  /\ UNCHANGED <<named, subscribed, count, constants>>
  /\ \A o \in Objects : heap[o] # None => SameDataref(heap[o], heap'[o])

LEMMA UnchangedMapsStay == ASSUME IInv, UNCHANGED regVars PROVE MapsStay
BY DEF regVars, MapsStay, SameDataref

LEMMA AbortMapsStay == ASSUME IInv, Abort PROVE MapsStay
BY UnchangedMapsStay DEF Abort

LEMMA IgnoredMapsStay == ASSUME IInv, Ignored PROVE MapsStay
BY UnchangedMapsStay DEF Ignored

LEMMA RefusedMapsStay == ASSUME IInv, NEW args, Refused(args) PROVE MapsStay
BY AbortMapsStay, IgnoredMapsStay DEF Refused

LEMMA SetXPLMMapsStay == ASSUME IInv, NEW d, NEW v, SetXPLM(d, v) PROVE MapsStay
BY AbortMapsStay, UnchangedMapsStay DEF SetXPLM

\* Noting a target in an object leaves it the dataref it was.
LEMMA SetFFMapsStay ==
  ASSUME IInv, NEW o \in Objects, heap[o] # None, NEW v \in Values, SetFF(o, v)
  PROVE  MapsStay
<1>1. heap[o] \in Dataref
  BY DEF IInv, TypeOK
<1> DEFINE d == [heap[o] EXCEPT !.target = v, !.needUpdate = TRUE]
<1>2. /\ d \in Dataref /\ d.kind = heap[o].kind /\ d.link = heap[o].link
      /\ d.found = heap[o].found /\ d.type = heap[o].type
  BY <1>1 DEF Dataref
<1>3. d # None
  BY <1>2, NoneAssumption
<1>4. heap' = [heap EXCEPT ![o] = d]
  BY DEF SetFF, IInv, TypeOK
<1> HIDE DEF d
<1>5. ASSUME NEW a \in Objects, heap[a] # None PROVE SameDataref(heap[a], heap'[a])
  BY <1>2, <1>3, <1>4, <1>5 DEF SameDataref, IInv, TypeOK
<1> QED
  BY <1>5 DEF MapsStay, SetFF

LEMMA SetRegisterDatarefValueMapsStay ==
  ASSUME IInv, NEW n \in NameArgs, NEW v \in ValueArgs, SetRegisterDatarefValue(n, v)
  PROVE  MapsStay
<1>1. CASE Refused({n}) \/ Ignored
  BY <1>1, RefusedMapsStay, IgnoredMapsStay
<1>2. CASE /\ Complete({n, v}) /\ named[n] # None
           /\ \/ heap[named[n]].kind = "XPLM" /\ SetXPLM(heap[named[n]], v)
              \/ heap[named[n]].kind = "FF" /\ SetFF(named[n], v)
  <2>1. n \in Names /\ v \in Values
    BY <1>2, CompleteArgs
  <2>2. named[n] \in Objects /\ heap[named[n]] # None
    BY <1>2, <2>1 DEF IInv, TypeOK, PointersAreLive
  <2> QED
    BY <1>2, <2>1, <2>2, SetXPLMMapsStay, SetFFMapsStay
<1> QED
  BY <1>1, <1>2 DEF SetRegisterDatarefValue

LEMMA InitFF320InterfaceMapsStay ==
  ASSUME IInv, InitFF320Interface
  PROVE  MapsStay
BY IgnoredMapsStay, AbortMapsStay, UnchangedMapsStay DEF InitFF320Interface

LEMMA FF320_CallbackMapsStay ==
  ASSUME IInv, FF320_Callback
  PROVE  MapsStay
<1>1. CASE Abort
  BY <1>1, AbortMapsStay
<1>2. CASE heap' = ConstantHeap /\ UNCHANGED <<named, subscribed, count, constants>>
  BY <1>2, ConstantHeapType DEF MapsStay, SameDataref, IInv
<1> QED
  BY <1>1, <1>2 DEF FF320_Callback

-----------------------------------------------------------------------------
(* The requests that change the maps.                                      *)

\* A registered name keeps its object, and the object what it was built as.
NamesKept ==
  \A n \in Names : named[n] # None /\ named'[n] # None =>
    named'[n] = named[n] /\ SameDataref(heap[named[n]], heap'[named[n]])

\* The counter changes at least as much as the subscriptions.
CountKept ==
  \/ UNCHANGED <<subscribed, count>>
  \/ \E n \in Names : RemoveSubscribedDataref(n)
  \/ \E n \in Names : Subscribed' \subseteq Subscribed \cup {n} /\ count' = count + 1
  \/ \E f \in Files : Subscribed' \subseteq Subscribed \cup NamesIn(f)
                      /\ count' = count + Len(f)

Kept == NamesKept /\ CountKept

LEMMA MapsStayKept == ASSUME IInv, MapsStay PROVE Kept
BY DEF MapsStay, Kept, NamesKept, CountKept, IInv, PointersAreLive, TypeOK

\* emplace of a new object under a name that was free, in a cell that was free.
LEMMA EmplaceKept ==
  ASSUME IInv, NEW n \in Names, NEW o \in FreeObjects, NEW d, named[n] = None,
         named' = [named EXCEPT ![n] = o], heap' = [heap EXCEPT ![o] = d],
         UNCHANGED <<subscribed, count, constants>>
  PROVE  Kept
<1>1. NamesKept
  <2> SUFFICES ASSUME NEW m \in Names, named[m] # None
               PROVE  named'[m] = named[m] /\ SameDataref(heap[named[m]], heap'[named[m]])
    BY DEF NamesKept
  <2>1. named[m] \in Objects /\ heap[named[m]] # None
    BY DEF IInv, TypeOK, PointersAreLive
  <2>2. heap'[named[m]] = heap[named[m]]
    BY <2>1 DEF FreeObjects, IInv, TypeOK
  <2> QED
    BY <2>1, <2>2 DEF SameDataref, IInv, TypeOK
<1> QED
  BY <1>1 DEF Kept, CountKept

LEMMA RegisterDatarefKept ==
  ASSUME IInv, NEW n \in NameArgs, NEW l \in LinkArgs, NEW t \in ReqTypes,
         RegisterDataref(n, l, t)
  PROVE  Kept
<1>1. CASE Refused({n, l}) \/ Ignored
  BY <1>1, RefusedMapsStay, IgnoredMapsStay, MapsStayKept
<1>2. CASE /\ Complete({n, l}) /\ Vacant(n)
           /\ \E o \in FreeObjects :
                /\ named' = [named EXCEPT ![n] = o]
                /\ heap' = [heap EXCEPT ![o] = NewDataref(l, TypeFor(l, t))]
           /\ UNCHANGED <<subscribed, count, constants>>
  BY <1>2, CompleteArgs, EmplaceKept DEF Vacant
<1> QED
  BY <1>1, <1>2 DEF RegisterDataref

LEMMA RegisterFFDatarefKept ==
  ASSUME IInv, NEW n \in NameArgs, NEW l \in LinkArgs, RegisterFFDataref(n, l)
  PROVE  Kept
<1>1. CASE InitFF320Interface \/ Refused({n, l}) \/ Abort \/ Ignored
  BY <1>1, InitFF320InterfaceMapsStay, RefusedMapsStay, AbortMapsStay, IgnoredMapsStay,
     MapsStayKept
<1>2. CASE /\ Complete({n, l}) /\ Vacant(n)
           /\ \E o \in FreeObjects :
                /\ named' = [named EXCEPT ![n] = o]
                /\ heap' = [heap EXCEPT ![o] = NewFFDataref(l)]
           /\ UNCHANGED <<subscribed, count, constants>>
  BY <1>2, CompleteArgs, EmplaceKept DEF Vacant
<1> QED
  BY <1>1, <1>2 DEF RegisterFFDataref

\* UNREG_DATA leaks only what no map reaches any more.
LEMMA UnregisterDatarefKept ==
  ASSUME IInv, NEW n \in NameArgs, UnregisterDataref(n)
  PROVE  Kept
<1>1. CASE Refused({n}) \/ Ignored
  BY <1>1, RefusedMapsStay, IgnoredMapsStay, MapsStayKept
<1>2. CASE /\ Complete({n}) /\ named[n] # None
           /\ named' = [named EXCEPT ![n] = None]
           /\ RemoveSubscribedDataref(n)
           /\ heap' = [o \in Objects |->
                         IF o \in Reachable(named', subscribed', constants)
                         THEN heap[o] ELSE None]
           /\ UNCHANGED constants
  <2>1. n \in Names
    BY <1>2, CompleteArgs
  <2>2. ASSUME NEW m \in Names, named[m] # None, named'[m] # None
        PROVE  named'[m] = named[m] /\ SameDataref(heap[named[m]], heap'[named[m]])
    <3>1. named'[m] = named[m] /\ named[m] \in Objects /\ heap[named[m]] # None
      BY <1>2, <2>1, <2>2 DEF IInv, TypeOK, PointersAreLive
    <3>2. named[m] \in Reachable(named', subscribed', constants)
      BY <3>1 DEF Reachable
    <3> QED
      BY <1>2, <3>1, <3>2 DEF SameDataref
  <2> QED
    BY <1>2, <2>1, <2>2 DEF Kept, NamesKept, CountKept
<1> QED
  BY <1>1, <1>2 DEF UnregisterDataref

LEMMA SubscribeDatarefKept ==
  ASSUME IInv, NEW n \in NameArgs, SubscribeDataref(n)
  PROVE  Kept
<1>1. CASE Refused({n}) \/ Ignored
  BY <1>1, RefusedMapsStay, IgnoredMapsStay, MapsStayKept
<1>2. CASE /\ Complete({n})
           /\ subscribed' = [subscribed EXCEPT ![n] = IF @ = None THEN named[n] ELSE @]
           /\ count' = count + 1
           /\ UNCHANGED <<named, constants, heap>>
  <2>1. n \in Names
    BY <1>2, CompleteArgs
  <2>2. Subscribed' \subseteq Subscribed \cup {n}
    BY <1>2, <2>1 DEF Subscribed, IInv, TypeOK
  <2> QED
    BY <1>2, <2>1, <2>2
       DEF Kept, NamesKept, CountKept, SameDataref, IInv,
           PointersAreLive
<1> QED
  BY <1>1, <1>2 DEF SubscribeDataref

LEMMA UnsubscribeDatarefKept ==
  ASSUME IInv, NEW n \in NameArgs, UnsubscribeDataref(n)
  PROVE  Kept
<1>1. CASE Refused({n})
  BY <1>1, RefusedMapsStay, MapsStayKept
<1>2. CASE /\ Complete({n}) /\ RemoveSubscribedDataref(n)
           /\ UNCHANGED <<named, constants, heap>>
  BY <1>2, CompleteArgs
     DEF Kept, NamesKept, CountKept, SameDataref, IInv,
         PointersAreLive
<1> QED
  BY <1>1, <1>2 DEF UnsubscribeDataref

\* A file gives its names that are free objects of their own, and subscribes to
\* no other names.
LEMMA LoadRegisterDatarefKept ==
  ASSUME IInv, NEW f \in Files, LoadRegisterDataref(f)
  PROVE  Kept
<1>1. /\ subscribed' = [n \in Names |->
            IF n \in NamesIn(f) /\ subscribed[n] = None THEN named'[n] ELSE subscribed[n]]
      /\ count' = count + Len(f) /\ UNCHANGED constants
  BY DEF LoadRegisterDataref
<1>2. ASSUME NEW n \in Names, named[n] # None
      PROVE  named'[n] = named[n] /\ SameDataref(heap[named[n]], heap'[named[n]])
  <2>1. named[n] \in Objects /\ heap[named[n]] # None
    BY <1>2 DEF IInv, TypeOK, PointersAreLive
  <2>2. named'[n] = named[n] /\ heap'[named[n]] = heap[named[n]]
    BY <1>2, <2>1, LoadRegisters DEF Registered
  <2> QED
    BY <2>1, <2>2 DEF SameDataref
<1>3. Subscribed' \subseteq Subscribed \cup NamesIn(f)
  BY <1>1 DEF Subscribed
<1> QED
  BY <1>1, <1>2, <1>3 DEF Kept, NamesKept, CountKept

\* ADD_CONST leaves names, subscriptions and objects alone.
LEMMA AddConstantDatarefKept ==
  ASSUME IInv, NEW n \in NameArgs, NEW v \in ValueArgs, AddConstantDataref(n, v)
  PROVE  Kept
<1>1. CASE Refused({n, v}) \/ Ignored
  BY <1>1, RefusedMapsStay, IgnoredMapsStay, MapsStayKept
<1>2. CASE /\ Complete({n, v}) /\ named[n] # None
           /\ constants' = [constants EXCEPT ![n] = ConstantEntry(n, v)]
           /\ UNCHANGED <<named, subscribed, count, heap>>
  BY <1>2 DEF Kept, NamesKept, CountKept, SameDataref, IInv, PointersAreLive
<1> QED
  BY <1>1, <1>2 DEF AddConstantDataref

-----------------------------------------------------------------------------
(* Every step.                                                             *)

LEMMA RequestKept ==
  ASSUME IInv, Request
  PROVE  Kept
<1>1. CASE OtherRequest
  BY <1>1, IgnoredMapsStay, AbortMapsStay, MapsStayKept DEF OtherRequest
<1>2. CASE \E n \in NameArgs, l \in LinkArgs, t \in ReqTypes : RegisterDataref(n, l, t)
  BY <1>2, RegisterDatarefKept
<1>3. CASE \E n \in NameArgs : \/ UnregisterDataref(n)
                               \/ SubscribeDataref(n)
                               \/ UnsubscribeDataref(n)
  BY <1>3, UnregisterDatarefKept, SubscribeDatarefKept, UnsubscribeDatarefKept
<1>4. CASE \E n \in NameArgs : GetRegisterDatarefValue(n)
  BY <1>4, RefusedMapsStay, AbortMapsStay, IgnoredMapsStay, MapsStayKept
     DEF GetRegisterDatarefValue
<1>5. CASE \E n \in NameArgs, v \in ValueArgs : \/ SetRegisterDatarefValue(n, v)
                                                \/ AddConstantDataref(n, v)
  BY <1>5, SetRegisterDatarefValueMapsStay, MapsStayKept, AddConstantDatarefKept
<1>6. CASE \E l \in LinkArgs, t \in ReqTypes, v \in ValueArgs : SetDatarefValue(l, t, v)
  BY <1>6, IgnoredMapsStay, AbortMapsStay, SetXPLMMapsStay, MapsStayKept DEF SetDatarefValue
<1>7. CASE \E f \in Files : LoadRegisterDataref(f)
  BY <1>7, LoadRegisterDatarefKept
<1>8. CASE InitFlightFactorA320
  BY <1>8, InitFF320InterfaceMapsStay, MapsStayKept DEF InitFlightFactorA320
<1>9. CASE \E n \in NameArgs, l \in LinkArgs : RegisterFFDataref(n, l)
  BY <1>9, RegisterFFDatarefKept
<1> QED
  BY <1>1, <1>2, <1>3, <1>4, <1>5, <1>6, <1>7, <1>8, <1>9 DEF Request

LEMMA StepKept == IInv /\ [Next]_vars => Kept
<1> SUFFICES ASSUME IInv, [Next]_vars PROVE Kept
  OBVIOUS
<1>1. CASE Request
  BY <1>1, RequestKept
<1>2. CASE ConstantsAbort \/ NothingReceived
  BY <1>2, AbortMapsStay, IgnoredMapsStay, MapsStayKept DEF ConstantsAbort, NothingReceived
<1>3. CASE FF320_Callback
  BY <1>3, FF320_CallbackMapsStay, MapsStayKept
<1>4. CASE UNCHANGED vars
  BY <1>4, UnchangedMapsStay, MapsStayKept DEF vars
<1>5. CASE ExportSubscribedDataref
  BY <1>4, <1>5, AbortMapsStay, MapsStayKept DEF ExportSubscribedDataref
<1>6. CASE Simulator
  BY <1>6, UnchangedMapsStay, MapsStayKept
     DEF Simulator, SimulatorWrites, Publish, SwapAircraft
<1> QED
  BY <1>1, <1>2, <1>3, <1>4, <1>5, <1>6 DEF Next, NetworkCallback

-----------------------------------------------------------------------------

\* A registered name keeps its dataref until UNREG_DATA, whatever is registered,
\* loaded, set or held constant meanwhile: the object it points to is live, and
\* new ones are built in other places.
THEOREM NamesKeepTheirDatarefs == Spec => NamesAreNeverRetargeted
<1>1. Spec => []IInv
  BY InitHolds, NextKeeps, PTL DEF Spec
<1>2. IInv /\ [Next]_vars =>
        [\A n \in Names : named[n] # None /\ named'[n] # None =>
           named'[n] = named[n] /\ SameDataref(heap[named[n]], heap'[named[n]])]_vars
  BY StepKept DEF Kept, NamesKept
<1> QED
  BY <1>1, <1>2, PTL DEF Spec, NamesAreNeverRetargeted

\* Whether the constants throw depends on nothing the simulator writes.
LEMMA SimulatorKeepsPoison ==
  ASSUME ConstantsThrow, ~FFEnabled, Simulator
  PROVE  ConstantsThrow' /\ ~FFEnabled'
<1>1. UNCHANGED regVars
  BY DEF Simulator, SimulatorWrites, Publish, SwapAircraft
<1>2. ConstantsThrow'
  BY <1>1 DEF ConstantsThrow, Constants, Throws, Reaches, regVars
<1>3. ~FFEnabled'
  BY DEF Simulator, SimulatorWrites, Publish, SwapAircraft, FFEnabled, ffVars
<1> QED
  BY <1>2, <1>3

\* No step but the exception is taken while a constant throws and the interface
\* is not enabled: every request, and the callback of the add-on, comes after
\* the constants.
LEMMA PoisonStep ==
  ASSUME [Next]_vars, ConstantsThrow, ~FFEnabled
  PROVE  aborted' \/ (ConstantsThrow' /\ ~FFEnabled')
<1>1. ~Polled
  BY DEF Polled
<1>2. CASE NothingReceived \/ Request
  BY <1>1, <1>2
     DEF NothingReceived, Request, OtherRequest, RegisterDataref, UnregisterDataref,
         SubscribeDataref, UnsubscribeDataref, GetRegisterDatarefValue,
         SetRegisterDatarefValue, AddConstantDataref, SetDatarefValue,
         LoadRegisterDataref, InitFlightFactorA320, RegisterFFDataref
<1>3. CASE ConstantsAbort \/ FF320_Callback
  BY <1>3 DEF ConstantsAbort, FF320_Callback, Abort
<1>4. CASE UNCHANGED vars
  BY <1>4 DEF vars, regVars, ffVars, ConstantsThrow, Constants, Throws, Reaches, FFEnabled
<1>5. CASE ExportSubscribedDataref
  BY <1>4, <1>5 DEF ExportSubscribedDataref, Abort
<1>6. CASE Simulator
  BY <1>6, SimulatorKeepsPoison
<1> QED
  BY <1>2, <1>3, <1>4, <1>5, <1>6 DEF Next, NetworkCallback

\* A constant its dataref rejects can only end the process.
THEOREM PoisonStays == Spec => PoisonIsIrreparable
<1>1. [Next]_vars =>
        [ConstantsThrow /\ ~FFEnabled => aborted' \/ (ConstantsThrow' /\ ~FFEnabled')]_vars
  BY PoisonStep
<1> QED
  BY <1>1, PTL DEF Spec, PoisonIsIrreparable

-----------------------------------------------------------------------------
(* The counter.                                                            *)

CountInv == IsFiniteSet(Subscribed) /\ CountCoversSubscriptions

\* A file names no more names than it has lines.
LEMMA NamesInFile ==
  ASSUME NEW f \in Files
  PROVE  IsFiniteSet(NamesIn(f)) /\ Cardinality(NamesIn(f)) <= Len(f) /\ Len(f) \in Nat
<1>1. f \in Seq(Line) /\ Len(f) \in Nat /\ DOMAIN f = 1..Len(f)
  BY RequestsAssumption
<1>2. IsFiniteSet(1..Len(f)) /\ Cardinality(1..Len(f)) = Len(f)
  BY <1>1, FS_Interval
<1> DEFINE g == [i \in 1..Len(f) |-> f[i].name]
<1>3. g \in Surjection(1..Len(f), NamesIn(f))
  BY <1>1 DEF Surjection, NamesIn
<1> QED
  BY <1>1, <1>2, <1>3, FS_Surjection

\* The subscriptions grow by no more than the counter.
LEMMA CountGrows ==
  ASSUME IInv, CountInv, NEW S, IsFiniteSet(S), NEW k \in Nat, Cardinality(S) <= k,
         Subscribed' \subseteq Subscribed \cup S, count' = count + k
  PROVE  CountInv'
<1>1. IsFiniteSet(Subscribed \cup S)
      /\ Cardinality(Subscribed \cup S) <= Cardinality(Subscribed) + Cardinality(S)
  <2>1. IsFiniteSet(Subscribed \cap S)
    BY FS_Subset
  <2>2. /\ Cardinality(Subscribed) \in Nat /\ Cardinality(S) \in Nat
        /\ Cardinality(Subscribed \cap S) \in Nat
    BY <2>1, FS_CardinalityType DEF CountInv
  <2>3. /\ IsFiniteSet(Subscribed \cup S)
        /\ Cardinality(Subscribed \cup S)
             = Cardinality(Subscribed) + Cardinality(S) - Cardinality(Subscribed \cap S)
    BY FS_Union DEF CountInv
  <2> QED
    BY <2>2, <2>3
<1>2. IsFiniteSet(Subscribed')
      /\ Cardinality(Subscribed') <= Cardinality(Subscribed \cup S)
  BY <1>1, FS_Subset
<1> QED
  BY <1>1, <1>2, FS_CardinalityType
     DEF CountInv, CountCoversSubscriptions, IInv, TypeOK

LEMMA CountRemoves ==
  ASSUME IInv, CountInv, NEW n \in Names, RemoveSubscribedDataref(n)
  PROVE  CountInv'
<1>1. CASE subscribed[n] = None
  <2>1. Subscribed' = Subscribed /\ count' = count
    BY <1>1 DEF Subscribed, RemoveSubscribedDataref, IInv, TypeOK
  <2> QED
    BY <2>1 DEF CountInv, CountCoversSubscriptions
<1>2. CASE subscribed[n] # None
  <2>1. /\ n \in Subscribed /\ Subscribed' = Subscribed \ {n}
        /\ count' = count - 1
    BY <1>2 DEF Subscribed, RemoveSubscribedDataref, IInv, TypeOK
  <2>2. IsFiniteSet(Subscribed') /\ Cardinality(Subscribed') = Cardinality(Subscribed) - 1
    BY <2>1, FS_RemoveElement DEF CountInv
  <2> QED
    BY <2>1, <2>2, FS_CardinalityType DEF CountInv, CountCoversSubscriptions, IInv, TypeOK
<1> QED
  BY <1>1, <1>2

\* The counter is never below the number of subscriptions, through repeated
\* subscriptions, files that name a name twice and removals of names that are
\* not subscribed.
THEOREM CountCovers == Spec => []CountCoversSubscriptions
<1>1. Init => CountInv
  <2> SUFFICES ASSUME Init PROVE CountInv
    OBVIOUS
  <2>1. Subscribed = {} /\ count = 0
    BY DEF Init, Subscribed
  <2> QED
    BY <2>1, FS_EmptySet DEF CountInv, CountCoversSubscriptions
<1>2. IInv /\ CountInv /\ [Next]_vars => CountInv'
  <2> SUFFICES ASSUME IInv, CountInv, [Next]_vars PROVE CountInv'
    OBVIOUS
  <2>1. CountKept
    BY StepKept DEF Kept
  <2>2. CASE UNCHANGED <<subscribed, count>>
    BY <2>2 DEF CountInv, CountCoversSubscriptions, Subscribed
  <2>3. ASSUME NEW n \in Names, RemoveSubscribedDataref(n) PROVE CountInv'
    BY <2>3, CountRemoves
  <2>4. ASSUME NEW n \in Names, Subscribed' \subseteq Subscribed \cup {n}, count' = count + 1
        PROVE  CountInv'
    <3>1. IsFiniteSet({n}) /\ Cardinality({n}) <= 1
      BY FS_Singleton
    <3> QED
      BY <2>4, <3>1, CountGrows
  <2>5. ASSUME NEW f \in Files, Subscribed' \subseteq Subscribed \cup NamesIn(f),
               count' = count + Len(f)
        PROVE  CountInv'
    BY <2>5, NamesInFile, CountGrows
  <2> QED
    BY <2>1, <2>2, <2>3, <2>4, <2>5 DEF CountKept
<1>3. CountInv => CountCoversSubscriptions
  BY DEF CountInv
<1> QED
  BY <1>1, <1>2, <1>3, InitHolds, NextKeeps, PTL DEF Spec
=============================================================================
