------------------------ MODULE DatarefRegistry_proofs ------------------------
(***************************************************************************)
(* Theorems about DatarefRegistry, for every set of names, links, values,  *)
(* objects, files and requests.                                            *)
(*                                                                         *)
(* The inductive invariant joins the type invariant to PointersAreLive:    *)
(* the constants are applied through the objects they point to, so that    *)
(* what a frame writes is typed only if no pointer dangles.                *)
(***************************************************************************)
EXTENDS DatarefRegistry, TLAPS

IInv ==
  /\ TypeOK
  /\ PointersAreLive
  /\ SubscribedAreRegistered
  /\ FFObjectsNeedInterface

-----------------------------------------------------------------------------
(* The operators.                                                          *)

\* std::map is walked in key order: a walk over some names has a last one.
LEMMA LastKeyIn ==
  ASSUME NEW S \in SUBSET Names, S # {}
  PROVE  LastKey(S) \in S
BY NamesAssumption DEF LastKey

\* The type RegisterDataref settles on is one of the SDK's or of the request's.
LEMMA TypeForIsType ==
  ASSUME TypeOK, NEW l \in Links, NEW t \in Types \cup {NoType}
  PROVE  TypeFor(l, t) \in Types
BY LinksAssumption DEF TypeFor, Types, TypeOK

\* RegisterDataref builds a dataref object.
LEMMA NewDatarefIsDataref ==
  ASSUME NEW l \in Links, NEW t \in Types
  PROVE  NewDataref(l, t) \in Dataref /\ NewDataref(l, t) # None
         /\ NewDataref(l, t).kind = "XPLM"
<1>1. (l \in published) \in BOOLEAN
  OBVIOUS
<1>2. NewDataref(l, t) \in Dataref
  BY <1>1 DEF NewDataref, Dataref
<1>3. QED
  BY <1>2, NoneAssumption DEF NewDataref

\* RegisterFFDataref builds a dataref object.
LEMMA NewFFDatarefIsDataref ==
  ASSUME NEW l \in Links
  PROVE  NewFFDataref(l) \in Dataref /\ NewFFDataref(l) # None
<1>1. (l \in FFLinks) \in BOOLEAN
  OBVIOUS
<1>2. NewFFDataref(l) \in Dataref
  BY <1>1 DEF NewFFDataref, Dataref, Types
<1>3. QED
  BY <1>2, NoneAssumption

\* ExecuteConstantDataref writes constant values to links.
LEMMA ConstantWorldType ==
  ASSUME TypeOK
  PROVE  ConstantWorld \in [Links -> Values]
<1>1. ASSUME NEW l \in Links, ConstantsOn(l) # {}
      PROVE  constants[LastKey(ConstantsOn(l))].value \in Values
  <2>1. LastKey(ConstantsOn(l)) \in ConstantsOn(l)
    BY <1>1, LastKeyIn DEF ConstantsOn, Constants
  <2>2. QED
    BY <2>1 DEF ConstantsOn, Constants, TypeOK, Constant
<1>2. QED
  BY <1>1 DEF ConstantWorld, TypeOK

\* What a frame writes before it handles a request.
LEMMA FrameWorldType ==
  ASSUME TypeOK
  PROVE  FrameWorld \in [Links -> Values]
BY ConstantWorldType DEF FrameWorld, TypeOK

\* ExecuteConstantDataref leaves every object what it was, but for the target
\* of the FlightFactor ones.
LEMMA ConstantHeapType ==
  ASSUME TypeOK, PointersAreLive
  PROVE  /\ ConstantHeap \in [Objects -> Dataref \cup {None}]
         /\ \A o \in Objects : heap[o] # None <=> ConstantHeap[o] # None
         /\ \A o \in Objects : heap[o] # None => /\ ConstantHeap[o].kind = heap[o].kind
                                                /\ ConstantHeap[o].link = heap[o].link
                                                /\ ConstantHeap[o].found = heap[o].found
                                                /\ ConstantHeap[o].type = heap[o].type
<1> SUFFICES ASSUME NEW o \in Objects
             PROVE  /\ ConstantHeap[o] \in Dataref \cup {None}
                    /\ heap[o] # None <=> ConstantHeap[o] # None
                    /\ heap[o] # None => /\ ConstantHeap[o].kind = heap[o].kind
                                         /\ ConstantHeap[o].link = heap[o].link
                                         /\ ConstantHeap[o].found = heap[o].found
                                         /\ ConstantHeap[o].type = heap[o].type
  BY DEF ConstantHeap
<1> DEFINE v == constants[LastKey(ConstantsOf(o))].value
<1>1. CASE ConstantsOf(o) # {} /\ heap[o].kind = "FF"
  <2>1. LastKey(ConstantsOf(o)) \in ConstantsOf(o)
    BY <1>1, LastKeyIn DEF ConstantsOf, Constants
  <2>2. v \in Values
    BY <2>1 DEF ConstantsOf, Constants, TypeOK, Constant
  <2>3. heap[o] # None
    BY <2>1 DEF ConstantsOf, Constants, PointersAreLive
  <2>4. heap[o] \in Dataref
    BY <2>3 DEF TypeOK
  <2>5. ConstantHeap[o] = [heap[o] EXCEPT !.target = v, !.needUpdate = TRUE]
    BY <1>1 DEF ConstantHeap
  <2>6. ConstantHeap[o] \in Dataref
    BY <2>2, <2>4, <2>5 DEF Dataref
  <2>7. QED
    BY <2>3, <2>4, <2>5, <2>6, NoneAssumption DEF Dataref
<1>2. CASE ~(ConstantsOf(o) # {} /\ heap[o].kind = "FF")
  BY <1>2 DEF ConstantHeap, TypeOK
<1>3. QED
  BY <1>1, <1>2

-----------------------------------------------------------------------------
(* What the handlers have in common.                                       *)

\* The arguments of a request that is not refused are of their kinds.
LEMMA CompleteArgs ==
  /\ \A n \in NameArgs : Complete({n}) => n \in Names
  /\ \A l \in LinkArgs : Complete({l}) => l \in Links
  /\ \A v \in ValueArgs : Complete({v}) => v \in Values
  /\ \A n, l : Complete({n, l}) => Complete({n}) /\ Complete({l})
BY RequestsAssumption DEF NameArgs, LinkArgs, ValueArgs, Complete

\* An exception leaves the registry as it is.
LEMMA AbortKeeps ==
  ASSUME IInv, Abort
  PROVE  IInv'
BY DEF IInv, Abort, regVars, ffVars, TypeOK, PointersAreLive,
       SubscribedAreRegistered, FFObjectsNeedInterface

\* A frame whose request changes nothing only applies the constants.
LEMMA IgnoredKeeps ==
  ASSUME IInv, Ignored
  PROVE  IInv'
BY FrameWorldType
   DEF IInv, Ignored, SameElsewhere, regVars, ffVars, TypeOK, PointersAreLive,
       SubscribedAreRegistered, FFObjectsNeedInterface

LEMMA RefusedKeeps ==
  ASSUME IInv, NEW args, Refused(args)
  PROVE  IInv'
BY AbortKeeps, IgnoredKeeps DEF Refused

\* emplace of a new object under a name that was free.
LEMMA EmplaceKeeps ==
  ASSUME IInv, NEW n \in Names, NEW o \in FreeObjects, NEW d \in Dataref,
         d.kind = "FF" => ffApi # "null",
         named[n] = None,
         named' = [named EXCEPT ![n] = o], heap' = [heap EXCEPT ![o] = d],
         world' = FrameWorld, UNCHANGED <<subscribed, count, constants>>, SameElsewhere
  PROVE  IInv'
<1> USE DEF IInv
<1>0. o \in Objects /\ heap[o] = None /\ d # None /\ o # None
  BY NoneAssumption DEF FreeObjects
<1>1. TypeOK'
  BY <1>0, FrameWorldType DEF TypeOK, SameElsewhere, ffVars
<1>2. PointersAreLive'
  BY <1>0 DEF PointersAreLive, TypeOK, Constant
<1>3. SubscribedAreRegistered'
  BY <1>0 DEF SubscribedAreRegistered, TypeOK
<1>4. FFObjectsNeedInterface'
  BY <1>0 DEF FFObjectsNeedInterface, SameElsewhere, ffVars, TypeOK
<1>5. QED
  BY <1>1, <1>2, <1>3, <1>4

-----------------------------------------------------------------------------
(* Every action keeps the invariant.                                       *)

LEMMA RegisterDatarefKeeps ==
  ASSUME IInv, NEW n \in NameArgs, NEW l \in LinkArgs, NEW t \in ReqTypes,
         RegisterDataref(n, l, t)
  PROVE  IInv'
<1>1. CASE Refused({n, l}) \/ Ignored
  BY <1>1, RefusedKeeps, IgnoredKeeps
<1>2. CASE /\ Complete({n, l}) /\ Vacant(n)
           /\ \E o \in FreeObjects :
                /\ named' = [named EXCEPT ![n] = o]
                /\ heap' = [heap EXCEPT ![o] = NewDataref(l, TypeFor(l, t))]
           /\ world' = FrameWorld
           /\ UNCHANGED <<subscribed, count, constants>> /\ SameElsewhere
  <2>1. n \in Names /\ l \in Links
    BY <1>2, CompleteArgs
  <2>2. TypeFor(l, t) \in Types
    BY <2>1, TypeForIsType, RequestsAssumption DEF IInv
  <2>3. PICK o \in FreeObjects :
           /\ named' = [named EXCEPT ![n] = o]
           /\ heap' = [heap EXCEPT ![o] = NewDataref(l, TypeFor(l, t))]
    BY <1>2
  <2>4. NewDataref(l, TypeFor(l, t)) \in Dataref
        /\ NewDataref(l, TypeFor(l, t)).kind # "FF"
    BY <2>1, <2>2, NewDatarefIsDataref
  <2>5. QED
    BY <1>2, <2>1, <2>3, <2>4, EmplaceKeeps DEF Vacant
<1>3. QED
  BY <1>1, <1>2 DEF RegisterDataref

LEMMA UnregisterDatarefKeeps ==
  ASSUME IInv, NEW n \in NameArgs, UnregisterDataref(n)
  PROVE  IInv'
<1> USE DEF IInv
<1>1. CASE Refused({n}) \/ Ignored
  BY <1>1, RefusedKeeps, IgnoredKeeps
<1>2. CASE /\ Complete({n}) /\ named[n] # None
           /\ named' = [named EXCEPT ![n] = None]
           /\ RemoveSubscribedDataref(n)
           /\ heap' = [o \in Objects |->
                         IF o \in Reachable(named', subscribed', constants)
                         THEN heap[o] ELSE None]
           /\ world' = FrameWorld
           /\ UNCHANGED constants /\ SameElsewhere
  <2>1. n \in Names
    BY <1>2, CompleteArgs
  <2>2. TypeOK'
    BY <1>2, <2>1, FrameWorldType
       DEF TypeOK, RemoveSubscribedDataref, SameElsewhere, ffVars
  <2>3. PointersAreLive'
    BY <1>2, <2>1 DEF PointersAreLive, RemoveSubscribedDataref, Reachable, TypeOK, Constant
  <2>4. SubscribedAreRegistered'
    BY <1>2, <2>1 DEF SubscribedAreRegistered, RemoveSubscribedDataref, TypeOK
  <2>5. FFObjectsNeedInterface'
    BY <1>2 DEF FFObjectsNeedInterface, SameElsewhere, ffVars
  <2>6. QED
    BY <2>2, <2>3, <2>4, <2>5
<1>3. QED
  BY <1>1, <1>2 DEF UnregisterDataref

LEMMA SubscribeDatarefKeeps ==
  ASSUME IInv, NEW n \in NameArgs, SubscribeDataref(n)
  PROVE  IInv'
<1> USE DEF IInv
<1>1. CASE Refused({n}) \/ Ignored
  BY <1>1, RefusedKeeps, IgnoredKeeps
<1>2. CASE /\ Complete({n}) /\ named[n] # None
           /\ subscribed' = [subscribed EXCEPT ![n] = IF @ = None THEN named[n] ELSE @]
           /\ count' = count + 1
           /\ world' = FrameWorld
           /\ UNCHANGED <<named, constants, heap>> /\ SameElsewhere
  <2>1. n \in Names
    BY <1>2, CompleteArgs
  <2>2. TypeOK'
    BY <1>2, <2>1, FrameWorldType DEF TypeOK, SameElsewhere, ffVars
  <2>3. PointersAreLive' /\ SubscribedAreRegistered' /\ FFObjectsNeedInterface'
    BY <1>2, <2>1 DEF PointersAreLive, SubscribedAreRegistered, FFObjectsNeedInterface,
                      TypeOK, SameElsewhere, ffVars
  <2>4. QED
    BY <2>2, <2>3
<1>3. QED
  BY <1>1, <1>2 DEF SubscribeDataref

LEMMA UnsubscribeDatarefKeeps ==
  ASSUME IInv, NEW n \in NameArgs, UnsubscribeDataref(n)
  PROVE  IInv'
<1> USE DEF IInv
<1>1. CASE Refused({n})
  BY <1>1, RefusedKeeps
<1>2. CASE /\ Complete({n})
           /\ RemoveSubscribedDataref(n)
           /\ world' = FrameWorld
           /\ UNCHANGED <<named, constants, heap>> /\ SameElsewhere
  <2>1. n \in Names
    BY <1>2, CompleteArgs
  <2>2. TypeOK'
    BY <1>2, <2>1, FrameWorldType
       DEF TypeOK, RemoveSubscribedDataref, SameElsewhere, ffVars
  <2>3. PointersAreLive' /\ SubscribedAreRegistered' /\ FFObjectsNeedInterface'
    BY <1>2, <2>1 DEF PointersAreLive, SubscribedAreRegistered, FFObjectsNeedInterface,
                      RemoveSubscribedDataref, TypeOK, SameElsewhere, ffVars
  <2>4. QED
    BY <2>2, <2>3
<1>3. QED
  BY <1>1, <1>2 DEF UnsubscribeDataref

\* A file load gives a new X-Plane dataref to each of its names that is free,
\* and leaves the other names and every object alone.
LEMMA LoadRegisters ==
  ASSUME IInv, NEW f \in Files, LoadRegisterDataref(f)
  PROVE  /\ NamesIn(f) \subseteq Names
         /\ \A n \in NamesIn(f) \ Registered :
              /\ named'[n] \in Objects /\ named'[n] # None
              /\ named[n] = None /\ heap'[named'[n]] # None
         /\ \A n \in Names \ (NamesIn(f) \ Registered) : named'[n] = named[n]
         /\ DOMAIN named' = Names
         /\ heap' \in [Objects -> Dataref \cup {None}]
         /\ \A o \in Objects : heap[o] # None => heap'[o] = heap[o]
         /\ \A o \in Objects : heap'[o] # heap[o] => heap'[o].kind = "XPLM"
<1> USE DEF IInv
<1>0. f \in Seq(Line)
  BY RequestsAssumption
<1>1. NamesIn(f) \subseteq Names
  <2>1. \A i \in DOMAIN f : f[i] \in Line
    BY <1>0
  <2>2. QED
    BY <2>1 DEF NamesIn, Line
<1> DEFINE Loads(p, at) ==
      /\ named' = [n \in Names |-> IF n \in DOMAIN p THEN at[n] ELSE named[n]]
      /\ heap' = [o \in Objects |->
           IF \E n \in DOMAIN p : at[n] = o
           THEN LET i == p[CHOOSE n \in DOMAIN p : at[n] = o]
                IN  NewDataref(f[i].link, f[i].type)
           ELSE heap[o]]
<1>p. PICK p \in FirstLines(f) : \E at \in Placements(DOMAIN p) : Loads(p, at)
  BY DEF LoadRegisterDataref
<1>2. PICK at \in Placements(DOMAIN p) : Loads(p, at)
  BY <1>p
<1>n. named' = [n \in Names |-> IF n \in DOMAIN p THEN at[n] ELSE named[n]]
  BY <1>2
<1> HIDE DEF Loads
<1>4. /\ DOMAIN p = NamesIn(f) \ Registered
      /\ \A n \in DOMAIN p : p[n] \in DOMAIN f /\ at[n] \in FreeObjects
  BY DEF FirstLines, Placements
<1>5. ASSUME NEW o \in Objects, \E n \in DOMAIN p : at[n] = o
      PROVE  /\ heap[o] = None /\ heap'[o] \in Dataref
             /\ heap'[o] # None /\ heap'[o].kind = "XPLM"
  <2> DEFINE i == p[CHOOSE n \in DOMAIN p : at[n] = o]
  <2>1. i \in DOMAIN f
    BY <1>4, <1>5
  <2>2. f[i] \in Line
    BY <1>0, <2>1
  <2>3. heap'[o] = NewDataref(f[i].link, f[i].type)
    BY <1>2, <1>5 DEF Loads
  <2>4. heap[o] = None
    BY <1>4, <1>5 DEF FreeObjects
  <2>5. QED
    BY <2>2, <2>3, <2>4, NewDatarefIsDataref DEF Line
<1>6. ASSUME NEW o \in Objects, ~\E n \in DOMAIN p : at[n] = o
      PROVE  heap'[o] = heap[o]
  BY <1>2, <1>6 DEF Loads
<1>7. \A o \in Objects : heap[o] # None => heap'[o] = heap[o]
  BY <1>5, <1>6
<1>8. ASSUME NEW n \in DOMAIN p
      PROVE  /\ named'[n] \in Objects /\ named'[n] # None
             /\ named[n] = None /\ heap'[named'[n]] # None
  <2>1. n \in Names /\ named[n] = None
    BY <1>1, <1>4 DEF Registered
  <2>2. named'[n] = at[n] /\ at[n] \in Objects
    BY <1>n, <1>4, <2>1 DEF FreeObjects
  <2>3. QED
    BY <1>5, <2>1, <2>2, NoneAssumption
<1>k. \A n \in Names \ DOMAIN p : named'[n] = named[n]
  BY <1>n
<1>9. heap' \in [Objects -> Dataref \cup {None}]
  BY <1>2, <1>5, <1>6 DEF TypeOK, Loads
<1>10. QED
  BY <1>1, <1>4, <1>5, <1>6, <1>7, <1>8, <1>k, <1>9, <1>n

LEMMA LoadRegisterDatarefKeeps ==
  ASSUME IInv, NEW f \in Files, LoadRegisterDataref(f)
  PROVE  IInv'
<1> USE DEF IInv
<1>1. /\ subscribed' = [n \in Names |->
            IF n \in NamesIn(f) /\ subscribed[n] = None THEN named'[n] ELSE subscribed[n]]
      /\ count' = count + Len(f) /\ world' = FrameWorld
      /\ UNCHANGED constants /\ SameElsewhere
  BY DEF LoadRegisterDataref
<1>2. \A n \in Names : named'[n] \in Objects \cup {None}
  BY LoadRegisters DEF TypeOK
<1>3. TypeOK'
  <2>1. named' \in [Names -> Objects \cup {None}]
    BY <1>2, LoadRegisters DEF LoadRegisterDataref
  <2>2. subscribed' \in [Names -> Objects \cup {None}]
    BY <1>1, <1>2 DEF TypeOK
  <2>3. count' \in Int
    <3>1. f \in Seq(Line)
      BY RequestsAssumption
    <3>2. QED
      BY <1>1, <3>1 DEF TypeOK
  <2>4. QED
    BY <1>1, <2>1, <2>2, <2>3, LoadRegisters, FrameWorldType
       DEF TypeOK, SameElsewhere, ffVars
<1>4. SubscribedAreRegistered'
  <2> SUFFICES ASSUME NEW n \in Names, subscribed'[n] # None
               PROVE  subscribed'[n] = named'[n]
    BY DEF SubscribedAreRegistered
  <2>1. CASE n \in NamesIn(f) /\ subscribed[n] = None
    BY <1>1, <2>1
  <2>2. CASE ~(n \in NamesIn(f) /\ subscribed[n] = None)
    <3>1. subscribed'[n] = subscribed[n] /\ named[n] = subscribed[n]
      BY <1>1, <2>2 DEF SubscribedAreRegistered
    <3>2. n \notin NamesIn(f) \ Registered
      BY <3>1 DEF Registered
    <3>3. QED
      BY <3>1, <3>2, LoadRegisters
  <2>3. QED
    BY <2>1, <2>2
<1>5. PointersAreLive'
  <2>1. ASSUME NEW n \in Names, named'[n] # None
        PROVE  heap'[named'[n]] # None
    <3>1. CASE n \in NamesIn(f) \ Registered
      BY <3>1, LoadRegisters
    <3>2. CASE n \notin NamesIn(f) \ Registered
      <4>1. named'[n] = named[n]
        BY <3>2, LoadRegisters
      <4>2. heap[named[n]] # None /\ named[n] \in Objects
        BY <2>1, <4>1 DEF PointersAreLive, TypeOK
      <4>3. QED
        BY <4>1, <4>2, LoadRegisters
    <3>3. QED
      BY <3>1, <3>2
  <2>2. ASSUME NEW n \in Names, subscribed'[n] # None
        PROVE  heap'[subscribed'[n]] # None
    BY <1>4, <2>1, <2>2 DEF SubscribedAreRegistered
  <2>3. ASSUME NEW n \in Names, constants'[n] # None
        PROVE  heap'[constants'[n].obj] # None
    BY <1>1, <2>3, LoadRegisters DEF PointersAreLive, TypeOK, Constant
  <2>4. QED
    BY <2>1, <2>2, <2>3 DEF PointersAreLive
<1>6. FFObjectsNeedInterface'
  <2>1. \A o \in Objects : heap'[o] = heap[o] \/ heap'[o].kind = "XPLM"
    BY LoadRegisters
  <2>2. ffApi' = ffApi
    BY <1>1 DEF SameElsewhere, ffVars
  <2>3. QED
    BY <2>1, <2>2 DEF FFObjectsNeedInterface
<1>7. QED
  BY <1>3, <1>4, <1>5, <1>6

\* A value written through Dataref::SetValue is in place at its link.
LEMMA SetXPLMKeeps ==
  ASSUME IInv, NEW d \in Dataref, NEW v \in Values, SetXPLM(d, v)
  PROVE  IInv'
<1>1. CASE Abort
  BY <1>1, AbortKeeps
<1>2. CASE /\ world' = IF Writes(d) THEN [FrameWorld EXCEPT ![d.link] = v] ELSE FrameWorld
           /\ UNCHANGED regVars /\ SameElsewhere
  <2>1. world' \in [Links -> Values]
    BY <1>2, FrameWorldType DEF IInv
  <2>2. QED
    BY <1>2, <2>1 DEF IInv, SameElsewhere, regVars, ffVars, TypeOK, PointersAreLive,
                      SubscribedAreRegistered, FFObjectsNeedInterface
<1>3. QED
  BY <1>1, <1>2 DEF SetXPLM

LEMMA SetFFKeeps ==
  ASSUME IInv, NEW o \in Objects, heap[o] # None, NEW v \in Values, SetFF(o, v)
  PROVE  IInv'
<1> USE DEF IInv
<1>1. heap[o] \in Dataref
  BY DEF TypeOK
<1>2. heap' = [heap EXCEPT ![o] = [heap[o] EXCEPT !.target = v, !.needUpdate = TRUE]]
  BY DEF SetFF, TypeOK
<1> DEFINE d == [heap[o] EXCEPT !.target = v, !.needUpdate = TRUE]
<1>3. d \in Dataref /\ d.kind = heap[o].kind
  BY <1>1 DEF Dataref
<1>4. d # None
  BY <1>3, NoneAssumption
<1> HIDE DEF d
<1>5. heap' = [heap EXCEPT ![o] = d]
  BY <1>2 DEF d
<1>6. TypeOK'
  BY <1>3, <1>5, FrameWorldType DEF SetFF, TypeOK, SameElsewhere, ffVars
<1>n. UNCHANGED <<named, subscribed, count, constants>>
  BY DEF SetFF
<1>h. \A a \in Objects : heap[a] # None => heap'[a] # None
  BY <1>4, <1>5 DEF TypeOK
<1>7. PointersAreLive' /\ SubscribedAreRegistered'
  BY <1>n, <1>h DEF PointersAreLive, SubscribedAreRegistered, TypeOK, Constant
<1>8. FFObjectsNeedInterface'
  BY <1>3, <1>4, <1>5 DEF SetFF, FFObjectsNeedInterface, TypeOK, SameElsewhere, ffVars
<1>9. QED
  BY <1>6, <1>7, <1>8

LEMMA SetRegisterDatarefValueKeeps ==
  ASSUME IInv, NEW n \in NameArgs, NEW v \in ValueArgs, SetRegisterDatarefValue(n, v)
  PROVE  IInv'
<1>1. CASE Refused({n}) \/ Ignored
  BY <1>1, RefusedKeeps, IgnoredKeeps
<1>2. CASE /\ Complete({n, v}) /\ named[n] # None
           /\ \/ heap[named[n]].kind = "XPLM" /\ SetXPLM(heap[named[n]], v)
              \/ heap[named[n]].kind = "FF" /\ SetFF(named[n], v)
  <2>1. n \in Names /\ v \in Values
    BY <1>2, CompleteArgs
  <2>2. named[n] \in Objects /\ heap[named[n]] # None /\ heap[named[n]] \in Dataref
    BY <1>2, <2>1 DEF IInv, TypeOK, PointersAreLive
  <2>3. QED
    BY <1>2, <2>1, <2>2, SetXPLMKeeps, SetFFKeeps
<1>3. QED
  BY <1>1, <1>2 DEF SetRegisterDatarefValue

LEMMA SetDatarefValueKeeps ==
  ASSUME IInv, NEW l \in LinkArgs, NEW t \in ReqTypes, NEW v \in ValueArgs,
         SetDatarefValue(l, t, v)
  PROVE  IInv'
<1>1. CASE Ignored \/ Abort
  BY <1>1, IgnoredKeeps, AbortKeeps
<1>2. CASE Complete({l, v}) /\ SetXPLM(NewDataref(l, TypeFor(l, t)), v)
  <2>1. l \in Links /\ v \in Values
    BY <1>2, CompleteArgs
  <2>2. NewDataref(l, TypeFor(l, t)) \in Dataref
    BY <2>1, TypeForIsType, NewDatarefIsDataref, RequestsAssumption DEF IInv
  <2>3. QED
    BY <1>2, <2>1, <2>2, SetXPLMKeeps
<1>3. QED
  BY <1>1, <1>2 DEF SetDatarefValue

LEMMA AddConstantDatarefKeeps ==
  ASSUME IInv, NEW n \in NameArgs, NEW v \in ValueArgs, AddConstantDataref(n, v)
  PROVE  IInv'
<1> USE DEF IInv
<1>1. CASE Refused({n, v}) \/ Ignored
  BY <1>1, RefusedKeeps, IgnoredKeeps
<1>2. CASE /\ Complete({n, v}) /\ named[n] # None
           /\ constants' = [constants EXCEPT ![n] = ConstantEntry(n, v)]
           /\ world' = FrameWorld
           /\ UNCHANGED <<named, subscribed, count, heap>> /\ SameElsewhere
  <2>1. n \in Names /\ v \in Values
    BY <1>2, CompleteArgs
  <2>2. ConstantEntry(n, v) \in Constant /\ heap[ConstantEntry(n, v).obj] # None
    <3>1. CASE n \in Constants
      <4>1. constants[n] \in Constant /\ heap[constants[n].obj] # None
        BY <2>1, <3>1 DEF Constants, TypeOK, PointersAreLive
      <4>2. QED
        BY <2>1, <3>1, <4>1 DEF ConstantEntry, Constant
    <3>2. CASE n \notin Constants
      <4>1. named[n] \in Objects /\ heap[named[n]] # None
        BY <1>2, <2>1 DEF TypeOK, PointersAreLive
      <4>2. QED
        BY <2>1, <3>2, <4>1 DEF ConstantEntry, Constant
    <3>3. QED
      BY <3>1, <3>2
  <2>3. TypeOK'
    BY <1>2, <2>2, FrameWorldType DEF TypeOK, SameElsewhere, ffVars
  <2>4. PointersAreLive' /\ SubscribedAreRegistered' /\ FFObjectsNeedInterface'
    BY <1>2, <2>1, <2>2 DEF PointersAreLive, SubscribedAreRegistered,
       FFObjectsNeedInterface, TypeOK, SameElsewhere, ffVars
  <2>5. QED
    BY <2>3, <2>4
<1>3. QED
  BY <1>1, <1>2 DEF AddConstantDataref

LEMMA InitFF320InterfaceKeeps ==
  ASSUME IInv, InitFF320Interface
  PROVE  IInv'
<1>1. CASE Ignored \/ Abort
  BY <1>1, IgnoredKeeps, AbortKeeps
<1>2. CASE /\ ffApi' = "valid" /\ ffHooked' = TRUE
           /\ world' = FrameWorld
           /\ UNCHANGED <<regVars, ffLoaded, published, aborted>>
  BY <1>2, FrameWorldType
     DEF IInv, regVars, TypeOK, PointersAreLive, SubscribedAreRegistered,
         FFObjectsNeedInterface
<1>3. QED
  BY <1>1, <1>2 DEF InitFF320Interface

LEMMA RegisterFFDatarefKeeps ==
  ASSUME IInv, NEW n \in NameArgs, NEW l \in LinkArgs, RegisterFFDataref(n, l)
  PROVE  IInv'
<1>1. CASE InitFF320Interface \/ Refused({n, l}) \/ Abort \/ Ignored
  BY <1>1, InitFF320InterfaceKeeps, RefusedKeeps, AbortKeeps, IgnoredKeeps
<1>2. CASE /\ IsFF320InterfaceEnabled /\ Complete({n, l}) /\ Vacant(n)
           /\ \E o \in FreeObjects :
                /\ named' = [named EXCEPT ![n] = o]
                /\ heap' = [heap EXCEPT ![o] = NewFFDataref(l)]
           /\ world' = FrameWorld
           /\ UNCHANGED <<subscribed, count, constants>> /\ SameElsewhere
  <2>1. n \in Names /\ l \in Links
    BY <1>2, CompleteArgs
  <2>2. PICK o \in FreeObjects : /\ named' = [named EXCEPT ![n] = o]
                                 /\ heap' = [heap EXCEPT ![o] = NewFFDataref(l)]
    BY <1>2
  <2>3. NewFFDataref(l) \in Dataref /\ ffApi # "null"
    BY <1>2, <2>1, NewFFDatarefIsDataref DEF IsFF320InterfaceEnabled, FFEnabled
  <2>4. QED
    BY <1>2, <2>1, <2>2, <2>3, EmplaceKeeps DEF Vacant
<1>3. QED
  BY <1>1, <1>2 DEF RegisterFFDataref

LEMMA FF320_CallbackKeeps ==
  ASSUME IInv, FF320_Callback
  PROVE  IInv'
<1> USE DEF IInv
<1>1. CASE Abort
  BY <1>1, AbortKeeps
<1>2. CASE /\ heap' = ConstantHeap
           /\ world' = [l \in Links |->
                IF Pending(ConstantHeap, l) = {} THEN ConstantWorld[l]
                ELSE ConstantHeap[named[LastKey(Pending(ConstantHeap, l))]].target]
           /\ UNCHANGED <<named, subscribed, count, constants>> /\ SameElsewhere
  <2>1. ASSUME NEW l \in Links, Pending(ConstantHeap, l) # {}
        PROVE  ConstantHeap[named[LastKey(Pending(ConstantHeap, l))]].target \in Values
    <3>1. LastKey(Pending(ConstantHeap, l)) \in Pending(ConstantHeap, l)
      BY <2>1, LastKeyIn DEF Pending, Registered
    <3>2. QED
      BY <3>1 DEF Pending, Values
  <2>2. TypeOK'
    BY <1>2, <2>1, ConstantHeapType, ConstantWorldType DEF TypeOK, SameElsewhere, ffVars
  <2>3. PointersAreLive' /\ SubscribedAreRegistered' /\ FFObjectsNeedInterface'
    BY <1>2, ConstantHeapType
       DEF PointersAreLive, SubscribedAreRegistered, FFObjectsNeedInterface, TypeOK,
           Constant, SameElsewhere, ffVars
  <2>4. QED
    BY <2>2, <2>3
<1>3. QED
  BY <1>1, <1>2 DEF FF320_Callback

LEMMA SimulatorKeeps ==
  ASSUME IInv, Simulator
  PROVE  IInv'
<1>1. CASE \E l \in Links, v \in Values : SimulatorWrites(l, v)
  BY <1>1 DEF SimulatorWrites, IInv, regVars, ffVars, TypeOK, PointersAreLive,
              SubscribedAreRegistered, FFObjectsNeedInterface
<1>2. CASE \E l \in XLinks : Publish(l)
  BY <1>2 DEF Publish, IInv, regVars, ffVars, TypeOK, PointersAreLive,
              SubscribedAreRegistered, FFObjectsNeedInterface
<1>3. CASE SwapAircraft
  BY <1>3 DEF SwapAircraft, IInv, regVars, FFEnabled, TypeOK, PointersAreLive,
              SubscribedAreRegistered, FFObjectsNeedInterface
<1>4. QED
  BY <1>1, <1>2, <1>3 DEF Simulator

LEMMA RequestKeeps ==
  ASSUME IInv, Request
  PROVE  IInv'
<1>1. CASE OtherRequest
  BY <1>1, IgnoredKeeps, AbortKeeps DEF OtherRequest
<1>2. CASE \E n \in NameArgs, l \in LinkArgs, t \in ReqTypes : RegisterDataref(n, l, t)
  BY <1>2, RegisterDatarefKeeps
<1>3. CASE \E n \in NameArgs : \/ UnregisterDataref(n)
                               \/ SubscribeDataref(n)
                               \/ UnsubscribeDataref(n)
  BY <1>3, UnregisterDatarefKeeps, SubscribeDatarefKeeps, UnsubscribeDatarefKeeps
<1>4. CASE \E n \in NameArgs : GetRegisterDatarefValue(n)
  BY <1>4, RefusedKeeps, AbortKeeps, IgnoredKeeps DEF GetRegisterDatarefValue
<1>5. CASE \E n \in NameArgs, v \in ValueArgs : \/ SetRegisterDatarefValue(n, v)
                                                \/ AddConstantDataref(n, v)
  BY <1>5, SetRegisterDatarefValueKeeps, AddConstantDatarefKeeps
<1>6. CASE \E l \in LinkArgs, t \in ReqTypes, v \in ValueArgs : SetDatarefValue(l, t, v)
  BY <1>6, SetDatarefValueKeeps
<1>7. CASE \E f \in Files : LoadRegisterDataref(f)
  BY <1>7, LoadRegisterDatarefKeeps
<1>8. CASE InitFlightFactorA320
  BY <1>8, InitFF320InterfaceKeeps DEF InitFlightFactorA320
<1>9. CASE \E n \in NameArgs, l \in LinkArgs : RegisterFFDataref(n, l)
  BY <1>9, RegisterFFDatarefKeeps
<1>10. QED
  BY <1>1, <1>2, <1>3, <1>4, <1>5, <1>6, <1>7, <1>8, <1>9 DEF Request

LEMMA InitHolds == Init => IInv
<1> SUFFICES ASSUME Init PROVE IInv
  OBVIOUS
<1>1. TypeOK
  <2>1. published \in SUBSET XLinks /\ world \in [Links -> Values]
    BY ValuesAssumption, LinksAssumption DEF Init, Values
  <2>2. ffLoaded \in BOOLEAN
    BY Zenon DEF Init
  <2>3. /\ named \in [Names -> Objects \cup {None}]
        /\ subscribed \in [Names -> Objects \cup {None}]
        /\ constants \in [Names -> Constant \cup {None}]
        /\ heap \in [Objects -> Dataref \cup {None}]
    BY DEF Init
  <2>4. count \in Int /\ ffApi \in {"null", "valid", "stale"}
    BY DEF Init
  <2>5. ffHooked \in BOOLEAN /\ aborted \in BOOLEAN
    BY DEF Init
  <2>6. QED
    BY <2>1, <2>2, <2>3, <2>4, <2>5 DEF TypeOK
<1>2. PointersAreLive /\ SubscribedAreRegistered /\ FFObjectsNeedInterface
  BY DEF Init, PointersAreLive, SubscribedAreRegistered, FFObjectsNeedInterface
<1>3. QED
  BY <1>1, <1>2 DEF IInv

LEMMA NextKeeps == IInv /\ [Next]_vars => IInv'
<1> SUFFICES ASSUME IInv, [Next]_vars PROVE IInv'
  OBVIOUS
<1>1. CASE ConstantsAbort
  BY <1>1, AbortKeeps DEF ConstantsAbort
<1>2. CASE NothingReceived
  BY <1>2, IgnoredKeeps DEF NothingReceived
<1>3. CASE Request
  BY <1>3, RequestKeeps
<1>4. CASE FF320_Callback
  BY <1>4, FF320_CallbackKeeps
<1>5. CASE UNCHANGED vars
  BY <1>5 DEF vars, regVars, ffVars, IInv, TypeOK, PointersAreLive,
              SubscribedAreRegistered, FFObjectsNeedInterface
<1>6. CASE ExportSubscribedDataref
  BY <1>5, <1>6, AbortKeeps DEF ExportSubscribedDataref
<1>7. CASE Simulator
  BY <1>7, SimulatorKeeps
<1>8. QED
  BY <1>1, <1>2, <1>3, <1>4, <1>5, <1>6, <1>7 DEF Next, NetworkCallback

\* The registry's state is of its type in every reachable state, although each
\* frame writes through the objects the constants point to.
THEOREM TypeCorrect == Spec => []TypeOK
<1>1. IInv => TypeOK
  BY DEF IInv
<1>2. QED
  BY <1>1, InitHolds, NextKeeps, PTL DEF Spec

\* What is exported under a name is the dataref registered under it.
THEOREM SubscriptionsFollowNames == Spec => []SubscribedAreRegistered
<1>1. IInv => SubscribedAreRegistered
  BY DEF IInv
<1>2. QED
  BY <1>1, InitHolds, NextKeeps, PTL DEF Spec

\* No map holds the address of an object that is gone.
THEOREM NothingDangles == Spec => []PointersAreLive
<1>1. IInv => PointersAreLive
  BY DEF IInv
<1>2. QED
  BY <1>1, InitHolds, NextKeeps, PTL DEF Spec

\* No object reads or writes through a FlightFactor interface that was never
\* filled in.
THEOREM InterfaceBeforeObjects == Spec => []FFObjectsNeedInterface
<1>1. IInv => FFObjectsNeedInterface
  BY DEF IInv
<1>2. QED
  BY <1>1, InitHolds, NextKeeps, PTL DEF Spec
=============================================================================
