---------------------- MODULE DatarefRegistry_refinement ----------------------
(***************************************************************************)
(* DatarefRegistry implements NameDirectory: its initial states map to the *)
(* empty directory, and each of its steps to a step of the directory or to *)
(* no change of it.                                                        *)
(***************************************************************************)
EXTENDS DatarefRegistry_proofs

\* A client sees no change.
Unseen == UNCHANGED <<LinkOf, Subscribed>>

\* The objects that exist keep what a client can tell apart.
SameObjects ==
  \A o \in Objects : heap[o] # None => SameDataref(heap[o], heap'[o])

-----------------------------------------------------------------------------
(* The mapping.                                                            *)

\* A name is registered with an object exactly when the client sees a path.
LEMMA LinkOfRegistered ==
  ASSUME IInv
  PROVE  /\ LinkOf \in [Names -> Links \cup {None}]
         /\ \A n \in Names : named[n] # None <=> LinkOf[n] # None
         /\ Directory!Registered = Registered
<1>1. ASSUME NEW n \in Names
      PROVE  LinkOf[n] \in Links \cup {None} /\ (named[n] # None <=> LinkOf[n] # None)
  <2>1. CASE named[n] = None
    BY <2>1 DEF LinkOf
  <2>2. CASE named[n] # None
    <3>1. heap[named[n]] \in Dataref
      BY <2>2 DEF IInv, TypeOK, PointersAreLive
    <3>2. heap[named[n]].link \in Links
      BY <3>1 DEF Dataref
    <3>3. QED
      BY <2>2, <3>2, NoneAssumption DEF LinkOf
  <2>3. QED
    BY <2>1, <2>2
<1>2. QED
  BY <1>1 DEF LinkOf, Registered, Directory!Registered

LEMMA UnseenByObjects ==
  ASSUME IInv, UNCHANGED <<named, subscribed>>, SameObjects
  PROVE  Unseen
<1>1. \A n \in Names : LinkOf'[n] = LinkOf[n]
  BY DEF LinkOf, SameObjects, SameDataref, IInv, TypeOK, PointersAreLive
<1>2. LinkOf' = LinkOf
  BY <1>1 DEF LinkOf
<1>3. QED
  BY <1>2 DEF Unseen, Subscribed

LEMMA UnseenAbort ==
  ASSUME IInv, Abort
  PROVE  Unseen
BY UnseenByObjects DEF Abort, regVars, SameObjects, SameDataref

LEMMA UnseenIgnored ==
  ASSUME IInv, Ignored
  PROVE  Unseen
BY UnseenByObjects DEF Ignored, regVars, SameObjects, SameDataref

LEMMA UnseenRefused ==
  ASSUME IInv, NEW args, Refused(args)
  PROVE  Unseen
BY UnseenAbort, UnseenIgnored DEF Refused

\* emplace of a new object is a registration.
LEMMA EmplaceRegisters ==
  ASSUME IInv, NEW n \in Names, NEW o \in FreeObjects, NEW d,
         named[n] = None,
         named' = [named EXCEPT ![n] = o], heap' = [heap EXCEPT ![o] = d],
         UNCHANGED subscribed
  PROVE  Directory!Register(n, d.link)
<1>1. o \in Objects /\ heap[o] = None /\ o # None
  BY NoneAssumption DEF FreeObjects
<1>2. \A m \in Names : LinkOf'[m] = IF m = n THEN d.link ELSE LinkOf[m]
  BY <1>1 DEF LinkOf, IInv, TypeOK, PointersAreLive
<1>3. LinkOf' = [LinkOf EXCEPT ![n] = d.link]
  <2>1. LinkOf = [m \in Names |-> LinkOf[m]] /\ LinkOf' = [m \in Names |-> LinkOf'[m]]
    BY DEF LinkOf
  <2>2. QED
    BY <1>2, <2>1
<1>4. n \notin Directory!Registered
  BY LinkOfRegistered DEF Registered
<1>5. QED
  BY <1>3, <1>4 DEF Directory!Register, Subscribed

-----------------------------------------------------------------------------
(* Each request that changes the directory.                                *)

LEMMA RegisterDatarefMaps ==
  ASSUME IInv, NEW n \in NameArgs, NEW l \in LinkArgs, NEW t \in ReqTypes,
         RegisterDataref(n, l, t)
  PROVE  Unseen \/ (n \in Names /\ l \in Links /\ Directory!Register(n, l))
<1>1. CASE Refused({n, l}) \/ Ignored
  BY <1>1, UnseenRefused, UnseenIgnored
<1>2. CASE /\ Complete({n, l}) /\ Vacant(n)
           /\ \E o \in FreeObjects :
                /\ named' = [named EXCEPT ![n] = o]
                /\ heap' = [heap EXCEPT ![o] = NewDataref(l, TypeFor(l, t))]
           /\ UNCHANGED subscribed
  <2>1. n \in Names /\ l \in Links
    BY <1>2, CompleteArgs
  <2> DEFINE d == NewDataref(l, TypeFor(l, t))
  <2>2. d.link = l
    BY DEF NewDataref
  <2> HIDE DEF d
  <2>3. PICK o \in FreeObjects : /\ named' = [named EXCEPT ![n] = o]
                                 /\ heap' = [heap EXCEPT ![o] = d]
    BY <1>2 DEF d
  <2>4. Directory!Register(n, d.link)
    BY <1>2, <2>1, <2>3, EmplaceRegisters DEF Vacant
  <2>5. QED
    BY <2>1, <2>2, <2>4
<1>3. QED
  BY <1>1, <1>2 DEF RegisterDataref

LEMMA RegisterFFDatarefMaps ==
  ASSUME IInv, NEW n \in NameArgs, NEW l \in LinkArgs, RegisterFFDataref(n, l)
  PROVE  Unseen \/ (n \in Names /\ l \in Links /\ Directory!Register(n, l))
<1>1. CASE Refused({n, l}) \/ Ignored \/ Abort
  BY <1>1, UnseenRefused, UnseenIgnored, UnseenAbort
<1>2. CASE InitFF320Interface
  BY <1>2, UnseenIgnored, UnseenAbort, UnseenByObjects
     DEF InitFF320Interface, regVars, SameObjects, SameDataref
<1>3. CASE /\ Complete({n, l}) /\ Vacant(n)
           /\ \E o \in FreeObjects :
                /\ named' = [named EXCEPT ![n] = o]
                /\ heap' = [heap EXCEPT ![o] = NewFFDataref(l)]
           /\ UNCHANGED subscribed
  <2>1. n \in Names /\ l \in Links
    BY <1>3, CompleteArgs
  <2> DEFINE d == NewFFDataref(l)
  <2>2. d.link = l
    BY DEF NewFFDataref
  <2> HIDE DEF d
  <2>3. PICK o \in FreeObjects : /\ named' = [named EXCEPT ![n] = o]
                                 /\ heap' = [heap EXCEPT ![o] = d]
    BY <1>3 DEF d
  <2>4. Directory!Register(n, d.link)
    BY <1>3, <2>1, <2>3, EmplaceRegisters DEF Vacant
  <2>5. QED
    BY <2>1, <2>2, <2>4
<1>4. QED
  BY <1>1, <1>2, <1>3 DEF RegisterFFDataref

LEMMA UnregisterDatarefMaps ==
  ASSUME IInv, NEW n \in NameArgs, UnregisterDataref(n)
  PROVE  Unseen \/ (n \in Names /\ Directory!Unregister(n))
<1>1. CASE Refused({n}) \/ Ignored
  BY <1>1, UnseenRefused, UnseenIgnored
<1>2. CASE /\ Complete({n}) /\ named[n] # None
           /\ named' = [named EXCEPT ![n] = None]
           /\ RemoveSubscribedDataref(n)
           /\ heap' = [o \in Objects |->
                         IF o \in Reachable(named', subscribed', constants)
                         THEN heap[o] ELSE None]
  <2>1. n \in Names
    BY <1>2, CompleteArgs
  <2>2. \A m \in Names : LinkOf'[m] = IF m = n THEN None ELSE LinkOf[m]
    BY <1>2, <2>1 DEF LinkOf, Reachable, IInv, TypeOK
  <2>3. LinkOf' = [LinkOf EXCEPT ![n] = None]
    BY <2>2 DEF LinkOf
  <2>4. Subscribed' = Subscribed \ {n}
    BY <1>2, <2>1 DEF Subscribed, RemoveSubscribedDataref, IInv, TypeOK
  <2>5. n \in Directory!Registered
    BY <1>2, <2>1, LinkOfRegistered DEF Registered
  <2>6. QED
    BY <2>1, <2>3, <2>4, <2>5 DEF Directory!Unregister
<1>3. QED
  BY <1>1, <1>2 DEF UnregisterDataref

LEMMA SubscribeDatarefMaps ==
  ASSUME IInv, NEW n \in NameArgs, SubscribeDataref(n)
  PROVE  Unseen \/ (n \in Names /\ Directory!Subscribe(n))
<1>1. CASE Refused({n}) \/ Ignored
  BY <1>1, UnseenRefused, UnseenIgnored
<1>2. CASE /\ Complete({n}) /\ named[n] # None
           /\ subscribed' = [subscribed EXCEPT ![n] = IF @ = None THEN named[n] ELSE @]
           /\ UNCHANGED <<named, constants, heap>>
  <2>1. n \in Names
    BY <1>2, CompleteArgs
  <2>2. LinkOf' = LinkOf
    BY <1>2 DEF LinkOf
  <2>3. Subscribed' = Subscribed \cup {n}
    BY <1>2, <2>1 DEF Subscribed, IInv, TypeOK
  <2>4. n \in Directory!Registered
    BY <1>2, <2>1, LinkOfRegistered DEF Registered
  <2>5. QED
    BY <2>1, <2>2, <2>3, <2>4 DEF Directory!Subscribe
<1>3. QED
  BY <1>1, <1>2 DEF SubscribeDataref

LEMMA UnsubscribeDatarefMaps ==
  ASSUME IInv, NEW n \in NameArgs, UnsubscribeDataref(n)
  PROVE  Unseen \/ (n \in Names /\ Directory!Unsubscribe(n))
<1>1. CASE Refused({n})
  BY <1>1, UnseenRefused
<1>2. CASE /\ Complete({n})
           /\ RemoveSubscribedDataref(n)
           /\ UNCHANGED <<named, constants, heap>>
  <2>1. n \in Names
    BY <1>2, CompleteArgs
  <2>2. LinkOf' = LinkOf
    BY <1>2 DEF LinkOf
  <2>3. Subscribed' = Subscribed \ {n}
    BY <1>2, <2>1 DEF Subscribed, RemoveSubscribedDataref, IInv, TypeOK
  <2>4. QED
    BY <2>1, <2>2, <2>3 DEF Directory!Unsubscribe
<1>3. QED
  BY <1>1, <1>2 DEF UnsubscribeDataref

LEMMA LoadRegisterDatarefMaps ==
  ASSUME IInv, NEW f \in Files, LoadRegisterDataref(f)
  PROVE  \E S \in SUBSET Names : \E ls \in [S -> Links] : Directory!Load(ls)
<1> DEFINE S == NamesIn(f)
           ls == [n \in S |-> LinkOf'[n]]
<1>1. S \in SUBSET Names
  BY LoadRegisters
<1>2. IInv'
  BY LoadRegisterDatarefKeeps
<1>3. \A n \in S : named'[n] # None
  BY <1>1, LoadRegisters DEF Registered
<1>4. ls \in [S -> Links]
  <2>1. \A n \in S : LinkOf'[n] \in Links
    <3>1. \A n \in Names : named'[n] # None => LinkOf'[n] \in Links
      <4> SUFFICES ASSUME NEW n \in Names, named'[n] # None
                   PROVE  LinkOf'[n] \in Links
        OBVIOUS
      <4>1. heap'[named'[n]] \in Dataref
        BY <1>2 DEF IInv, TypeOK, PointersAreLive
      <4>2. QED
        BY <4>1 DEF Dataref, LinkOf
    <3>2. QED
      BY <1>1, <1>3, <3>1
  <2>2. QED
    BY <2>1
<1>5. \A n \in Names \ (S \ Registered) : LinkOf'[n] = LinkOf[n]
  BY LoadRegisters DEF LinkOf, IInv, TypeOK, PointersAreLive
<1>6. LinkOf' = [n \in Names |-> IF n \in DOMAIN ls \ Directory!Registered
                               THEN ls[n] ELSE LinkOf[n]]
  <2>1. LinkOf' = [n \in Names |-> LinkOf'[n]]
    BY DEF LinkOf
  <2>2. QED
    BY <1>1, <1>5, <2>1, LinkOfRegistered
<1>7. Subscribed' = Subscribed \cup DOMAIN ls
  <2>1. subscribed' = [n \in Names |->
          IF n \in S /\ subscribed[n] = None THEN named'[n] ELSE subscribed[n]]
    BY DEF LoadRegisterDataref
  <2>2. QED
    BY <1>1, <1>3, <2>1 DEF Subscribed
<1>8. Directory!Load(ls)
  BY <1>6, <1>7 DEF Directory!Load
<1>9. QED
  BY <1>1, <1>4, <1>8

-----------------------------------------------------------------------------
(* The steps a client does not see.                                        *)

\* Noting a target leaves the dataref what it is.
LEMMA UnseenSetFF ==
  ASSUME IInv, NEW o \in Objects, heap[o] # None, NEW v \in Values, SetFF(o, v)
  PROVE  Unseen /\ SameObjects
<1>1. heap[o] \in Dataref
  BY DEF IInv, TypeOK
<1>2. heap'[o] = [heap[o] EXCEPT !.target = v, !.needUpdate = TRUE]
      /\ \A a \in Objects \ {o} : heap'[a] = heap[a]
  BY DEF SetFF, IInv, TypeOK
<1>3. heap'[o] # None
  <2>1. [heap[o] EXCEPT !.target = v, !.needUpdate = TRUE] \in Dataref
    BY <1>1 DEF Dataref
  <2>2. QED
    BY <1>2, <2>1, NoneAssumption
<1>4. SameDataref(heap[o], heap'[o])
  BY <1>1, <1>2, <1>3 DEF SameDataref, Dataref
<1>5. SameObjects
  BY <1>2, <1>4 DEF SameObjects, SameDataref
<1>6. QED
  BY <1>5, UnseenByObjects DEF SetFF

LEMMA UnseenSetXPLM ==
  ASSUME IInv, NEW d, NEW v, SetXPLM(d, v)
  PROVE  Unseen
BY UnseenAbort, UnseenByObjects DEF SetXPLM, regVars, SameObjects, SameDataref

LEMMA UnseenRequests ==
  ASSUME IInv,
         \/ OtherRequest
         \/ \E n \in NameArgs : GetRegisterDatarefValue(n)
         \/ \E n \in NameArgs, v \in ValueArgs : \/ SetRegisterDatarefValue(n, v)
                                                 \/ AddConstantDataref(n, v)
         \/ \E l \in LinkArgs, t \in ReqTypes, v \in ValueArgs : SetDatarefValue(l, t, v)
         \/ InitFlightFactorA320
  PROVE  Unseen
<1>1. CASE OtherRequest
  BY <1>1, UnseenIgnored, UnseenAbort DEF OtherRequest
<1>2. CASE \E n \in NameArgs : GetRegisterDatarefValue(n)
  BY <1>2, UnseenRefused, UnseenIgnored, UnseenAbort DEF GetRegisterDatarefValue
<1>3. ASSUME NEW n \in NameArgs, NEW v \in ValueArgs, SetRegisterDatarefValue(n, v)
      PROVE  Unseen
  <2>1. CASE Refused({n}) \/ Ignored
    BY <2>1, UnseenRefused, UnseenIgnored
  <2>2. CASE /\ Complete({n, v}) /\ named[n] # None
             /\ \/ SetXPLM(heap[named[n]], v)
                \/ SetFF(named[n], v)
    <3>1. n \in Names /\ v \in Values
      BY <2>2, CompleteArgs
    <3>2. named[n] \in Objects /\ heap[named[n]] # None
      BY <2>2, <3>1 DEF IInv, TypeOK, PointersAreLive
    <3>3. QED
      BY <2>2, <3>1, <3>2, UnseenSetXPLM, UnseenSetFF
  <2>3. QED
    BY <1>3, <2>1, <2>2 DEF SetRegisterDatarefValue
<1>4. ASSUME NEW n \in NameArgs, NEW v \in ValueArgs, AddConstantDataref(n, v)
      PROVE  Unseen
  BY <1>4, UnseenRefused, UnseenIgnored, UnseenByObjects
     DEF AddConstantDataref, SameObjects, SameDataref
<1>5. ASSUME NEW l \in LinkArgs, NEW t \in ReqTypes, NEW v \in ValueArgs,
             SetDatarefValue(l, t, v)
      PROVE  Unseen
  BY <1>5, UnseenIgnored, UnseenAbort, UnseenSetXPLM DEF SetDatarefValue
<1>6. CASE InitFlightFactorA320
  BY <1>6, UnseenIgnored, UnseenAbort, UnseenByObjects
     DEF InitFlightFactorA320, InitFF320Interface, regVars, SameObjects, SameDataref
<1>7. QED
  BY <1>1, <1>2, <1>3, <1>4, <1>5, <1>6

LEMMA UnseenOthers ==
  ASSUME IInv,
         ConstantsAbort \/ NothingReceived \/ FF320_Callback
           \/ ExportSubscribedDataref \/ Simulator \/ UNCHANGED vars
  PROVE  Unseen
<1>1. CASE ConstantsAbort \/ NothingReceived
  BY <1>1, UnseenAbort, UnseenIgnored DEF ConstantsAbort, NothingReceived
<1>2. CASE FF320_Callback
  <2>1. CASE Abort
    BY <2>1, UnseenAbort
  <2>2. CASE heap' = ConstantHeap /\ UNCHANGED <<named, subscribed, count, constants>>
    <3>1. SameObjects
      BY <2>2, ConstantHeapType DEF IInv, SameObjects, SameDataref
    <3>2. QED
      BY <2>2, <3>1, UnseenByObjects
  <2>3. QED
    BY <1>2, <2>1, <2>2 DEF FF320_Callback
<1>3. CASE UNCHANGED vars
  BY <1>3, UnseenByObjects DEF vars, regVars, SameObjects, SameDataref
<1>4. CASE ExportSubscribedDataref
  BY <1>3, <1>4, UnseenAbort DEF ExportSubscribedDataref
<1>5. CASE Simulator
  BY <1>5, UnseenByObjects
     DEF Simulator, SimulatorWrites, Publish, SwapAircraft, regVars, SameObjects,
         SameDataref
<1>6. QED
  BY <1>1, <1>2, <1>3, <1>4, <1>5

-----------------------------------------------------------------------------
(* The refinement.                                                         *)

LEMMA InitMaps == Init => Directory!DirectoryInit
BY DEF Init, Directory!DirectoryInit, LinkOf, Subscribed

LEMMA NextMaps == IInv /\ [Next]_vars => [Directory!DirectoryNext]_(Directory!dirVars)
<1> SUFFICES ASSUME IInv, [Next]_vars
             PROVE  Directory!DirectoryNext \/ Unseen
  BY DEF Unseen, Directory!dirVars
<1>1. CASE ConstantsAbort \/ NothingReceived \/ FF320_Callback
             \/ ExportSubscribedDataref \/ Simulator \/ UNCHANGED vars
  BY <1>1, UnseenOthers
<1>2. CASE \E n \in NameArgs, l \in LinkArgs, t \in ReqTypes : RegisterDataref(n, l, t)
  BY <1>2, RegisterDatarefMaps DEF Directory!DirectoryNext
<1>3. CASE \E n \in NameArgs, l \in LinkArgs : RegisterFFDataref(n, l)
  BY <1>3, RegisterFFDatarefMaps DEF Directory!DirectoryNext
<1>4. CASE \E n \in NameArgs : UnregisterDataref(n)
  BY <1>4, UnregisterDatarefMaps DEF Directory!DirectoryNext
<1>5. CASE \E n \in NameArgs : SubscribeDataref(n)
  BY <1>5, SubscribeDatarefMaps DEF Directory!DirectoryNext
<1>6. CASE \E n \in NameArgs : UnsubscribeDataref(n)
  BY <1>6, UnsubscribeDatarefMaps DEF Directory!DirectoryNext
<1>7. CASE \E f \in Files : LoadRegisterDataref(f)
  BY <1>7, LoadRegisterDatarefMaps DEF Directory!DirectoryNext
<1>8. CASE \/ OtherRequest
           \/ \E n \in NameArgs : GetRegisterDatarefValue(n)
           \/ \E n \in NameArgs, v \in ValueArgs : \/ SetRegisterDatarefValue(n, v)
                                                   \/ AddConstantDataref(n, v)
           \/ \E l \in LinkArgs, t \in ReqTypes, v \in ValueArgs : SetDatarefValue(l, t, v)
           \/ InitFlightFactorA320
  BY <1>8, UnseenRequests
<1>9. QED
  BY <1>1, <1>2, <1>3, <1>4, <1>5, <1>6, <1>7, <1>8
     DEF Next, NetworkCallback, Request

\* Whatever requests arrive and whatever the add-on and the simulator do, the
\* registry behaves towards its clients as the directory of names.
THEOREM RegistryImplementsDirectory == Spec => ImplementsDirectory
<1>1. ImplementsDirectory <=>
        Directory!DirectoryInit /\ [][Directory!DirectoryNext]_(Directory!dirVars)
  BY DEF ImplementsDirectory, Directory!DirectorySpec
<1>2. QED
  BY <1>1, InitHolds, NextKeeps, InitMaps, NextMaps, PTL DEF Spec
=============================================================================
