--------------------------- MODULE DatarefRegistry ---------------------------
(***************************************************************************)
(* The dataref registry of XPLMServer: the maps a CallbackManager keeps,   *)
(* the dataref objects they point to, and the default callbacks that act   *)
(* on them (REG_DATA, SUB_DATA, ADD_CONST, REG_FFDATA, ...).               *)
(*                                                                         *)
(* Everything runs on X-Plane's main thread.  One step is one run of a     *)
(* callback to its end: a NetworkCallback with at most one request (every  *)
(* action built on Polled), an ExportSubscribedDataref, an FF320_Callback  *)
(* called by the FlightFactor add-on, or a step of the simulator.  An      *)
(* exception that leaves a callback ends the process (Abort).              *)
(*                                                                         *)
(* A value text is identified by what it denotes: a member of Numeric is a *)
(* text std::stod and std::stoi accept, a member of Texts one on which     *)
(* they throw std::invalid_argument.                                       *)
(* The conversion factor is "1.0f", the handlers' default.                 *)
(***************************************************************************)
EXTENDS Integers, Sequences, FiniteSets

CONSTANTS
  Names,          \* registration names; numbers, since std::map walks its keys in order
  XLinks,         \* dataref paths of X-Plane and of its plugins
  FFLinks,        \* value names of the FlightFactor A320 interface
  Objects,        \* addresses of dataref objects
  Numeric, Texts, \* value texts that denote a number, and the others
  Zero,           \* the number every link holds at first
  SdkType,        \* [XLinks -> {"Number", "Data"}], what XPLMGetDataRefTypes says
  Writable,       \* the XLinks XPLMCanWriteDataRef accepts
  FFSettable,     \* the FFLinks of type float32, float64 or sint32
  Builtin,        \* the XLinks that exist from the start
  Files,          \* CSV files: sequences of [name, link, type]
  OddArgs,        \* subset of {Missing, NotText} a request may carry
  ReqTypes,       \* "Type" fields of requests: NoType or a member of Types
  NoType,         \* absent, not a string, or "UNKNWON"
  Missing,        \* a field the JSON object does not have
  NotText,        \* a field on which get<std::string>() throws
  None,           \* no object
  AircraftSwaps,  \* may the add-on be unloaded with its aircraft?
  MaxCount        \* bound on the subscription counter, in the guards

Links == XLinks \cup FFLinks
Values == Numeric \cup Texts
Types == {"Unknown", "Number", "Data"}
NameArgs == Names \cup OddArgs
LinkArgs == Links \cup OddArgs
ValueArgs == Values \cup OddArgs

\* A dataref object; target and needUpdate are FFDataref's, FALSE/None otherwise.
Dataref == [kind : {"XPLM", "FF"}, link : Links, found : BOOLEAN, type : Types,
            target : Values \cup {None}, needUpdate : BOOLEAN]
Constant == [value : Values, obj : Objects]
Line == [name : Names, link : Links, type : Types]

ASSUME NamesAssumption ==
  /\ Names \subseteq Nat
  /\ \A S \in SUBSET Names : S # {} => \E n \in S : \A m \in S : m <= n
ASSUME LinksAssumption ==
  /\ SdkType \in [XLinks -> {"Number", "Data"}]
  /\ Writable \subseteq XLinks /\ Builtin \subseteq XLinks
  /\ FFSettable \subseteq FFLinks /\ XLinks \cap FFLinks = {}
ASSUME ValuesAssumption == Zero \in Numeric /\ MaxCount \in Nat
ASSUME RequestsAssumption ==
  /\ Files \subseteq Seq(Line)
  /\ ReqTypes \subseteq Types \cup {NoType} /\ NoType \notin Types
  /\ OddArgs \subseteq {Missing, NotText}
  /\ {Missing, NotText} \cap (Names \cup Links \cup Values) = {}
ASSUME NoneAssumption == None \notin Objects \cup Links \cup Dataref \cup Constant \cup Values

VARIABLES
  named,       \* m_namedDatarefs
  subscribed,  \* m_subscribedDatarefs
  count,       \* m_subscirbeDatarefCount
  constants,   \* m_constDataref
  heap,        \* the dataref objects some map points to (the others are leaked)
  ffApi,       \* *m_ff320: "null", "valid", or "stale" once the add-on is gone
  ffHooked,    \* has the add-on FF320_Callback in its update list?
  ffLoaded,    \* is the FlightFactor plugin loaded?
  world,       \* the value the simulator holds at each link
  published,   \* the dataref paths XPLMFindDataRef resolves
  aborted      \* an exception or a wild call has ended the process

regVars == <<named, subscribed, count, constants, heap>>
ffVars == <<ffApi, ffHooked, ffLoaded>>
vars == <<regVars, ffVars, world, published, aborted>>

Registered == {n \in Names : named[n] # None}
Subscribed == {n \in Names : subscribed[n] # None}
Constants == {n \in Names : constants[n] # None}

TypeOK ==
  /\ named \in [Names -> Objects \cup {None}]
  /\ subscribed \in [Names -> Objects \cup {None}]
  /\ count \in Int
  /\ constants \in [Names -> Constant \cup {None}]
  /\ heap \in [Objects -> Dataref \cup {None}]
  /\ ffApi \in {"null", "valid", "stale"}
  /\ ffHooked \in BOOLEAN /\ ffLoaded \in BOOLEAN
  /\ world \in [Links -> Values]
  /\ published \in SUBSET XLinks
  /\ aborted \in BOOLEAN

Init ==
  /\ named = [n \in Names |-> None]
  /\ subscribed = [n \in Names |-> None]
  /\ count = 0
  /\ constants = [n \in Names |-> None]
  /\ heap = [o \in Objects |-> None]
  /\ ffApi = "null" /\ ffHooked = FALSE
  /\ ffLoaded \in BOOLEAN /\ (ffLoaded => FFLinks # {})
  /\ world = [l \in Links |-> Zero]
  /\ published = Builtin
  /\ aborted = FALSE

-----------------------------------------------------------------------------
(* Dataref objects.                                                        *)

FreeObjects == {o \in Objects : heap[o] = None}

NewDataref(l, t) ==
  [kind |-> "XPLM", link |-> l, found |-> l \in published, type |-> t,
   target |-> None, needUpdate |-> FALSE]

NewFFDataref(l) ==
  [kind |-> "FF", link |-> l, found |-> l \in FFLinks, type |-> "Number",
   target |-> None, needUpdate |-> FALSE]

\* The type RegisterDataref and SetDatarefValue settle on: the SDK's, or the request's.
TypeFor(l, t) ==
  IF t # NoType THEN t
  ELSE IF l \in published THEN SdkType[l] ELSE "Unknown"

\* Dataref::SetValue gets past its guard and reaches the switch on the type.
Reaches(d) == d.kind = "XPLM" /\ d.found /\ d.link \in Writable

Throws(d, v) == Reaches(d) /\ d.type = "Number" /\ v \notin Numeric

\* X-Plane ignores a write through an accessor of the wrong type.
Writes(d) == Reaches(d) /\ d.type = SdkType[d.link]

\* The last key a walk over the std::map visits among S.
LastKey(S) == CHOOSE n \in S : \A m \in S : m <= n

-----------------------------------------------------------------------------
(* CallbackManager::ExecuteConstantDataref.                                *)

ConstantsThrow ==
  \E n \in Constants : Throws(heap[constants[n].obj], constants[n].value)

ConstantsOn(l) ==
  {n \in Constants : Writes(heap[constants[n].obj]) /\ heap[constants[n].obj].link = l}

ConstantWorld ==
  [l \in Links |-> IF ConstantsOn(l) = {} THEN world[l]
                   ELSE constants[LastKey(ConstantsOn(l))].value]

ConstantsOf(o) == {n \in Constants : constants[n].obj = o}

\* FFDataref::SetValue only notes the target of the objects that are constant.
ConstantHeap ==
  [o \in Objects |->
     IF ConstantsOf(o) # {} /\ heap[o].kind = "FF"
     THEN [heap[o] EXCEPT !.target = constants[LastKey(ConstantsOf(o))].value,
                          !.needUpdate = TRUE]
     ELSE heap[o]]

-----------------------------------------------------------------------------
(* One run of NetworkCallback: the constants first, unless the FlightFactor *)
(* interface is enabled, then at most one request.                          *)

FFEnabled == ffApi # "null"

Abort == aborted' = TRUE /\ UNCHANGED <<regVars, ffVars, world, published>>

ConstantsAbort == ~aborted /\ ~FFEnabled /\ ConstantsThrow /\ Abort

LatePolled == ~aborted   \* mutant: the request handled before the constants

Polled == ~aborted /\ (FFEnabled \/ ~ConstantsThrow)

BareFrameWorld == world   \* mutant: the constants left to the add-on's callback

FrameWorld == IF FFEnabled THEN world ELSE ConstantWorld

SameElsewhere == UNCHANGED <<ffVars, published, aborted>>

\* The rest of the callback leaves the registry alone: nothing received, a
\* request that is refused, or one that only reads.
Ignored == world' = FrameWorld /\ UNCHANGED regVars /\ SameElsewhere

NothingReceived == Polled /\ Ignored

Complete(args) == args \cap {Missing, NotText} = {}

\* A field is missing (the handler returns 0x01) or is not a string.
Refused(args) ==
  \/ Missing \in args /\ Ignored
  \/ Missing \notin args /\ NotText \in args /\ Abort

\* No "Operation", an unknown one, SPEAK, GET_DATA, LOAD_DLL, or LOAD_REG_DATA
\* of a file that does not open; malformed JSON and absent fields that at()
\* looks up throw.
OtherRequest ==
  /\ Polled
  /\ \/ Ignored
     \/ NotText \in OddArgs /\ Abort

-----------------------------------------------------------------------------
(* Registration and subscription.                                          *)

AssignedVacant(n) == TRUE   \* mutant: operator[] where the code has emplace

\* std::map::emplace takes effect only on a name that is not there.
Vacant(n) == named[n] = None

RegisterDataref(n, l, t) ==
  /\ Polled
  /\ \/ Refused({n, l})
     \/ Complete({n, l}) /\ ~Vacant(n) /\ Ignored
     \/ /\ Complete({n, l}) /\ Vacant(n)
        /\ \E o \in FreeObjects :
             /\ named' = [named EXCEPT ![n] = o]
             /\ heap' = [heap EXCEPT ![o] = NewDataref(l, TypeFor(l, t))]
        /\ world' = FrameWorld
        /\ UNCHANGED <<subscribed, count, constants>> /\ SameElsewhere

DeletedReachable(nm, sub, cst) ==   \* mutant: UnregisterDataref deletes the object
  {nm[n] : n \in Names} \cup {sub[n] : n \in Names}

\* Objects no map points to any more are leaked: nothing reaches them again.
Reachable(nm, sub, cst) ==
  {nm[n] : n \in Names} \cup {sub[n] : n \in Names}
    \cup {cst[n].obj : n \in {m \in Names : cst[m] # None}}

UncheckedRemove(n) ==   \* mutant: the contains() test dropped
  subscribed' = [subscribed EXCEPT ![n] = None] /\ count' = count - 1

RemoveSubscribedDataref(n) ==
  /\ subscribed' = [subscribed EXCEPT ![n] = None]
  /\ count' = IF subscribed[n] = None THEN count ELSE count - 1

UnregisterDataref(n) ==
  /\ Polled
  /\ \/ Refused({n})
     \/ Complete({n}) /\ named[n] = None /\ Ignored
     \/ /\ Complete({n}) /\ named[n] # None
        /\ named' = [named EXCEPT ![n] = None]
        /\ RemoveSubscribedDataref(n)
        /\ heap' = [o \in Objects |->
                      IF o \in Reachable(named', subscribed', constants)
                      THEN heap[o] ELSE None]
        /\ world' = FrameWorld
        /\ UNCHANGED constants /\ SameElsewhere

\* The counter grows even when the map already holds the name.  The handler
\* looks at no field but the name: the Link and Type that Callbacks.h:62-67 lets
\* a request carry for a name that is not registered change nothing.
SubscribeDataref(n) ==
  /\ Polled
  /\ \/ Refused({n})
     \/ Complete({n}) /\ named[n] = None /\ Ignored
     \/ /\ Complete({n}) /\ named[n] # None
        /\ count < MaxCount
        /\ subscribed' = [subscribed EXCEPT ![n] = IF @ = None THEN named[n] ELSE @]
        /\ count' = count + 1
        /\ world' = FrameWorld
        /\ UNCHANGED <<named, constants, heap>> /\ SameElsewhere

UnsubscribeDataref(n) ==
  /\ Polled
  /\ \/ Refused({n})
     \/ /\ Complete({n})
        /\ RemoveSubscribedDataref(n)
        /\ world' = FrameWorld
        /\ UNCHANGED <<named, constants, heap>> /\ SameElsewhere

NamesIn(f) == {f[i].name : i \in DOMAIN f}

\* The line of f whose emplace takes effect for each name not yet registered.
FirstLines(f) ==
  {p \in [NamesIn(f) \ Registered -> DOMAIN f] :
     \A n \in DOMAIN p : /\ f[p[n]].name = n
                         /\ \A i \in DOMAIN f : f[i].name = n => p[n] <= i}

Placements(S) ==
  {a \in [S -> FreeObjects] : \A m, n \in S : a[m] = a[n] => m = n}

\* LOAD_REG_DATA: every line is registered and subscribed, in file order.
LoadRegisterDataref(f) ==
  /\ Polled
  /\ count + Len(f) <= MaxCount
  /\ \E p \in FirstLines(f) : \E at \in Placements(DOMAIN p) :
       /\ named' = [n \in Names |-> IF n \in DOMAIN p THEN at[n] ELSE named[n]]
       /\ heap' = [o \in Objects |->
            IF \E n \in DOMAIN p : at[n] = o
            THEN LET i == p[CHOOSE n \in DOMAIN p : at[n] = o]
                 IN  NewDataref(f[i].link, f[i].type)
            ELSE heap[o]]
  /\ subscribed' = [n \in Names |->
       IF n \in NamesIn(f) /\ subscribed[n] = None THEN named'[n] ELSE subscribed[n]]
  /\ count' = count + Len(f)
  /\ world' = FrameWorld
  /\ UNCHANGED constants /\ SameElsewhere

-----------------------------------------------------------------------------
(* Values.                                                                 *)

\* Dataref::SetValue of the object d, on the main thread, in this request.
SetXPLM(d, v) ==
  \/ Throws(d, v) /\ Abort
  \/ /\ ~Throws(d, v)
     /\ world' = IF Writes(d) THEN [FrameWorld EXCEPT ![d.link] = v] ELSE FrameWorld
     /\ UNCHANGED regVars /\ SameElsewhere

\* FFDataref::SetValue: the aircraft sees it at the next FF320_Callback.
SetFF(o, v) ==
  /\ heap' = [heap EXCEPT ![o].target = v, ![o].needUpdate = TRUE]
  /\ world' = FrameWorld
  /\ UNCHANGED <<named, subscribed, count, constants>> /\ SameElsewhere

SetRegisterDatarefValue(n, v) ==
  /\ Polled
  /\ \/ Refused({n}) /\ v # Missing
     \/ v = Missing /\ Ignored
     \/ Complete({n}) /\ v = NotText /\ Ignored   \* ExtractJsonValue returns ""
     \/ Complete({n, v}) /\ named[n] = None /\ Ignored
     \/ /\ Complete({n, v}) /\ named[n] # None
        /\ \/ heap[named[n]].kind = "XPLM" /\ SetXPLM(heap[named[n]], v)
           \/ heap[named[n]].kind = "FF" /\ SetFF(named[n], v)

SetDatarefValue(l, t, v) ==
  /\ Polled
  /\ \/ Missing \in {l, v} /\ Ignored
     \/ l # Missing /\ v = NotText /\ Ignored
     \/ Complete({v}) /\ l = NotText /\ Abort
     \/ Complete({l, v}) /\ SetXPLM(NewDataref(l, TypeFor(l, t)), v)

\* FFDataref::GetValue calls through the interface, unless the id is -1.
ReadFails(d) == d.kind = "FF" /\ d.found /\ ffApi # "valid"

GetRegisterDatarefValue(n) ==
  /\ Polled
  /\ \/ Refused({n})
     \/ /\ Complete({n})
        /\ IF n \in Registered /\ ReadFails(heap[named[n]]) THEN Abort ELSE Ignored

UnboundConstant(n, v) == [value |-> v, obj |-> None]        \* mutant: dataref never set

\* A name that is constant already keeps its object, and only the value changes,
\* even when the name has been registered for another dataref since.
ConstantEntry(n, v) ==
  IF n \in Constants THEN [constants[n] EXCEPT !.value = v]
  ELSE [value |-> v, obj |-> named[n]]

AddConstantDataref(n, v) ==
  /\ Polled
  /\ \/ Refused({n, v})
     \/ Complete({n, v}) /\ named[n] = None /\ Ignored
     \/ /\ Complete({n, v}) /\ named[n] # None
        /\ constants' = [constants EXCEPT ![n] = ConstantEntry(n, v)]
        /\ world' = FrameWorld
        /\ UNCHANGED <<named, subscribed, count, heap>> /\ SameElsewhere

-----------------------------------------------------------------------------
(* The FlightFactor interface.                                             *)

UnhookedInit ==   \* mutant: no DataAddUpdate
  /\ ffLoaded /\ ffApi' = "valid" /\ world' = FrameWorld
  /\ UNCHANGED <<regVars, ffHooked, ffLoaded, published, aborted>>

InitFF320Interface ==
  \/ (~ffLoaded \/ ffApi = "null") /\ Ignored    \* not found, or not filled in
  \/ ffLoaded /\ ffApi = "stale" /\ Abort        \* DataVersion() of the old one
  \/ /\ ffLoaded
     /\ ffApi' = "valid" /\ ffHooked' = TRUE
     /\ world' = FrameWorld
     /\ UNCHANGED <<regVars, ffLoaded, published, aborted>>

InitFlightFactorA320 == Polled /\ InitFF320Interface

UncheckedInterface == TRUE   \* mutant: REG_FFDATA goes on without the interface

IsFF320InterfaceEnabled == FFEnabled

\* On a disabled interface the request is spent on enabling it: nothing is
\* registered, whatever InitFF320Interface returns.  For an unknown link the
\* add-on is asked for name and description of value -1: a null one ends the
\* process, with any other an object of id -1 is registered.
RegisterFFDataref(n, l) ==
  /\ Polled
  /\ \/ ~IsFF320InterfaceEnabled /\ InitFF320Interface
     \/ IsFF320InterfaceEnabled /\ Refused({n, l})
     \/ /\ IsFF320InterfaceEnabled /\ Complete({n, l})
        /\ \/ (ffApi = "stale" \/ l \notin FFLinks) /\ Abort
           \/ ffApi # "stale" /\ ~Vacant(n) /\ Ignored
           \/ /\ ffApi # "stale" /\ Vacant(n)
              /\ \E o \in FreeObjects :
                   /\ named' = [named EXCEPT ![n] = o]
                   /\ heap' = [heap EXCEPT ![o] = NewFFDataref(l)]
              /\ world' = FrameWorld
              /\ UNCHANGED <<subscribed, count, constants>> /\ SameElsewhere

\* The registered FF datarefs on l whose target the update callback sends: not
\* that of an object of id -1, which has no value to send it to.
Pending(h, l) ==
  {n \in Registered : /\ h[named[n]].kind = "FF" /\ h[named[n]].needUpdate
                      /\ h[named[n]].found /\ h[named[n]].link = l
                      /\ l \in FFSettable
                      /\ h[named[n]].target \in Numeric}

\* Called by the add-on; m_needUpdate stays set.
FF320_Callback ==
  /\ ~aborted /\ ffHooked
  /\ \/ ConstantsThrow /\ Abort
     \/ /\ ~ConstantsThrow
        /\ heap' = ConstantHeap
        /\ world' = [l \in Links |->
             IF Pending(ConstantHeap, l) = {} THEN ConstantWorld[l]
             ELSE ConstantHeap[named[LastKey(Pending(ConstantHeap, l))]].target]
        /\ UNCHANGED <<named, subscribed, count, constants>> /\ SameElsewhere

\* ExportSubscribedDataref reads every subscribed object.
ExportSubscribedDataref ==
  /\ ~aborted
  /\ IF \E n \in Subscribed : ReadFails(heap[subscribed[n]])
     THEN Abort ELSE UNCHANGED vars

-----------------------------------------------------------------------------
(* The simulator and the add-on.                                           *)

Holds(l) == IF l \in XLinks /\ SdkType[l] = "Data" THEN Values ELSE Numeric

SimulatorWrites(l, v) ==
  /\ ~aborted /\ v \in Holds(l)
  /\ world' = [world EXCEPT ![l] = v]
  /\ UNCHANGED <<regVars, ffVars, published, aborted>>

Publish(l) ==
  /\ ~aborted
  /\ published' = published \cup {l}
  /\ UNCHANGED <<regVars, ffVars, world, aborted>>

\* The user leaves the FlightFactor A320, or takes it again.
SwapAircraft ==
  /\ ~aborted /\ AircraftSwaps /\ FFLinks # {}
  /\ ffLoaded' = ~ffLoaded
  /\ ffHooked' = FALSE
  /\ ffApi' = IF FFEnabled THEN "stale" ELSE "null"
  /\ UNCHANGED <<regVars, world, published, aborted>>

-----------------------------------------------------------------------------

Request ==
  \/ OtherRequest
  \/ \E n \in NameArgs, l \in LinkArgs, t \in ReqTypes : RegisterDataref(n, l, t)
  \/ \E n \in NameArgs : \/ UnregisterDataref(n)
                         \/ SubscribeDataref(n)
                         \/ UnsubscribeDataref(n)
                         \/ GetRegisterDatarefValue(n)
  \/ \E n \in NameArgs, v \in ValueArgs : \/ SetRegisterDatarefValue(n, v)
                                          \/ AddConstantDataref(n, v)
  \/ \E l \in LinkArgs, t \in ReqTypes, v \in ValueArgs : SetDatarefValue(l, t, v)
  \/ \E f \in Files : LoadRegisterDataref(f)
  \/ InitFlightFactorA320
  \/ \E n \in NameArgs, l \in LinkArgs : RegisterFFDataref(n, l)

Simulator ==
  \/ \E l \in Links, v \in Values : SimulatorWrites(l, v)
  \/ \E l \in XLinks : Publish(l)
  \/ SwapAircraft

\* A run of NetworkCallback to its end.
NetworkCallback == ConstantsAbort \/ NothingReceived \/ Request

Next ==
  \/ NetworkCallback
  \/ FF320_Callback
  \/ ExportSubscribedDataref
  \/ Simulator

Spec == Init /\ [][Next]_vars

-----------------------------------------------------------------------------
(* Safety.                                                                 *)

\* What is exported under a name is the dataref registered under it: no
\* sequence of REG, UNREG, SUB, UNSUB and file loads leaves a subscription to
\* a name that is gone or to a dataref that was replaced.
SubscribedAreRegistered ==
  \A n \in Names : subscribed[n] # None => subscribed[n] = named[n]

\* The counter may drift up, when a name is subscribed twice, but never below
\* the number of subscriptions: a guard on it cannot starve the export.
CountCoversSubscriptions == count >= Cardinality(Subscribed)

\* No map holds the address of an object that is gone: a constant keeps using
\* its object at every frame after UNREG_DATA has dropped the name.
PointersAreLive ==
  \A n \in Names : /\ named[n] # None => heap[named[n]] # None
                   /\ subscribed[n] # None => heap[subscribed[n]] # None
                   /\ constants[n] # None => heap[constants[n].obj] # None

\* An object of the FlightFactor kind exists only once the interface has been
\* filled in, so no handler calls through a null function pointer.
FFObjectsNeedInterface ==
  \A o \in Objects : heap[o] # None /\ heap[o].kind = "FF" => ffApi # "null"

\* An object stays the dataref it was built as; only a target may be noted in it.
SameDataref(d, e) ==
  /\ e # None
  /\ e.kind = d.kind /\ e.link = d.link /\ e.found = d.found /\ e.type = d.type

\* A registered name keeps its object, and the object its link and type, until
\* UNREG_DATA: a second REG_DATA, REG_FFDATA or file line changes nothing.
NamesAreNeverRetargeted ==
  [][\A n \in Names : named[n] # None /\ named'[n] # None =>
       named'[n] = named[n] /\ SameDataref(heap[named[n]], heap'[named[n]])]_vars

\* A constant whose text its dataref rejects cannot be repaired over the
\* network: no request, not even one that gives it another value or enables the
\* FlightFactor interface, is handled before the constants have been applied.
PoisonIsIrreparable ==
  [][ConstantsThrow /\ ~FFEnabled => aborted' \/ (ConstantsThrow' /\ ~FFEnabled')]_vars

-----------------------------------------------------------------------------
(* The promise to the clients.                                             *)

\* What a client sees of the registry.
LinkOf == [n \in Names |-> IF named[n] = None THEN None ELSE heap[named[n]].link]

Directory == INSTANCE NameDirectory WITH
  NoLink <- None, link <- LinkOf, exported <- Subscribed

\* Refused requests, counters, constants, values, the FlightFactor callback and
\* the simulator never show in the directory, and the requests that do change
\* it, a file load included, change it as NameDirectory says.  (A SUB_DATA that
\* carries the Link of a name not registered is none of them.)
ImplementsDirectory == Directory!DirectorySpec

=============================================================================
