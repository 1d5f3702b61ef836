------------------------------ MODULE System_proofs ------------------------------
(***************************************************************************)
(* The composition, for every configuration and every order of the calls   *)
(* of X-Plane, requests and aircraft.                                      *)
(*                                                                         *)
(* A step of the System is a step of PluginLifecycle or leaves it alone, so *)
(* its invariant holds here.  A request runs only while a flight loop is   *)
(* scheduled, and from then on no other manager comes to serve: the port   *)
(* is held, and Bind fails.  What was left in a manager is therefore left  *)
(* in the one that serves, and no other one was ever left anything.        *)
(***************************************************************************)
EXTENDS System, PluginLifecycle_proofs, FiniteSetTheorems

TableProofs == INSTANCE CallbackTable_proofs
                 WITH manager <- managers, aborted <- phase = "crashed"

\* Nothing is left anywhere before a flight loop is scheduled, and as long as
\* the plugin runs it is left in the manager in use.
LeftWithOne ==
  /\ phase # "crashed" /\ Scheduled = {} => Relied = {}
  /\ phase = "enabled" => Relied \subseteq {managers}
  /\ \A i, j \in Relied : i = j

SInv == IInv /\ LeftWithOne

-----------------------------------------------------------------------------

\* The lifecycle inside the System is PluginLifecycle.
LEMMA SystemStep == SystemNext => [Next]_vars
<1> SUFFICES ASSUME SystemNext PROVE [Next]_vars
  OBVIOUS
<1> USE DEF Next, XPlane
<1>1. CASE Enable
  BY <1>1 DEF Enable
<1>2. CASE Stop
  BY <1>2 DEF Stop
<1>3. CASE NewProcess
  BY <1>3 DEF NewProcess
<1>4. ASSUME NEW h \in Hosts, NetworkCallback(h) PROVE [Next]_vars
  BY <1>4 DEF NetworkCallback, Loops
<1>5. CASE FF320_Callback
  BY <1>5 DEF FF320_Callback
<1>6. CASE SwapAircraft
  BY <1>6 DEF SwapAircraft
<1>7. CASE Elsewhere
  BY <1>7 DEF Elsewhere
<1> QED
  BY <1>1, <1>2, <1>3, <1>4, <1>5, <1>6, <1>7 DEF SystemNext

\* The plugin is not unloaded by this step, nor the process started again.
GoesOn == phase' = "unloaded" => phase = "unloaded"

\* Flight loops are dropped only with the plugin, and a plugin that comes to be
\* enabled had none.
LEMMA LoopsGoWithPlugin ==
  ASSUME IInv, [Next]_vars, GoesOn
  PROVE  /\ phase' # "crashed" /\ Scheduled' = {} => phase # "crashed" /\ Scheduled = {}
         /\ phase' = "enabled" => \/ phase = "enabled" /\ managers' = managers
                                  \/ phase # "crashed" /\ Scheduled = {}
<1> USE DEF IInv, GoesOn
<1>1. CASE UNCHANGED vars
  BY <1>1 DEF vars, statics, Scheduled
<1>2. CASE XPluginEnable
  <2>1. phase = "disabled"
    BY <1>2 DEF XPluginEnable
  <2>2. CASE Scheduled = {}
    BY <2>1, <2>2
  <2>3. CASE Scheduled # {}
    <3>1. HasServer(config) /\ PortIn(config) \in held
      BY <2>1, <2>3 DEF SocketsStayOpen
    <3>2. phase' # "enabled" /\ loops' = loops
      <4>1. CASE UNCHANGED <<phase, statics, held, loops>> \/ (Crash /\ UNCHANGED loops)
        BY <2>1, <4>1 DEF Crash
      <4>2. CASE EnableServer(config)
        BY <4>2, <3>1 DEF EnableServer, Bind
      <4> QED
        BY <1>2, <3>1, <4>1, <4>2 DEF XPluginEnable
    <3> QED
      BY <2>1, <2>3, <3>2 DEF Scheduled
  <2> QED
    BY <2>2, <2>3
<1>3. CASE InitializerCallback
  <2>1. loops'["NetworkCallback"] > 0
    BY <1>3 DEF InitializerCallback, TypeOK, Loops
  <2>2. Scheduled' # {}
    BY <2>1 DEF Scheduled, Loops
  <2> QED
    BY <1>3, <2>2 DEF InitializerCallback, statics
<1>4. CASE XPluginStart \/ XPluginDisable
  BY <1>4 DEF XPluginStart, XPluginDisable, Crash, statics, Scheduled
<1>5. CASE XPluginReceiveMessage \/ EditConfiguration \/ ProcessEnds
  BY <1>5 DEF XPluginReceiveMessage, EditConfiguration, ProcessEnds, Crash, statics, Scheduled
<1>6. ASSUME NEW l \in Loops, FlightLoop(l)
      PROVE  phase' \in {phase, "crashed"} /\ UNCHANGED <<managers, loops>>
  BY <1>6 DEF FlightLoop, Crash, statics
<1>7. ASSUME NEW p \in Ports, OtherProgram(p)
      PROVE  UNCHANGED <<phase, managers, loops>>
  BY <1>7 DEF OtherProgram, statics
<1>8. CASE XPluginStop
  BY <1>8 DEF XPluginStop
<1>9. CASE Relaunch
  BY <1>9 DEF Relaunch, Configured
<1>10. CASE UNCHANGED <<managers, loops>> /\ phase' \in {phase, "crashed"}
  BY <1>10 DEF Scheduled
<1> QED
  BY <1>1, <1>2, <1>3, <1>4, <1>5, <1>6, <1>7, <1>8, <1>9, <1>10 DEF Next, XPlane

-----------------------------------------------------------------------------

LEMMA InitSInv == SystemInit => SInv
<1> SUFFICES ASSUME SystemInit PROVE SInv
  OBVIOUS
<1>1. Relied = {}
  BY DEF SystemInit, Relied
<1> QED
  BY <1>1, InitIInv DEF SInv, LeftWithOne, SystemInit

\* A step that leaves nothing new in any manager.
LEMMA QuietSInv ==
  ASSUME SInv, IInv', [Next]_vars, GoesOn, Relied' \subseteq Relied
  PROVE  SInv'
BY LoopsGoWithPlugin DEF SInv, LeftWithOne

\* A request leaves what it leaves in the manager that executes it.
LEMMA RequestSInv ==
  ASSUME SInv, IInv', NEW h \in Hosts, NetworkCallback(h)
  PROVE  SInv'
<1>1. /\ phase' = "enabled" /\ loops["NetworkCallback"] > 0
      /\ managers' = managers /\ loops' = loops
      /\ Relied \subseteq {managers}
  BY DEF NetworkCallback, FlightLoop, statics, SInv, LeftWithOne
<1>2. Scheduled' # {}
  BY <1>1 DEF Scheduled, Loops
<1>3. Relied' \subseteq {managers}
  <2>1. named' \subseteq named \cup {managers}
    BY DEF NetworkCallback, managerVars
  <2>2. filled' \subseteq filled \cup {managers}
    BY DEF NetworkCallback, managerVars
  <2>3. hooks' \subseteq hooks \cup {managers}
    BY DEF NetworkCallback
  <2>4. clients' \subseteq clients \cup {<<h, managers>>}
    BY DEF NetworkCallback
  <2>5. {c[2] : c \in clients'} \subseteq {c[2] : c \in clients} \cup {managers}
    BY <2>4
  <2> QED
    BY <1>1, <2>1, <2>2, <2>3, <2>5 DEF Relied
<1> QED
  BY <1>1, <1>2, <1>3 DEF SInv, LeftWithOne

\* What was left goes with the plugin or the process.
LEMMA FreshSInv ==
  ASSUME SInv, IInv', Stop \/ NewProcess
  PROVE  SInv'
<1>1. Relied' = {}
  <2>1. clients' = {} /\ named' = {} /\ filled' = {}
    BY DEF Stop, NewProcess, FreshParts
  <2>2. hooks' \subseteq {Gone}
    BY DEF Stop, NewProcess
  <2> QED
    BY <2>1, <2>2 DEF Relied
<1> QED
  BY <1>1 DEF SInv, LeftWithOne

LEMMA NextSInv == SInv /\ [SystemNext]_systemVars => SInv'
<1> SUFFICES ASSUME SInv, [SystemNext]_systemVars PROVE SInv'
  OBVIOUS
<1>1. [Next]_vars
  BY SystemStep DEF systemVars
<1>2. IInv'
  BY <1>1, NextIInv DEF SInv
<1>3. CASE GoesOn /\ Relied' \subseteq Relied
  BY <1>1, <1>2, <1>3, QuietSInv
<1>4. CASE UNCHANGED systemVars
  BY <1>3, <1>4 DEF GoesOn, Relied, systemVars, vars, partVars, managerVars, addonVars
<1>5. CASE Enable
  <2>1. Relied' = Relied
    BY <1>5 DEF Enable, Relied, managerVars, addonVars
  <2>2. GoesOn
    BY <1>5 DEF Enable, XPluginEnable, EnableServer, Crash, GoesOn
  <2> QED
    BY <1>3, <2>1, <2>2
<1>6. CASE Stop \/ NewProcess
  BY <1>2, <1>6, FreshSInv
<1>7. ASSUME NEW h \in Hosts, NetworkCallback(h) PROVE SInv'
  BY <1>2, <1>7, RequestSInv
<1>8. CASE FF320_Callback
  BY <1>3, <1>8 DEF FF320_Callback, ProcessEnds, Crash, vars, GoesOn, Relied, partVars, managerVars, addonVars
<1>9. CASE SwapAircraft
  BY <1>3, <1>9 DEF SwapAircraft, vars, GoesOn, Relied, managerVars
<1>10. CASE Elsewhere
  <2>1. Relied' = Relied
    BY <1>10 DEF Elsewhere, Relied, partVars, managerVars, addonVars
  <2>2. GoesOn
    BY <1>10 DEF Elsewhere, XPluginStart, XPluginDisable, XPluginReceiveMessage,
       InitializerCallback, FlightLoop, EditConfiguration, ProcessEnds, OtherProgram, Crash, GoesOn
  <2> QED
    BY <1>3, <2>1, <2>2
<1> QED
  BY <1>4, <1>5, <1>6, <1>7, <1>8, <1>9, <1>10 DEF SystemNext

LEMMA SystemInvariance == SystemSpec => []SInv
BY InitSInv, NextSInv, PTL DEF SystemSpec

-----------------------------------------------------------------------------

\* A composition of parts that lets the lifecycle do nothing it does not do
\* alone: the theorems of PluginLifecycle_proofs hold of the System.
THEOREM SystemIsLifecycle == SystemSpec => Spec
<1>1. SystemInit => Init
  BY DEF SystemInit
<1>2. [SystemNext]_systemVars => [Next]_vars
  BY SystemStep DEF systemVars
<1> QED
  BY <1>1, <1>2, PTL DEF SystemSpec, Spec

\* What holds of the flight loops of the plugin alone holds in the System: they
\* find a server that listens, run once a frame, and an enabled plugin has one.
THEOREM SystemFlightLoops == SystemSpec => [](LoopsFindServer /\ LoopsRunOnce /\ EnabledIsServed)
BY SystemIsLifecycle, FlightLoopsFindServer, FlightLoopsRunOnce, EnabledPluginIsServed, PTL

\* While requests are executed, all that clients have ever set up is in the
\* manager that executes them, whatever order of enabling, disabling, failing
\* and reloading came before.
THEOREM RequestsReachOneManager == SystemSpec => []OneManagerServes
<1>1. SInv => OneManagerServes
  BY DEF SInv, LeftWithOne, OneManagerServes, Serving
<1> QED
  BY <1>1, SystemInvariance, PTL

\* NetworkCallback and FF320_Callback never apply the constants of two managers.
THEOREM ConstantsOfOneManager == SystemSpec => []OneManagerEnforces
<1>1. SInv => OneManagerEnforces
  <2> SUFFICES ASSUME SInv PROVE Cardinality(Enforcing) <= 1
    BY DEF OneManagerEnforces
  <2>1. \A i, j \in Enforcing : i = j
    BY DEF SInv, LeftWithOne, Enforcing, Relied, Serving
  <2>2. CASE Enforcing = {}
    BY <2>2, FS_EmptySet
  <2>3. ASSUME NEW i \in Enforcing PROVE Cardinality(Enforcing) <= 1
    <3>1. Enforcing = {i}
      BY <2>1
    <3> QED
      BY <3>1, FS_Singleton
  <2> QED
    BY <2>2, <2>3
<1> QED
  BY <1>1, SystemInvariance, PTL

-----------------------------------------------------------------------------
(* The table of operations.                                                *)

\* A manager that exists before and after a step is in use.
LEMMA TableStep ==
  ASSUME IInv, [SystemNext]_systemVars
  PROVE  [Table!Next]_(Table!vars)
<1> USE DEF Table!Next, Table!vars
<1>0. Table!vars = <<managers, table, hDLL, refs, phase = "crashed">>
  BY DEF Table!vars
<1>1. CASE UNCHANGED systemVars
  BY <1>1 DEF systemVars, vars, statics, partVars, tableVars
<1>2. CASE Enable
  <2>1. CASE managers' = managers
    <3>1. UNCHANGED phase
      BY <1>2, <2>1 DEF Enable, XPluginEnable, IInv, TypeOK, statics
    <3> QED
      BY <1>2, <2>1, <3>1 DEF Enable, tableVars
  <2>2. CASE managers' # managers
    <3>1. /\ phase # "crashed" /\ managers < MaxManagers /\ managers' = managers + 1
          /\ Table!LoadCallbackDLL(Table!EmptyTable, DefaultDll)
      BY <1>2, <2>2 DEF Enable, XPluginEnable, statics
    <3>2. Table!XPluginEnable
      BY <3>1 DEF Table!XPluginEnable
    <3> QED
      BY <3>2
  <2> QED
    BY <2>1, <2>2
<1>3. CASE Stop
  BY <1>3 DEF Stop, XPluginStop, FreshParts, Fresh, Table!Unloaded
<1>4. CASE NewProcess
  BY <1>4 DEF NewProcess, Relaunch, FreshParts, Fresh, Table!NewProcess
<1>5. ASSUME NEW h \in Hosts, NetworkCallback(h)
      PROVE  [Table!Next]_(Table!vars)
  <2>1. phase = "enabled" /\ managers > 0 /\ UNCHANGED <<phase, managers>>
    BY <1>5 DEF NetworkCallback, FlightLoop, statics, Crash, IInv, TypeOK
  <2>2. UNCHANGED tableVars \/ \E d \in Dlls : Table!LoadDll(d)
    BY <1>5 DEF NetworkCallback
  <2> QED
    BY <2>1, <2>2 DEF tableVars
<1>6. CASE UNCHANGED tableVars /\ UNCHANGED managers /\ phase' \in {phase, "crashed"}
  BY <1>6 DEF tableVars, Table!ProcessEnds
<1>7. CASE FF320_Callback
  BY <1>6, <1>7 DEF FF320_Callback, ProcessEnds, Crash, vars, statics, partVars
<1>8. CASE SwapAircraft
  BY <1>6, <1>8 DEF SwapAircraft, vars, statics
<1>9. CASE Elsewhere
  <2>1. UNCHANGED tableVars
    BY <1>9 DEF Elsewhere, partVars
  <2>2. /\ UNCHANGED managers
        /\ phase' # phase /\ phase' # "crashed" => phase \in {"unloaded", "enabled"} /\ phase' = "disabled"
    BY <1>9 DEF Elsewhere, XPluginStart, XPluginDisable, XPluginReceiveMessage,
       InitializerCallback, FlightLoop, EditConfiguration, ProcessEnds, OtherProgram, Crash, statics
  <2> QED
    BY <2>1, <2>2 DEF tableVars, Table!ProcessEnds
<1> QED
  BY <1>1, <1>2, <1>3, <1>4, <1>5, <1>7, <1>8, <1>9 DEF SystemNext

\* The table of operations behaves as CallbackTable says, in whatever order
\* managers come and go and requests load DLLs.
THEOREM SystemImplementsTable == SystemSpec => ImplementsTable
<1>1. SystemInit => Table!Init
  BY DEF SystemInit, Init, Table!Init
<1>2. SInv /\ [SystemNext]_systemVars => [Table!Next]_(Table!vars)
  BY TableStep DEF SInv
<1> QED
  BY <1>1, <1>2, SystemInvariance, PTL DEF SystemSpec, ImplementsTable, Table!Spec

\* The proofs about CallbackTable are proofs about this table.
LEMMA SameTable == Table!Spec => TableProofs!Spec
<1>1. Table!Init => TableProofs!Init
  BY DEF Table!Init, TableProofs!Init, Table!EmptyTable, TableProofs!EmptyTable
<1>2. ASSUME NEW t, NEW d PROVE Table!LoadCallbackDLL(t, d) <=> TableProofs!LoadCallbackDLL(t, d)
  <2>1. \A e, o : Table!Entries(e, o) = TableProofs!Entries(e, o)
    BY DEF Table!Entries, TableProofs!Entries
  <2>2. \A S : Table!First(S) = TableProofs!First(S)
    BY DEF Table!First, TableProofs!First
  <2>3. Table!Appended(t, d) = TableProofs!Appended(t, d)
    BY <2>1, <2>2 DEF Table!Appended, TableProofs!Appended
  <2> QED
    BY <2>3 DEF Table!LoadCallbackDLL, TableProofs!LoadCallbackDLL,
                Table!LoadLibrary, TableProofs!LoadLibrary
<1>3. Table!EmptyTable = TableProofs!EmptyTable /\ Table!Known = TableProofs!Known
  BY DEF Table!EmptyTable, TableProofs!EmptyTable, Table!Known, TableProofs!Known
<1>4. Table!Next => TableProofs!Next
  <2>1. Table!XPluginEnable => TableProofs!XPluginEnable
    BY <1>2, <1>3 DEF Table!XPluginEnable, TableProofs!XPluginEnable
  <2>2. ASSUME NEW d \in Dlls, Table!LoadDll(d) PROVE TableProofs!LoadDll(d)
    BY <1>2, <1>3, <2>2 DEF Table!LoadDll, TableProofs!LoadDll
  <2>3. /\ Table!Unloaded => TableProofs!Unloaded
        /\ Table!NewProcess => TableProofs!NewProcess
        /\ Table!ProcessEnds => TableProofs!ProcessEnds
        /\ Table!OtherOperation => TableProofs!OtherOperation
    BY <1>3 DEF Table!Unloaded, TableProofs!Unloaded, Table!NewProcess, TableProofs!NewProcess,
       Table!ProcessEnds, TableProofs!ProcessEnds, Table!OtherOperation,
       TableProofs!OtherOperation, Table!vars, TableProofs!vars
  <2> QED
    BY <2>1, <2>2, <2>3 DEF Table!Next, TableProofs!Next
<1>5. UNCHANGED Table!vars => UNCHANGED TableProofs!vars
  BY DEF Table!vars, TableProofs!vars
<1> QED
  BY <1>1, <1>4, <1>5, PTL DEF Table!Spec, TableProofs!Spec

LEMMA SameConstants ==
  /\ LOAD_DLL \in Ops
  /\ DefaultDll \in Dlls /\ Offers \in [Dlls -> Seq(TableProofs!Entry)]
  /\ None \notin TableProofs!Handler \cup Dlls
  /\ MaxLoads \in Nat
<1>1. Entry = TableProofs!Entry /\ Handler = TableProofs!Handler
  BY DEF Entry, TableProofs!Entry, Handler, TableProofs!Handler
<1> QED
  BY <1>1, OpsAssumption, DllsAssumption, NoneAssumption, LoadsAssumption

\* No request runs code of a DLL that is not loaded, over the whole life of the
\* plugin.
THEOREM SystemHandlersAreLoaded == SystemSpec => []HandlersAreLoaded
<1>1. TableProofs!HandlersAreLoaded => HandlersAreLoaded
  BY DEF TableProofs!HandlersAreLoaded, HandlersAreLoaded, Table!HandlersAreLoaded,
         TableProofs!Known, Table!Known
<1>2. Table!Spec => []TableProofs!HandlersAreLoaded
  BY SameTable, TableProofs!NoHandlerIsUnloaded, SameConstants, PTL
<1> QED
  BY <1>1, <1>2, SystemImplementsTable, PTL DEF ImplementsTable

\* The default DLL runs what it offers, after any number of reloads.
THEOREM SystemDefaultsPrevail == SystemSpec => []DefaultsPrevail
<1>1. TableProofs!DefaultsPrevail => DefaultsPrevail
  BY DEF TableProofs!DefaultsPrevail, DefaultsPrevail, Table!DefaultsPrevail,
         TableProofs!Known, Table!Known, TableProofs!Entries, Table!Entries
<1>2. Table!Spec => []TableProofs!DefaultsPrevail
  BY SameTable, TableProofs!DefaultsAreNeverOverridden, SameConstants, PTL
<1> QED
  BY <1>1, <1>2, SystemImplementsTable, PTL DEF ImplementsTable

\* No DLL takes over an operation of the manager in use.
THEOREM SystemHandlersAreFinal == SystemSpec => FirstHandlerStays
<1>1. Table!Spec => TableProofs!FirstHandlerStays
  BY SameTable, TableProofs!HandlersAreFinal, SameConstants, PTL
<1>2. [managers' = managers => \A o \in TableProofs!Known : table'[o] = table[o]]_(TableProofs!vars)
        => [managers' = managers => \A o \in Table!Known : table'[o] = table[o]]_(Table!vars)
  BY DEF TableProofs!Known, Table!Known, TableProofs!vars, Table!vars
<1> QED
  BY <1>1, <1>2, SystemImplementsTable, PTL
     DEF ImplementsTable, FirstHandlerStays, Table!FirstHandlerStays, TableProofs!FirstHandlerStays

-----------------------------------------------------------------------------
(* Types.                                                                  *)

\* Only managers that were made are held.
HeldWereMade ==
  /\ clients \in SUBSET (Hosts \X (1..managers))
  /\ named \in SUBSET (1..managers) /\ filled \in SUBSET (1..managers)
  /\ addon \in BOOLEAN /\ hooks \in SUBSET (Gone..managers)

LEMMA HeldStep ==
  ASSUME IInv, HeldWereMade, [SystemNext]_systemVars
  PROVE  HeldWereMade'
<1> USE DEF HeldWereMade, Gone
<1>0. managers \in Nat
  BY DEF IInv, TypeOK
<1>1. CASE UNCHANGED <<clients, managerVars, addonVars>> /\ managers' \in {managers, managers + 1}
  <2>1. 1..managers \subseteq 1..managers' /\ Gone..managers \subseteq Gone..managers'
    BY <1>0, <1>1
  <2> QED
    BY <1>1, <2>1 DEF managerVars, addonVars
<1>2. CASE UNCHANGED systemVars
  BY <1>1, <1>2 DEF systemVars, vars, statics, partVars
<1>3. CASE Enable
  BY <1>1, <1>3 DEF Enable, XPluginEnable, statics
<1>4. CASE Stop
  BY <1>4 DEF Stop, FreshParts, XPluginStop, Fresh
<1>5. CASE NewProcess
  BY <1>5 DEF NewProcess, FreshParts, Relaunch, Fresh
<1>6. ASSUME NEW h \in Hosts, NetworkCallback(h) PROVE HeldWereMade'
  <2>1. managers' = managers /\ managers \in 1..managers /\ managers \in Gone..managers
    BY <1>0, <1>6 DEF NetworkCallback, FlightLoop, Crash, statics
  <2>2. named' \subseteq named \cup {managers} /\ filled' \subseteq filled \cup {managers}
    BY <1>6 DEF NetworkCallback, managerVars
  <2>3. hooks' \subseteq hooks \cup {managers} /\ clients' \subseteq clients \cup {<<h, managers>>}
    BY <1>6 DEF NetworkCallback
  <2>4. addon' = addon
    BY <1>6 DEF NetworkCallback
  <2> QED
    BY <2>1, <2>2, <2>3, <2>4
<1>7. CASE FF320_Callback
  BY <1>1, <1>7 DEF FF320_Callback, ProcessEnds, vars, statics, partVars
<1>8. CASE SwapAircraft
  <2>1. UNCHANGED <<clients, managerVars, managers>> /\ hooks' = {}
    BY <1>8 DEF SwapAircraft, vars, statics
  <2>2. addon' \in BOOLEAN
    BY <1>8 DEF SwapAircraft
  <2> QED
    BY <2>1, <2>2 DEF managerVars
<1>9. CASE Elsewhere
  BY <1>1, <1>9 DEF Elsewhere, partVars, XPluginStart, XPluginDisable, XPluginReceiveMessage,
     InitializerCallback, FlightLoop, EditConfiguration, ProcessEnds, OtherProgram, statics
<1> QED
  BY <1>2, <1>3, <1>4, <1>5, <1>6, <1>7, <1>8, <1>9 DEF SystemNext

\* The parts keep their types, and nothing refers to a manager never made.
THEOREM SystemTypeCorrect == SystemSpec => []SystemTypeOK
<1>1. SystemInit => HeldWereMade
  BY DEF SystemInit, HeldWereMade
<1>2. SInv /\ HeldWereMade /\ [SystemNext]_systemVars => HeldWereMade'
  BY HeldStep DEF SInv
<1>3. Table!Spec => []TableProofs!TypeOK
  BY SameTable, TableProofs!TableTypeCorrect, SameConstants, PTL
<1>4. HeldWereMade /\ TableProofs!TypeOK => SystemTypeOK
  <2>1. TableProofs!Handler = Table!Handler
    BY DEF TableProofs!Handler, Table!Handler
  <2>2. TableProofs!TypeOK => Table!TypeOK
    BY <2>1, Zenon DEF TableProofs!TypeOK, Table!TypeOK
  <2> QED
    BY <2>2, Zenon DEF HeldWereMade, SystemTypeOK
<1> QED
  BY <1>1, <1>2, <1>3, <1>4, SystemImplementsTable, SystemInvariance, PTL
     DEF SystemSpec, ImplementsTable
=============================================================================
