--------------------------------- MODULE System ---------------------------------
(***************************************************************************)
(* The parts of the plugin together, over its whole life in X-Plane.       *)
(*                                                                         *)
(* XPluginEnable makes a new CallbackManager and fills its table of        *)
(* operations; requests leave names in the manager that is in use, and     *)
(* FFDATA_INIT leaves its address in the update list of the FlightFactor   *)
(* add-on, a plugin of its own that calls FF320_Callback on it, whatever   *)
(* becomes of this plugin.  CLIENTS belongs to the plugin and outlives the *)
(* managers.  Managers are known by the order they were made in since the  *)
(* plugin was loaded; Gone stands for those of a plugin that was unloaded. *)
(***************************************************************************)
EXTENDS PluginLifecycle, DllOffers, FiniteSets

CONSTANTS
  Hosts,                \* the clients
  REG_DATA, FFDATA_INIT \* operations

Gone == 0

ASSUME RequestsAssumption == {REG_DATA, FFDATA_INIT} \subseteq Ops

VARIABLES
  table, hDLL, refs, \* as in CallbackTable
  clients,  \* CLIENTS: each host with the manager that executed its first request
  named,    \* managers some name was registered in
  filled,   \* managers whose m_ff320 was filled in
  addon,    \* the add-on is loaded, with its aircraft
  hooks     \* the managers in its update list

tableVars == <<table, hDLL, refs>>
managerVars == <<named, filled>>
addonVars == <<addon, hooks>>
partVars == <<tableVars, clients, managerVars, addonVars>>
systemVars == <<vars, partVars>>

Table == INSTANCE CallbackTable WITH manager <- managers, aborted <- phase = "crashed"

\* Every part keeps its types, and only managers that were made are held.
SystemTypeOK ==
  /\ Table!TypeOK
  /\ clients \in SUBSET (Hosts \X (1..managers))
  /\ named \in SUBSET (1..managers) /\ filled \in SUBSET (1..managers)
  /\ addon \in BOOLEAN /\ hooks \in SUBSET (Gone..managers)

SystemInit ==
  /\ Init
  /\ table = Table!EmptyTable /\ hDLL = None /\ refs = [d \in Dlls |-> 0]
  /\ clients = {} /\ named = {} /\ filled = {}
  /\ addon = FALSE /\ hooks = {}

-----------------------------------------------------------------------------

EagerEnable ==   \* mutant: every new manager fills its interface in at once
  /\ XPluginEnable
  /\ IF managers' = managers THEN UNCHANGED <<tableVars, filled, hooks>>
     ELSE /\ Table!LoadCallbackDLL(Table!EmptyTable, DefaultDll)
          /\ filled' = filled \cup (IF addon THEN {managers'} ELSE {})
          /\ hooks' = hooks \cup (IF addon THEN {managers'} ELSE {})
  /\ UNCHANGED <<clients, named, addon>>

SharedEnable ==   \* mutant: the table of operations is a static of the class
  /\ XPluginEnable
  /\ IF managers' = managers THEN UNCHANGED tableVars
     ELSE Table!LoadCallbackDLL(table, DefaultDll)
  /\ UNCHANGED <<clients, managerVars, addonVars>>

\* A new manager has its own maps, table and m_ff320; the last one is leaked with
\* what it held, CLIENTS and the add-on's list are left alone.
Enable ==
  /\ XPluginEnable
  /\ IF managers' = managers THEN UNCHANGED tableVars
     ELSE Table!LoadCallbackDLL(Table!EmptyTable, DefaultDll)
  /\ UNCHANGED <<clients, managerVars, addonVars>>

\* The statics of the parts go with the plugin.
FreshParts ==
  /\ table' = Table!EmptyTable /\ hDLL' = None
  /\ clients' = {} /\ named' = {} /\ filled' = {}

\* The statics go with the plugin, the DLLs it loaded and the add-on's list do
\* not: DataDelUpdate is never called.
Stop ==
  /\ XPluginStop
  /\ FreshParts
  /\ hooks' = {Gone : h \in hooks}
  /\ UNCHANGED <<refs, addon>>

\* A run of NetworkCallback that executes a request of h: one that leaves the
\* managers as they are, registers a name, fills the interface in and hooks the
\* manager, or loads a DLL.
NetworkCallback(h) ==
  /\ UNCHANGED phase /\ FlightLoop("NetworkCallback")
  /\ \/ UNCHANGED <<tableVars, managerVars, hooks>>
     \/ REG_DATA \in Table!Known /\ named' = named \cup {managers}
        /\ UNCHANGED <<tableVars, filled, hooks>>
     \/ FFDATA_INIT \in Table!Known /\ addon
        /\ filled' = filled \cup {managers} /\ hooks' = hooks \cup {managers}
        /\ UNCHANGED <<tableVars, named>>
     \/ (\E d \in Dlls : Table!LoadDll(d)) /\ UNCHANGED <<managerVars, hooks>>
  /\ clients' = IF \E c \in clients : c[1] = h THEN clients
                ELSE clients \cup {<<h, managers>>}
  /\ UNCHANGED addon

\* The add-on calls FF320_Callback on each manager in its list at every frame,
\* also while this plugin is disabled, and into code that is unloaded.
FF320_Callback ==
  /\ hooks # {} /\ phase # "crashed"
  /\ IF Gone \in hooks THEN ProcessEnds ELSE UNCHANGED vars
  /\ UNCHANGED partVars

\* The add-on comes with its aircraft, with an empty list, and goes with it.
SwapAircraft ==
  /\ phase # "crashed"
  /\ addon' = ~addon /\ hooks' = {}
  /\ UNCHANGED <<vars, tableVars, clients, managerVars>>

NewProcess ==
  /\ Relaunch
  /\ FreshParts /\ refs' = [d \in Dlls |-> 0]
  /\ addon' = FALSE /\ hooks' = {}

\* Nothing here concerns the other parts.
Elsewhere ==
  /\ \/ XPluginStart \/ XPluginDisable
     \/ XPluginReceiveMessage \/ InitializerCallback
     \/ \E l \in Loops \ {"InitializerCallback"} : FlightLoop(l)
     \/ EditConfiguration \/ ProcessEnds
     \/ \E p \in Ports : OtherProgram(p)
  /\ UNCHANGED partVars

SystemNext ==
  \/ Enable \/ Stop \/ NewProcess
  \/ \E h \in Hosts : NetworkCallback(h)
  \/ FF320_Callback \/ SwapAircraft
  \/ Elsewhere

SystemSpec ==
  SystemInit /\ [][SystemNext]_systemVars /\ WF_systemVars(Elsewhere /\ InitializerCallback)

-----------------------------------------------------------------------------
(* Properties.                                                             *)

\* Requests are executed, and their effects exported, by the manager in use.
Serving == phase = "enabled" /\ loops["NetworkCallback"] > 0

\* The managers that requests have left something in, and that clients and the
\* add-on rely on.
Relied == named \cup filled \cup (hooks \ {Gone}) \cup {c[2] : c \in clients}

\* While requests are executed, everything the clients have set up and the list
\* of the add-on belong to the manager that executes them: no client is left
\* with names that are no longer exported.  XPluginEnable replaces the manager
\* without a thought for the last one, so it rests on Bind failing then.
OneManagerServes == Serving => Relied \subseteq {managers}

\* The managers whose constants are applied in a frame: NetworkCallback leaves
\* those of a filled interface to FF320_Callback.
Enforcing ==
  (hooks \ {Gone}) \cup (IF Serving /\ managers \notin filled THEN {managers} ELSE {})

\* No two managers ever hold the same datarefs at constants of their own.
OneManagerEnforces == Cardinality(Enforcing) <= 1

\* What becomes of the table in the System is what CallbackTable lets become of
\* one: a request changes it through LOAD_DLL only, and a manager starts empty.
ImplementsTable == Table!Spec

\* The properties of the table of operations, over the whole life of the plugin:
\* a DLL stays loaded although the plugin that loaded it was not.
HandlersAreLoaded == Table!HandlersAreLoaded
DefaultsPrevail == Table!DefaultsPrevail
FirstHandlerStays == Table!FirstHandlerStays
=============================================================================
