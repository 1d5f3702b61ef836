---------------------------- MODULE PluginLifecycle ----------------------------
(***************************************************************************)
(* The plugin as X-Plane drives it: XPluginStart reads pluginConfig.json,  *)
(* XPluginEnable makes a CallbackManager and a UdpServer, binds its port   *)
(* and registers a flight loop that registers the others, XPluginDisable   *)
(* and XPluginStop do nothing.  X-Plane calls the flight loops and sends   *)
(* messages only while the plugin is enabled, drops its flight loops when  *)
(* it unloads it, and never closes its sockets.                            *)
(***************************************************************************)
EXTENDS Naturals

CONSTANTS
  Ports,        \* UDP ports other than 0
  DefaultIn, DefaultOut,   \* 50556 and 50555
  Absent,       \* a field the configuration does not have
  NotNumber,    \* a port that is not a number
  Configs,      \* what pluginConfig.json may say
  NoFile, Garbled,         \* no such file or an empty one; not JSON
  NoServer,     \* SERVER is null
  MaxManagers   \* bound on the managers made, in the guard of XPluginEnable

Loops == {"InitializerCallback", "NetworkCallback", "ExportSubscribedDataref",
          "BeaconCallback"}

\* sections: all three are there; dll: a path for this platform and build.
Config == [sections : BOOLEAN, dll : BOOLEAN, inIp : BOOLEAN,
           inPort : Ports \cup {Absent, NotNumber},
           outPort : Ports \cup {Absent, NotNumber},
           beacon : BOOLEAN \cup {Absent}]
UdpServer == [inPort : Ports, outPort : Ports, bound : BOOLEAN, beacon : BOOLEAN]

ASSUME PortsAssumption ==
  {DefaultIn, DefaultOut} \subseteq Ports /\ {Absent, NotNumber} \cap Ports = {}
ASSUME AbsentAssumption == Absent # NotNumber /\ Absent \notin BOOLEAN
ASSUME ConfigsAssumption ==
  /\ Configs \subseteq Config
  /\ {NoFile, Garbled} \cap Config = {} /\ NoFile # Garbled
ASSUME NoServerAssumption == NoServer \notin UdpServer
ASSUME MaxManagersAssumption == MaxManagers \in Nat

VARIABLES
  phase,    \* "unloaded", "disabled", "enabled", or "crashed" with X-Plane
  file,     \* pluginConfig.json
  config,   \* PLUGIN_CONFIGURATION
  beacon,   \* BEACON_STS.BeaconEnabled
  managers, \* CallbackManagers made since the plugin was loaded; the last is in use
  server,   \* *SERVER
  held,     \* ports this process has sockets bound to
  taken,    \* ports other programs have taken
  loops     \* how many times each flight loop is scheduled

statics == <<config, beacon, managers, server>>
vars == <<phase, file, statics, held, taken, loops>>

TypeOK ==
  /\ phase \in {"unloaded", "disabled", "enabled", "crashed"}
  /\ file \in Configs \cup {NoFile, Garbled}
  /\ config \in Configs \cup {NoFile}
  /\ beacon \in BOOLEAN
  /\ managers \in Nat
  /\ server \in UdpServer \cup {NoServer}
  /\ held \in SUBSET Ports /\ taken \in SUBSET Ports
  /\ loops \in [Loops -> Nat]

NoLoops == [l \in Loops |-> 0]

Init ==
  /\ phase = "unloaded"
  /\ file \in Configs \cup {NoFile, Garbled}
  /\ config = NoFile /\ beacon = FALSE /\ managers = 0 /\ server = NoServer
  /\ held = {} /\ taken \in SUBSET Ports
  /\ loops = NoLoops

-----------------------------------------------------------------------------
(* The entry points.                                                       *)

\* An exception leaves the plugin, or a null pointer is followed.
Crash == phase' = "crashed"

\* A plugin whose XPluginStart returns 0 is unloaded.
XPluginStart ==
  /\ phase = "unloaded"
  /\ \/ file = Garbled /\ Crash /\ UNCHANGED config
     \/ file \in Configs /\ file.sections /\ phase' = "disabled" /\ config' = file
     \/ \/ file = NoFile
        \/ file \in Configs /\ ~file.sections
        /\ UNCHANGED <<phase, config>>
  /\ UNCHANGED <<file, beacon, managers, server, held, taken, loops>>

Given(p, default) == IF p = Absent THEN default ELSE p

UncheckedPortIn(c) == c.outPort   \* mutant: OutPort read without contains()

\* The configured OutPort is stored over the configured InPort.
PortIn(c) == IF c.outPort # Absent THEN c.outPort ELSE Given(c.inPort, DefaultIn)
PortOut(c) == DefaultOut

\* InIp is asked for, and then not used.
HasServer(c) == c.inIp /\ c.inPort # Absent

\* UdpServer::Bind on a new server: the outcome r and the server it leaves.
\* The socket stays bound when the beacon fails (0x03).
Bind(c, r) ==
  LET p == PortIn(c)
  IN  /\ \/ r = "taken" /\ p \in held \cup taken /\ UNCHANGED held
         \/ r \in {"noBeacon", "noHostName"} /\ beacon'
            /\ p \notin held \cup taken /\ held' = held \cup {p}
         \/ r = "done" /\ p \notin held \cup taken /\ held' = held \cup {p}
      /\ server' = [inPort |-> p, outPort |-> PortOut(c),
                    bound |-> r # "taken", beacon |-> beacon' /\ r = "done"]

UncheckedEnableServer(c) ==   \* mutant: the result of Bind is not looked at
  /\ \E r \in {"taken", "noBeacon", "done"} : Bind(c, r)
  /\ phase' = "enabled"
  /\ loops' = [loops EXCEPT !["InitializerCallback"] = @ + 1]

\* The flight loop is registered only when Bind has returned EXIT_SUCCESS; the
\* host name is used without a test.
EnableServer(c) ==
  \E r \in {"taken", "noBeacon", "noHostName", "done"} :
    /\ Bind(c, r)
    /\ phase' = CASE r = "done" -> "enabled"
                  [] r = "noHostName" -> "crashed"
                  [] OTHER -> "disabled"
    /\ loops' = IF r = "done" THEN [loops EXCEPT !["InitializerCallback"] = @ + 1]
                ELSE loops

\* What LoadCallbackDLL returns is not looked at.
XPluginEnable ==
  /\ phase = "disabled"
  /\ \/ ~config.dll /\ UNCHANGED <<phase, statics, held, loops>>
     \/ /\ config.dll /\ managers < MaxManagers
        /\ managers' = managers + 1
        /\ \/ /\ NotNumber \in {config.inPort, config.outPort}
              /\ Crash
              /\ UNCHANGED <<beacon, server, held, loops>>
           \/ /\ NotNumber \notin {config.inPort, config.outPort}
              /\ beacon' = IF config.beacon = Absent THEN beacon ELSE config.beacon
              /\ \/ HasServer(config) /\ EnableServer(config)
                 \/ ~HasServer(config) /\ phase' = "enabled" /\ UNCHANGED <<server, held, loops>>
        /\ UNCHANGED config
  /\ UNCHANGED <<file, taken>>

ClosingDisable ==   \* mutant: the socket is closed, the flight loops are kept
  /\ phase = "enabled" /\ phase' = "disabled" /\ held' = {}
  /\ UNCHANGED <<file, statics, taken, loops>>

XPluginDisable ==
  /\ phase = "enabled" /\ phase' = "disabled"
  /\ UNCHANGED <<file, statics, held, taken, loops>>

\* The statics of a plugin that is not loaded, or is loaded again.
Fresh == config' = NoFile /\ beacon' = FALSE /\ managers' = 0 /\ server' = NoServer

\* X-Plane unloads the plugin: its statics go, the sockets do not.
XPluginStop ==
  /\ phase = "disabled" /\ phase' = "unloaded"
  /\ Fresh /\ loops' = NoLoops
  /\ UNCHANGED <<file, held, taken>>

-----------------------------------------------------------------------------
(* What X-Plane calls while the plugin is enabled.                         *)

\* XPluginReceiveMessage looks its event up in the manager.
XPluginReceiveMessage ==
  /\ phase = "enabled"
  /\ IF managers = 0 THEN Crash ELSE UNCHANGED phase
  /\ UNCHANGED <<file, statics, held, taken, loops>>

MuteInitializer ==   \* mutant: the beacon alone is registered
  /\ phase = "enabled" /\ loops["InitializerCallback"] > 0
  /\ loops' = [loops EXCEPT !["InitializerCallback"] = 0,
                            !["BeaconCallback"] = IF beacon THEN @ + 1 ELSE @]
  /\ UNCHANGED <<phase, file, statics, held, taken>>

\* Returns 0: X-Plane schedules it no more.
InitializerCallback ==
  /\ phase = "enabled" /\ loops["InitializerCallback"] > 0
  /\ loops' = [l \in Loops |->
       CASE l = "InitializerCallback" -> 0
         [] l = "BeaconCallback" -> IF beacon THEN loops[l] + 1 ELSE loops[l]
         [] OTHER -> loops[l] + 1]
  /\ UNCHANGED <<phase, file, statics, held, taken>>

\* The other flight loops follow both pointers; an exception in what they call
\* ends the process.
FlightLoop(l) ==
  /\ phase = "enabled" /\ loops[l] > 0
  /\ IF managers = 0 \/ server = NoServer THEN Crash ELSE phase' \in {phase, "crashed"}
  /\ UNCHANGED <<file, statics, held, taken, loops>>

-----------------------------------------------------------------------------
(* The user and the other programs.                                        *)

EditConfiguration ==
  /\ phase = "unloaded"
  /\ file' \in Configs \cup {NoFile, Garbled}
  /\ UNCHANGED <<phase, statics, held, taken, loops>>

\* X-Plane is started again, after it was left or after a crash.
Relaunch ==
  /\ phase \in {"unloaded", "crashed"} /\ phase' = "unloaded"
  /\ Fresh /\ loops' = NoLoops /\ held' = {}
  /\ UNCHANGED <<file, taken>>

\* X-Plane or another plugin ends the process.
ProcessEnds ==
  /\ phase # "crashed" /\ Crash
  /\ UNCHANGED <<file, statics, held, taken, loops>>

OtherProgram(p) ==
  /\ p \notin held
  /\ taken' \in {taken \cup {p}, taken \ {p}}
  /\ UNCHANGED <<phase, file, statics, held, loops>>

XPlane ==
  \/ XPluginStart \/ XPluginEnable \/ XPluginDisable \/ XPluginStop
  \/ XPluginReceiveMessage \/ InitializerCallback
  \/ \E l \in Loops \ {"InitializerCallback"} : FlightLoop(l)

Next == XPlane \/ EditConfiguration \/ ProcessEnds \/ Relaunch \/ \E p \in Ports : OtherProgram(p)

Spec == Init /\ [][Next]_vars

\* A scheduled flight loop is called.
FairSpec == Spec /\ WF_vars(InitializerCallback)

-----------------------------------------------------------------------------
(* Properties.                                                             *)

Scheduled == {l \in Loops : loops[l] > 0}

\* Every flight loop X-Plane calls finds a manager and a server bound to a port
\* of ours, and the beacon its socket, however often the plugin was enabled,
\* disabled and reloaded and whichever Bind failed on the way.
LoopsFindServer ==
  phase = "enabled" /\ Scheduled # {} =>
    /\ managers > 0
    /\ server # NoServer /\ server.bound /\ server.inPort \in held
    /\ loops["BeaconCallback"] > 0 => server.beacon

\* No flight loop is ever scheduled twice, so a frame takes at most one
\* datagram.  It holds because the socket XPluginDisable leaves open makes the
\* next Bind fail: nothing unregisters the flight loops.
LoopsRunOnce == \A l \in Loops : loops[l] <= 1

\* An enabled plugin that has a server never goes silent: it polls its socket, or
\* the flight loop that will make it do so is still scheduled, whichever Bind
\* failed before and whatever was left scheduled by an earlier XPluginEnable.
EnabledIsServed ==
  phase = "enabled" /\ HasServer(config) =>
    loops["InitializerCallback"] > 0 \/ loops["NetworkCallback"] > 0

\* An enabled plugin that has a server comes to serve it.
ServesInTheEnd ==
  phase = "enabled" /\ HasServer(config)
    ~> phase # "enabled" \/ loops["NetworkCallback"] > 0

\* README.md: the inbound port is the one of pluginConfig.json, 50555 as shipped.
ListensOnInPort ==
  phase = "enabled" /\ HasServer(config) => server.inPort = config.inPort
=============================================================================
