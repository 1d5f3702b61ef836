------------------------- MODULE PluginLifecycle_proofs -------------------------
(***************************************************************************)
(* The flight loops of PluginLifecycle, for every configuration file, every *)
(* set of ports and every order of the calls of X-Plane.                   *)
(*                                                                         *)
(* The argument is one sentence: a flight loop is scheduled only after Bind *)
(* has succeeded, and from then on, until X-Plane unloads the plugin and    *)
(* drops its flight loops with it, the port of its configuration is held,   *)
(* so that no other Bind succeeds.  SocketsStayOpen says the latter.        *)
(***************************************************************************)
EXTENDS PluginLifecycle, TLAPS

\* A loaded plugin has a configuration, and one that is not has no flight loop.
Configured ==
  /\ phase \in {"disabled", "enabled"} => config \in Configs
  /\ phase = "unloaded" => Scheduled = {}

\* While anything is scheduled, the port the configuration asks for is held.
SocketsStayOpen ==
  Scheduled # {} /\ phase # "crashed" =>
    /\ config \in Configs /\ HasServer(config)
    /\ PortIn(config) \in held

\* Before InitializerCallback has run nothing else is scheduled.
OneGeneration ==
  /\ \A l \in Loops : loops[l] \in {0, 1}
  /\ loops["InitializerCallback"] = 1 =>
       \A l \in Loops : l # "InitializerCallback" => loops[l] = 0

\* The server that is in use is the one that Bind succeeded on, with its beacon.
ServerInUse ==
  phase = "enabled" /\ Scheduled # {} =>
    /\ managers > 0
    /\ server \in UdpServer /\ server.bound /\ server.inPort \in held
    /\ server.beacon = beacon
    /\ loops["BeaconCallback"] > 0 => beacon

IInv ==
  /\ TypeOK /\ Configured /\ SocketsStayOpen /\ OneGeneration /\ ServerInUse

-----------------------------------------------------------------------------
(* Every step keeps the invariant, one lemma per group of actions.         *)

\* Nothing is scheduled, and there is no plugin to be enabled.
LEMMA UnloadedIInv ==
  ASSUME TypeOK', phase' = "unloaded", loops' = NoLoops
  PROVE  IInv'
<1>1. Scheduled' = {}
  BY DEF Scheduled, NoLoops
<1>2. OneGeneration'
  BY DEF OneGeneration, NoLoops
<1> QED
  BY <1>1, <1>2 DEF IInv, Configured, SocketsStayOpen, ServerInUse

LEMMA InitIInv == Init => IInv
<1> SUFFICES ASSUME Init PROVE IInv
  OBVIOUS
<1>1. TypeOK
  BY DEF Init, TypeOK, NoLoops
<1>2. Scheduled = {} /\ OneGeneration
  BY DEF Init, Scheduled, OneGeneration, NoLoops
<1> QED
  BY <1>1, <1>2 DEF Init, IInv, Configured, SocketsStayOpen, ServerInUse

\* The process goes on with what it has, or ends.
QuietStep ==
  /\ phase' \in {phase, "crashed"} \/ (phase = "enabled" /\ phase' = "disabled")
  /\ UNCHANGED <<config, beacon, managers, server, held, loops>>
  /\ file' \in Configs \cup {NoFile, Garbled} /\ taken' \in SUBSET Ports

\* XPluginDisable and the callbacks that change no loop.
LEMMA QuietIInv ==
  ASSUME IInv,
         QuietStep
  PROVE  IInv'
<1> USE DEF IInv, QuietStep
<1>1. TypeOK'
  BY DEF TypeOK
<1>2. Scheduled' = Scheduled
  BY DEF Scheduled
<1>3. Configured' /\ OneGeneration'
  BY <1>2 DEF Configured, OneGeneration, TypeOK
<1>4. SocketsStayOpen'
  BY <1>2 DEF SocketsStayOpen, TypeOK, HasServer, PortIn, Given
<1>5. ServerInUse'
  BY <1>2 DEF ServerInUse, TypeOK
<1> QED
  BY <1>1, <1>3, <1>4, <1>5

\* XPluginStart finds nothing scheduled: X-Plane drops the flight loops of a
\* plugin it unloads.
LEMMA StartIInv ==
  ASSUME IInv, XPluginStart
  PROVE  IInv'
<1> USE DEF IInv, XPluginStart, Crash
<1>1. TypeOK'
  BY ConfigsAssumption DEF TypeOK
<1>2. Scheduled' = {}
  BY DEF Scheduled, Configured
<1>3. Configured' /\ OneGeneration'
  BY <1>2, ConfigsAssumption DEF Configured, OneGeneration, TypeOK
<1> QED
  BY <1>1, <1>2, <1>3 DEF SocketsStayOpen, ServerInUse

\* XPluginStop and a new process.
LEMMA StopIInv ==
  ASSUME IInv, XPluginStop \/ Relaunch
  PROVE  IInv'
<1>0. NoLoops \in [Loops -> Nat]
  BY DEF NoLoops
<1>1. TypeOK'
  <2>1. CASE XPluginStop
    BY <1>0, <2>1 DEF IInv, TypeOK, XPluginStop, Fresh
  <2>2. CASE Relaunch
    BY <1>0, <2>2 DEF IInv, TypeOK, Relaunch, Fresh
  <2> QED
    BY <2>1, <2>2
<1>2. phase' = "unloaded" /\ loops' = NoLoops
  BY DEF XPluginStop, Relaunch
<1> QED
  BY <1>1, <1>2, UnloadedIInv

\* InitializerCallback moves the one generation of flight loops on.
LEMMA InitializerIInv ==
  ASSUME IInv, InitializerCallback
  PROVE  IInv'
<1> USE DEF IInv, InitializerCallback, statics
<1>1. /\ loops["InitializerCallback"] = 1
      /\ \A l \in Loops : l # "InitializerCallback" => loops[l] = 0
  BY DEF OneGeneration, Loops
<1>2. /\ loops' \in [Loops -> {0, 1}] /\ loops'["InitializerCallback"] = 0
      /\ loops'["BeaconCallback"] > 0 => beacon
  BY <1>1 DEF TypeOK, Loops
<1>3. TypeOK'
  BY <1>2 DEF TypeOK
<1>4. Scheduled # {}
  BY <1>1 DEF Scheduled, Loops
<1>5. Configured'
  BY DEF Configured
<1>6. OneGeneration'
  BY <1>2 DEF OneGeneration
<1>7. SocketsStayOpen'
  BY <1>4 DEF SocketsStayOpen, HasServer, PortIn, Given
<1>8. ServerInUse'
  BY <1>2, <1>4 DEF ServerInUse
<1> QED
  BY <1>3, <1>5, <1>6, <1>7, <1>8

-----------------------------------------------------------------------------
(* XPluginEnable.                                                          *)

\* The port of a configuration with ports is a port.
LEMMA PortInIsPort ==
  ASSUME NEW c \in Configs, NotNumber \notin {c.inPort, c.outPort}
  PROVE  PortIn(c) \in Ports /\ PortOut(c) \in Ports
BY PortsAssumption, ConfigsAssumption DEF PortIn, PortOut, Given, Config

\* Bind succeeds only on a port that is free, when nothing is scheduled.
LEMMA EnableServerIInv ==
  ASSUME IInv, phase = "disabled", HasServer(config), EnableServer(config),
         NotNumber \notin {config.inPort, config.outPort},
         beacon' \in BOOLEAN, managers' = managers + 1,
         UNCHANGED <<config, file, taken>>
  PROVE  IInv'
<1> USE DEF IInv
<1> DEFINE p == PortIn(config)
<1>1. config \in Configs /\ p \in Ports /\ PortOut(config) \in Ports
  BY PortInIsPort DEF Configured
<1>2. PICK r \in {"taken", "noBeacon", "noHostName", "done"} :
        /\ Bind(config, r)
        /\ phase' = CASE r = "done" -> "enabled"
                      [] r = "noHostName" -> "crashed"
                      [] OTHER -> "disabled"
        /\ loops' = IF r = "done" THEN [loops EXCEPT !["InitializerCallback"] = @ + 1]
                    ELSE loops
  BY DEF EnableServer
<1>3. /\ held' \in SUBSET Ports /\ held \subseteq held'
      /\ server' \in UdpServer /\ server'.inPort = p
      /\ r = "done" => /\ p \notin held /\ p \in held'
                        /\ server'.bound /\ server'.beacon = beacon'
  BY <1>1, <1>2 DEF Bind, TypeOK, UdpServer
<1>4. phase' \in {"enabled", "disabled", "crashed"} /\ (phase' = "enabled" <=> r = "done")
  BY <1>2
<1>5. TypeOK'
  BY <1>2, <1>3, <1>4 DEF TypeOK, Loops
<1>6. CASE r = "done"
  <2>1. Scheduled = {}
    BY <1>3, <1>6 DEF SocketsStayOpen
  <2>2. \A l \in Loops : loops'[l] = IF l = "InitializerCallback" THEN 1 ELSE 0
    <3>1. \A l \in Loops : loops[l] = 0
      BY <2>1 DEF Scheduled, TypeOK
    <3> QED
      BY <1>2, <1>6, <3>1 DEF TypeOK, Loops
  <2>3. Configured' /\ OneGeneration'
    BY <1>1, <1>4, <1>6, <2>2 DEF Configured, OneGeneration
  <2>4. SocketsStayOpen'
    BY <1>1, <1>3, <1>6 DEF SocketsStayOpen, HasServer, PortIn, Given
  <2>5. ServerInUse'
    BY <1>3, <1>6, <2>2 DEF ServerInUse, TypeOK, Loops
  <2> QED
    BY <1>5, <2>3, <2>4, <2>5
<1>7. CASE r # "done"
  <2>1. loops' = loops /\ Scheduled' = Scheduled
    BY <1>2, <1>7 DEF Scheduled
  <2>2. Configured' /\ OneGeneration'
    BY <1>1, <1>4, <2>1 DEF Configured, OneGeneration
  <2>3. SocketsStayOpen'
    BY <1>3, <2>1 DEF SocketsStayOpen, HasServer, PortIn, Given
  <2>4. ServerInUse'
    BY <1>4, <1>7 DEF ServerInUse
  <2> QED
    BY <1>5, <2>2, <2>3, <2>4
<1> QED
  BY <1>6, <1>7

LEMMA EnableIInv ==
  ASSUME IInv, XPluginEnable
  PROVE  IInv'
<1> USE DEF IInv
<1>1. phase = "disabled" /\ config \in Configs /\ UNCHANGED <<file, taken, config>>
  BY DEF XPluginEnable, Configured, statics
<1>2. CASE ~config.dll /\ UNCHANGED <<phase, statics, held, loops>>
  <2>1. QuietStep
    BY <1>1, <1>2 DEF TypeOK, statics, QuietStep
  <2> QED
    BY <2>1, QuietIInv
<1>3. CASE /\ managers' = managers + 1
           /\ Crash
           /\ UNCHANGED <<beacon, server, held, loops>>
  <2>1. TypeOK' /\ Scheduled' = Scheduled
    BY <1>1, <1>3 DEF TypeOK, Crash, Scheduled
  <2>2. Configured' /\ OneGeneration'
    BY <1>1, <1>3 DEF Configured, OneGeneration, Crash
  <2> QED
    BY <1>3, <2>1, <2>2 DEF SocketsStayOpen, ServerInUse, Crash
<1>4. CASE /\ managers' = managers + 1
           /\ NotNumber \notin {config.inPort, config.outPort}
           /\ beacon' = IF config.beacon = Absent THEN beacon ELSE config.beacon
           /\ \/ HasServer(config) /\ EnableServer(config)
              \/ ~HasServer(config) /\ phase' = "enabled" /\ UNCHANGED <<server, held, loops>>
  <2>1. beacon' \in BOOLEAN
    BY <1>1, <1>4, ConfigsAssumption DEF TypeOK, Config
  <2>2. CASE HasServer(config) /\ EnableServer(config)
    BY <1>1, <1>4, <2>1, <2>2, EnableServerIInv
  <2>3. CASE ~HasServer(config) /\ phase' = "enabled" /\ UNCHANGED <<server, held, loops>>
    <3>1. Scheduled' = {}
      BY <1>1, <2>3 DEF SocketsStayOpen, Scheduled
    <3>2. TypeOK' /\ Configured' /\ OneGeneration'
      BY <1>1, <1>4, <2>1, <2>3 DEF TypeOK, Configured, OneGeneration
    <3> QED
      BY <3>1, <3>2 DEF SocketsStayOpen, ServerInUse
  <2> QED
    BY <1>4, <2>2, <2>3
<1> QED
  BY <1>1, <1>2, <1>3, <1>4 DEF XPluginEnable

-----------------------------------------------------------------------------

LEMMA NextIInv == IInv /\ [Next]_vars => IInv'
<1> SUFFICES ASSUME IInv, [Next]_vars PROVE IInv'
  OBVIOUS
<1>0. file \in Configs \cup {NoFile, Garbled} /\ taken \in SUBSET Ports
  BY DEF IInv, TypeOK
<1>1. CASE UNCHANGED vars
  <2>1. QuietStep
    BY <1>0, <1>1 DEF vars, statics, QuietStep
  <2> QED
    BY <2>1, QuietIInv
<1>2. CASE XPluginStart
  BY <1>2, StartIInv
<1>3. CASE XPluginEnable
  BY <1>3, EnableIInv
<1>4. CASE XPluginDisable
  <2>1. QuietStep
    BY <1>4, <1>0 DEF XPluginDisable, statics, QuietStep
  <2> QED
    BY <2>1, QuietIInv
<1>5. CASE XPluginStop \/ Relaunch
  BY <1>5, StopIInv
<1>6. CASE XPluginReceiveMessage
  <2>1. QuietStep
    BY <1>6, <1>0 DEF XPluginReceiveMessage, Crash, statics, QuietStep
  <2> QED
    BY <2>1, QuietIInv
<1>7. CASE InitializerCallback
  BY <1>7, InitializerIInv
<1>8. ASSUME NEW l \in Loops, FlightLoop(l) PROVE IInv'
  <2>1. QuietStep
    BY <1>8, <1>0 DEF FlightLoop, Crash, statics, QuietStep
  <2> QED
    BY <2>1, QuietIInv
<1>9. CASE EditConfiguration
  <2>1. QuietStep
    BY <1>9, <1>0 DEF EditConfiguration, statics, QuietStep
  <2> QED
    BY <2>1, QuietIInv
<1>10. ASSUME NEW q \in Ports, OtherProgram(q) PROVE IInv'
  <2>1. QuietStep
    BY <1>10, <1>0 DEF OtherProgram, statics, QuietStep
  <2> QED
    BY <2>1, QuietIInv
<1>11. CASE ProcessEnds
  <2>1. QuietStep
    BY <1>11, <1>0 DEF ProcessEnds, Crash, statics, QuietStep
  <2> QED
    BY <2>1, QuietIInv
<1> QED
  BY <1>1, <1>2, <1>3, <1>4, <1>5, <1>6, <1>7, <1>8, <1>9, <1>10, <1>11 DEF Next, XPlane

LEMMA Invariance == Spec => []IInv
BY InitIInv, NextIInv, PTL DEF Spec

\* The variables of the plugin, its sockets and its flight loops stay in range.
THEOREM LifecycleTypeCorrect == Spec => []TypeOK
BY Invariance, PTL DEF IInv

\* NetworkCallback, ExportSubscribedDataref and BeaconCallback never follow a
\* null SERVER or CALLBACK_MANAGER, and never poll a socket that is not bound.
THEOREM FlightLoopsFindServer == Spec => []LoopsFindServer
<1>1. IInv => LoopsFindServer
  BY NoServerAssumption DEF IInv, ServerInUse, LoopsFindServer
<1> QED
  BY <1>1, Invariance, PTL

\* No sequence of enabling, disabling, failing and reloading schedules a flight
\* loop twice.
THEOREM FlightLoopsRunOnce == Spec => []LoopsRunOnce
<1>1. IInv => LoopsRunOnce
  BY DEF IInv, OneGeneration, LoopsRunOnce
<1> QED
  BY <1>1, Invariance, PTL

-----------------------------------------------------------------------------
(* An enabled plugin serves, or is about to.                               *)

LEMMA EnableServes ==
  ASSUME IInv, XPluginEnable
  PROVE  EnabledIsServed'
<1>1. phase = "disabled" /\ config' = config /\ loops \in [Loops -> Nat]
  BY DEF XPluginEnable, statics, IInv, TypeOK
<1>2. CASE phase' # "enabled" \/ ~HasServer(config)
  BY <1>1, <1>2 DEF EnabledIsServed, HasServer
<1>3. CASE phase' = "enabled" /\ EnableServer(config)
  <2>1. loops' = [loops EXCEPT !["InitializerCallback"] = @ + 1]
    BY <1>3 DEF EnableServer
  <2>2. loops'["InitializerCallback"] > 0
    BY <1>1, <2>1 DEF Loops
  <2> QED
    BY <2>2 DEF EnabledIsServed
<1> QED
  BY <1>1, <1>2, <1>3 DEF XPluginEnable, Crash

LEMMA NextServes == IInv /\ EnabledIsServed /\ [Next]_vars => EnabledIsServed'
<1> SUFFICES ASSUME IInv, EnabledIsServed, [Next]_vars PROVE EnabledIsServed'
  OBVIOUS
<1>1. CASE phase' # "enabled"
  BY <1>1 DEF EnabledIsServed
<1>2. CASE XPluginEnable
  BY <1>2, EnableServes
<1>3. CASE InitializerCallback
  <2>1. loops'["NetworkCallback"] > 0
    BY <1>3 DEF InitializerCallback, IInv, TypeOK, Loops
  <2> QED
    BY <2>1 DEF EnabledIsServed
<1>4. CASE phase = "enabled" /\ UNCHANGED <<config, loops>>
  BY <1>4 DEF EnabledIsServed, HasServer
<1>5. \/ phase' # "enabled" \/ XPluginEnable \/ InitializerCallback
      \/ phase = "enabled" /\ UNCHANGED <<config, loops>>
  <2>1. CASE Next
    BY <2>1 DEF Next, XPlane, XPluginStart, XPluginDisable, XPluginStop, XPluginReceiveMessage,
                FlightLoop, EditConfiguration, Relaunch, ProcessEnds, OtherProgram, Crash, statics
  <2>2. CASE UNCHANGED vars
    BY <2>2 DEF vars, statics
  <2> QED
    BY <2>1, <2>2
<1> QED
  BY <1>1, <1>2, <1>3, <1>4, <1>5

\* Whatever failed before, an enabled plugin that has a server polls it or has the
\* flight loop scheduled that will: only X-Plane's call is missing.
THEOREM EnabledPluginIsServed == Spec => []EnabledIsServed
<1>1. Init => EnabledIsServed
  BY DEF Init, EnabledIsServed
<1> QED
  BY <1>1, NextServes, Invariance, PTL DEF Spec
=============================================================================
