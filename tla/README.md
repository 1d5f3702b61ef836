# XPLMServer in TLA+

XPLMServer is an X-Plane plugin. Clients on the network send it JSON requests
over UDP: register a dataref (a variable of the simulator) under a name,
subscribe to it, set it, hold it constant, load further callbacks from a DLL.
The plugin executes them on X-Plane's main thread and sends the subscribed
values back four times a second. This directory models the plugin, checks the
models with TLC and proves their safety with TLAPS.

Paths below are relative to the repository's root (`src/` in `PROJECT.json`).
Only the Windows build compiles (`sprintf` into a name that does not exist
elsewhere, `UDPServer.cpp:126`), so the models follow the `IBM` branches.

## The system

| Component | State | Operations | Talks to |
| --- | --- | --- | --- |
| **Plugin lifecycle** (`XPLMServer/src/main.cpp`, `UdpServer::Bind`) | configuration, `CALLBACK_MANAGER`, `SERVER`, `BEACON_STS`, sockets, scheduled flight loops | `XPluginStart`, `Enable`, `Disable`, `Stop`, `ReceiveMessage`, `InitializerCallback` | X-Plane calls it; makes the manager and the server |
| **Callback table** (`CallbackManager.cpp`, `Callbacks.cpp` `GetCallbacks`, `LoadDll`) | `m_callbacks`, `m_hDLL` | `LoadCallbackDLL`, `AppendCallback`, `ExecuteCallback` | called by `XPluginEnable` and by the request `LOAD_DLL` |
| **Dataref registry** (`CallbackManager.cpp`, `Callbacks.cpp`) | `m_namedDatarefs`, `m_subscribedDatarefs`, its counter, `m_constDataref`, the dataref objects | `REG_DATA`, `UNREG_DATA`, `SUB_DATA`, `UNSUB_DATA`, `GET_REG_DATA`, `SET_REG_DATA`, `GET_DATA`, `SET_DATA`, `ADD_CONST`, `LOAD_REG_DATA` | reached through `ExecuteCallback`; read by the export |
| **FlightFactor interface** (`InitFF320Interface`, `FF320_Callback`, `FFDataref`) | `m_ff320`, the add-on's update list, `m_targetValue`, `m_needUpdate` | `FFDATA_INIT`, `REG_FFDATA`, the add-on's callback | the add-on calls back into the registry |
| **Request session** (`NetworkCallback`, `ExportSubscribedDataref`, `BroadCastData`) | `CLIENTS` | one datagram per frame, export every 0.25 s, events, beacon | UDP server, registry |
| **Value conversion** (`Dataref::GetValue`/`SetValue`, `ExtractJsonValue`) | type, conversion factor | text to number and back, arrays, bytes | X-Plane's dataref API |
| **UDP transport** (`UDPServer.cpp`) | sockets, log file | `ReceiveData`, `SendData`, `BroadcastData` | session |
| `TcpServer`, `Logger`, `utils` | – | – | never compiled / output only |

What is hard about it:

- *Ordering on one thread.* Nothing runs in parallel, but the network callback,
  the export, the add-on's callback and the simulator itself interleave in any
  order, and constants, requests and pending FlightFactor values are applied at
  different ones of them.
- *Shared objects without an owner.* Three maps point to the same heap objects;
  removing a name deletes nothing, so an object lives on in the constants.
- *No error path.* An exception that leaves a callback ends X-Plane; a result
  code never reaches the client, whose only answer is its request echoed back.
- *Unreliable delivery.* The echo goes to the hosts known *before* the request,
  so the first one is always lost; clients must repeat themselves.
- *Staleness.* The FlightFactor function table, once filled in, is believed for
  ever; a disabled plugin keeps its socket and its flight loops.

What makes each part correct: subscriptions, names and constants agree and
point to live objects, whatever the sequence of requests (registry); constants
prevail and set values arrive (registry with the add-on); a client that repeats
itself gets what it asked for and sees current values (session); flight loops
run once, on a bound server (lifecycle); handlers stay loaded and stay the same
(table). `PROJECT.json` lists the hazards line by line.

## Modules

| Module | What it is |
| --- | --- |
| `NameDirectory` | Abstract specification: names, the path each denotes, the exported set |
| `DatarefRegistry` | The registry, its requests, the FlightFactor interface; implements `NameDirectory` |
| `Session` | `NetworkCallback`, exports and events over a faulty network, with clients; runs on `NameDirectory` |
| `PluginLifecycle` | Entry points, configuration, `Bind`, flight loops |
| `DllOffers`, `CallbackTable` | What DLLs offer; DLL loading and the table of operations |
| `System` | The lifecycle composed with the table, `CLIENTS`, what each manager holds, and the FlightFactor add-on; implements `CallbackTable` |
| `DatarefValue` | One dataref between the texts of requests and the cells of the simulator: types, factors, width of `int`, arrays, bytes |
| `MC*.tla`, `MC*.cfg` | Instances for TLC; `MCDatarefRegistry` has the registry without the add-on (`XPLMSpec`), `MCRegistryLive` adds a budget of requests and fairness, `MCRegistryLink` remembers the `SUB_DATA` handled last with its `Link` |
| `*_proofs`, `*_safety`, `DatarefRegistry_refinement` | Theorems |

`Session` EXTENDS `NameDirectory` and uses its actions for the registration
requests. That the real registry may stand in for the directory is what
`ImplementsDirectory` says, checked by `registry_xplm` and proved in
`DatarefRegistry_refinement`. `System` EXTENDS `PluginLifecycle`, so that its
steps are steps of the lifecycle, and INSTANCEs `CallbackTable` for the table,
which it shows to be implemented (`ImplementsTable`).

Definitions named "mutant" in a comment are not part of a specification. Each
is a plausible bug in the definition after it, kept to show that the property
it is meant for notices it.

### DatarefRegistry

`named`, `subscribed` and `constants` are the three maps (`None` for a missing
key), `count` is `m_subscirbeDatarefCount`, `heap` gives the object at each
address. Leaked objects, which nothing can reach again, leave the heap so that
their address stands for any other. `ffApi` says whether `DataVersion` is null,
callable or left over from an unloaded add-on, `world` is the simulator.
`aborted` is set by an exception that leaves a callback, or by a call through a
pointer that is not valid.

One step is one callback run to its end. A run of `NetworkCallback` begins with
`ExecuteConstantDataref` when the interface is not enabled (`FrameWorld`,
`Polled`) and then handles at most one request. Each request has one action
named after its handler; missing fields are refused (`Refused`), fields that
`get<std::string>()` cannot read abort.

Abstractions: a value text is identified by the number it denotes, or is a
`Texts` member that `std::stod` rejects; types are `Number`, `Data`, `Unknown`;
the conversion factor is 1 (`DatarefValue` has the others); files are
well-formed; a FlightFactor link the add-on does not know has either outcome that
`FFDataref.cpp:308-310` allows: its value name is null and `std::string` of it
ends the process, or it is not and the name is registered with an object of id
-1. Names are numbers because `std::map` walks its
keys in order, and the order decides which constant or target is written last.

### Session

`wire` and `air` are the datagrams under way to the server and to the hosts: a
set, delivered in any order, lost, or delivered again. `inbox` is the receive
queue. `NetworkCallback` takes the head, executes, echoes to `clients` and then
adds the sender. `ExportSubscribedDataref` sends a snapshot. Hosts are the
environment: each repeats the request of its script it is at until an echo of
it arrives. An echo is the request it answers: it says nothing of success, and
the value a read adds to it is left out but for what it does to `dump()`.

Three things end the process, and with it the behaviour: a datagram that is not
JSON or fills more than the buffer (`BAD`), a value that is no UTF-8 (`Binary`),
at which `dump()` throws, and a message longer than the 4150-byte buffer that
`SendData` logs into (`Lengthy` echoes, exports of more than `ExportLimit`
names). The last one has by then been sent to the first client, and to no other.

### PluginLifecycle

`phase` is what X-Plane knows of the plugin. `XPluginEnable` replaces the
manager and the server; `Bind` fails when the port is taken (by this process or
by another), fails with the socket bound when the beacon cannot be set up, or
crashes on a null host entry. `loops` counts how often each flight loop is
scheduled. Assumed of the platform: X-Plane calls flight loops and sends messages
only while the plugin is enabled and drops its flight loops when it unloads it;
the sockets of a plugin stay open until X-Plane ends; binding a UDP port that is
held fails (no `SO_REUSEADDR` is set). Port 0 is left out of `Ports`.

### CallbackTable

`table[o]` is the DLL and the index of the entry that gave the operation its
handler. `LoadCallbackDLL` either does not find the DLL, does not find
`GetCallbacks`, or appends the entries in order. `LOAD_DLL` is the only request
that loads another DLL and is itself an entry of the default one. `refs` counts
how often Windows has loaded each DLL: nothing frees one, so `Unloaded` (the
plugin goes) keeps the count and `NewProcess` alone resets it.

### System

One history of X-Plane: the entry points and failures of `PluginLifecycle`, and
at each of them what becomes of the rest. `Enable` makes a manager whose table
starts empty; `named` and `filled` say which managers requests have left names
in and whose FlightFactor interface is filled in; `clients` remembers with each
host the manager that executed its first request; `hooks` is the add-on's update
list, which holds the addresses of managers. `CLIENTS` and the list outlive a
manager, the list outlives the plugin: `Gone` in it is an address inside code
that is unloaded, and the add-on's next frame ends the process.

Requests are reduced to what they leave behind in a manager; what they do to
names is the registry's business. `OneManagerServes` and `OneManagerEnforces` say
what would go wrong if `XPluginEnable` succeeded twice: clients that are served
by a manager without their names, and two managers that hold the same dataref at
different constants.

### DatarefValue

`raw` holds the cells of the simulator, `last` the number a request asked for last
in each of them, `given` the form of that number, `shown` what `GetValue`
returned last. A request is recorded in `last` whether `SetValue` takes its number
over or not. `Taken` lists what it does not: a float array writes zeros for a
string (`Dataref.cpp:251-259`, 286) and drops an integer (282), an int array drops
a number with a decimal point and cuts one that does not fit, and `DoSetValue` drops
a FlightFactor short. That is not what `Dataref.h:91` says of `SetValue` ("Send a
new value to the dataref"), and `ReadsShowWrites` leaves these forms out by name. A real number is counted in
units of `1/Den` and cut off below; `ReadsBack` says how far that may move a
number that is divided by a factor and multiplied by it again, and leaves no room
where the quotient is exact. Integers wrap at `2 * Half`. `Value` says which JSON
values a request may carry, `KindsAssumption` that the inputs are such values and
that what the simulator writes fits its cells. Of bytes a read shows what stands
before the first NUL. `SetInt`, `SetReal`, `SetIntArray`,
`SetFloatArray`, `SetData` and `SetFF` follow the branches of `SetValue` and
`DoSetValue`; `Extract` is `ExtractJsonValue`. Each either changes cells
(`Put`), leaves them alone (`Drop` when it was asked for a number, `Ignore` when it
was not), or throws and ends the process (`Throw`).
What the simulator does with an array write past its end is X-Plane's: the cells
that fall inside are written. `WriteBack` is a client that sets what it has
read. For arrays it ends the process, since items are read as numbers and must
be set as strings; `WriteBackKeepsReading` speaks of the other types only.

## What is checked

| Run | States | Shows |
| --- | --- | --- |
| `registry_xplm` | 69,160 | Two names, two datarefs of different types, two files: `SubscribedAreRegistered`, `CountCoversSubscriptions`, `PointersAreLive`, `NamesAreNeverRetargeted`, and `ImplementsDirectory` |
| `registry_live` | 33,900 | Two names for X-Plane or FlightFactor datarefs, rejected texts, malformed fields, declared types, the add-on coming and going: `FFObjectsNeedInterface`, `NamesAreNeverRetargeted`, `PoisonIsIrreparable`; while the add-on is there, `ConstantsReturn` and `TargetsArrive`, also where two names stand for one dataref |
| `session` | 1,406,804 | `DoneIsExported`, `ListenersStayKnown`, `ClientsAreDistinct`, `ExportedAreRegistered`: two hosts that set up, take down or read one name, with stray datagrams, events, values that are no UTF-8, echoes and exports that end the process |
| `session_live` | 24,744 | `ScriptsFinish` and `ViewsConverge`: one host, values that change |
| `system` | 324,522 | `LoopsFindServer`, `LoopsRunOnce`, `EnabledIsServed`, `ServesInTheEnd` of the lifecycle, `HandlersAreLoaded`, `DefaultsPrevail`, `FirstHandlerStays` and `ImplementsTable` of the table, `OneManagerServes` and `OneManagerEnforces` across them: eight configurations, two DLLs, ports taken by others, crashes and relaunches, aircraft that change |
| `values` | 169,099 | `ReadsShowWrites` and `WriteBackKeepsReading`: eight kinds of dataref, seven factors, numbers in and out of range, arrays with offsets, full, short and empty bytes, bytes with a NUL among them |

Six further runs check something the documentation says and TLC refutes:

| Run | Says | Code |
| --- | --- | --- |
| `registry_resend` | `FFDataref.h:33`: the value is set at the next call of the callback | old targets are sent again at every callback and hide it |
| `registry_swap` | `README.md:21`: constants are updated at every frame | not after the FlightFactor aircraft is left |
| `registry_constant` | `README.md:21`: `ADD_CONST` sets "a dataref" to a value at every frame | of a name that has been unregistered and registered for another path it sets the old dataref (`CallbackManager.cpp:235-239`) |
| `registry_link` | `Callbacks.h:60-67`: `SUB_DATA` of a name that is not registered carries the `Link` to register it with | the `Link` is not read, and nothing is subscribed (`Callbacks.cpp:150-159`, `CallbackManager.cpp:198`) |
| `lifecycle_port` | `README.md:9`: inbound 50555, outbound 50556 | `OutPort` overwrites `InPort`: it is the other way round |
| `values_factor` | `Dataref.h:98`: the factor multiplies on get and divides on set | arrays are multiplied on get, but not divided on set: set to -3 with factor 2, they read -6 |

`NameDirectory`, what a client may rely on, is therefore what the code keeps, not
all that `Callbacks.h` says: `SUB_DATA` subscribes registered names only.

Three more statements do not hold of the code and have no run of their own:

- `Dataref.h:91`, that `SetValue` sends a new value to the dataref: not in the forms
  that `Taken` leaves out (see DatarefValue above).
- `CallbackManager.h:126`, the count of subscribed datarefs:
  `CallbackManager.cpp:205` counts a second subscription to a name again.
  `CountCoversSubscriptions` says what remains true; nothing reads the count.
- `CallbackManager.h:114-115`, that `LoadCallbackDLL` returns the number of
  callbacks added, negative on error: it returns 2 on an error at line 135 and
  the number offered at line 182. Nothing reads it either.

### Bounds

- Two names suffice for what relates names (map order, files naming both, two
  constants on one dataref); a third behaves like one of them. `registry_xplm`
  has twice as many addresses as names: a subscription is always to the
  registered object, so that a name uses at most one address for itself and one
  for its constant, and a registration of a vacant name always finds one free.
  `registry_live` has two addresses: a third object beside two in use takes five
  requests (two names, a constant on one, its removal and its new registration),
  and a behaviour of that run has four.
- `MaxCount` bounds `m_subscirbeDatarefCount` in the guards of the actions that
  raise it: at 3 the counter drifts above the map, and a file is loaded after a
  subscription.
- `Budget` 4 bounds the requests of a behaviour in the liveness runs. Without it
  a client could reset a dataref in each frame that applies its constant. Four are
  enough to enable the interface, to register two names on one value and to set
  one of them, or to register two names and hold both.
- `InboxSize` 1 makes every second datagram meet a full queue. `ExportLimit` 0
  in `session` makes every export one that does not fit the log buffer, 1 in
  `session_live` none: that exports reach a host again and again happens in
  `session_live` only.
- `session` has one path: the hosts register the name for the same one. Which of two
  paths wins is the registry's business (`NamesAreNeverRetargeted`); that a host
  whose path was refused is not told is a weakness of the protocol that
  `DoneIsExported` does not speak of.
- `MaxManagers` 3 bounds how often a loaded plugin makes a manager: one that
  failed, one that serves, and one that is made after it was disabled.
  `MaxLoads` 3 bounds how often one DLL is loaded.
- `DatarefValue` has integers of four bits (`Half` 8) and units of a sixth
  (`Den` 6), which makes quotients by the factors 1/2, 1, 3/2, 2 and -1 exact for
  the reals used, has 10/3 cut some of them off, and makes every product and quotient of the range of `int`
  happen; a width of 32 would add states, not cases. `Size` 3 has a first, a
  middle and a last cell. `MaxBack` stops a client from setting ever larger
  reals back.
- The addresses are symmetric in `registry_xplm`, and the two hosts in `session`,
  whose set of scripts is the same when they change places; no liveness property
  is checked under symmetry.
- Deadlock is checked for `System`, where X-Plane can always be started again.
  The others may stop: a process that has aborted does nothing more, and hosts
  may have finished their scripts.

### Fairness

- `NetworkCallback` and `ExportSubscribedDataref` are flight loops that return
  a negative interval and 0.25 s, so X-Plane calls them again and again: weak
  fairness. The add-on calls its update list at every frame: weak fairness of
  `FF320_Callback` (enabled only while it is hooked).
- X-Plane calls a scheduled flight loop of an enabled plugin: weak fairness of
  `InitializerCallback`.
- A host repeats its request until it sees an echo: weak fairness of `Send`.
  This is the client's side; the code offers no other way to know.
- A datagram that is sent again and again gets through in the end: strong
  fairness per datagram of `Arrive` with room in the queue, and of `Read`. The
  network may still lose and duplicate any number of copies.

## What is proved

All theorems hold for every value of the constants that satisfies the named
assumptions of the modules (for instance that a non-empty set of names has a
last one, or that `None` is none of the objects).

- **`DatarefRegistry_proofs`**: `TypeCorrect`, `SubscriptionsFollowNames`,
  `NothingDangles`, `InterfaceBeforeObjects`. The inductive invariant `IInv` is
  the conjunction of the four properties. None of them is inductive alone: that
  an address is live needs the types of the maps; that a subscription is the
  registered object needs `UNREG_DATA` to drop both; that no FlightFactor
  object precedes the interface needs live pointers for the objects a callback
  notes targets in.
- **`DatarefRegistry_refinement`**: `RegistryImplementsDirectory`. A name maps
  to the path of its object. Under `IInv`, every action is a step of the
  directory or leaves both the paths and the subscribed names alone; the case of
  a file load needs the witness that gives each new name the path of its first
  line.
- **`DatarefRegistry_safety`**: `NamesKeepTheirDatarefs`, `PoisonStays`,
  `CountCovers`. The first is an action property that rests on
  `IInv`: a new object is built at a free address, and the address of a name is
  not free because it is live (`PointersAreLive`). `PoisonStays` says that a
  constant whose text its dataref rejects cannot be repaired by any request while
  the interface is disabled, it ends the process; it needs no
  invariant, only the order of `NetworkCallback`: the constants throw before the
  request is looked at. `CountCovers` is inductive with the types of the counter;
  a file load raises it at least by the number of names it adds, which takes the
  cardinality theorems.
- **`Session_proofs`**: `SessionTypeCorrect`, `HostsAreRememberedOnce`,
  `ExportsAreOfNames`, for any number of hosts, any scripts and any behaviour of
  the network. The types are not inductive alone: an export is of values because
  what it names is registered (`ExportedAreRegistered`), and `CLIENTS` is no
  longer than there are hosts because it repeats none (`ClientsAreDistinct`).
  `ListenersAreNotForgotten` adds that what is in the air is addressed to known
  hosts (`ToldAreKnown`): a host hears only what was sent to it, and `CLIENTS`
  loses nobody. `DoneHostsAreExported` is `DoneIsExported` under the
  assumption `OrderlyScripts`: each script registers a name before it subscribes
  to it. The property itself leaves out the names that some script takes down
  (`TakenDown`), since another host may remove a name at any time. The
  strengthening `Progress` is about what is under way, for the other names: each
  request on the wire or in the queue is one the directory will not refuse, each
  echo in the air tells of a request that is done, and each host has passed only
  requests that are done. It is kept because of these names the directory only
  grows, so a late copy of a request or an echo made for another host tells
  nothing false.
- **`PluginLifecycle_proofs`**: `LifecycleTypeCorrect`, `FlightLoopsFindServer`,
  `FlightLoopsRunOnce`, `EnabledPluginIsServed`. The strengthening adds that
  a disabled or enabled plugin has a configuration, that its scheduled loops imply the configured port is
  held by this process (`SocketsStayOpen`), that loops come from one
  `XPluginEnable` only (`OneGeneration`) and that the server in use is the one
  it made (`ServerInUse`). That a loop runs once thus rests on the socket that
  `XPluginDisable` does not close. `EnabledPluginIsServed` is the safety half of
  `ServesInTheEnd`: of the two flight loops one always remains, because the first
  schedules the second before it is dropped, and both go only with the plugin.
- **`CallbackTable_proofs`**: `TableTypeCorrect`, `NoHandlerIsUnloaded`,
  `DefaultsAreNeverOverridden`, `HandlersAreFinal`. `DefaultsPrevail` is not
  inductive: the invariant adds that any handler in the table implies that all
  the default DLL offers is there (`DefaultsFirst`), which holds because nothing
  else can be loaded before `LOAD_DLL` is in the table.
- **`System_proofs`**: `SystemIsLifecycle` (every step of the system is a step of
  the lifecycle, which gives it the invariant of `PluginLifecycle_proofs`),
  `SystemFlightLoops` (so what is proved of the flight loops holds in it),
  `RequestsReachOneManager`, `ConstantsOfOneManager`, `SystemTypeCorrect`,
  `SystemImplementsTable`, and from that refinement and the theorems about the
  table `SystemHandlersAreLoaded`, `SystemDefaultsPrevail` and
  `SystemHandlersAreFinal`. The invariant `SInv` is that of the lifecycle with
  `LeftWithOne`: all that requests have left behind belongs to one manager, to
  the one in use while the plugin is enabled, and there is none of it as long as
  no flight loop is scheduled. The step that matters is `XPluginEnable`, and it
  again rests on the open socket: a plugin that has served holds its port, so
  that with a new manager it does not become enabled.
- **`DatarefValue_proofs`**: `ValueInvariant`, `ValueTypeCorrect`,
  `ReadsShowWhatWasSet`, `WritingBackKeepsReading`, for integers of any width,
  any unit, any sets of factors and of inputs. They say no more than the properties
  do: arrays and FlightFactor values are spoken of with the factor 1 only, numbers
  that `SetValue` does not take over (`Taken`) not at all, products that overflow
  and write-backs of arrays not by `WritingBackKeepsReading`. The first part is arithmetic: a
  truncating quotient multiplied again has lost the remainder and no more
  (`QuotCuts`), the quotient of a product is exact (`QuotOfProduct`), and from
  these what an integer (`IntReadsBack`) and a real number (`RealReadsBack`) read
  as after a set. The invariant `IInv` is the types with two strengthenings.
  `CellsHoldLast` says cell by cell what a read of a number taken over would show, and of bytes
  that the cells are what was asked for, also behind the first NUL, where no read
  shows it. `ShownIsRead` says that what was shown are numbers or bytes of this
  dataref, which makes the text a client writes back one that `SetValue` can be
  given. Each setter is then shown to place numbers that fit, in cells that
  remember them (`PutKeeps`), or to drop only what is not `Taken` (`DropKeeps`).

Only model-checked: the liveness properties (`ServesInTheEnd`, `ScriptsFinish`,
`ViewsConverge`, `ConstantsReturn`, `TargetsArrive`), since liveness
under fairness and `ENABLED` are beyond the prover.

## Not modelled

- Memory behaviour: the index past a short CSV line (`Callbacks.cpp:328`), the
  unterminated read of a datagram of exactly 4096 bytes (`UDPServer.cpp:94`), the
  string read into a pointer's address (`FFDataref.cpp:122`), the `std::string`
  of a value name that may be null (`FFDataref.cpp:310`, of which the registry has
  both outcomes). The first three have no outcome that the source determines.
- Of the conversions: the integer widths of FlightFactor values other than 32
  bits, string values, the `std::out_of_range` of a real number, an object
  nested in an object, and rounding (reals are cut off below a unit).
- What the FlightFactor add-on does with an address added twice, and what it
  returns as the name of an unknown value: its code is not in the repository.
- `Logger`, `utils`, the network log, the text of messages, `GetLocalIp`: output
  and conversion without state that another part reads.
- `TcpServer`, which no build compiles.
- The copy constructor and destructor of `CallbackManager`, and
  `RemoveConstantDataref`, which nothing calls.

## Roadmap

In the order of their worth:

1. `System` over the registry itself in place of `named` and `filled`, so that
   the constants and names of a replaced manager are those the requests set.
2. Receive and send buffers of `UdpServer` with their lengths, replacing the
   `BAD` datagram, `Lengthy` and `ExportLimit`.
3. The remaining integer widths of `FFDataref`, once their undefined conversions
   have a reading the build fixes.
