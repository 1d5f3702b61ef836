------------------------------- MODULE Session -------------------------------
(***************************************************************************)
(* The server side of a UDP session with the clients at its other end:     *)
(* NetworkCallback takes one datagram per frame, executes its request on   *)
(* the directory of names, echoes it to the hosts that were known by then, *)
(* and only then adds its sender to CLIENTS; ExportSubscribedDataref sends *)
(* the value of every subscribed name to every host, and events and        *)
(* beacons go to every host.                                               *)
(*                                                                         *)
(* The network loses, duplicates and reorders datagrams both ways.  The    *)
(* hosts are the environment: each walks through a script of requests and  *)
(* repeats a request until it has seen its echo, the only answer there is. *)
(* The model ends with the process of the server.                          *)
(***************************************************************************)
EXTENDS NameDirectory, Naturals, Sequences, FiniteSets, SequencesExt

CONSTANTS
  Hosts,        \* IP addresses of the clients; the port is always m_outPort
  Scripts,      \* subset of [Hosts -> Seq(Requests)]
  Values,       \* what a dataref may hold
  EMPTY, BAD,   \* a datagram of no byte; one that is not JSON or too long
  Junk,         \* subset of {EMPTY, BAD}: the stray datagrams that may arrive
  Notices,      \* what events and beacons say
  InboxSize,    \* datagrams the kernel keeps for m_socket_listen
  Binary,       \* subset of Values: what is no UTF-8, so that dump() throws
  ExportLimit,  \* names whose export still fits the log buffer of SendData
  Lengthy,      \* requests whose echo does not
  Unseen        \* what a host knows of a name no export has shown it

Operations == {"REG_DATA", "UNREG_DATA", "SUB_DATA", "UNSUB_DATA", "GET_REG_DATA", "OTHER"}
Requests == [op : Operations, name : Names, link : Links]
Datagrams == [from : Hosts, req : Requests \cup Junk]
Exports == UNION {[S -> Values] : S \in (SUBSET Names) \ {{}}}
Messages == [echo : Requests] \cup [export : Exports] \cup [notice : Notices]
Packets == [to : Hosts, msg : Messages]

ASSUME HostsAssumption == IsFiniteSet(Hosts)
ASSUME ScriptsAssumption == Scripts \subseteq [Hosts -> Seq(Requests)]
ASSUME SizeAssumption == InboxSize \in Nat \ {0} /\ ExportLimit \in Nat
ASSUME MessagesAssumption == Binary \subseteq Values /\ Lengthy \subseteq Requests
ASSUME TagsAssumption ==
  /\ Unseen \notin Values
  /\ Junk \subseteq {EMPTY, BAD} /\ EMPTY # BAD /\ {EMPTY, BAD} \cap Requests = {}

VARIABLES
  value,    \* the value the simulator holds at each path
  wire,     \* datagrams on their way to the server
  inbox,    \* the kernel's queue of m_socket_listen
  clients,  \* CLIENTS
  air,      \* datagrams on their way to the hosts
  script,   \* what each host has to ask for
  step,     \* the request of its script each host is at
  view,     \* the value each host last saw exported for a name
  aborted   \* an exception, or the CRT on a full log buffer, has ended the process

serverVars == <<dirVars, clients, aborted>>
hostVars == <<script, step, view>>
vars == <<serverVars, hostVars, value, wire, inbox, air>>

TypeOK ==
  /\ link \in [Names -> Links \cup {NoLink}] /\ exported \in SUBSET Names
  /\ value \in [Links -> Values]
  /\ wire \in SUBSET Datagrams /\ inbox \in Seq(Datagrams) /\ Len(inbox) <= InboxSize
  /\ clients \in BoundedSeq(Hosts, Cardinality(Hosts))
  /\ air \in SUBSET Packets
  /\ script \in Scripts /\ step \in [Hosts -> Nat \ {0}]
  /\ view \in [Hosts -> [Names -> Values \cup {Unseen}]]
  /\ aborted \in BOOLEAN

Init ==
  /\ DirectoryInit
  /\ value \in [Links -> Values]
  /\ wire = {} /\ inbox = <<>> /\ air = {}
  /\ clients = <<>>
  /\ script \in Scripts /\ step = [h \in Hosts |-> 1]
  /\ view = [h \in Hosts |-> [n \in Names |-> Unseen]]
  /\ aborted = FALSE

-----------------------------------------------------------------------------
(* The server.                                                             *)

Known == ToSet(clients)

\* SendData to each client.  It logs what it has sent, and the CRT ends the
\* process when that does not fit its buffer: the first client alone gets it.
BroadCastData(m, fits) ==
  IF fits \/ clients = <<>>
  THEN air' = air \cup {[to |-> h, msg |-> m] : h \in Known} /\ UNCHANGED aborted
  ELSE air' = air \cup {[to |-> Head(clients), msg |-> m]} /\ aborted' = TRUE

\* The handlers of the requests that change the directory; the others, and the
\* ones that are refused, leave it alone.
Execute(r) ==
  \/ r.op = "REG_DATA" /\ Register(r.name, r.link)
  \/ r.op = "UNREG_DATA" /\ Unregister(r.name)
  \/ r.op = "SUB_DATA" /\ Subscribe(r.name)
  \/ r.op = "UNSUB_DATA" /\ Unsubscribe(r.name)
  \/ /\ \/ r.op = "REG_DATA" /\ r.name \in Registered
        \/ r.op \in {"UNREG_DATA", "SUB_DATA"} /\ r.name \notin Registered
        \/ r.op \in {"GET_REG_DATA", "OTHER"}
     /\ UNCHANGED dirVars

AlwaysAdded(h) == Append(clients, h)   \* mutant: no search of CLIENTS
NeverAdded(h) == clients               \* mutant: push_back forgotten
OnlySender(h) == IF h \in Known THEN clients ELSE <<h>>   \* mutant: the others are dropped

Remembered(h) == IF h \in Known THEN clients ELSE Append(clients, h)

\* The echo of a read holds the value.
EchoThrows(r) ==
  r.op = "GET_REG_DATA" /\ r.name \in Registered /\ value[link[r.name]] \in Binary

\* One frame: select, recvfrom, parse, execute, echo, remember the sender.  An
\* empty datagram is dropped; one that is not JSON, or longer than the buffer,
\* throws.
NetworkCallback ==
  /\ ~aborted /\ inbox # <<>>
  /\ inbox' = Tail(inbox)
  /\ LET d == Head(inbox)
     IN  \/ d.req = EMPTY /\ UNCHANGED <<serverVars, air>>
         \/ d.req = BAD /\ aborted' = TRUE /\ UNCHANGED <<dirVars, clients, air>>
         \/ /\ d.req \in Requests
            /\ Execute(d.req)
            /\ \/ /\ EchoThrows(d.req)
                  /\ aborted' = TRUE /\ UNCHANGED <<clients, air>>
               \/ /\ ~EchoThrows(d.req)
                  /\ BroadCastData([echo |-> d.req], d.req \notin Lengthy)
                  /\ clients' = IF aborted' THEN clients ELSE Remembered(d.from)
  /\ UNCHANGED <<hostVars, value, wire>>

ShortSnapshot ==   \* mutant: the loop over the map ends one name early
  [export |-> [n \in exported \ {CHOOSE m \in exported : TRUE} |-> value[link[n]]]]

\* What one export says: the value at the path of each subscribed name.
Snapshot == [export |-> [n \in exported |-> value[link[n]]]]

\* An export that names nothing tells nothing.  One of a text that is no UTF-8
\* is not sent at all.
ExportSubscribedDataref ==
  /\ ~aborted /\ exported # {}
  /\ \/ /\ \E n \in exported : value[link[n]] \in Binary
        /\ aborted' = TRUE /\ UNCHANGED air
     \/ /\ \A n \in exported : value[link[n]] \notin Binary
        /\ BroadCastData(Snapshot, Cardinality(exported) <= ExportLimit)
  /\ UNCHANGED <<dirVars, clients, hostVars, value, wire, inbox>>

\* XPluginReceiveMessage and BeaconCallback.
Notify ==
  /\ ~aborted
  /\ \E m \in Notices : BroadCastData([notice |-> m], TRUE)
  /\ UNCHANGED <<dirVars, clients, hostVars, value, wire, inbox>>

SimulatorWrites(l, v) ==
  /\ ~aborted
  /\ value' = [value EXCEPT ![l] = v]
  /\ UNCHANGED <<serverVars, hostVars, wire, inbox, air>>

-----------------------------------------------------------------------------
(* The hosts and the network.                                              *)

Done(h) == step[h] > Len(script[h])

\* A host sends the request it is at, for the first time or again.
Send(h) ==
  /\ ~aborted /\ ~Done(h)
  /\ wire' = wire \cup {[from |-> h, req |-> script[h][step[h]]]}
  /\ UNCHANGED <<serverVars, hostVars, value, inbox, air>>

\* A datagram that is no request comes in from h.
Stray(h) ==
  /\ ~aborted /\ Len(inbox) < InboxSize
  /\ \E j \in Junk : inbox' = Append(inbox, [from |-> h, req |-> j])
  /\ UNCHANGED <<serverVars, hostVars, value, wire, air>>

\* A datagram reaches the kernel, or is lost because its queue is full; the
\* network may hold another copy of it.
Arrive(d) ==
  /\ ~aborted /\ d \in wire
  /\ inbox' = IF Len(inbox) < InboxSize THEN Append(inbox, d) ELSE inbox
  /\ wire' \in {wire, wire \ {d}}
  /\ UNCHANGED <<serverVars, hostVars, value, air>>

LoseRequest(d) ==
  /\ ~aborted /\ d \in wire /\ wire' = wire \ {d}
  /\ UNCHANGED <<serverVars, hostVars, value, inbox, air>>

\* A host reads a datagram: an echo of the request it is at moves it on, and
\* an export updates what it knows of the names in it.
Read(p) ==
  /\ ~aborted /\ p \in air
  /\ air' \in {air, air \ {p}}
  /\ step' = [step EXCEPT ![p.to] =
       IF ~Done(p.to) /\ p.msg = [echo |-> script[p.to][@]] THEN @ + 1 ELSE @]
  /\ view' = [view EXCEPT ![p.to] =
       IF p.msg \in [export : Exports]
       THEN [n \in Names |-> IF n \in DOMAIN p.msg.export THEN p.msg.export[n] ELSE @[n]]
       ELSE @]
  /\ UNCHANGED <<serverVars, script, value, wire, inbox>>

LoseReply(p) ==
  /\ ~aborted /\ p \in air /\ air' = air \ {p}
  /\ UNCHANGED <<serverVars, hostVars, value, wire, inbox>>

-----------------------------------------------------------------------------

Server == NetworkCallback \/ ExportSubscribedDataref \/ Notify

Network ==
  \/ \E d \in wire : Arrive(d) \/ LoseRequest(d)
  \/ \E p \in air : Read(p) \/ LoseReply(p)

Next ==
  \/ Server
  \/ Network
  \/ \E h \in Hosts : Send(h) \/ Stray(h)
  \/ \E l \in Links, v \in Values : SimulatorWrites(l, v)

Spec == Init /\ [][Next]_vars

Asked(h) == UNION {ToSet(s[h]) : s \in Scripts}

\* What the server sends again and again while the hosts repeat themselves.
Repeated == [echo : UNION {Asked(h) : h \in Hosts}] \cup [export : Exports]

\* X-Plane calls the flight loops again and again, a host repeats its request
\* on a timer, and a datagram that is sent again and again gets through in the
\* end, to the kernel when its queue has room and to the host.
Fairness ==
  /\ WF_vars(NetworkCallback) /\ WF_vars(ExportSubscribedDataref)
  /\ \A h \in Hosts : WF_vars(Send(h))
  /\ \A h \in Hosts : \A r \in Asked(h) :
       SF_vars(LET d == [from |-> h, req |-> r]
               IN  Len(inbox) < InboxSize /\ Arrive(d) /\ wire' = wire \ {d})
  /\ \A h \in Hosts : \A m \in Repeated :
       SF_vars(LET p == [to |-> h, msg |-> m] IN Read(p) /\ air' = air \ {p})

LiveSpec == Spec /\ Fairness

-----------------------------------------------------------------------------
(* Properties.                                                             *)

\* CLIENTS never holds a host twice, however often it sends and whatever is
\* duplicated: each echo and export is sent once to each host.
ClientsAreDistinct == IsInjective(clients)

\* A host that has ever been answered, by an echo or by an export, is one of
\* CLIENTS and stays one: however late its answers arrive, and whoever else
\* comes, it goes on being served.
ListenersStayKnown ==
  \A h \in Hosts :
    step[h] > 1 \/ (\E n \in Names : view[h][n] # Unseen) => h \in Known

\* The names that the script of some host takes down.
TakenDown ==
  {n \in Names : \E h \in Hosts : \E i \in DOMAIN script[h] :
     script[h][i].name = n /\ script[h][i].op \in {"UNREG_DATA", "UNSUB_DATA"}}

\* A host that has seen the echoes of its registrations and subscriptions finds
\* its names exported, but for those a host takes down: whatever was lost,
\* repeated or reordered, and whichever host's echo it took for its own.  (Under
\* the path it asked for, or under that of a host that came first.)
DoneIsExported ==
  \A h \in Hosts : Done(h) =>
    \A i \in DOMAIN script[h] :
      script[h][i].op = "SUB_DATA" /\ script[h][i].name \notin TakenDown
        => script[h][i].name \in exported

\* A host that repeats each request until it sees its echo gets through its
\* script, although the first one the server takes is never echoed to it.
ScriptsFinish == \A h \in Hosts : <>(Done(h) \/ aborted)

\* Once a subscribed value settles, every known host comes to see it and stays
\* with it: the repeated export makes up for lost and overtaken datagrams.
ViewsConverge ==
  \A h \in Hosts, n \in Names, v \in Values :
    <>[](~aborted /\ h \in Known /\ n \in exported /\ value[link[n]] = v)
      => <>[](view[h][n] = v)
=============================================================================
