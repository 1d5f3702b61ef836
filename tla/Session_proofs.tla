----------------------------- MODULE Session_proofs -----------------------------
(***************************************************************************)
(* Theorems about Session, for every number of hosts, names, paths and     *)
(* values, every script, and every behaviour of the network.               *)
(*                                                                         *)
(* The types rest on the directory: what an export says of a name is typed *)
(* only if the name is registered.  That a finished host is exported rests *)
(* on what is under way: an echo in the air speaks of what has been done,  *)
(* and a subscription on the wire of a name some host has registered.      *)
(***************************************************************************)
EXTENDS Session, FiniteSetTheorems, TLAPS

IInv == TypeOK /\ ClientsAreDistinct /\ ExportedAreRegistered

-----------------------------------------------------------------------------
(* Sequences.                                                              *)

LEMMA ToSetOfSeq ==
  ASSUME NEW S, NEW s \in Seq(S)
  PROVE  ToSet(s) \subseteq S
BY DEF ToSet

LEMMA ToSetOfTail ==
  ASSUME NEW S, NEW s \in Seq(S), s # <<>>
  PROVE  /\ Head(s) \in S /\ Head(s) \in ToSet(s)
         /\ Tail(s) \in Seq(S) /\ Len(Tail(s)) = Len(s) - 1
         /\ ToSet(Tail(s)) \subseteq ToSet(s)
<1>1. /\ Len(s) \in Nat \ {0} /\ Head(s) = s[1] /\ DOMAIN s = 1..Len(s)
      /\ Tail(s) \in Seq(S) /\ Len(Tail(s)) = Len(s) - 1
  OBVIOUS
<1>2. \A i \in DOMAIN Tail(s) : Tail(s)[i] = s[i + 1] /\ i + 1 \in DOMAIN s
  BY <1>1
<1> QED
  BY <1>1, <1>2 DEF ToSet

LEMMA ToSetOfAppend ==
  ASSUME NEW S, NEW s \in Seq(S), NEW e \in S
  PROVE  /\ Append(s, e) \in Seq(S) /\ Len(Append(s, e)) = Len(s) + 1
         /\ ToSet(Append(s, e)) = ToSet(s) \cup {e}
<1>1. /\ Append(s, e) \in Seq(S) /\ Len(s) \in Nat
      /\ DOMAIN s = 1..Len(s) /\ DOMAIN Append(s, e) = 1..(Len(s) + 1)
      /\ \A i \in 1..Len(s) : Append(s, e)[i] = s[i]
      /\ Append(s, e)[Len(s) + 1] = e
      /\ Len(Append(s, e)) = Len(s) + 1
  OBVIOUS
<1>2. ToSet(Append(s, e)) \subseteq ToSet(s) \cup {e}
  <2> SUFFICES ASSUME NEW i \in 1..(Len(s) + 1)
               PROVE  Append(s, e)[i] \in ToSet(s) \cup {e}
    BY <1>1 DEF ToSet
  <2>1. i \in 1..Len(s) \/ i = Len(s) + 1
    BY <1>1
  <2> QED
    BY <1>1, <2>1 DEF ToSet
<1>3. ToSet(s) \cup {e} \subseteq ToSet(Append(s, e))
  <2>1. ASSUME NEW i \in 1..Len(s) PROVE s[i] \in ToSet(Append(s, e))
    BY <1>1 DEF ToSet
  <2>2. e \in ToSet(Append(s, e))
    BY <1>1 DEF ToSet
  <2> QED
    BY <1>1, <2>1, <2>2 DEF ToSet
<1> QED
  BY <1>1, <1>2, <1>3

\* A list of hosts without repetition is no longer than there are hosts.
LEMMA DistinctAreBounded ==
  ASSUME NEW s \in Seq(Hosts), IsInjective(s)
  PROVE  s \in BoundedSeq(Hosts, Cardinality(Hosts))
<1>1. Len(s) \in Nat /\ s \in [1..Len(s) -> Hosts] /\ DOMAIN s = 1..Len(s)
  OBVIOUS
<1>2. s \in Injection(1..Len(s), Hosts)
  BY <1>1 DEF Injection, IsInjective
<1>3. IsFiniteSet(1..Len(s)) /\ Cardinality(1..Len(s)) = Len(s)
  BY <1>1, FS_Interval
<1>4. Len(s) <= Cardinality(Hosts) /\ Cardinality(Hosts) \in Nat
  BY <1>2, <1>3, FS_Injection, FS_CardinalityType, HostsAssumption
<1> QED
  BY <1>1, <1>4 DEF BoundedSeq, SeqOf

LEMMA BoundedIsSeq ==
  ASSUME NEW s \in BoundedSeq(Hosts, Cardinality(Hosts))
  PROVE  s \in Seq(Hosts)
<1>1. Cardinality(Hosts) \in Nat
  BY FS_CardinalityType, HostsAssumption
<1> QED
  BY <1>1 DEF BoundedSeq, SeqOf

\* CLIENTS grows by a host it does not hold.
LEMMA RememberedIsDistinct ==
  ASSUME clients \in Seq(Hosts), ClientsAreDistinct, NEW h \in Hosts
  PROVE  Remembered(h) \in Seq(Hosts) /\ IsInjective(Remembered(h))
<1>1. CASE h \in Known
  BY <1>1 DEF Remembered, ClientsAreDistinct
<1>2. CASE h \notin Known
  <2> DEFINE s == Append(clients, h)
  <2>1. /\ Remembered(h) = s /\ s \in Seq(Hosts) /\ Len(clients) \in Nat
        /\ DOMAIN clients = 1..Len(clients) /\ DOMAIN s = 1..(Len(clients) + 1)
        /\ \A i \in 1..Len(clients) : s[i] = clients[i]
        /\ s[Len(clients) + 1] = h
    BY <1>2 DEF Remembered
  <2> HIDE DEF s
  <2>2. \A i \in 1..Len(clients) : clients[i] # h
    BY <1>2, <2>1 DEF Known, ToSet
  <2>3. ASSUME NEW i \in DOMAIN s, NEW j \in DOMAIN s, s[i] = s[j] PROVE i = j
    <3>1. (i \in 1..Len(clients) \/ i = Len(clients) + 1)
          /\ (j \in 1..Len(clients) \/ j = Len(clients) + 1)
      BY <2>1
    <3> QED
      BY <2>1, <2>2, <2>3, <3>1 DEF ClientsAreDistinct, IsInjective
  <2> QED
    BY <2>1, <2>3 DEF IsInjective
<1> QED
  BY <1>1, <1>2

-----------------------------------------------------------------------------
(* The server.                                                             *)

\* What the invariant says of the variables a callback of the server changes.
ServerTypes ==
  /\ link \in [Names -> Links \cup {NoLink}] /\ exported \in SUBSET Names
  /\ ExportedAreRegistered
  /\ clients \in Seq(Hosts) /\ ClientsAreDistinct
  /\ air \in SUBSET Packets /\ aborted \in BOOLEAN
  /\ inbox \in Seq(Datagrams) /\ Len(inbox) <= InboxSize

LEMMA TypesOfServer == ASSUME IInv PROVE ServerTypes
BY BoundedIsSeq DEF IInv, TypeOK, ServerTypes

LEMMA ServerKeeps ==
  ASSUME IInv, ServerTypes', UNCHANGED <<hostVars, value>>, wire' \in SUBSET Datagrams
  PROVE  IInv'
<1>1. clients' \in BoundedSeq(Hosts, Cardinality(Hosts))
  <2>1. clients' \in Seq(Hosts) /\ IsInjective(clients')
    BY DEF ServerTypes, ClientsAreDistinct
  <2> QED
    BY <2>1, DistinctAreBounded
<1> QED
  BY <1>1 DEF IInv, TypeOK, ServerTypes, hostVars

\* Every request leaves a directory that exports registered names.
LEMMA ExecuteKeeps ==
  ASSUME ServerTypes, NEW r \in Requests, Execute(r)
  PROVE  /\ link' \in [Names -> Links \cup {NoLink}] /\ exported' \in SUBSET Names
         /\ ExportedAreRegistered'
<1>1. r.name \in Names /\ r.link \in Links
  BY DEF Requests
<1>2. CASE UNCHANGED dirVars
  BY <1>2 DEF dirVars, ServerTypes, ExportedAreRegistered, Registered
<1>3. CASE Register(r.name, r.link)
  BY <1>1, <1>3, NoLinkAssumption DEF Register, ServerTypes, ExportedAreRegistered, Registered
<1>4. CASE Unregister(r.name)
  BY <1>1, <1>4 DEF Unregister, ServerTypes, ExportedAreRegistered, Registered
<1>5. CASE Subscribe(r.name)
  BY <1>1, <1>5 DEF Subscribe, ServerTypes, ExportedAreRegistered, Registered
<1>6. CASE Unsubscribe(r.name)
  BY <1>1, <1>6 DEF Unsubscribe, ServerTypes, ExportedAreRegistered, Registered
<1> QED
  BY <1>2, <1>3, <1>4, <1>5, <1>6 DEF Execute

\* What is sent goes to hosts, whether or not the process survives it.
LEMMA BroadCastTypes ==
  ASSUME ServerTypes, NEW m \in Messages, NEW fits \in BOOLEAN, BroadCastData(m, fits)
  PROVE  /\ air' \in SUBSET Packets /\ aborted' \in BOOLEAN
         /\ \A p \in air' : p \in air \/ p.msg = m
<1>1. Known \subseteq Hosts
  BY ToSetOfSeq DEF ServerTypes, Known
<1>2. clients # <<>> => Head(clients) \in Hosts
  BY ToSetOfTail DEF ServerTypes
<1>3. \A h \in Hosts : [to |-> h, msg |-> m] \in Packets
  BY DEF Packets
<1>4. CASE /\ air' = air \cup {[to |-> h, msg |-> m] : h \in Known}
           /\ UNCHANGED aborted
  BY <1>1, <1>3, <1>4 DEF ServerTypes
<1>5. CASE /\ clients # <<>> /\ air' = air \cup {[to |-> Head(clients), msg |-> m]}
           /\ aborted' = TRUE
  BY <1>2, <1>3, <1>5 DEF ServerTypes
<1> QED
  BY <1>4, <1>5 DEF BroadCastData

\* An export is of values, since what is exported is registered.
LEMMA SnapshotIsMessage ==
  ASSUME IInv, exported # {}
  PROVE  Snapshot \in Messages
<1>1. \A n \in exported : n \in Names /\ link[n] \in Links
  BY DEF IInv, TypeOK, ExportedAreRegistered, Registered
<1>2. [n \in exported |-> value[link[n]]] \in [exported -> Values]
  BY <1>1 DEF IInv, TypeOK
<1>3. exported \in (SUBSET Names) \ {{}}
  <2>1. exported \in SUBSET Names /\ exported \notin {{}}
    BY DEF IInv, TypeOK
  <2> QED
    BY <2>1, Zenon
<1>4. [n \in exported |-> value[link[n]]] \in Exports
  BY <1>2, <1>3 DEF Exports
<1> QED
  BY <1>4 DEF Snapshot, Messages

\* A run of NetworkCallback takes one datagram; when it is a request that is
\* echoed, its sender is remembered.
LEMMA NetworkCallbackKeeps ==
  ASSUME IInv, NetworkCallback
  PROVE  IInv'
<1> DEFINE d == Head(inbox)
<1>0. ServerTypes
  BY TypesOfServer
<1>1. /\ d \in Datagrams /\ inbox' \in Seq(Datagrams) /\ Len(inbox') <= InboxSize
  <2>1. inbox # <<>> /\ inbox' = Tail(inbox) /\ inbox \in Seq(Datagrams)
    BY <1>0 DEF NetworkCallback, ServerTypes
  <2>2. d \in Datagrams /\ Tail(inbox) \in Seq(Datagrams) /\ Len(Tail(inbox)) = Len(inbox) - 1
    BY <2>1, ToSetOfTail
  <2>3. Len(inbox) \in Nat /\ InboxSize \in Nat /\ Len(inbox) <= InboxSize
    BY <2>1, <1>0, SizeAssumption DEF ServerTypes
  <2> QED
    BY <2>1, <2>2, <2>3
<1>2. CASE d.req = EMPTY /\ UNCHANGED <<serverVars, air>>
  <2>1. ServerTypes'
    BY <1>0, <1>1, <1>2
       DEF ServerTypes, serverVars, dirVars, ExportedAreRegistered, Registered,
           ClientsAreDistinct
  <2> QED
    BY <2>1, ServerKeeps DEF NetworkCallback, IInv, TypeOK
<1>3. CASE d.req = BAD /\ aborted' = TRUE /\ UNCHANGED <<dirVars, clients, air>>
  <2>1. ServerTypes'
    BY <1>0, <1>1, <1>3
       DEF ServerTypes, dirVars, ExportedAreRegistered, Registered, ClientsAreDistinct
  <2> QED
    BY <2>1, ServerKeeps DEF NetworkCallback, IInv, TypeOK
<1>4. CASE /\ d.req \in Requests /\ Execute(d.req)
           /\ aborted' = TRUE /\ UNCHANGED <<clients, air>>
  <2>1. ServerTypes'
    BY <1>0, <1>1, <1>4, ExecuteKeeps DEF ServerTypes, ClientsAreDistinct
  <2> QED
    BY <2>1, ServerKeeps DEF NetworkCallback, IInv, TypeOK
<1>5. CASE /\ d.req \in Requests /\ Execute(d.req)
           /\ BroadCastData([echo |-> d.req], d.req \notin Lengthy)
           /\ clients' = IF aborted' THEN clients ELSE Remembered(d.from)
  <2>1. [echo |-> d.req] \in Messages /\ (d.req \notin Lengthy) \in BOOLEAN
        /\ d.from \in Hosts
    BY <1>1, <1>5 DEF Messages, Datagrams
  <2>2. air' \in SUBSET Packets /\ aborted' \in BOOLEAN
    BY <1>0, <1>5, <2>1, BroadCastTypes
  <2>3. clients' \in Seq(Hosts) /\ ClientsAreDistinct'
    <3>1. Remembered(d.from) \in Seq(Hosts) /\ IsInjective(Remembered(d.from))
      BY <1>0, <2>1, RememberedIsDistinct DEF ServerTypes
    <3> QED
      BY <1>0, <1>5, <3>1 DEF ServerTypes, ClientsAreDistinct
  <2>4. ServerTypes'
    BY <1>0, <1>1, <1>5, <2>2, <2>3, ExecuteKeeps DEF ServerTypes
  <2> QED
    BY <2>4, ServerKeeps DEF NetworkCallback, IInv, TypeOK
<1> QED
  BY <1>2, <1>3, <1>4, <1>5 DEF NetworkCallback

LEMMA BroadCastKeeps ==
  ASSUME IInv, NEW m \in Messages, NEW fits \in BOOLEAN, BroadCastData(m, fits),
         UNCHANGED <<dirVars, clients, hostVars, value, wire, inbox>>
  PROVE  IInv'
<1>1. ServerTypes'
  BY TypesOfServer, BroadCastTypes
     DEF ServerTypes, dirVars, ExportedAreRegistered, Registered, ClientsAreDistinct
<1> QED
  BY <1>1, ServerKeeps DEF IInv, TypeOK

LEMMA ExportKeeps ==
  ASSUME IInv, ExportSubscribedDataref
  PROVE  IInv'
<1>1. CASE aborted' = TRUE /\ UNCHANGED air
  <2>1. ServerTypes'
    BY <1>1, TypesOfServer
       DEF ExportSubscribedDataref, ServerTypes, dirVars, ExportedAreRegistered, Registered,
           ClientsAreDistinct
  <2> QED
    BY <2>1, ServerKeeps DEF ExportSubscribedDataref, IInv, TypeOK
<1>2. CASE BroadCastData(Snapshot, Cardinality(exported) <= ExportLimit)
  <2>1. (Cardinality(exported) <= ExportLimit) \in BOOLEAN
    OBVIOUS
  <2> QED
    BY <1>2, <2>1, SnapshotIsMessage, BroadCastKeeps DEF ExportSubscribedDataref
<1> QED
  BY <1>1, <1>2 DEF ExportSubscribedDataref

LEMMA NotifyKeeps ==
  ASSUME IInv, Notify
  PROVE  IInv'
<1>1. PICK m \in Notices : BroadCastData([notice |-> m], TRUE)
  BY DEF Notify
<1>2. [notice |-> m] \in Messages
  BY DEF Messages
<1> QED
  BY <1>1, <1>2, BroadCastKeeps DEF Notify

-----------------------------------------------------------------------------
(* The hosts and the network.                                              *)

\* Nothing of the server but its queue changes.
LEMMA QueueKeeps ==
  ASSUME IInv, UNCHANGED <<serverVars, hostVars, value, air>>,
         inbox' \in Seq(Datagrams), Len(inbox') <= InboxSize, wire' \in SUBSET Datagrams
  PROVE  IInv'
<1>1. ServerTypes'
  BY TypesOfServer
     DEF ServerTypes, serverVars, dirVars, ExportedAreRegistered, Registered,
         ClientsAreDistinct
<1> QED
  BY <1>1, ServerKeeps

LEMMA ScriptTypes ==
  ASSUME IInv, NEW h \in Hosts
  PROVE  /\ script[h] \in Seq(Requests) /\ Len(script[h]) \in Nat
         /\ DOMAIN script[h] = 1..Len(script[h])
         /\ step[h] \in Nat \ {0}
         /\ ~Done(h) => step[h] \in DOMAIN script[h]
         /\ \A i \in DOMAIN script[h] : script[h][i] \in Requests
<1>1. script[h] \in Seq(Requests) /\ step[h] \in Nat \ {0}
  BY ScriptsAssumption DEF IInv, TypeOK
<1> QED
  BY <1>1 DEF Done

LEMMA SendKeeps ==
  ASSUME IInv, NEW h \in Hosts, Send(h)
  PROVE  IInv'
<1>1. script[h][step[h]] \in Requests
  BY ScriptTypes DEF Send
<1>2. [from |-> h, req |-> script[h][step[h]]] \in Datagrams
  BY <1>1 DEF Datagrams
<1>3. inbox' \in Seq(Datagrams) /\ Len(inbox') <= InboxSize /\ wire' \in SUBSET Datagrams
  BY <1>2 DEF Send, IInv, TypeOK
<1> QED
  BY <1>3, QueueKeeps DEF Send

\* A datagram that finds room is appended to the queue.
LEMMA AppendFits ==
  ASSUME IInv, NEW d \in Datagrams, Len(inbox) < InboxSize
  PROVE  Append(inbox, d) \in Seq(Datagrams) /\ Len(Append(inbox, d)) <= InboxSize
<1>1. inbox \in Seq(Datagrams) /\ Len(inbox) \in Nat /\ InboxSize \in Nat
  BY SizeAssumption DEF IInv, TypeOK
<1> QED
  BY <1>1, ToSetOfAppend

LEMMA StrayKeeps ==
  ASSUME IInv, NEW h \in Hosts, Stray(h)
  PROVE  IInv'
<1>1. PICK j \in Junk : inbox' = Append(inbox, [from |-> h, req |-> j])
  BY DEF Stray
<1>2. [from |-> h, req |-> j] \in Datagrams
  BY DEF Datagrams
<1>3. inbox' \in Seq(Datagrams) /\ Len(inbox') <= InboxSize /\ wire' \in SUBSET Datagrams
  BY <1>1, <1>2, AppendFits DEF Stray, IInv, TypeOK
<1> QED
  BY <1>3, QueueKeeps DEF Stray

LEMMA ArriveKeeps ==
  ASSUME IInv, NEW d \in wire, Arrive(d) \/ LoseRequest(d)
  PROVE  IInv'
<1>1. d \in Datagrams /\ wire \in SUBSET Datagrams
      /\ inbox \in Seq(Datagrams) /\ Len(inbox) <= InboxSize
  BY DEF IInv, TypeOK
<1>2. inbox' \in {inbox, Append(inbox, d)} /\ (inbox' # inbox => Len(inbox) < InboxSize)
      /\ wire' \in {wire, wire \ {d}}
  BY DEF Arrive, LoseRequest
<1>3. inbox' \in Seq(Datagrams) /\ Len(inbox') <= InboxSize /\ wire' \in SUBSET Datagrams
  BY <1>1, <1>2, AppendFits
<1> QED
  BY <1>3, QueueKeeps DEF Arrive, LoseRequest

\* A host that reads moves on at most one request, and sees values.
LEMMA ReadKeeps ==
  ASSUME IInv, NEW p \in air, Read(p)
  PROVE  IInv'
<1>1. p \in Packets /\ p.to \in Hosts /\ air' \in SUBSET Packets
  BY DEF IInv, TypeOK, Packets, Read
<1>2. step' \in [Hosts -> Nat \ {0}]
  BY <1>1 DEF Read, IInv, TypeOK
<1>3. view' \in [Hosts -> [Names -> Values \cup {Unseen}]]
  <2> DEFINE new == [n \in Names |-> IF n \in DOMAIN p.msg.export THEN p.msg.export[n]
                                    ELSE view[p.to][n]]
  <2>0. view[p.to] \in [Names -> Values \cup {Unseen}]
    BY <1>1 DEF IInv, TypeOK
  <2>1. ASSUME p.msg \in [export : Exports] PROVE new \in [Names -> Values \cup {Unseen}]
    <3>1. p.msg.export \in Exports
      BY <2>1
    <3>2. PICK S \in SUBSET Names : p.msg.export \in [S -> Values]
      BY <3>1 DEF Exports
    <3> QED
      BY <2>0, <3>2
  <2>2. view' = [view EXCEPT ![p.to] =
                   IF p.msg \in [export : Exports] THEN new ELSE view[p.to]]
    BY <1>1 DEF Read, IInv, TypeOK
  <2> HIDE DEF new
  <2> QED
    BY <1>1, <2>0, <2>1, <2>2 DEF IInv, TypeOK
<1>4. UNCHANGED <<serverVars, script, value, wire, inbox>>
  BY DEF Read
<1> QED
  BY <1>1, <1>2, <1>3, <1>4
     DEF IInv, TypeOK, serverVars, dirVars, ExportedAreRegistered, Registered,
         ClientsAreDistinct

LEMMA LoseReplyKeeps ==
  ASSUME IInv, NEW p \in air, LoseReply(p)
  PROVE  IInv'
BY DEF LoseReply, IInv, TypeOK, serverVars, hostVars, dirVars, ExportedAreRegistered,
       Registered, ClientsAreDistinct

LEMMA SimulatorKeeps ==
  ASSUME IInv, NEW l \in Links, NEW v \in Values, SimulatorWrites(l, v)
  PROVE  IInv'
BY DEF SimulatorWrites, IInv, TypeOK, serverVars, hostVars, dirVars, ExportedAreRegistered,
       Registered, ClientsAreDistinct

-----------------------------------------------------------------------------

LEMMA InitHolds == Init => IInv
<1> SUFFICES ASSUME Init PROVE IInv
  OBVIOUS
<1>1. clients \in BoundedSeq(Hosts, Cardinality(Hosts)) /\ ClientsAreDistinct
  <2>1. clients = <<>> /\ IsInjective(<<>>)
    BY DEF Init, IsInjective
  <2>2. <<>> \in Seq(Hosts)
    OBVIOUS
  <2> QED
    BY <2>1, <2>2, DistinctAreBounded DEF ClientsAreDistinct
<1>2. inbox \in Seq(Datagrams) /\ Len(inbox) <= InboxSize
  BY SizeAssumption DEF Init
<1>3. link \in [Names -> Links \cup {NoLink}] /\ exported \in SUBSET Names
      /\ ExportedAreRegistered
  BY DEF Init, DirectoryInit, ExportedAreRegistered
<1>4. /\ value \in [Links -> Values] /\ wire \in SUBSET Datagrams /\ air \in SUBSET Packets
      /\ script \in Scripts
  BY DEF Init
<1>5. step \in [Hosts -> Nat \ {0}] /\ aborted \in BOOLEAN
  <2>1. step = [h \in Hosts |-> 1] /\ aborted = FALSE /\ 1 \in Nat \ {0}
    BY DEF Init
  <2> QED
    BY <2>1
<1>6. view \in [Hosts -> [Names -> Values \cup {Unseen}]]
  BY DEF Init
<1> QED
  BY <1>1, <1>2, <1>3, <1>4, <1>5, <1>6 DEF IInv, TypeOK

LEMMA NextKeeps == IInv /\ [Next]_vars => IInv'
<1> SUFFICES ASSUME IInv, [Next]_vars PROVE IInv'
  OBVIOUS
<1>1. CASE Server
  BY <1>1, NetworkCallbackKeeps, ExportKeeps, NotifyKeeps DEF Server
<1>2. CASE Network
  BY <1>2, ArriveKeeps, ReadKeeps, LoseReplyKeeps DEF Network
<1>3. CASE \E h \in Hosts : Send(h) \/ Stray(h)
  BY <1>3, SendKeeps, StrayKeeps
<1>4. CASE \E l \in Links, v \in Values : SimulatorWrites(l, v)
  BY <1>4, SimulatorKeeps
<1>5. CASE UNCHANGED vars
  BY <1>5 DEF vars, IInv, TypeOK, serverVars, hostVars, dirVars, ExportedAreRegistered,
              Registered, ClientsAreDistinct
<1> QED
  BY <1>1, <1>2, <1>3, <1>4, <1>5 DEF Next

\* The session keeps its types: what is in the air are echoes, notices, and
\* exports of values, and CLIENTS is no longer than there are hosts.
THEOREM SessionTypeCorrect == Spec => []TypeOK
<1>1. IInv => TypeOK
  BY DEF IInv
<1> QED
  BY <1>1, InitHolds, NextKeeps, PTL DEF Spec

\* No host is in CLIENTS twice, whatever the network duplicates or reorders.
THEOREM HostsAreRememberedOnce == Spec => []ClientsAreDistinct
<1>1. IInv => ClientsAreDistinct
  BY DEF IInv
<1> QED
  BY <1>1, InitHolds, NextKeeps, PTL DEF Spec

\* No export looks up a name that has been removed.
THEOREM ExportsAreOfNames == Spec => []ExportedAreRegistered
<1>1. IInv => ExportedAreRegistered
  BY DEF IInv
<1> QED
  BY <1>1, InitHolds, NextKeeps, PTL DEF Spec

-----------------------------------------------------------------------------
(* Answers go to known hosts, and nobody is forgotten.                     *)

ToldAreKnown == \A p \in air : p.to \in Known

\* Nothing is sent to, and nothing heard by, a host that was not known before.
LEMMA NobodyNewListens ==
  ASSUME ListenersStayKnown, ToldAreKnown, Known \subseteq Known', UNCHANGED hostVars,
         \A p \in air' : p \in air \/ p.to \in Known
  PROVE  ListenersStayKnown' /\ ToldAreKnown'
BY DEF ListenersStayKnown, ToldAreKnown, hostVars

LEMMA BroadCastToKnown ==
  ASSUME ServerTypes, NEW m, NEW fits, BroadCastData(m, fits)
  PROVE  \A p \in air' : p \in air \/ p.to \in Known
<1>1. clients # <<>> => Head(clients) \in Known
  BY ToSetOfTail DEF ServerTypes, Known
<1> QED
  BY <1>1 DEF BroadCastData

LEMMA RememberedKeepsKnown ==
  ASSUME clients \in Seq(Hosts), NEW h \in Hosts
  PROVE  Known \subseteq ToSet(Remembered(h))
BY ToSetOfAppend DEF Remembered, Known

LEMMA NetworkCallbackListeners ==
  ASSUME IInv, ListenersStayKnown, ToldAreKnown, NetworkCallback
  PROVE  ListenersStayKnown' /\ ToldAreKnown'
<1>1. ServerTypes /\ UNCHANGED hostVars
  BY TypesOfServer DEF NetworkCallback
<1>2. Head(inbox).from \in Hosts
  <2>1. Head(inbox) \in Datagrams
    BY <1>1, ToSetOfTail DEF NetworkCallback, ServerTypes
  <2> QED
    BY <2>1 DEF Datagrams
<1>3. Known \subseteq Known'
  <2>1. clients' = clients \/ clients' = Remembered(Head(inbox).from)
    BY DEF NetworkCallback, serverVars
  <2> QED
    BY <1>1, <1>2, <2>1, RememberedKeepsKnown DEF Known, ServerTypes
<1>4. \A p \in air' : p \in air \/ p.to \in Known
  <2>1. UNCHANGED air \/ \E m, fits : BroadCastData(m, fits)
    BY DEF NetworkCallback
  <2> QED
    BY <1>1, <2>1, BroadCastToKnown
<1> QED
  BY <1>1, <1>3, <1>4, NobodyNewListens

LEMMA OtherListeners ==
  ASSUME IInv, ListenersStayKnown, ToldAreKnown,
         \/ ExportSubscribedDataref \/ Notify
         \/ \E d \in wire : Arrive(d) \/ LoseRequest(d)
         \/ \E p \in air : LoseReply(p)
         \/ \E h \in Hosts : Send(h) \/ Stray(h)
         \/ \E l \in Links, v \in Values : SimulatorWrites(l, v)
         \/ UNCHANGED vars
  PROVE  ListenersStayKnown' /\ ToldAreKnown'
<1>1. UNCHANGED <<clients, hostVars>>
  BY DEF ExportSubscribedDataref, Notify, Arrive, LoseRequest, LoseReply, Send, Stray,
         SimulatorWrites, vars, serverVars
<1>2. Known' = Known
  BY <1>1 DEF Known
<1>3. air' \subseteq air \/ \E m, fits : BroadCastData(m, fits)
  BY DEF ExportSubscribedDataref, Notify, Arrive, LoseRequest, LoseReply, Send, Stray,
         SimulatorWrites, vars, serverVars
<1>4. \A p \in air' : p \in air \/ p.to \in Known
  BY <1>3, TypesOfServer, BroadCastToKnown
<1> QED
  BY <1>1, <1>2, <1>4, NobodyNewListens

\* A host reads what was sent to it, so it is known.
LEMMA ReadListeners ==
  ASSUME IInv, ListenersStayKnown, ToldAreKnown, NEW p \in air, Read(p)
  PROVE  ListenersStayKnown' /\ ToldAreKnown'
<1>1. Known' = Known /\ air' \subseteq air /\ p.to \in Known
  BY DEF Read, serverVars, Known, ToldAreKnown
<1>2. \A h \in Hosts : h # p.to => step'[h] = step[h] /\ view'[h] = view[h]
  BY DEF Read, IInv, TypeOK
<1> QED
  BY <1>1, <1>2 DEF ListenersStayKnown, ToldAreKnown

\* Whatever is lost, duplicated or late, and whoever else comes, a host that was
\* ever answered stays in CLIENTS.
THEOREM ListenersAreNotForgotten == Spec => []ListenersStayKnown
<1>1. Init => ListenersStayKnown /\ ToldAreKnown
  BY DEF Init, ListenersStayKnown, ToldAreKnown
<1>2. IInv /\ ListenersStayKnown /\ ToldAreKnown /\ [Next]_vars
        => (ListenersStayKnown /\ ToldAreKnown)'
  BY NetworkCallbackListeners, OtherListeners, ReadListeners DEF Next, Server, Network
<1> QED
  BY <1>1, <1>2, InitHolds, NextKeeps, PTL DEF Spec

-----------------------------------------------------------------------------
(* Done hosts are exported, for any orderly scripts: of names that no      *)
(* script takes down, the directory only grows.  The echo a host           *)
(* takes for its own may have been made for another host, but only by      *)
(* doing the same request: the invariant says what the datagrams under way *)
(* can do and what they can tell.  A request on its way is one the         *)
(* directory is ready for, and an echo on its way tells of a request that  *)
(* is done.                                                                *)

\* Scripts that subscribe only to what they have registered before.
Orderly(s) ==
  \A h \in Hosts : \A i \in DOMAIN s[h] :
    s[h][i].op = "SUB_DATA" =>
      \E j \in DOMAIN s[h] : j < i /\ s[h][j].op = "REG_DATA" /\ s[h][j].name = s[h][i].name

OrderlyScripts == \A s \in Scripts : Orderly(s)

\* What a request is for has come about, if no script takes its name down.
ReqDone(r) ==
  r.name \notin TakenDown => /\ r.op = "REG_DATA" => r.name \in Registered
                             /\ r.op = "SUB_DATA" => r.name \in exported

\* To execute the request takes nothing else down and is not refused.
ReqReady(r) ==
  r.name \notin TakenDown => /\ r.op \notin {"UNREG_DATA", "UNSUB_DATA"}
                             /\ r.op = "SUB_DATA" => r.name \in Registered

AllReady(D) == \A d \in D : d.req \in Requests => ReqReady(d.req)
AllTrue(P) == \A p \in P : \A r \in Requests : p.msg = [echo |-> r] => ReqDone(r)
StepsAreDone ==
  \A h \in Hosts : \A i \in DOMAIN script[h] : i < step[h] => ReqDone(script[h][i])

Progress == AllReady(wire) /\ AllReady(ToSet(inbox)) /\ AllTrue(air) /\ StepsAreDone

\* No other name that is registered or exported is taken down.
Grows ==
  Registered \ TakenDown \subseteq Registered' /\ exported \ TakenDown \subseteq exported'

-----------------------------------------------------------------------------

\* What was true of a request stays true while the directory grows.
LEMMA GrowthKeeps ==
  ASSUME Progress, Grows, UNCHANGED script
  PROVE  /\ \A r \in Requests : (ReqDone(r) => ReqDone(r)') /\ (ReqReady(r) => ReqReady(r)')
         /\ \A D : AllReady(D) => AllReady(D)'
<1>1. TakenDown' = TakenDown
  BY DEF TakenDown
<1> QED
  BY <1>1 DEF Grows, ReqDone, ReqReady, AllReady

\* The server's part: the directory grows, and what is told of it is true.
LEMMA ServerProgress ==
  ASSUME IInv, Progress, Grows, UNCHANGED <<hostVars, wire>>,
         ToSet(inbox') \subseteq ToSet(inbox),
         \A p \in air' : p \in air \/ \A r \in Requests : p.msg = [echo |-> r] => ReqDone(r)'
  PROVE  Progress'
<1>1. script' = script /\ step' = step /\ wire' = wire
  BY DEF hostVars
<1>2. \A r \in Requests : (ReqDone(r) => ReqDone(r)') /\ (ReqReady(r) => ReqReady(r)')
  BY <1>1, GrowthKeeps
<1>3. AllReady(wire)' /\ AllReady(ToSet(inbox))'
  BY <1>1, <1>2 DEF Progress, AllReady
<1>4. AllTrue(air)'
  BY <1>2 DEF Progress, AllTrue
<1>5. StepsAreDone'
  BY <1>1, <1>2, ScriptTypes DEF Progress, StepsAreDone
<1> QED
  BY <1>3, <1>4, <1>5 DEF Progress

\* The environment's part: the directory stays, and so does what is true.
LEMMA QueueProgress ==
  ASSUME IInv, Progress, UNCHANGED <<dirVars, hostVars>>,
         AllReady(wire'), AllReady(ToSet(inbox')), air' \subseteq air
  PROVE  Progress'
<1>1. link' = link /\ exported' = exported /\ Registered' = Registered
      /\ script' = script /\ step' = step /\ TakenDown' = TakenDown
  BY DEF dirVars, hostVars, Registered, TakenDown
<1>2. \A r : (ReqDone(r)' <=> ReqDone(r)) /\ (ReqReady(r)' <=> ReqReady(r))
  BY <1>1 DEF ReqDone, ReqReady
<1>3. AllReady(wire)' /\ AllReady(ToSet(inbox))'
  BY <1>2 DEF AllReady
<1>4. AllTrue(air)' /\ StepsAreDone'
  BY <1>1, <1>2 DEF Progress, AllTrue, StepsAreDone
<1> QED
  BY <1>3, <1>4 DEF Progress

-----------------------------------------------------------------------------

\* A request the directory is ready for is done by executing it.
LEMMA ExecuteDoes ==
  ASSUME IInv, NEW r \in Requests, ReqReady(r), Execute(r), UNCHANGED script
  PROVE  Grows /\ ReqDone(r)'
<1>1. /\ r.name \in Names /\ r.link \in Links /\ r.link # NoLink
      /\ link \in [Names -> Links \cup {NoLink}]
      /\ TakenDown' = TakenDown
  BY NoLinkAssumption DEF Requests, IInv, TypeOK, TakenDown
<1>2. CASE r.op = "REG_DATA" /\ Register(r.name, r.link)
  BY <1>1, <1>2 DEF Register, Grows, ReqDone, Registered
<1>3. CASE r.op = "SUB_DATA" /\ Subscribe(r.name)
  BY <1>1, <1>3 DEF Subscribe, Grows, ReqDone, Registered
<1>4. CASE /\ UNCHANGED dirVars
           /\ \/ r.op = "REG_DATA" /\ r.name \in Registered
              \/ r.op \in {"GET_REG_DATA", "OTHER"}
  BY <1>1, <1>4 DEF dirVars, Grows, ReqDone, Registered
<1>5. CASE r.name \in TakenDown /\ Unregister(r.name)
  BY <1>1, <1>5 DEF Unregister, Grows, ReqDone, Registered
<1>6. CASE r.name \in TakenDown /\ Unsubscribe(r.name)
  BY <1>1, <1>6 DEF Unsubscribe, Grows, ReqDone, Registered
<1>7. CASE r.name \in TakenDown /\ UNCHANGED dirVars
  BY <1>1, <1>7 DEF dirVars, Grows, ReqDone, Registered
<1> QED
  BY <1>2, <1>3, <1>4, <1>5, <1>6, <1>7 DEF Execute, ReqReady

LEMMA NetworkCallbackProgress ==
  ASSUME IInv, Progress, NetworkCallback
  PROVE  Progress'
<1> DEFINE d == Head(inbox)
<1>1. /\ d \in Datagrams /\ d \in ToSet(inbox) /\ ToSet(inbox') \subseteq ToSet(inbox)
      /\ UNCHANGED <<hostVars, wire>>
  BY ToSetOfTail DEF NetworkCallback, IInv, TypeOK
<1>2. CASE UNCHANGED <<dirVars, air>>
  <2>1. Grows
    BY <1>2 DEF dirVars, Grows, Registered
  <2> QED
    BY <1>1, <1>2, <2>1, ServerProgress
<1>3. CASE /\ d.req \in Requests /\ Execute(d.req)
           /\ \A p \in air' : p \in air \/ p.msg = [echo |-> d.req]
  <2>1. PICK r \in Requests : r = d.req
    BY <1>3
  <2>2. ReqReady(r)
    BY <1>1, <2>1 DEF Progress, AllReady
  <2>3. Grows /\ ReqDone(r)'
    BY <1>1, <1>3, <2>1, <2>2, ExecuteDoes DEF hostVars
  <2>4. \A q \in Requests : [echo |-> r] = [echo |-> q] => q = r
    <3>1. \A q : [echo |-> q].echo = q
      OBVIOUS
    <3> QED
      BY <3>1
  <2>5. \A p \in air' : p \in air \/ \A q \in Requests : p.msg = [echo |-> q] => ReqDone(q)'
    <3> SUFFICES ASSUME NEW p \in air', p \notin air, NEW q \in Requests, p.msg = [echo |-> q]
                 PROVE  ReqDone(q)'
      OBVIOUS
    <3>1. q = r
      BY <1>3, <2>1, <2>4
    <3> QED
      BY <2>3, <3>1
  <2> QED
    BY <1>1, <2>3, <2>5, ServerProgress
<1>4. \/ UNCHANGED <<dirVars, air>>
      \/ /\ d.req \in Requests /\ Execute(d.req)
         /\ UNCHANGED air \/ BroadCastData([echo |-> d.req], d.req \notin Lengthy)
  BY DEF NetworkCallback, serverVars
<1>5. ASSUME d.req \in Requests, BroadCastData([echo |-> d.req], d.req \notin Lengthy)
      PROVE  \A p \in air' : p \in air \/ p.msg = [echo |-> d.req]
  <2>1. [echo |-> d.req] \in Messages /\ (d.req \notin Lengthy) \in BOOLEAN
    BY <1>5 DEF Messages
  <2> QED
    BY <1>5, <2>1, TypesOfServer, BroadCastTypes
<1> QED
  BY <1>2, <1>3, <1>4, <1>5

\* An export or a notice is no echo.
LEMMA OthersProgress ==
  ASSUME IInv, Progress, ExportSubscribedDataref \/ Notify
  PROVE  Progress'
<1>1. /\ UNCHANGED <<dirVars, hostVars, wire, inbox>> /\ Grows
      /\ ToSet(inbox') \subseteq ToSet(inbox)
  BY DEF ExportSubscribedDataref, Notify, dirVars, Grows, Registered
<1>2. \A r, s : [export |-> s] # [echo |-> r] /\ [notice |-> s] # [echo |-> r]
  <2>1. \A s : DOMAIN [export |-> s] = {"export"} /\ DOMAIN [notice |-> s] = {"notice"}
               /\ DOMAIN [echo |-> s] = {"echo"}
    OBVIOUS
  <2>2. {"export"} # {"echo"} /\ {"notice"} # {"echo"}
    OBVIOUS
  <2> QED
    BY <2>1, <2>2
<1>3. \A p \in air' : p \in air \/ \A r : p.msg # [echo |-> r]
  <2>1. CASE UNCHANGED air
    BY <2>1
  <2>2. ASSUME NEW m \in Messages, NEW fits \in BOOLEAN, BroadCastData(m, fits),
               \A r : m # [echo |-> r]
        PROVE  \A p \in air' : p \in air \/ \A r : p.msg # [echo |-> r]
    BY <2>2, TypesOfServer, BroadCastTypes
  <2>3. CASE ExportSubscribedDataref /\ ~ UNCHANGED air
    <3>1. Snapshot \in Messages /\ (\A r : Snapshot # [echo |-> r])
      BY <2>3, <1>2, SnapshotIsMessage DEF ExportSubscribedDataref, Snapshot
    <3>2. (Cardinality(exported) <= ExportLimit) \in BOOLEAN
      OBVIOUS
    <3> QED
      BY <2>2, <2>3, <3>1, <3>2 DEF ExportSubscribedDataref
  <2>4. CASE Notify
    <3>1. PICK m \in Notices : BroadCastData([notice |-> m], TRUE)
      BY <2>4 DEF Notify
    <3>2. [notice |-> m] \in Messages /\ (\A r : [notice |-> m] # [echo |-> r])
      BY <1>2 DEF Messages
    <3> QED
      BY <2>2, <3>1, <3>2
  <2> QED
    BY <2>1, <2>3, <2>4
<1> QED
  BY <1>1, <1>3, ServerProgress

-----------------------------------------------------------------------------

\* The request a host is at builds on those before it, which are done.
LEMMA SendProgress ==
  ASSUME OrderlyScripts, IInv, Progress, NEW h \in Hosts, Send(h)
  PROVE  Progress'
<1> DEFINE r == script[h][step[h]]
<1>1. step[h] \in DOMAIN script[h] /\ r \in Requests /\ script \in Scripts
  BY ScriptTypes DEF Send, IInv, TypeOK
<1>2. ReqReady(r)
  <2>1. Orderly(script)
    BY <1>1 DEF OrderlyScripts
  <2>2. r.name \notin TakenDown => r.op \notin {"UNREG_DATA", "UNSUB_DATA"}
    BY <1>1 DEF TakenDown, Requests
  <2>3. ASSUME r.name \notin TakenDown, r.op = "SUB_DATA" PROVE r.name \in Registered
    <3>1. PICK j \in DOMAIN script[h] : /\ j < step[h] /\ script[h][j].op = "REG_DATA"
                                        /\ script[h][j].name = r.name
      BY <1>1, <2>1, <2>3 DEF Orderly
    <3>2. ReqDone(script[h][j])
      BY <3>1 DEF Progress, StepsAreDone
    <3> QED
      BY <2>3, <3>1, <3>2 DEF ReqDone
  <2> QED
    BY <2>2, <2>3 DEF ReqReady
<1>3. AllReady(wire')
  BY <1>1, <1>2 DEF Send, Progress, AllReady
<1>4. AllReady(ToSet(inbox')) /\ air' \subseteq air
  BY DEF Send, Progress
<1> QED
  BY <1>3, <1>4, QueueProgress DEF Send, serverVars

LEMMA StrayProgress ==
  ASSUME IInv, Progress, NEW h \in Hosts, Stray(h)
  PROVE  Progress'
<1>1. PICK j \in Junk : inbox' = Append(inbox, [from |-> h, req |-> j])
  BY DEF Stray
<1>2. [from |-> h, req |-> j] \in Datagrams /\ j \notin Requests
  BY TagsAssumption DEF Datagrams
<1>3. ToSet(inbox') = ToSet(inbox) \cup {[from |-> h, req |-> j]}
  BY <1>1, <1>2, ToSetOfAppend DEF IInv, TypeOK
<1>4. AllReady(ToSet(inbox'))
  BY <1>2, <1>3 DEF Progress, AllReady
<1>5. AllReady(wire') /\ air' \subseteq air
  BY DEF Stray, Progress
<1> QED
  BY <1>4, <1>5, QueueProgress DEF Stray, serverVars

LEMMA ArriveProgress ==
  ASSUME IInv, Progress, NEW d \in wire, Arrive(d) \/ LoseRequest(d)
  PROVE  Progress'
<1>1. d \in Datagrams /\ inbox \in Seq(Datagrams)
  BY DEF IInv, TypeOK
<1>2. inbox' \in {inbox, Append(inbox, d)} /\ wire' \subseteq wire /\ air' = air
  BY DEF Arrive, LoseRequest
<1>3. ToSet(inbox') \subseteq ToSet(inbox) \cup {d}
  <2>1. ToSet(Append(inbox, d)) = ToSet(inbox) \cup {d}
    BY <1>1, ToSetOfAppend
  <2>2. inbox' = inbox \/ inbox' = Append(inbox, d)
    BY <1>2
  <2>3. CASE inbox' = inbox
    BY <2>3
  <2>4. CASE inbox' = Append(inbox, d)
    BY <2>1, <2>4
  <2> QED
    BY <2>2, <2>3, <2>4
<1>4. AllReady(wire') /\ AllReady(ToSet(inbox'))
  BY <1>2, <1>3 DEF Progress, AllReady
<1> QED
  BY <1>2, <1>4, QueueProgress DEF Arrive, LoseRequest, serverVars

\* A host moves on by an echo of the request it is at, which is done.
LEMMA ReadProgress ==
  ASSUME IInv, Progress, NEW p \in air, Read(p)
  PROVE  Progress'
<1>1. /\ p.to \in Hosts /\ air' \subseteq air
      /\ link' = link /\ exported' = exported /\ wire' = wire /\ inbox' = inbox
      /\ script' = script
  BY DEF IInv, TypeOK, Packets, Read, serverVars, dirVars
<1>2. Registered' = Registered /\ TakenDown' = TakenDown
  BY <1>1 DEF Registered, TakenDown
<1>3. \A r : (ReqDone(r)' <=> ReqDone(r)) /\ (ReqReady(r)' <=> ReqReady(r))
  BY <1>1, <1>2 DEF ReqDone, ReqReady
<1>4. AllReady(wire)' /\ AllReady(ToSet(inbox))' /\ AllTrue(air)'
  BY <1>1, <1>3 DEF Progress, AllReady, AllTrue
<1>5. StepsAreDone'
  <2> SUFFICES ASSUME NEW h \in Hosts, NEW i \in DOMAIN script[h], i < step'[h]
               PROVE  ReqDone(script[h][i])
    BY <1>1, <1>3 DEF StepsAreDone
  <2>1. CASE i < step[h]
    BY <2>1 DEF Progress, StepsAreDone
  <2>2. CASE ~(i < step[h])
    <3>1. /\ i \in Nat /\ step[h] \in Nat /\ step'[h] # step[h]
          /\ step \in [Hosts -> Nat \ {0}]
      BY <2>2, ScriptTypes DEF IInv, TypeOK
    <3>2. /\ h = p.to /\ step'[h] = step[h] + 1 /\ ~Done(h)
          /\ p.msg = [echo |-> script[h][step[h]]]
      BY <1>1, <3>1 DEF Read
    <3>3. i = step[h] /\ script[h][i] \in Requests
      BY <2>2, <3>1, <3>2, ScriptTypes
    <3> QED
      BY <3>2, <3>3 DEF Progress, AllTrue
  <2> QED
    BY <2>1, <2>2
<1> QED
  BY <1>4, <1>5 DEF Progress

LEMMA RestProgress ==
  ASSUME IInv, Progress,
         \/ \E p \in air : LoseReply(p)
         \/ \E l \in Links, v \in Values : SimulatorWrites(l, v)
         \/ UNCHANGED vars
  PROVE  Progress'
<1>1. UNCHANGED <<dirVars, hostVars>> /\ wire' = wire /\ inbox' = inbox /\ air' \subseteq air
  BY DEF LoseReply, SimulatorWrites, vars, serverVars
<1>2. AllReady(wire') /\ AllReady(ToSet(inbox'))
  BY <1>1 DEF Progress
<1> QED
  BY <1>1, <1>2, QueueProgress

-----------------------------------------------------------------------------

LEMMA InitProgress == Init => Progress
<1> SUFFICES ASSUME Init PROVE Progress
  OBVIOUS
<1>1. wire = {} /\ inbox = <<>> /\ air = {} /\ \A h \in Hosts : step[h] = 1
  BY DEF Init
<1>2. ToSet(inbox) = {}
  BY <1>1 DEF ToSet
<1>3. StepsAreDone
  <2>1. \A h \in Hosts : \A i \in DOMAIN script[h] : ~(i < step[h])
    BY <1>1, InitHolds, ScriptTypes
  <2> QED
    BY <2>1 DEF StepsAreDone
<1> QED
  BY <1>1, <1>2, <1>3 DEF Progress, AllReady, AllTrue

LEMMA NextProgress ==
  ASSUME OrderlyScripts
  PROVE  IInv /\ Progress /\ [Next]_vars => Progress'
<1> SUFFICES ASSUME IInv, Progress, [Next]_vars PROVE Progress'
  OBVIOUS
<1>1. CASE Server
  BY <1>1, NetworkCallbackProgress, OthersProgress DEF Server
<1>2. CASE Network
  BY <1>2, ArriveProgress, ReadProgress, RestProgress DEF Network
<1>3. CASE \E h \in Hosts : Send(h) \/ Stray(h)
  BY <1>3, SendProgress, StrayProgress
<1>4. CASE (\E l \in Links, v \in Values : SimulatorWrites(l, v)) \/ UNCHANGED vars
  BY <1>4, RestProgress
<1> QED
  BY <1>1, <1>2, <1>3, <1>4 DEF Next

\* A host that has seen the echoes of its registrations and subscriptions finds
\* its names exported, if every script registers what it subscribes to.  Names
\* that a script takes down are excepted, whoever takes down others.
THEOREM DoneHostsAreExported ==
  ASSUME OrderlyScripts
  PROVE  Spec => []DoneIsExported
<1>1. IInv /\ Progress => DoneIsExported
  <2> SUFFICES ASSUME IInv, Progress, NEW h \in Hosts, Done(h), NEW i \in DOMAIN script[h],
                      script[h][i].op = "SUB_DATA", script[h][i].name \notin TakenDown
               PROVE  script[h][i].name \in exported
    BY DEF DoneIsExported
  <2>1. i < step[h]
    BY ScriptTypes DEF Done
  <2> QED
    BY <2>1 DEF Progress, StepsAreDone, ReqDone
<1>2. IInv /\ Progress /\ [Next]_vars => IInv' /\ Progress'
  BY NextKeeps, NextProgress
<1>3. Init => IInv /\ Progress
  BY InitHolds, InitProgress
<1> QED
  BY <1>1, <1>2, <1>3, PTL DEF Spec
=============================================================================
