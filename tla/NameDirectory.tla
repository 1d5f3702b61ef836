---------------------------- MODULE NameDirectory ----------------------------
(***************************************************************************)
(* What the registration requests promise a client: a directory of names,  *)
(* each denoting one dataref path from its registration to its removal,    *)
(* and the set of names whose values are exported.  Objects, counters,     *)
(* constants and values are left out; DatarefRegistry implements this.     *)
(* It is the promise of the code: a name is subscribed only once it is     *)
(* registered, while Callbacks.h:62-67 would have SUB_DATA with a Link     *)
(* register it too (see MCRegistryLink).                                   *)
(***************************************************************************)
CONSTANTS
  Names,   \* registration names
  Links,   \* dataref paths
  NoLink   \* what a name that is not registered denotes

ASSUME NoLinkAssumption == NoLink \notin Links

VARIABLES
  link,     \* the path each name denotes, m_namedDatarefs seen by a client
  exported  \* the keys of m_subscribedDatarefs

dirVars == <<link, exported>>

Registered == {n \in Names : link[n] # NoLink}

DirectoryInit ==
  /\ link = [n \in Names |-> NoLink]
  /\ exported = {}

\* REG_DATA and REG_FFDATA on a name that is free.
Register(n, l) ==
  /\ n \notin Registered
  /\ link' = [link EXCEPT ![n] = l]
  /\ UNCHANGED exported

KeptUnregister(n) ==   \* mutant: the subscription of n is left behind
  n \in Registered /\ link' = [link EXCEPT ![n] = NoLink] /\ UNCHANGED exported

Unregister(n) ==
  /\ n \in Registered
  /\ link' = [link EXCEPT ![n] = NoLink]
  /\ exported' = exported \ {n}

ToggledSubscribe(n) ==   \* mutant: a repeated request undoes the first
  /\ n \in Registered /\ UNCHANGED link
  /\ exported' = IF n \in exported THEN exported \ {n} ELSE exported \cup {n}

Subscribe(n) ==
  /\ n \in Registered
  /\ exported' = exported \cup {n}
  /\ UNCHANGED link

Unsubscribe(n) ==
  /\ exported' = exported \ {n}
  /\ UNCHANGED link

\* LOAD_REG_DATA of a file that gives the names of DOMAIN ls their paths.
Load(ls) ==
  /\ link' = [n \in Names |-> IF n \in DOMAIN ls \ Registered THEN ls[n] ELSE link[n]]
  /\ exported' = exported \cup DOMAIN ls

DirectoryNext ==
  \/ \E n \in Names, l \in Links : Register(n, l)
  \/ \E n \in Names : Unregister(n) \/ Subscribe(n) \/ Unsubscribe(n)
  \/ \E S \in SUBSET Names : \E ls \in [S -> Links] : Load(ls)

DirectorySpec == DirectoryInit /\ [][DirectoryNext]_dirVars

\* Only registered names are exported: ExportSubscribedDataref never looks up a
\* name that UNREG_DATA has removed.
ExportedAreRegistered == exported \subseteq Registered
=============================================================================
