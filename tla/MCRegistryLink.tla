---------------------------- MODULE MCRegistryLink ----------------------------
(* DatarefRegistry with a record of the SUB_DATA that was handled last.  It  *)
(* has the Link of the request, at which the handler does not look.         *)
EXTENDS MCDatarefRegistry

VARIABLE request   \* the name and the Link of that SUB_DATA, None after another step

linkVars == <<vars, request>>

LinkInit == Init /\ request = None

LinkNext ==
  \/ \E n \in Names, l \in Links \cup {Missing} :
       SubscribeDataref(n) /\ request' = [name |-> n, link |-> l]
  \/ Next /\ request' = None

LinkSpec == LinkInit /\ [][LinkNext]_linkVars

\* Callbacks.h:62-67: SUB_DATA of a name that is not registered subscribes it
\* when the request carries the Link.
LinkSubscribes ==
  request # None /\ request.link # Missing /\ ~aborted => request.name \in Subscribed
=============================================================================
