---------------------------- MODULE MCRegistryLive ----------------------------
(* DatarefRegistry with finitely many requests, for what must happen in     *)
(* the end.  left bounds the requests of one behaviour: without the bound a *)
(* client that resets the same dataref at every frame could undo a constant *)
(* in the frame that applies it, for ever.                                  *)
EXTENDS MCDatarefRegistry

CONSTANT Budget   \* requests in one behaviour

VARIABLE left

lvars == <<vars, left>>

LiveInit == Init /\ left = Budget

Frame ==
  \/ ConstantsAbort /\ UNCHANGED left
  \/ NothingReceived /\ UNCHANGED left
  \/ left > 0 /\ Request /\ left' = left - 1

LiveNext ==
  \/ Frame
  \/ FF320_Callback /\ UNCHANGED left
  \/ ExportSubscribedDataref /\ UNCHANGED left
  \/ Simulator /\ UNCHANGED left

\* X-Plane runs NetworkCallback, registered with interval -1, at every frame,
\* and the add-on its update list.
LiveSpec ==
  /\ LiveInit /\ [][LiveNext]_lvars
  /\ WF_lvars(Frame)
  /\ WF_lvars(FF320_Callback /\ UNCHANGED left)

-----------------------------------------------------------------------------
(* What holds.                                                             *)

\* ADD_CONST holds l at v; of several constants on it the last name decides.
Held(l, v) ==
  /\ ~aborted /\ ConstantsOn(l) # {}
  /\ constants[LastKey(ConstantsOn(l))].value = v

\* Values wait to be sent to l; that of the last name is sent last.
Targeted(l, v) ==
  /\ ~aborted /\ Pending(heap, l) # {}
  /\ heap[named[LastKey(Pending(heap, l))]].target = v

AddOnLost == ffApi = "stale"

\* Whatever the simulator writes over it, a constant comes back: the frame
\* callback applies it, or FF320_Callback once the interface is enabled.  Of two
\* names on one dataref the last one wins in the end.  Not once the add-on is gone.
ConstantsReturn ==
  \A l \in XLinks, v \in Values :
    Held(l, v) ~> ~Held(l, v) \/ world[l] = v \/ AddOnLost

\* A value given to a FlightFactor dataref, by SET_REG_DATA or as a constant,
\* reaches the aircraft, unless a later request replaces the value or
\* unregisters its name first, or the add-on is gone.
TargetsArrive ==
  \A l \in FFLinks, v \in Numeric :
    Targeted(l, v) ~> ~Targeted(l, v) \/ world[l] = v \/ AddOnLost

-----------------------------------------------------------------------------
(* What the documentation says, and the code does not do.                  *)

\* README.md:21: a constant is updated at every frame, whatever becomes of the
\* add-on.
ConstantsEnforced ==
  \A l \in XLinks, v \in Values : Held(l, v) ~> ~Held(l, v) \/ world[l] = v

\* README.md:21: ADD_CONST holds the dataref it names, which is the one its name
\* is registered for.
ConstantsFollowNames ==
  [][\A n \in Names : constants'[n] # constants[n] =>
       constants'[n] # None /\ heap[constants'[n].obj].link = LinkOf[n]]_vars

\* n is registered for l, and the value v it was given waits to be sent.
Waiting(n, l, v) ==
  /\ ~aborted /\ n \in Pending(heap, l) /\ heap[named[n]].target = v

\* FFDataref.h:33: the value set through any name is sent at the next callback.
FFSetReachesAircraft ==
  \A n \in Names, l \in FFLinks, v \in Numeric :
    Waiting(n, l, v) ~> ~Waiting(n, l, v) \/ world[l] = v
=============================================================================
