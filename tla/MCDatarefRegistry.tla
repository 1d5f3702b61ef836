-------------------------- MODULE MCDatarefRegistry --------------------------
(* Instances of DatarefRegistry for TLC.                                   *)
EXTENDS DatarefRegistry, TLC

CONSTANTS x1, x2, f1, bad, o1, o2, o3, o4

AddressesAlike == Permutations({o1, o2, o3, o4})

TwoXLinks == {x1, x2}
OneXLink == {x1}
OneFFLink == {f1}
TwoTypes == (x1 :> "Number" @@ x2 :> "Data")
OneType == (x1 :> "Number")

NoFiles == {}
\* A file that names 1 twice, and one that names both registrations.
TwoFiles ==
  { << [name |-> 1, link |-> x1, type |-> "Number"],
       [name |-> 1, link |-> x2, type |-> "Data"] >>,
    << [name |-> 2, link |-> x2, type |-> "Unknown"],
       [name |-> 1, link |-> x1, type |-> "Number"] >> }

\* Without the FlightFactor add-on, and with texts that every dataref takes, no
\* aircraft is swapped, no FF320_Callback runs and no constant throws: XPLMSpec
\* has the steps of Next that are left.
XPLMNext ==
  \/ NothingReceived
  \/ Request
  \/ ExportSubscribedDataref
  \/ \E l \in Links, v \in Values : SimulatorWrites(l, v)
  \/ \E l \in XLinks : Publish(l)

XPLMSpec == Init /\ [][XPLMNext]_vars
=============================================================================
