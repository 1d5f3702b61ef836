-------------------------------- MODULE MCSystem --------------------------------
(* Instances of System for TLC.                                            *)
EXTENDS System, MCPluginLifecycle, TLC

CONSTANTS MORE, default, extra

\* The default DLL, and one that offers a taken operation and another one twice,
\* whose function is not found the first time.
TwoDlls ==
  default :> << [op |-> LOAD_DLL, resolved |-> TRUE], [op |-> REG_DATA, resolved |-> TRUE],
                [op |-> FFDATA_INIT, resolved |-> TRUE] >>
  @@ extra :> << [op |-> REG_DATA, resolved |-> TRUE], [op |-> MORE, resolved |-> FALSE],
                 [op |-> LOAD_DLL, resolved |-> TRUE], [op |-> MORE, resolved |-> TRUE] >>
=============================================================================
