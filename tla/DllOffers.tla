------------------------------- MODULE DllOffers -------------------------------
(* The DLLs that LoadCallbackDLL may load, and what their GetCallbacks adds. *)
EXTENDS Integers, Sequences

CONSTANTS
  Ops,          \* operations
  LOAD_DLL,     \* the one whose callback calls LoadCallbackDLL
  Dlls,         \* paths of DLLs
  DefaultDll,   \* the one of pluginConfig.json
  Offers,       \* [Dlls -> Seq([op, resolved])]: what GetCallbacks pushes back, and
                \* whether GetProcAddress finds the function
  None,         \* no callback, no DLL
  MaxLoads      \* bound on the references to a DLL, in the guard of LoadCallbackDLL

Entry == [op : Ops, resolved : BOOLEAN]
\* A function that was found: a callback that is not null.
Handler == UNION {{[dll |-> d, index |-> i] :
                     i \in {j \in DOMAIN Offers[d] : Offers[d][j].resolved}} : d \in Dlls}

ASSUME OpsAssumption == LOAD_DLL \in Ops
ASSUME DllsAssumption ==
  /\ DefaultDll \in Dlls
  /\ Offers \in [Dlls -> Seq(Entry)]
ASSUME NoneAssumption == None \notin Handler \cup Dlls
ASSUME LoadsAssumption == MaxLoads \in Nat
=============================================================================
