----------------------------- MODULE CallbackTable -----------------------------
(***************************************************************************)
(* The table of operations a CallbackManager executes, and the DLLs it is  *)
(* filled from: XPluginEnable makes a manager and loads the configured     *)
(* DLL, ExecuteCallback looks the "Operation" of a request up, and the     *)
(* operation LOAD_DLL, itself a callback of a DLL, loads another one.      *)
(***************************************************************************)
EXTENDS DllOffers

CONSTANT
  MaxManagers   \* bound on the managers, in the guard of XPluginEnable

VARIABLES
  manager,   \* which CallbackManager is in use: 0 none, 1 the first, ...
  table,     \* *m_callbacks: the function each operation runs
  hDLL,      \* m_hDLL
  refs,      \* how often each DLL was loaded and not freed
  aborted    \* the process has ended

vars == <<manager, table, hDLL, refs, aborted>>

Known == {o \in Ops : table[o] # None}

TypeOK ==
  /\ manager \in Nat /\ aborted \in BOOLEAN
  /\ table \in [Ops -> Handler \cup {None}]
  /\ hDLL \in Dlls \cup {None}
  /\ refs \in [Dlls -> Nat]

EmptyTable == [o \in Ops |-> None]

Init ==
  /\ manager = 0 /\ aborted = FALSE
  /\ table = EmptyTable
  /\ hDLL = None
  /\ refs = [d \in Dlls |-> 0]

-----------------------------------------------------------------------------

UncheckedEntries(d, o) ==   \* mutant: the nullptr test dropped
  {i \in DOMAIN Offers[d] : Offers[d][i].op = o}

\* The entries of d for the operation o whose function is found.
Entries(d, o) == {i \in DOMAIN Offers[d] : Offers[d][i] = [op |-> o, resolved |-> TRUE]}

First(S) == CHOOSE i \in S : \A j \in S : i <= j

Replaced(t, d) ==   \* mutant: operator[] where the code has contains() and emplace
  [o \in Ops |-> IF Entries(d, o) = {} THEN t[o]
                 ELSE [dll |-> d, index |-> First(Entries(d, o))]]

\* AppendCallback for every entry of d in its order: the table t becomes this.
Appended(t, d) ==
  [o \in Ops |-> IF t[o] # None \/ Entries(d, o) = {} THEN t[o]
                 ELSE [dll |-> d, index |-> First(Entries(d, o))]]

FreeingLoadLibrary(d) ==   \* mutant: the DLL m_hDLL held is freed
  /\ hDLL' = d
  /\ refs' = [e \in Dlls |-> refs[e] + (IF e = d THEN 1 ELSE 0) - (IF e = hDLL THEN 1 ELSE 0)]

\* The handle of the DLL loaded before is overwritten, and never freed.
LoadLibrary(d) ==
  /\ hDLL' = d
  /\ refs' = [refs EXCEPT ![d] = @ + 1]

\* LoadCallbackDLL on the table t: the DLL is not found, it does not export
\* GetCallbacks, or its callbacks are added.  No caller looks at what it returns.
LoadCallbackDLL(t, d) ==
  /\ refs[d] < MaxLoads
  /\ \/ hDLL' = None /\ UNCHANGED refs /\ table' = t
     \/ LoadLibrary(d) /\ table' = t
     \/ LoadLibrary(d) /\ table' = Appended(t, d)

\* XPluginEnable: a new manager replaces the last one, which is leaked with its
\* DLLs, and stays even when nothing could be loaded.  What it does then may end
\* the process.
XPluginEnable ==
  /\ ~aborted /\ manager < MaxManagers
  /\ manager' = manager + 1
  /\ LoadCallbackDLL(EmptyTable, DefaultDll)
  /\ aborted' \in BOOLEAN

\* The plugin is unloaded, and its statics with it: nothing frees its DLLs.
Unloaded ==
  /\ ~aborted
  /\ manager' = 0 /\ table' = EmptyTable /\ hDLL' = None
  /\ UNCHANGED <<refs, aborted>>

\* X-Plane is started again.
NewProcess ==
  /\ manager' = 0 /\ table' = EmptyTable /\ hDLL' = None
  /\ refs' = [d \in Dlls |-> 0] /\ aborted' = FALSE

\* ExecuteCallback of an operation that is missing, or not in the table, or that
\* loads nothing.
OtherOperation ==
  /\ manager > 0 /\ ~aborted
  /\ UNCHANGED vars

\* ExecuteCallback of LOAD_DLL.
LoadDll(d) ==
  /\ manager > 0 /\ ~aborted
  /\ LOAD_DLL \in Known
  /\ LoadCallbackDLL(table, d)
  /\ UNCHANGED <<manager, aborted>>

\* "Operation" is not a string, LOAD_DLL comes without a DLLPath, or something
\* else ends the process.
ProcessEnds ==
  /\ ~aborted /\ aborted' = TRUE
  /\ UNCHANGED <<manager, table, hDLL, refs>>

Next ==
  \/ XPluginEnable \/ Unloaded \/ NewProcess
  \/ OtherOperation
  \/ \E d \in Dlls : LoadDll(d)
  \/ ProcessEnds

Spec == Init /\ [][Next]_vars

-----------------------------------------------------------------------------
(* Properties.                                                             *)

\* Every function the table holds is code of a DLL that is still loaded,
\* although the manager only remembers the handle of the last one.
HandlersAreLoaded == \A o \in Known : refs[table[o].dll] > 0

\* While a manager is in use an operation keeps its first handler: no DLL that
\* is loaded later takes it over, whatever it offers and however often.
FirstHandlerStays ==
  [][manager' = manager => \A o \in Known : table'[o] = table[o]]_vars

\* What the default DLL offers is run by the default DLL.  Another DLL cannot
\* come first, not even when the default one fails to load at first: LOAD_DLL
\* is one of its callbacks, so nothing else can be loaded before it.
DefaultsPrevail ==
  \A o \in Known : Entries(DefaultDll, o) # {} => table[o].dll = DefaultDll
=============================================================================
