------------------------------ MODULE MCSession ------------------------------
(* Instances of Session for TLC.                                           *)
EXTENDS Session, TLC

CONSTANTS h1, h2, n1, l1, EVENT

Reg(n, l) == [op |-> "REG_DATA", name |-> n, link |-> l]
Req(o, n) == [op |-> o, name |-> n, link |-> l1]

Export == << Reg(n1, l1), Req("SUB_DATA", n1) >>

\* Two hosts that set up the same export; one that sets it up, and another that
\* takes the name down; one that registers a name, and another that reads it.
TwoHostScripts ==
  LET Both(a, b) == { h1 :> a @@ h2 :> b, h1 :> b @@ h2 :> a }
  IN  Both(Export, Export) \cup Both(Export, << Req("UNREG_DATA", n1) >>)
        \cup Both(<< Reg(n1, l1) >>, << Req("GET_REG_DATA", n1) >>)

\* The scripts are the same when the hosts change places.
HostsAlike == Permutations({h1, h2})

\* One host that drops what it had before, and sets up an export.
SingleScripts ==
  { [h \in Hosts |-> << Req("UNSUB_DATA", n1), Reg(n1, l1), Req("SUB_DATA", n1) >>] }

\* A read of a value that is long.
LongReads == { Req("GET_REG_DATA", n1) }
=============================================================================
