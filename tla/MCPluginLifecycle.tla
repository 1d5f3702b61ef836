--------------------------- MODULE MCPluginLifecycle ---------------------------
(* Instances of PluginLifecycle for TLC.                                   *)
EXTENDS PluginLifecycle

\* pluginConfig.json as shipped.
Shipped == [sections |-> TRUE, dll |-> TRUE, inIp |-> TRUE,
            inPort |-> 50555, outPort |-> 50556, beacon |-> TRUE]

JustShipped == {Shipped}

\* The shipped file edited by hand: ports left out, moved or misspelt, the
\* beacon off or left out, a section missing.
Edited ==
  { Shipped,
    [Shipped EXCEPT !.outPort = Absent, !.beacon = FALSE],
    [Shipped EXCEPT !.outPort = Absent, !.inPort = 1, !.beacon = Absent],
    [Shipped EXCEPT !.inPort = Absent],
    [Shipped EXCEPT !.inIp = FALSE],
    [Shipped EXCEPT !.outPort = NotNumber],
    [Shipped EXCEPT !.dll = FALSE],
    [Shipped EXCEPT !.sections = FALSE] }
=============================================================================
