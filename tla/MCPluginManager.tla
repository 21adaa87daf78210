--------------------------- MODULE MCPluginManager ---------------------------
(***************************************************************************)
(* Instance of PluginManager for TLC: one plugin name with two instances,  *)
(* configured or added, two RPC handlers, the monitor and core.Main.       *)
(***************************************************************************)
EXTENDS PluginManager

CONSTANTS n1, i1, i2, c1, c2

OneName == {n1}
TwoInstances == {i1, i2}
SameName == [i \in TwoInstances |-> n1]
NoneOneTwins == {{}, {i1}, {i1, i2}}
TwoCallers == {c1, c2}
=============================================================================
