-------------------------- MODULE MCPluginInstance --------------------------
(***************************************************************************)
(* Instances of PluginInstance for TLC.                                    *)
(***************************************************************************)
EXTENDS PluginInstance, TLC

CONSTANTS c1, c2

OneCaller == {c1}
TwoCallers == {c1, c2}

Symmetry == Permutations(TwoCallers)
=============================================================================
