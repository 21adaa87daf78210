---------------------------- MODULE MCStateFeed ----------------------------
(***************************************************************************)
(* Instances of StateFeed for TLC: plugins, states and subscribers are     *)
(* model values.                                                           *)
(***************************************************************************)
EXTENDS StateFeed

CONSTANTS p1, p2, s1, s2, ready, busy, stopped

OnePlugin == {p1}
TwoPlugins == {p1, p2}
OneSubscriber == {s1}
TwoSubscribers == {s1, s2}
TwoStates == {ready, busy}
ThreeStates == {ready, busy, stopped}
=============================================================================
