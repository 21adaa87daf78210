------------------------------ MODULE MCQueue ------------------------------
(***************************************************************************)
(* Instances of Queue for TLC: the goroutines are model values.            *)
(***************************************************************************)
EXTENDS Queue

CONSTANTS p1, p2, s1, s2

OnePusher == {p1}
TwoPushers == {p1, p2}
OneSubscriber == {s1}
TwoSubscribers == {s1, s2}
=============================================================================
