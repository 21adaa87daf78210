----------------------------- MODULE MCRpcPath -----------------------------
(***************************************************************************)
(* Instance of RpcPath for TLC: two plugins of which one's name is a part  *)
(* of the other's, configured or not; a day of 8 seconds, and integers     *)
(* that wrap around at 32.                                                 *)
(***************************************************************************)
EXTENDS RpcPath

CONSTANTS c1

OneCall == {c1}
TwoNames == {"rga", "rga-2"}
PartOf == {<<"rga", "rga">>, <<"rga-2", "rga-2">>, <<"rga", "rga-2">>}
ShortUnits == [u \in Units |->
  CASE u = "SECOND" -> 1 [] u = "MINUTE" -> 2 [] u = "HOUR" -> 3 [] u = "DAY" -> 8]
SomeLifetimes ==
  {<<-1, "DAY">>, <<2, "SECOND">>, <<1, "HOUR">>, <<2, "DAY">>}
=============================================================================
