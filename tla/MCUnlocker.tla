----------------------------- MODULE MCUnlocker -----------------------------
(***************************************************************************)
(* Instances of Unlocker for TLC.                                          *)
(***************************************************************************)
EXTENDS Unlocker

CONSTANTS c1, c2, a, b

OneClient == {c1}
TwoClients == {c1, c2}
TwoPasswords == {a, b}

Ask(rpc, cur) == [rpc |-> rpc, cur |-> cur, new |-> NoPassword, newRootKey |-> FALSE]

(* a is the first password and may be changed to b; Login tries both.      *)
FewRequests ==
  {Ask("SetPassword", a), Ask("Login", a), Ask("Login", b)}
    \cup
  [rpc : {"ChangePassword"}, cur : {a}, new : {b}, newRootKey : BOOLEAN]
=============================================================================
