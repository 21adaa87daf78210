-------------------------- MODULE MCWebsocketProxy --------------------------
(***************************************************************************)
(* Instance of WebsocketProxy for TLC: three messages of the client, which *)
(* are one too many for every route, and two of the backend.               *)
(***************************************************************************)
EXTENDS WebsocketProxy
=============================================================================
