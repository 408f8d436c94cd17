------------------------- MODULE MCWebSocketServer -------------------------
(***************************************************************************)
(* Instances of WebSocketServer for TLC.                                   *)
(***************************************************************************)
EXTENDS WebSocketServer, TLC

\* Clients behave alike.  Not for the runs that check liveness.
ConnectionSymmetry == Permutations(Connections)
=============================================================================
