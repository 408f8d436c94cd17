-------------------------- MODULE MCRuntimeBroker --------------------------
(***************************************************************************)
(* Instances of RuntimeBroker for TLC: a packet of one command.            *)
(***************************************************************************)
EXTENDS RuntimeBroker, TLC

CONSTANTS one, code

MCCommands == one :> <<code>>
=============================================================================
