------------------------- MODULE MCPacketProcessor -------------------------
(***************************************************************************)
(* Instances of PacketProcessor for TLC: a packet of no command, one of    *)
(* two, an invalid one and a header.                                       *)
(***************************************************************************)
EXTENDS PacketProcessor, TLC

CONSTANTS none, two, wrong, header, code

MCPackets == {none, two, wrong, header}

\* Both commands have one code, the only one modules are registered for.
MCCommands == (none :> <<>>) @@ (two :> <<code, code>>)
=============================================================================
