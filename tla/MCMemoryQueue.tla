--------------------------- MODULE MCMemoryQueue ---------------------------
(***************************************************************************)
(* Instances of MemoryQueue for TLC: three packets of 0, 1 and 2 bytes.    *)
(***************************************************************************)
EXTENDS MemoryQueue, TLC

CONSTANTS empty, short, long

MCPackets == {empty, short, long}
MCPacketSize == (empty :> 0) @@ (short :> 1) @@ (long :> 2)

\* Producers behave alike, and so do consumers.
ThreadSymmetry == Permutations(Producers) \cup Permutations(Consumers)
=============================================================================
