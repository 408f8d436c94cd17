--------------------------- MODULE PacketChannel ---------------------------
(***************************************************************************)
(* What one memory queue of R2CPTransceiverQueue promises to the threads   *)
(* that share it: packets leave in the order they were put, none is lost   *)
(* or doubled, the byte counter is the number of bytes held, and that      *)
(* number never exceeds Capacity.  MemoryQueue implements this module.     *)
(***************************************************************************)
EXTENDS Naturals, Sequences

CONSTANTS Packets,     \* the packets that can be put
          PacketSize,  \* the number of bytes of each packet
          Capacity     \* the most bytes the channel ever holds

VARIABLES contents,    \* the packets held, oldest first
          bytes        \* the number of bytes held

vars == <<contents, bytes>>

Init == contents = <<>> /\ bytes = 0

Put(p) ==
    /\ bytes + PacketSize[p] <= Capacity
    /\ contents' = Append(contents, p)
    /\ bytes' = bytes + PacketSize[p]

Take ==
    /\ contents # <<>>
    /\ contents' = Tail(contents)
    /\ bytes' = bytes - PacketSize[Head(contents)]

Next == Take \/ \E p \in Packets : Put(p)

Spec == Init /\ [][Next]_vars
=============================================================================
