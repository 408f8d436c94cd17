---------------------------- MODULE MemoryQueue ----------------------------
(***************************************************************************)
(* One of the two memory queues of R2CPTransceiverQueue, with any number   *)
(* of threads calling push and pop on it.                                  *)
(*                                                                         *)
(* The reception and the transmission half of the class are the same code  *)
(* on different members and share nothing, so the module models either.    *)
(* A section under the mutex reads or writes in one go and calls nothing   *)
(* that blocks, so it is one action.  What the class leaves open is what   *)
(* happens between two sections of one call: a push reads the size under   *)
(* the mutex, compares outside it, and takes it again to append; a pop     *)
(* counts under the mutex and takes it again to erase.                     *)
(***************************************************************************)
EXTENDS Integers, Sequences, FiniteSets

CONSTANTS Producers,            \* threads that call pushto...queue
          Consumers,            \* threads that call popfrom...queue
          Packets,              \* the packets pushed
          PacketSize,           \* r2cppacket.size() of each packet
          MaxPacketSize,        \* no packet is longer
          DEFAULTMAXQUEUESIZE,  \* the maximum of a fresh queue
          Maxima,               \* arguments setmax...queuesize is called with
          MaxLimit,             \* no maximum ever in force is larger
          WordModulus,          \* 2^32: sizes are uint32_t
          MaxEntries,           \* bound: no push starts on a longer queue
          NoPacket              \* the packet of a thread outside a push

ASSUME QueueAssumption ==
    /\ IsFiniteSet(Producers) /\ Producers # {}
    /\ Producers \cap Consumers = {}
    /\ MaxPacketSize \in Nat
    /\ PacketSize \in [Packets -> 0 .. MaxPacketSize]
    /\ NoPacket \notin Packets
    /\ MaxLimit \in Nat
    /\ DEFAULTMAXQUEUESIZE \in 0 .. MaxLimit
    /\ Maxima \subseteq 0 .. MaxLimit
    /\ WordModulus \in Nat
    /\ MaxPacketSize < WordModulus /\ MaxLimit < WordModulus
    /\ MaxEntries \in Nat

VARIABLES queue,         \* receptionqueue, oldest packet first
          queuesize,     \* receptionqueuesize, the running byte count
          maxqueuesize,  \* maxreceptionqueuesize
          pc,            \* where each thread is in its call
          packet,        \* the argument of each producer's push
          seen           \* the size each producer's push has read

vars == <<queue, queuesize, maxqueuesize, pc, packet, seen>>

Threads == Producers \cup Consumers

Word == 0 .. WordModulus - 1

-----------------------------------------------------------------------------

Init ==
    /\ queue = <<>>
    /\ queuesize = 0
    /\ maxqueuesize = DEFAULTMAXQUEUESIZE
    /\ pc = [t \in Threads |-> "idle"]
    /\ packet = [t \in Producers |-> NoPacket]
    /\ seen = [t \in Producers |-> 0]

Goto(t, from, to) == pc[t] = from /\ pc' = [pc EXCEPT ![t] = to]

\* A push is over, by return or by exception: its locals are gone.
EndPush(t) ==
    /\ packet' = [packet EXCEPT ![t] = NoPacket]
    /\ seen' = [seen EXCEPT ![t] = 0]

\* A push starts: it reads the size under the mutex and lets the mutex go.
ReadSize(t, p) ==
    /\ Len(queue) < MaxEntries
    /\ Goto(t, "idle", "checking")
    /\ packet' = [packet EXCEPT ![t] = p]
    /\ seen' = [seen EXCEPT ![t] = queuesize]
    /\ UNCHANGED <<queue, queuesize, maxqueuesize>>

\* newreceptionqueuesize: the size read plus the packet's, as uint32_t.
NewSize(t) == (seen[t] + PacketSize[packet[t]]) % WordModulus

\* Mutant of Admit: the size read is compared, not the size to be.
AdmitOnSizeRead(t) ==
    /\ Goto(t, "checking", "pushing")
    /\ seen[t] <= maxqueuesize
    /\ UNCHANGED <<queue, queuesize, maxqueuesize, packet, seen>>

\* The comparison, outside the mutex, with the maximum in force by now.
Admit(t) ==
    /\ Goto(t, "checking", "pushing")
    /\ NewSize(t) <= maxqueuesize
    /\ UNCHANGED <<queue, queuesize, maxqueuesize, packet, seen>>

\* std::overflow_error, which every caller catches and logs.
Refuse(t) ==
    /\ Goto(t, "checking", "idle")
    /\ NewSize(t) > maxqueuesize
    /\ EndPush(t)
    /\ UNCHANGED <<queue, queuesize, maxqueuesize>>

\* Mutant of Push: the size computed before the section is stored in it.
PushStale(t) ==
    /\ Goto(t, "pushing", "idle")
    /\ queue' = Append(queue, packet[t])
    /\ queuesize' = NewSize(t)
    /\ EndPush(t)
    /\ UNCHANGED maxqueuesize

\* The second section under the mutex appends without looking again.
Push(t) ==
    /\ Goto(t, "pushing", "idle")
    /\ queue' = Append(queue, packet[t])
    /\ queuesize' = (queuesize + PacketSize[packet[t]]) % WordModulus
    /\ EndPush(t)
    /\ UNCHANGED maxqueuesize

\* Mutant of ReadCount: the count is not tested.
CountUntested(t) ==
    /\ Goto(t, "idle", "popping")
    /\ UNCHANGED <<queue, queuesize, maxqueuesize, packet, seen>>

\* A pop starts and counts at least one packet.  On an empty queue the call
\* throws std::underflow_error and changes nothing: no step.
ReadCount(t) ==
    /\ Len(queue) > 0
    /\ Goto(t, "idle", "popping")
    /\ UNCHANGED <<queue, queuesize, maxqueuesize, packet, seen>>

\* Mutant of Pop: the newest packet goes.
PopNewest(t) ==
    /\ queue # <<>>
    /\ Goto(t, "popping", "idle")
    /\ queue' = SubSeq(queue, 1, Len(queue) - 1)
    /\ queuesize' = (queuesize - PacketSize[queue[Len(queue)]]) % WordModulus
    /\ UNCHANGED <<maxqueuesize, packet, seen>>

\* The second section of a pop takes the oldest packet.
Pop(t) ==
    /\ queue # <<>>
    /\ Goto(t, "popping", "idle")
    /\ queue' = Tail(queue)
    /\ queuesize' = (queuesize - PacketSize[Head(queue)]) % WordModulus
    /\ UNCHANGED <<maxqueuesize, packet, seen>>

\* at(0) on a queue emptied since the count: std::out_of_range, which no
\* caller of pop catches, so the calling thread is lost.
PopEmptied(t) ==
    /\ queue = <<>>
    /\ Goto(t, "popping", "out_of_range")
    /\ UNCHANGED <<queue, queuesize, maxqueuesize, packet, seen>>

\* Mutant of SetMaxQueueSize: the maximum is raised by the argument.
RaiseMaxQueueSize(m) ==
    /\ maxqueuesize' = maxqueuesize + m
    /\ UNCHANGED <<queue, queuesize, pc, packet, seen>>

\* setmax...queuesize, from any thread, with no lock.
SetMaxQueueSize(m) ==
    /\ maxqueuesize' = m
    /\ UNCHANGED <<queue, queuesize, pc, packet, seen>>

Produce(t) ==
    \/ \E p \in Packets : ReadSize(t, p)
    \/ Admit(t)
    \/ Refuse(t)
    \/ Push(t)

Consume(t) == ReadCount(t) \/ Pop(t) \/ PopEmptied(t)

Next ==
    \/ \E t \in Producers : Produce(t)
    \/ \E t \in Consumers : Consume(t)
    \/ \E m \in Maxima : SetMaxQueueSize(m)

Spec == Init /\ [][Next]_vars

-----------------------------------------------------------------------------
(* Properties *)

\* Types of the variables; a producer inside a push has a packet.
TypeOK ==
    /\ queue \in Seq(Packets)
    /\ queuesize \in Word
    /\ maxqueuesize \in 0 .. MaxLimit
    /\ pc \in [Threads -> {"idle", "checking", "pushing", "popping", "out_of_range"}]
    /\ packet \in [Producers -> Packets \cup {NoPacket}]
    /\ seen \in [Producers -> Word]
    /\ \A t \in Producers :
        /\ pc[t] \in {"idle", "checking", "pushing"}
        /\ pc[t] # "idle" => packet[t] \in Packets

\* f[i] is the number of bytes in the first i packets of s.
IsPrefixBytes(f, s) ==
    /\ f[0] = 0
    /\ \A i \in 1 .. Len(s) : f[i] = f[i - 1] + PacketSize[s[i]]
    /\ \A i, j \in 0 .. Len(s) : i <= j => f[i] <= f[j]

\* The byte counter the admission test relies on is the number of bytes in
\* the queue, whatever pushes and pops overlap.
SizeIsBytesHeld ==
    \E f \in [0 .. Len(queue) -> 0 .. queuesize] :
        IsPrefixBytes(f, queue) /\ queuesize = f[Len(queue)]

\* The most bytes held: each producer but one may append on a stale reading.
Capacity == MaxLimit + (Cardinality(Producers) - 1) * MaxPacketSize

\* The sizes compared and stored stay below 2^32.
NoWrap == Capacity + MaxPacketSize < WordModulus

\* The test and the append of a push are not atomic, yet the queue exceeds
\* its maximum by no more than one packet for every producer but one.
BytesWithinCapacity == queuesize <= Capacity

\* What the overflow_error of a push is there to ensure.
BytesWithinLimit == queuesize <= MaxLimit

\* A pop that finds nothing says so with underflow_error, the exception its
\* callers catch, and never with the out_of_range of at(0).
NoPopOutOfRange == \A t \in Consumers : pc[t] # "out_of_range"

\* The queue keeps the promise of the abstract channel.
Channel == INSTANCE PacketChannel WITH contents <- queue, bytes <- queuesize
ImplementsChannel == Channel!Spec
=============================================================================
