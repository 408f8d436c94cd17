------------------------- MODULE MemoryQueueProofs -------------------------
(***************************************************************************)
(* Proofs about MemoryQueue, for any threads, packets, sizes and maxima.   *)
(***************************************************************************)
EXTENDS MemoryQueue, FiniteSetTheorems, TLAPS

(***************************************************************************)
(* Arithmetic on uint32_t: reducing a sum leaves it a word, and leaves a   *)
(* sum that already is one alone.                                          *)
(***************************************************************************)
LEMMA WordArithmetic ==
    ASSUME NEW x \in Int
    PROVE  /\ x % WordModulus \in Word
           /\ x \in Word => x % WordModulus = x
<1>1. WordModulus \in Nat /\ WordModulus > 0
  BY QueueAssumption
<1> QED
  BY <1>1 DEF Word

(***************************************************************************)
(* Typing of the members of R2CPTransceiverQueue and of the locals of the  *)
(* calls in progress.                                                      *)
(***************************************************************************)
LEMMA TypeInductive == TypeOK /\ [Next]_vars => TypeOK'
<1> SUFFICES ASSUME TypeOK, [Next]_vars
             PROVE  TypeOK'
  OBVIOUS
<1> USE QueueAssumption
<1>0. 0 \in Word
  BY DEF Word
<1>1. ASSUME NEW t \in Producers, NEW p \in Packets, ReadSize(t, p)
      PROVE  TypeOK'
  BY <1>1 DEF TypeOK, ReadSize, Goto, Threads
<1>2. ASSUME NEW t \in Producers, Admit(t)
      PROVE  TypeOK'
  BY <1>2 DEF TypeOK, Admit, Goto, Threads
<1>3. ASSUME NEW t \in Producers, Refuse(t)
      PROVE  TypeOK'
  BY <1>0, <1>3 DEF TypeOK, Refuse, Goto, EndPush, Threads
<1>4. ASSUME NEW t \in Producers, Push(t)
      PROVE  TypeOK'
  <2>1. packet[t] \in Packets /\ PacketSize[packet[t]] \in Nat
    BY <1>4 DEF TypeOK, Push, Goto
  <2>2. queuesize + PacketSize[packet[t]] \in Int
    BY <2>1 DEF TypeOK, Word
  <2>3. queuesize' \in Word
    BY <1>4, <2>2, WordArithmetic DEF Push
  <2>4. queue' \in Seq(Packets)
    BY <1>4, <2>1 DEF TypeOK, Push
  <2> QED
    BY <1>0, <1>4, <2>3, <2>4 DEF TypeOK, Push, Goto, EndPush, Threads
<1>5. ASSUME NEW t \in Consumers, ReadCount(t)
      PROVE  TypeOK'
  BY <1>5 DEF TypeOK, ReadCount, Goto, Threads
<1>6. ASSUME NEW t \in Consumers, Pop(t)
      PROVE  TypeOK'
  <2>1. Head(queue) \in Packets /\ queue' \in Seq(Packets)
    BY <1>6 DEF TypeOK, Pop
  <2>2. queuesize - PacketSize[Head(queue)] \in Int
    BY <2>1 DEF TypeOK, Word
  <2>3. queuesize' \in Word
    BY <1>6, <2>2, WordArithmetic DEF Pop
  <2> QED
    BY <1>6, <2>1, <2>3 DEF TypeOK, Pop, Goto, Threads
<1>7. ASSUME NEW t \in Consumers, PopEmptied(t)
      PROVE  TypeOK'
  BY <1>7 DEF TypeOK, PopEmptied, Goto, Threads
<1>8. ASSUME NEW m \in Maxima, SetMaxQueueSize(m)
      PROVE  TypeOK'
  BY <1>8 DEF TypeOK, SetMaxQueueSize
<1>9. CASE UNCHANGED vars
  BY <1>9 DEF TypeOK, vars
<1> QED
  BY <1>1, <1>2, <1>3, <1>4, <1>5, <1>6, <1>7, <1>8, <1>9
     DEF Next, Produce, Consume

\* The queue's members and the threads' locals keep their types (R2CPTransceiverQueue).
THEOREM TypeCorrect == Spec => []TypeOK
<1>1. Init => TypeOK
  BY QueueAssumption DEF Init, TypeOK, Threads, Word
<1> QED
  BY <1>1, TypeInductive, PTL DEF Spec

-----------------------------------------------------------------------------
(***************************************************************************)
(* The bound on the bytes held.  It is not inductive: a push that has      *)
(* passed its test will append whatever happened since.  The invariant     *)
(* counts those pushes.  Each may add one longest packet, except the one   *)
(* that read the size last, whose own reading left room for its packet.    *)
(***************************************************************************)

\* The bytes a push in progress is about to add.
Adds(t) == PacketSize[packet[t]]

\* The pushes that will append, or may once the maximum is raised.
Committed ==
    {t \in Producers : \/ pc[t] = "pushing"
                       \/ pc[t] = "checking" /\ seen[t] + Adds(t) <= MaxLimit}

\* The bytes n pushes can add.
Room(n) == n * MaxPacketSize

Credit ==
    \/ queuesize + Room(Cardinality(Committed)) <= Capacity
    \/ \E t \in Committed :
        queuesize + Adds(t) + Room(Cardinality(Committed) - 1) <= Capacity

SeenWithinCapacity == \A t \in Producers : seen[t] <= Capacity

IInv == TypeOK /\ SizeIsBytesHeld /\ SeenWithinCapacity /\ Credit

\* One packet more in flight is one more packet of room.
LEMMA RoomStep ==
    ASSUME NEW n \in Int
    PROVE  /\ Room(n) \in Int
           /\ Room(n + 1) = Room(n) + MaxPacketSize
           /\ n >= 0 => Room(n) >= 0
<1>1. MaxPacketSize \in Nat
  BY QueueAssumption
<1>2. \A k \in Nat : k * MaxPacketSize >= 0
  BY <1>1
<1>3. (n + 1) * MaxPacketSize = n * MaxPacketSize + MaxPacketSize
  BY <1>1
<1>4. n * MaxPacketSize \in Int
  BY <1>1
<1> QED
  BY <1>1, <1>2, <1>3, <1>4 DEF Room

\* The capacity is a number, and not less than any limit.
LEMMA CapacityType ==
    /\ Capacity \in Nat
    /\ MaxLimit <= Capacity
    /\ Cardinality(Producers) \in Nat
    /\ Capacity = MaxLimit + Room(Cardinality(Producers) - 1)
<1>1. Cardinality(Producers) \in Nat /\ Cardinality(Producers) # 0
  BY QueueAssumption, FS_CardinalityType, FS_EmptySet
<1>2. Cardinality(Producers) - 1 \in Nat
  BY <1>1
<1>3. Room(Cardinality(Producers) - 1) \in Nat
  BY <1>2, RoomStep
<1> QED
  BY <1>1, <1>3, QueueAssumption DEF Capacity, Room

\* Only so many producers are past the check of the limit.
LEMMA CommittedFinite ==
    /\ IsFiniteSet(Committed)
    /\ Cardinality(Committed) \in Nat
    /\ \A t \in Committed : Cardinality(Committed) - 1 \in Nat
<1>1. Committed \in SUBSET Producers
  BY DEF Committed
<1>2. IsFiniteSet(Committed)
  BY <1>1, QueueAssumption, FS_Subset
<1>3. Cardinality(Committed) \in Nat
  BY <1>2, FS_CardinalityType
<1>4. ASSUME NEW t \in Committed
      PROVE  Cardinality(Committed) # 0
  BY <1>2, FS_EmptySet
<1> QED
  BY <1>2, <1>3, <1>4

(***************************************************************************)
(* A push in progress has a packet, so the bytes it adds are bounded.      *)
(***************************************************************************)
LEMMA AddsType ==
    ASSUME TypeOK, NEW t \in Producers, pc[t] # "idle"
    PROVE  Adds(t) \in 0 .. MaxPacketSize
BY QueueAssumption DEF TypeOK, Adds

(***************************************************************************)
(* The invariant gives the bound.                                          *)
(***************************************************************************)
LEMMA CreditBounds ==
    ASSUME TypeOK, Credit
    PROVE  BytesWithinCapacity
<1>1. queuesize \in Nat /\ Capacity \in Nat
  BY CapacityType, QueueAssumption DEF TypeOK, Word
<1>2. CASE queuesize + Room(Cardinality(Committed)) <= Capacity
  BY <1>1, <1>2, CommittedFinite, RoomStep DEF BytesWithinCapacity
<1>3. ASSUME NEW t \in Committed,
             queuesize + Adds(t) + Room(Cardinality(Committed) - 1) <= Capacity
      PROVE  BytesWithinCapacity
  <2>1. Cardinality(Committed) - 1 \in Nat
    BY CommittedFinite
  <2>2. Room(Cardinality(Committed) - 1) \in Nat
    BY <2>1, RoomStep
  <2>3. Adds(t) \in Nat
    BY AddsType, QueueAssumption DEF Committed
  <2> QED
    BY <1>1, <1>3, <2>2, <2>3 DEF BytesWithinCapacity
<1> QED
  BY <1>2, <1>3 DEF Credit

-----------------------------------------------------------------------------
(***************************************************************************)
(* A push with no wrap around 2^32: the sizes added are the sizes stored.  *)
(***************************************************************************)
LEMMA PushAdds ==
    ASSUME NoWrap, TypeOK, BytesWithinCapacity, SeenWithinCapacity,
           NEW t \in Producers, pc[t] # "idle"
    PROVE  /\ NewSize(t) = seen[t] + Adds(t)
           /\ (queuesize + Adds(t)) % WordModulus = queuesize + Adds(t)
<1>1. Adds(t) \in 0 .. MaxPacketSize
  BY AddsType
<1>2. /\ queuesize \in Nat /\ seen[t] \in Nat
      /\ queuesize <= Capacity /\ seen[t] <= Capacity
  BY QueueAssumption
     DEF TypeOK, Word, BytesWithinCapacity, SeenWithinCapacity
<1>3. queuesize + Adds(t) \in Word /\ seen[t] + Adds(t) \in Word
  BY <1>1, <1>2, CapacityType, QueueAssumption DEF NoWrap, Word
<1> QED
  BY <1>3, WordArithmetic DEF NewSize, Adds, Word

(***************************************************************************)
(* The oldest packet's bytes are among those counted, so taking them off   *)
(* the counter does not wrap below zero.                                   *)
(***************************************************************************)
LEMMA PopTakes ==
    ASSUME TypeOK, SizeIsBytesHeld, queue # <<>>
    PROVE  /\ PacketSize[Head(queue)] \in 0 .. queuesize
           /\ (queuesize - PacketSize[Head(queue)]) % WordModulus
                = queuesize - PacketSize[Head(queue)]
<1>1. /\ queue \in Seq(Packets) /\ queuesize \in Word
      /\ Len(queue) \in Nat \ {0} /\ Head(queue) = queue[1]
      /\ Head(queue) \in Packets
  BY DEF TypeOK
<1>2. PICK f \in [0 .. Len(queue) -> 0 .. queuesize] :
        IsPrefixBytes(f, queue) /\ queuesize = f[Len(queue)]
  BY DEF SizeIsBytesHeld
<1>3. f[1] = PacketSize[Head(queue)] /\ f[1] \in 0 .. queuesize
  <2>1. f[1] = f[1 - 1] + PacketSize[queue[1]]
    BY <1>1, <1>2 DEF IsPrefixBytes
  <2>2. f[0] = 0 /\ f[1] \in 0 .. queuesize
    BY <1>1, <1>2 DEF IsPrefixBytes
  <2>3. PacketSize[queue[1]] \in Nat
    BY <1>1, QueueAssumption
  <2> QED
    BY <1>1, <2>1, <2>2, <2>3
<1>4. queuesize - PacketSize[Head(queue)] \in Word
  BY <1>1, <1>3 DEF Word
<1> QED
  BY <1>3, <1>4, WordArithmetic DEF Word

(***************************************************************************)
(* Appending a packet and adding its bytes keeps the counter exact.        *)
(***************************************************************************)
LEMMA PushKeepsCount ==
    ASSUME TypeOK, SizeIsBytesHeld, NEW p \in Packets,
           queue' = Append(queue, p),
           queuesize' = queuesize + PacketSize[p]
    PROVE  SizeIsBytesHeld'
<1>1. /\ queue \in Seq(Packets) /\ queuesize \in Nat
      /\ PacketSize[p] \in Nat /\ Len(queue) \in Nat
  BY QueueAssumption DEF TypeOK, Word
<1>2. PICK f \in [0 .. Len(queue) -> 0 .. queuesize] :
        IsPrefixBytes(f, queue) /\ queuesize = f[Len(queue)]
  BY DEF SizeIsBytesHeld
<1> DEFINE n == Len(queue)
           g == [i \in 0 .. n + 1 |-> IF i = n + 1 THEN queuesize' ELSE f[i]]
<1>3. Len(queue') = n + 1
  BY <1>1
<1>4. /\ \A i \in 1 .. n : queue'[i] = queue[i]
      /\ queue'[n + 1] = p
  BY <1>1
<1>5. \A i \in 0 .. n : f[i] \in 0 .. queuesize
  BY <1>2
<1>6. g \in [0 .. Len(queue') -> 0 .. queuesize']
  BY <1>1, <1>3, <1>5
<1>7. g[0] = 0
  BY <1>1, <1>2 DEF IsPrefixBytes
<1>8. ASSUME NEW i \in 1 .. n + 1
      PROVE  g[i] = g[i - 1] + PacketSize[queue'[i]]
  <2>1. CASE i = n + 1
    BY <1>1, <1>2, <1>4, <2>1
  <2>2. CASE i \in 1 .. n
    BY <1>1, <1>2, <1>4, <2>2 DEF IsPrefixBytes
  <2> QED
    BY <1>1, <2>1, <2>2
<1>9. ASSUME NEW i \in 0 .. n + 1, NEW j \in 0 .. n + 1, i <= j
      PROVE  g[i] <= g[j]
  BY <1>1, <1>2, <1>5, <1>9 DEF IsPrefixBytes
<1>10. IsPrefixBytes(g, queue')
  BY <1>3, <1>7, <1>8, <1>9 DEF IsPrefixBytes
<1>11. queuesize' = g[Len(queue')]
  BY <1>1, <1>3
<1> QED
  BY <1>6, <1>10, <1>11 DEF SizeIsBytesHeld

(***************************************************************************)
(* Taking the oldest packet and its bytes keeps the counter exact.         *)
(***************************************************************************)
LEMMA PopKeepsCount ==
    ASSUME TypeOK, SizeIsBytesHeld, queue # <<>>,
           queue' = Tail(queue),
           queuesize' = queuesize - PacketSize[Head(queue)]
    PROVE  SizeIsBytesHeld'
<1>1. /\ queue \in Seq(Packets) /\ queuesize \in Nat
      /\ Len(queue) \in Nat \ {0} /\ Head(queue) = queue[1]
  BY QueueAssumption DEF TypeOK, Word
<1>2. PICK f \in [0 .. Len(queue) -> 0 .. queuesize] :
        IsPrefixBytes(f, queue) /\ queuesize = f[Len(queue)]
  BY DEF SizeIsBytesHeld
<1> DEFINE n == Len(queue) - 1
           s == PacketSize[queue[1]]
           g == [i \in 0 .. n |-> f[i + 1] - s]
<1>3. /\ Len(queue') = n /\ n \in Nat
      /\ \A i \in 1 .. n : queue'[i] = queue[i + 1]
  BY <1>1
<1>4. s \in Nat
  BY <1>1, QueueAssumption
<1>5. f[1] = s
  <2>1. f[1] = f[1 - 1] + PacketSize[queue[1]] /\ f[0] = 0
    BY <1>1, <1>2 DEF IsPrefixBytes
  <2> QED
    BY <1>4, <2>1
<1>6. ASSUME NEW i \in 0 .. n
      PROVE  /\ f[i + 1] \in 0 .. queuesize
             /\ s <= f[i + 1]
  <2>1. i + 1 \in 0 .. Len(queue) /\ 1 \in 0 .. Len(queue) /\ 1 <= i + 1
    BY <1>1
  <2> QED
    BY <1>2, <1>5, <2>1 DEF IsPrefixBytes
<1>7. g \in [0 .. Len(queue') -> 0 .. queuesize']
  BY <1>1, <1>3, <1>4, <1>6
<1>8. g[0] = 0
  BY <1>1, <1>3, <1>4, <1>5
<1>9. ASSUME NEW i \in 1 .. n
      PROVE  g[i] = g[i - 1] + PacketSize[queue'[i]]
  <2>1. /\ i + 1 \in 1 .. Len(queue) /\ i - 1 \in 0 .. n /\ i \in 0 .. n
        /\ (i + 1) - 1 = i /\ (i - 1) + 1 = i
    BY <1>1, <1>3
  <2>2. f[i + 1] = f[i] + PacketSize[queue[i + 1]]
    BY <1>2, <2>1 DEF IsPrefixBytes
  <2>3. g[i] = f[i + 1] - s /\ g[i - 1] = f[i] - s
    BY <2>1
  <2>4. f[i] \in Int /\ f[i + 1] \in Int
    BY <1>6, <2>1
  <2>5. PacketSize[queue[i + 1]] \in Int
    BY <1>1, <2>1, QueueAssumption
  <2> QED
    BY <1>3, <1>4, <2>2, <2>3, <2>4, <2>5
<1>10. ASSUME NEW i \in 0 .. n, NEW j \in 0 .. n, i <= j
       PROVE  g[i] <= g[j]
  <2>1. f[i + 1] <= f[j + 1]
    BY <1>1, <1>2, <1>10 DEF IsPrefixBytes
  <2> QED
    BY <1>4, <1>6, <2>1
<1>11. IsPrefixBytes(g, queue')
  BY <1>3, <1>8, <1>9, <1>10 DEF IsPrefixBytes
<1>12. queuesize' = g[Len(queue')]
  BY <1>1, <1>2, <1>3
<1> QED
  BY <1>7, <1>11, <1>12 DEF SizeIsBytesHeld

-----------------------------------------------------------------------------
(***************************************************************************)
(* How the steps change the pushes that are counted.                       *)
(***************************************************************************)
LEMMA RoomMonotone ==
    ASSUME NEW m \in Nat, NEW n \in Nat, m <= n
    PROVE  Room(m) <= Room(n)
<1>1. MaxPacketSize \in Nat
  BY QueueAssumption
<1>2. n - m \in Nat /\ (n - m) * MaxPacketSize >= 0
  BY <1>1
<1>3. n * MaxPacketSize = m * MaxPacketSize + (n - m) * MaxPacketSize
  BY <1>1
<1>4. m * MaxPacketSize \in Int /\ (n - m) * MaxPacketSize \in Int
  BY <1>1
<1> QED
  BY <1>2, <1>3, <1>4 DEF Room

(***************************************************************************)
(* A step that adds no byte and counts no further push keeps the credit:   *)
(* if the push with the exact reading is gone, so is its own packet.       *)
(***************************************************************************)
LEMMA CreditKept ==
    ASSUME TypeOK, TypeOK', Credit,
           queuesize' <= queuesize,
           Committed' \subseteq Committed,
           \A t \in Committed' : Adds(t)' = Adds(t)
    PROVE  Credit'
<1> DEFINE n == Cardinality(Committed)
           k == Cardinality(Committed')
<1>1. /\ queuesize \in Nat /\ queuesize' \in Nat /\ Capacity \in Nat
      /\ Capacity' = Capacity
  BY CapacityType, QueueAssumption DEF TypeOK, Word, Capacity
<1>2. n \in Nat /\ IsFiniteSet(Committed)
  BY CommittedFinite
<1>3. k \in Nat /\ k <= n /\ IsFiniteSet(Committed')
  BY <1>2, FS_Subset, FS_CardinalityType
<1>4. \A m \in Int : Room(m) \in Int
  BY RoomStep
<1>5. CASE queuesize + Room(n) <= Capacity
  <2>1. Room(k) <= Room(n)
    BY <1>2, <1>3, RoomMonotone
  <2>2. queuesize' + Room(k) <= Capacity
    BY <1>1, <1>2, <1>3, <1>4, <1>5, <2>1
  <2> QED
    BY <1>1, <2>2 DEF Credit, Room
<1>6. ASSUME NEW t \in Committed,
             queuesize + Adds(t) + Room(n - 1) <= Capacity
      PROVE  Credit'
  <2>1. Adds(t) \in Nat
    BY AddsType, QueueAssumption DEF Committed
  <2>2. n - 1 \in Nat
    BY CommittedFinite
  <2>3. CASE t \in Committed'
    <3>1. k - 1 \in Nat
      BY <1>3, <2>3, FS_EmptySet
    <3>2. Room(k - 1) <= Room(n - 1)
      BY <1>2, <1>3, <2>2, <3>1, RoomMonotone
    <3>3. queuesize' + Adds(t)' + Room(k - 1) <= Capacity
      BY <1>1, <1>2, <1>3, <1>4, <1>6, <2>1, <2>3, <3>2
    <3> QED
      BY <1>1, <2>3, <3>3 DEF Credit, Room
  <2>4. CASE t \notin Committed'
    <3>1. Committed' \subseteq Committed \ {t}
      BY <2>4
    <3>2. /\ IsFiniteSet(Committed \ {t})
          /\ Cardinality(Committed \ {t}) = n - 1
      BY <1>2, FS_RemoveElement
    <3>3. k <= n - 1
      BY <3>1, <3>2, FS_Subset
    <3>4. Room(k) <= Room(n - 1)
      BY <1>3, <2>2, <3>3, RoomMonotone
    <3>5. queuesize' + Room(k) <= Capacity
      BY <1>1, <1>2, <1>3, <1>4, <1>6, <2>1, <3>4
    <3> QED
      BY <1>1, <3>5 DEF Credit, Room
  <2> QED
    BY <2>3, <2>4
<1> QED
  BY <1>5, <1>6 DEF Credit

(***************************************************************************)
(* A push that reads a size which leaves room for its packet: whatever the *)
(* other producers have in hand, the bound holds with this push as the one *)
(* that read last.                                                         *)
(***************************************************************************)
LEMMA CreditRenewed ==
    ASSUME TypeOK', NEW t \in Producers, t \in Committed',
           queuesize' + Adds(t)' <= MaxLimit
    PROVE  Credit'
<1> DEFINE k == Cardinality(Committed')
           np == Cardinality(Producers)
<1>1. /\ Capacity \in Nat /\ Capacity' = Capacity
      /\ np \in Nat /\ Capacity = MaxLimit + Room(np - 1)
      /\ MaxLimit \in Nat
  BY CapacityType, QueueAssumption DEF Capacity
<1>2. Committed' \subseteq Producers
  BY DEF Committed
<1>3. k \in Nat /\ k <= np /\ IsFiniteSet(Committed')
  BY <1>2, QueueAssumption, FS_Subset, FS_CardinalityType
<1>4. k - 1 \in Nat /\ np - 1 \in Nat
  BY <1>1, <1>3, FS_EmptySet
<1>5. Room(k - 1) <= Room(np - 1)
  BY <1>1, <1>3, <1>4, RoomMonotone
<1>6. Room(k - 1) \in Int /\ Room(np - 1) \in Int
  BY <1>4, RoomStep
<1>7. queuesize' \in Nat /\ Adds(t)' \in Nat
  BY QueueAssumption DEF TypeOK, Word, Adds, Committed
<1>8. queuesize' + Adds(t)' + Room(k - 1) <= Capacity
  BY <1>1, <1>5, <1>6, <1>7
<1> QED
  BY <1>1, <1>8 DEF Credit, Room

(***************************************************************************)
(* A push that appends: its packet was counted.                            *)
(***************************************************************************)
LEMMA CreditSpent ==
    ASSUME TypeOK, Credit, NEW t \in Committed,
           queuesize' = queuesize + Adds(t),
           Committed' = Committed \ {t},
           \A u \in Committed' : Adds(u)' = Adds(u)
    PROVE  Credit'
<1> DEFINE n == Cardinality(Committed)
<1>1. /\ queuesize \in Nat /\ Capacity \in Nat /\ MaxPacketSize \in Nat
      /\ Capacity' = Capacity
  BY CapacityType, QueueAssumption DEF TypeOK, Word, Capacity
<1>2. n - 1 \in Nat /\ n \in Nat /\ Cardinality(Committed') = n - 1
  BY CommittedFinite, FS_RemoveElement
<1>3. \A u \in Committed : Adds(u) \in 0 .. MaxPacketSize
  BY AddsType DEF Committed
<1>4. \A m \in Int : Room(m) \in Int /\ Room(m + 1) = Room(m) + MaxPacketSize
  BY RoomStep
<1>5. Room(n) = Room(n - 1) + MaxPacketSize
  BY <1>2, <1>4
<1>6. Room(n - 1) = Room(n - 1 - 1) + MaxPacketSize
  BY <1>2, <1>4
<1>7. Room(n) \in Int /\ Room(n - 1) \in Int /\ Room(n - 1 - 1) \in Int
  BY <1>2, <1>4
<1>8. CASE queuesize + Room(n) <= Capacity
  <2>1. queuesize' + Room(n - 1) <= Capacity
    BY <1>1, <1>3, <1>5, <1>7, <1>8
  <2> QED
    BY <1>1, <1>2, <2>1 DEF Credit, Room
<1>9. ASSUME NEW u \in Committed,
             queuesize + Adds(u) + Room(n - 1) <= Capacity
      PROVE  Credit'
  <2>1. CASE u = t
    <3>1. queuesize' + Room(n - 1) <= Capacity
      BY <1>9, <2>1
    <3> QED
      BY <1>1, <1>2, <3>1 DEF Credit, Room
  <2>2. CASE u # t
    <3>1. u \in Committed' /\ Adds(u)' = Adds(u)
      BY <2>2
    <3>2. queuesize' + Adds(u)' + Room(n - 1 - 1) <= Capacity
      BY <1>1, <1>3, <1>6, <1>7, <1>9, <3>1
    <3> QED
      BY <1>1, <1>2, <3>1, <3>2 DEF Credit, Room
  <2> QED
    BY <2>1, <2>2
<1> QED
  BY <1>8, <1>9 DEF Credit

-----------------------------------------------------------------------------
(***************************************************************************)
(* The invariant is inductive where no size wraps.                         *)
(***************************************************************************)
LEMMA IInvInductive == NoWrap /\ IInv /\ [Next]_vars => IInv'
<1> SUFFICES ASSUME NoWrap, IInv, [Next]_vars
             PROVE  IInv'
  OBVIOUS
<1>1. /\ TypeOK /\ SizeIsBytesHeld /\ SeenWithinCapacity /\ Credit
      /\ TypeOK' /\ BytesWithinCapacity
  BY TypeInductive, CreditBounds DEF IInv
<1>2. /\ queuesize \in Nat /\ \A t \in Producers : seen[t] \in Nat
      /\ Capacity \in Nat /\ Capacity' = Capacity
  BY <1>1, CapacityType, QueueAssumption DEF TypeOK, Word, Capacity
<1>3. ASSUME NEW t \in Producers, NEW p \in Packets, ReadSize(t, p)
      PROVE  IInv'
  <2>1. SizeIsBytesHeld'
    BY <1>1, <1>3 DEF SizeIsBytesHeld, IsPrefixBytes, ReadSize
  <2>2. SeenWithinCapacity'
    BY <1>1, <1>2, <1>3
       DEF SeenWithinCapacity, BytesWithinCapacity, ReadSize, TypeOK
  <2>3. /\ pc'[t] = "checking" /\ packet'[t] = p /\ seen'[t] = queuesize
        /\ queuesize' = queuesize
        /\ \A u \in Producers \ {t} :
             pc'[u] = pc[u] /\ packet'[u] = packet[u] /\ seen'[u] = seen[u]
    BY <1>1, <1>3 DEF ReadSize, Goto, TypeOK, Threads
  <2>4. CASE t \in Committed'
    <3>1. queuesize' + Adds(t)' <= MaxLimit
      BY <2>3, <2>4 DEF Committed, Adds
    <3> QED
      BY <1>1, <2>1, <2>2, <2>4, <3>1, CreditRenewed DEF IInv
  <2>5. CASE t \notin Committed'
    <3>1. /\ Committed' \subseteq Committed
          /\ \A u \in Committed' : Adds(u)' = Adds(u)
      BY <2>3, <2>5 DEF Committed, Adds
    <3> QED
      BY <1>1, <1>2, <2>1, <2>2, <2>3, <3>1, CreditKept DEF IInv
  <2> QED
    BY <2>4, <2>5
<1>4. ASSUME NEW t \in Producers, Admit(t)
      PROVE  IInv'
  <2>1. NewSize(t) = seen[t] + Adds(t)
    BY <1>1, <1>4, PushAdds DEF Admit, Goto
  <2>2. seen[t] + Adds(t) <= MaxLimit
    <3>1. /\ maxqueuesize \in Nat /\ maxqueuesize <= MaxLimit
          /\ Adds(t) \in Nat /\ MaxLimit \in Nat
      BY <1>1, <1>4, AddsType, QueueAssumption DEF TypeOK, Admit, Goto
    <3> QED
      BY <1>2, <1>4, <2>1, <3>1 DEF Admit
  <2>3. /\ pc[t] = "checking"
        /\ queue' = queue /\ queuesize' = queuesize
        /\ packet' = packet /\ seen' = seen
        /\ \A u \in Producers \ {t} : pc'[u] = pc[u]
    BY <1>1, <1>4 DEF Admit, Goto, TypeOK, Threads
  <2>4. /\ Committed' \subseteq Committed
        /\ \A u \in Committed' : Adds(u)' = Adds(u)
    BY <2>2, <2>3 DEF Committed, Adds
  <2>5. SizeIsBytesHeld' /\ SeenWithinCapacity'
    BY <1>1, <1>2, <2>3 DEF SizeIsBytesHeld, IsPrefixBytes, SeenWithinCapacity
  <2> QED
    BY <1>1, <1>2, <2>3, <2>4, <2>5, CreditKept DEF IInv
<1>5. ASSUME NEW t \in Producers, Refuse(t)
      PROVE  IInv'
  <2>1. /\ queue' = queue /\ queuesize' = queuesize
        /\ pc'[t] = "idle" /\ seen'[t] = 0
        /\ \A u \in Producers \ {t} :
             pc'[u] = pc[u] /\ packet'[u] = packet[u] /\ seen'[u] = seen[u]
    BY <1>1, <1>5 DEF Refuse, Goto, EndPush, TypeOK, Threads
  <2>2. /\ Committed' \subseteq Committed
        /\ \A u \in Committed' : Adds(u)' = Adds(u)
    BY <2>1 DEF Committed, Adds
  <2>3. SizeIsBytesHeld' /\ SeenWithinCapacity'
    <3>1. SizeIsBytesHeld'
      BY <1>1, <2>1 DEF SizeIsBytesHeld, IsPrefixBytes
    <3>2. ASSUME NEW u \in Producers
          PROVE  seen'[u] <= Capacity
      BY <1>1, <1>2, <2>1 DEF SeenWithinCapacity
    <3> QED
      BY <1>2, <3>1, <3>2 DEF SeenWithinCapacity
  <2> QED
    BY <1>1, <1>2, <2>1, <2>2, <2>3, CreditKept DEF IInv
<1>6. ASSUME NEW t \in Producers, Push(t)
      PROVE  IInv'
  <2>1. pc[t] = "pushing" /\ packet[t] \in Packets /\ t \in Committed
    BY <1>1, <1>6 DEF Push, Goto, TypeOK, Committed
  <2>2. queuesize' = queuesize + Adds(t) /\ queue' = Append(queue, packet[t])
    BY <1>1, <1>6, <2>1, PushAdds DEF Push, Adds
  <2>3. /\ pc'[t] = "idle" /\ seen'[t] = 0
        /\ \A u \in Producers \ {t} :
             pc'[u] = pc[u] /\ packet'[u] = packet[u] /\ seen'[u] = seen[u]
    BY <1>1, <1>6 DEF Push, Goto, EndPush, TypeOK, Threads
  <2>4. /\ Committed' = Committed \ {t}
        /\ \A u \in Committed' : Adds(u)' = Adds(u)
    BY <2>3 DEF Committed, Adds
  <2>5. Credit'
    BY <1>1, <2>1, <2>2, <2>4, CreditSpent
  <2>6. SizeIsBytesHeld'
    BY <1>1, <2>1, <2>2, PushKeepsCount DEF Adds
  <2>7. SeenWithinCapacity'
    BY <1>1, <1>2, <2>3 DEF SeenWithinCapacity
  <2> QED
    BY <1>1, <2>5, <2>6, <2>7 DEF IInv
<1>7. ASSUME NEW t \in Consumers, Pop(t)
      PROVE  IInv'
  <2>1. /\ queuesize' = queuesize - PacketSize[Head(queue)]
        /\ PacketSize[Head(queue)] \in 0 .. queuesize
    BY <1>1, <1>7, PopTakes DEF Pop
  <2>2. /\ packet' = packet /\ seen' = seen
        /\ \A u \in Producers : pc'[u] = pc[u]
    BY <1>1, <1>7, QueueAssumption DEF Pop, Goto, TypeOK, Threads
  <2>3. /\ Committed' \subseteq Committed
        /\ \A u \in Committed' : Adds(u)' = Adds(u)
    BY <2>2 DEF Committed, Adds
  <2>4. SizeIsBytesHeld'
    BY <1>1, <1>7, <2>1, PopKeepsCount DEF Pop
  <2>5. SeenWithinCapacity' /\ queuesize' <= queuesize
    BY <1>1, <1>2, <2>1, <2>2 DEF SeenWithinCapacity
  <2> QED
    BY <1>1, <2>3, <2>4, <2>5, CreditKept DEF IInv
<1>8. ASSUME /\ UNCHANGED <<queue, queuesize, packet, seen>>
             /\ \A u \in Producers : pc'[u] = pc[u]
      PROVE  IInv'
  <2>1. /\ Committed' \subseteq Committed
        /\ \A u \in Committed' : Adds(u)' = Adds(u)
    BY <1>8 DEF Committed, Adds
  <2>2. SizeIsBytesHeld' /\ SeenWithinCapacity'
    BY <1>1, <1>2, <1>8 DEF SizeIsBytesHeld, IsPrefixBytes, SeenWithinCapacity
  <2> QED
    BY <1>1, <1>2, <1>8, <2>1, <2>2, CreditKept DEF IInv
<1>9. ASSUME NEW t \in Consumers, ReadCount(t) \/ PopEmptied(t)
      PROVE  IInv'
  BY <1>1, <1>8, <1>9, QueueAssumption
     DEF ReadCount, PopEmptied, Goto, TypeOK, Threads
<1>10. ASSUME NEW m \in Maxima, SetMaxQueueSize(m)
       PROVE  IInv'
  BY <1>8, <1>10 DEF SetMaxQueueSize
<1>11. CASE UNCHANGED vars
  BY <1>8, <1>11 DEF vars
<1> QED
  BY <1>3, <1>4, <1>5, <1>6, <1>7, <1>9, <1>10, <1>11
     DEF Next, Produce, Consume

(***************************************************************************)
(* A fresh queue: no push counted, no byte held.                           *)
(***************************************************************************)
LEMMA IInvInit == Init => IInv
<1> SUFFICES ASSUME Init
             PROVE  IInv
  OBVIOUS
<1>1. TypeOK
  BY QueueAssumption DEF Init, TypeOK, Threads, Word
<1>2. SizeIsBytesHeld
  <2> DEFINE f == [i \in 0 .. Len(queue) |-> 0]
  <2>1. Len(queue) = 0 /\ queuesize = 0
    BY DEF Init
  <2>2. f \in [0 .. Len(queue) -> 0 .. queuesize]
    BY <2>1
  <2>3. IsPrefixBytes(f, queue) /\ queuesize = f[Len(queue)]
    BY <2>1 DEF IsPrefixBytes
  <2> QED
    BY <2>2, <2>3 DEF SizeIsBytesHeld
<1>3. SeenWithinCapacity
  BY CapacityType DEF Init, SeenWithinCapacity
<1>4. Credit
  <2>1. Committed = {} /\ Cardinality(Committed) = 0
    BY FS_EmptySet DEF Init, Committed, Threads
  <2>2. Room(0) = 0
    BY QueueAssumption DEF Room
  <2> QED
    BY <2>1, <2>2, CapacityType DEF Init, Credit
<1> QED
  BY <1>1, <1>2, <1>3, <1>4 DEF IInv

(***************************************************************************)
(* Any number of producers on one queue exceed its maximum by no more than *)
(* a longest packet each, but one.                                         *)
(***************************************************************************)
THEOREM BytesBounded == ASSUME NoWrap PROVE Spec => []BytesWithinCapacity
<1>1. IInv /\ [Next]_vars => IInv'
  BY IInvInductive
<1>2. IInv => BytesWithinCapacity
  BY CreditBounds DEF IInv
<1> QED
  BY <1>1, <1>2, IInvInit, PTL DEF Spec

(***************************************************************************)
(* The byte counter is exact in every interleaving of pushes and pops.     *)
(***************************************************************************)
THEOREM SizeExact == ASSUME NoWrap PROVE Spec => []SizeIsBytesHeld
<1>1. IInv /\ [Next]_vars => IInv'
  BY IInvInductive
<1>2. IInv => SizeIsBytesHeld
  BY DEF IInv
<1> QED
  BY <1>1, <1>2, IInvInit, PTL DEF Spec

(***************************************************************************)
(* A producer alone, as each queue has in R2CPRuntimeBroker, never pushes  *)
(* the queue over the largest maximum in force.                            *)
(***************************************************************************)
THEOREM SoleProducerWithinLimit ==
    ASSUME NoWrap, Cardinality(Producers) = 1
    PROVE  Spec => []BytesWithinLimit
<1>1. IInv /\ [Next]_vars => IInv'
  BY IInvInductive
<1>2. BytesWithinCapacity => BytesWithinLimit
  BY QueueAssumption DEF Capacity, BytesWithinCapacity, BytesWithinLimit
<1>3. IInv => BytesWithinLimit
  BY <1>2, CreditBounds DEF IInv
<1> QED
  BY <1>1, <1>3, IInvInit, PTL DEF Spec

-----------------------------------------------------------------------------
(***************************************************************************)
(* A consumer alone finds what it has counted: no one else takes packets.  *)
(***************************************************************************)
CountedIsThere == \A t \in Consumers : pc[t] = "popping" => queue # <<>>

\* Pop is never called on an empty queue if one thread alone calls Dequeue.
THEOREM SoleConsumerSafe ==
    ASSUME NEW c, Consumers = {c}
    PROVE  Spec => []NoPopOutOfRange
<1> DEFINE CInv == TypeOK /\ CountedIsThere /\ NoPopOutOfRange
<1>1. Init => CInv
  BY QueueAssumption
     DEF Init, TypeOK, CountedIsThere, NoPopOutOfRange, Threads, Word
<1>2. CInv /\ [Next]_vars => CInv'
  <2> SUFFICES ASSUME CInv, [Next]_vars
               PROVE  CInv'
    OBVIOUS
  <2>1. TypeOK' /\ queue \in Seq(Packets)
    BY TypeInductive DEF TypeOK
  <2>2. ASSUME queue # <<>> => queue' # <<>>,
               \A t \in Consumers : pc'[t] = pc[t]
        PROVE  CInv'
    BY <2>1, <2>2 DEF CountedIsThere, NoPopOutOfRange
  <2>3. ASSUME NEW t \in Producers, Push(t)
        PROVE  queue # <<>> => queue' # <<>>
    BY <2>1, <2>3 DEF Push, TypeOK
  <2>4. ASSUME NEW t \in Producers, Produce(t)
        PROVE  CInv'
    <3>1. \A u \in Consumers : pc'[u] = pc[u]
      BY <2>4, QueueAssumption
         DEF Produce, ReadSize, Admit, Refuse, Push, Goto, TypeOK, Threads
    <3>2. queue # <<>> => queue' # <<>>
      BY <2>3, <2>4 DEF Produce, ReadSize, Admit, Refuse
    <3> QED
      BY <2>2, <3>1, <3>2
  <2>5. CASE ReadCount(c)
    BY <2>1, <2>5
       DEF ReadCount, Goto, CountedIsThere, NoPopOutOfRange, TypeOK, Threads
  <2>6. CASE Pop(c)
    BY <2>1, <2>6
       DEF Pop, Goto, CountedIsThere, NoPopOutOfRange, TypeOK, Threads
  <2>7. CASE PopEmptied(c)
    BY <2>7 DEF PopEmptied, Goto, CountedIsThere
  <2>8. ASSUME NEW m \in Maxima, SetMaxQueueSize(m)
        PROVE  CInv'
    BY <2>2, <2>8 DEF SetMaxQueueSize
  <2>9. CASE UNCHANGED vars
    BY <2>2, <2>9 DEF vars
  <2> QED
    BY <2>4, <2>5, <2>6, <2>7, <2>8, <2>9 DEF Next, Consume
<1>3. CInv => NoPopOutOfRange
  OBVIOUS
<1> QED
  BY <1>1, <1>2, <1>3, PTL DEF Spec

-----------------------------------------------------------------------------
(***************************************************************************)
(* The queue implements the abstract channel: an append puts one packet    *)
(* within the capacity, an erase takes the oldest one, and every other     *)
(* step of a push or a pop leaves the channel as it is.                    *)
(***************************************************************************)
THEOREM QueueImplementsChannel == ASSUME NoWrap PROVE Spec => ImplementsChannel
<1>1. Init => Channel!Init
  BY DEF Init, Channel!Init
<1>2. IInv /\ BytesWithinCapacity' /\ [Next]_vars => [Channel!Next]_(Channel!vars)
  <2> SUFFICES ASSUME IInv, BytesWithinCapacity', [Next]_vars
               PROVE  [Channel!Next]_(Channel!vars)
    OBVIOUS
  <2>1. /\ TypeOK /\ SizeIsBytesHeld /\ SeenWithinCapacity
        /\ BytesWithinCapacity
    BY CreditBounds DEF IInv
  <2>2. ASSUME NEW t \in Producers, Push(t)
        PROVE  Channel!Put(packet[t]) /\ packet[t] \in Packets
    <3>1. packet[t] \in Packets /\ pc[t] # "idle"
      BY <2>1, <2>2 DEF Push, Goto, TypeOK
    <3>2. queuesize' = queuesize + PacketSize[packet[t]]
      BY <2>1, <2>2, <3>1, PushAdds DEF Push, Adds
    <3>3. queuesize + PacketSize[packet[t]] <= Capacity
      BY <2>1, <3>2 DEF BytesWithinCapacity, Capacity
    <3> QED
      BY <2>2, <3>1, <3>2, <3>3 DEF Push, Channel!Put
  <2>3. ASSUME NEW t \in Consumers, Pop(t)
        PROVE  Channel!Take
    BY <2>1, <2>3, PopTakes DEF Pop, Channel!Take
  <2>4. ASSUME UNCHANGED <<queue, queuesize>>
        PROVE  UNCHANGED Channel!vars
    BY <2>4 DEF Channel!vars
  <2> QED
    BY <2>2, <2>3, <2>4
       DEF Next, Produce, Consume, ReadSize, Admit, Refuse, ReadCount,
           PopEmptied, SetMaxQueueSize, vars, Channel!Next
<1>3. IInv /\ [Next]_vars => IInv'
  BY IInvInductive
<1>4. IInv => BytesWithinCapacity
  BY CreditBounds DEF IInv
<1> QED
  BY <1>1, <1>2, <1>3, <1>4, IInvInit, PTL DEF Spec, ImplementsChannel, Channel!Spec
=============================================================================
