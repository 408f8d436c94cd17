----------------------- MODULE PacketProcessorProofs -----------------------
(***************************************************************************)
(* Proofs about PacketProcessor, for any codes, modules and packets.       *)
(***************************************************************************)
EXTENDS PacketProcessor, TLAPS

-----------------------------------------------------------------------------
(* The inductive invariant *)

\* A thread that is not pointed to does not run.
ThreadJoined == packetprocessorthread # "thread" => px = "none"

\* What executetask has in hand, and where: a packet's number from parse on, a
\* position from react on, and responses when there is something to serialize.
InHand ==
    /\ px \in {"none", "test", "pop", "exited"} => number = 0
    /\ px \in {"none", "test", "pop", "exited", "parse"} => responses = <<>>
    /\ px \in {"parse", "react", "act", "serialize", "push"} => number # 0
    /\ px \in {"react", "act"} => position # 0
    /\ px \in {"serialize", "push"} => responses # <<>>

\* Packets wait in the order of their numbers, behind the one in hand.
PacketsOrdered ==
    /\ number <= received
    /\ \A i \in 1 .. Len(receptionqueue) :
         receptionqueue[i][1] <= received /\ number < receptionqueue[i][1]
    /\ \A i, j \in 1 .. Len(receptionqueue) :
         i < j => receptionqueue[i][1] < receptionqueue[j][1]

\* responsecommands answer the packet in hand, up to the command in hand.
ResponsesOrdered ==
    /\ \A a \in 1 .. Len(responses) :
         /\ responses[a][1] = number
         /\ responses[a][2] <= position
    /\ \A a, b \in 1 .. Len(responses) : a < b => responses[a][2] <= responses[b][2]

\* Response packets answer packets that came before those in hand and queued.
AnsweredBefore ==
    \A i \in 1 .. Len(transmissionqueue) :
        LET n == transmissionqueue[i][1][1] IN
        /\ n <= received
        /\ number # 0 => n < number
        /\ \A j \in 1 .. Len(receptionqueue) : n < receptionqueue[j][1]

IInv ==
    /\ TypeOK /\ ThreadJoined /\ InHand /\ PacketsOrdered /\ ResponsesOrdered
    /\ AnsweredBefore /\ ResponseOfOnePacket /\ ResponsesInOrder

-----------------------------------------------------------------------------

\* A response is filed under the packet in hand and the command in hand.
LEMMA ResponseType ==
    ASSUME TypeOK, number # 0, position # 0
    PROVE  Append(responses, <<number, position>>) \in Seq(Entry)
<1>1. <<number, position>> \in Entry
  BY ProcessorAssumption DEF TypeOK, Entry
<1> QED
  BY <1>1 DEF TypeOK

(***************************************************************************)
(* Typing.  What is not a matter of types: the number and the position of  *)
(* a response are those of a packet and of a command.                      *)
(***************************************************************************)
LEMMA TypeInductive == TypeOK /\ InHand /\ [Next]_vars => TypeOK'
<1> SUFFICES ASSUME TypeOK, InHand, [Next]_vars
             PROVE  TypeOK'
  OBVIOUS
<1> USE ProcessorAssumption
<1> USE DEF TypeOK, Alive, caller, registry, queues, locals
<1>1. CASE Run
  BY <1>1 DEF Run, NewCall
<1>2. CASE Halt
  <2>1. isrunning' \in BOOLEAN
    BY <1>2, Zenon DEF Halt
  <2> QED
    BY <1>2, <2>1 DEF Halt, NewCall
<1>3. CASE Join \/ WildPointer
  BY <1>3 DEF Join, WildPointer, Die
<1>4. CASE Registration
  <2>1. ASSUME NEW map \in [Codes -> Modules \cup {NoModule}],
               NEW set \in SUBSET Modules, Change(map, set)
        PROVE  TypeOK'
    <3>1. /\ robotmodulesmap' \in [Codes -> Modules \cup {NoModule}]
          /\ robotmodulesset' \subseteq Modules
          /\ changes' \in 0 .. MaxChanges
      BY <2>1 DEF Change
    <3> QED
      BY <2>1, <3>1 DEF Change
  <2>2. ASSUME NEW k \in Codes, NEW m \in Modules, Register(k, m)
        PROVE  TypeOK'
    <3>1. /\ [robotmodulesmap EXCEPT ![k] = m] \in [Codes -> Modules \cup {NoModule}]
          /\ robotmodulesset \cup {m} \in SUBSET Modules
      OBVIOUS
    <3> QED
      BY <2>1, <2>2, <3>1 DEF Register
  <2>3. ASSUME NEW m \in Modules, RegisterActive(m)
        PROVE  TypeOK'
    <3>1. robotmodulesset \cup {m} \in SUBSET Modules
      OBVIOUS
    <3> QED
      BY <2>1, <2>3, <3>1 DEF RegisterActive
  <2>4. ASSUME NEW m \in Modules, UnregisterModule(m)
        PROVE  TypeOK'
    <3>1. /\ [k \in Codes |-> IF k \in CodesOf(m) THEN NoModule ELSE robotmodulesmap[k]]
               \in [Codes -> Modules \cup {NoModule}]
          /\ robotmodulesset \ {m} \in SUBSET Modules
      OBVIOUS
    <3> QED
      BY <2>1, <2>4, <3>1 DEF UnregisterModule
  <2>5. ASSUME NEW k \in Codes, UnregisterCode(k)
        PROVE  TypeOK'
    <3>1. /\ [robotmodulesmap EXCEPT ![k] = NoModule] \in [Codes -> Modules \cup {NoModule}]
          /\ robotmodulesset \ {robotmodulesmap[k]} \in SUBSET Modules
      OBVIOUS
    <3> QED
      BY <2>1, <2>5, <3>1 DEF UnregisterCode
  <2>6. CASE UnregisterAll
    <3>1. [k \in Codes |-> NoModule] \in [Codes -> Modules \cup {NoModule}]
      OBVIOUS
    <3> QED
      BY <2>1, <2>6, <3>1 DEF UnregisterAll
  <2>7. CASE RegistryUndefined
    BY <2>7 DEF RegistryUndefined, Die
  <2> QED
    BY <1>4, <2>2, <2>3, <2>4, <2>5, <2>6, <2>7 DEF Registration
<1>5. CASE TestRunning \/ PopNothing
  BY <1>5 DEF TestRunning, PopNothing, Goto
<1>6. CASE PopReception
  <2>1. Head(receptionqueue) \in (1 .. MaxPackets) \X Packets
        /\ Tail(receptionqueue) \in Seq((1 .. MaxPackets) \X Packets)
    BY <1>6 DEF PopReception
  <2>2. number' \in 0 .. MaxPackets /\ packet' \in Packets
    BY <1>6, <2>1 DEF PopReception
  <2> QED
    BY <1>6, <2>1, <2>2 DEF PopReception, Goto
<1>7. CASE ParseRejects \/ ReactAbandons \/ ActAbandons
  <2>1. UNCHANGED <<caller, registry, queues, fault>> /\ px' = "test" /\ Finish
    BY <1>7 DEF ParseRejects, ReactAbandons, ActAbandons, Goto
  <2> QED
    BY <2>1 DEF Finish
<1>8. CASE ParseThrows \/ ReactThrows \/ ActThrows \/ SerializeThrows
  BY <1>8 DEF ParseThrows, ReactThrows, ActThrows, SerializeThrows, Lose, Die
<1>9. CASE Parse \/ ReactDone \/ Serialize
  BY <1>9 DEF Parse, ReactDone, Serialize, Goto
<1>10. CASE React
  <2>1. Append(responses, <<number, position>>) \in Seq(Entry)
    BY <1>10, ResponseType DEF InHand, React, Goto
  <2>2. responses' \in {responses, Append(responses, <<number, position>>)}
    BY <1>10, Zenon DEF React
  <2>3. responses' \in Seq(Entry)
    BY <2>1, <2>2
  <2> QED
    BY <1>10, <2>3 DEF React, Goto
<1>11. ASSUME NEW m \in Modules, Act(m)
       PROVE  TypeOK'
  <2>1. Append(responses, <<number, position>>) \in Seq(Entry)
    BY <1>11, ResponseType DEF InHand, Act, Goto
  <2>2. toact' \subseteq Modules
    BY <1>11 DEF Act
  <2> QED
    BY <1>11, <2>1, <2>2 DEF Act, Goto
<1>12. CASE ActDone
  <2>1. CASE responses # <<>> /\ Goto("act", "serialize") /\ UNCHANGED locals
    BY <1>12, <2>1 DEF ActDone, Goto
  <2>2. CASE Goto("act", "test") /\ Finish
    BY <1>12, <2>2 DEF ActDone, Goto, Finish
  <2> QED
    BY <1>12, <2>1, <2>2 DEF ActDone
<1>13. CASE PushResponse
  <2>1. Append(transmissionqueue, responses) \in Seq(Seq(Entry))
    OBVIOUS
  <2>2. transmissionqueue' \in Seq(Seq(Entry))
    BY <1>13, <2>1 DEF PushResponse
  <2> QED
    BY <1>13, <2>2 DEF PushResponse, Goto, Finish
<1>14. ASSUME NEW p \in Packets, Receive(p)
       PROVE  TypeOK'
  <2>1. received + 1 \in 1 .. MaxPackets
    BY <1>14 DEF Receive
  <2>2. receptionqueue' \in Seq((1 .. MaxPackets) \X Packets)
    BY <1>14, <2>1 DEF Receive
  <2> QED
    BY <1>14, <2>1, <2>2 DEF Receive
<1>15. CASE UNCHANGED vars
  BY <1>15 DEF vars
<1> QED
  BY <1>1, <1>2, <1>3, <1>4, <1>5, <1>6, <1>7, <1>8, <1>9, <1>10, <1>11, <1>12, <1>13,
     <1>14, <1>15 DEF Next, Process, Compute

(***************************************************************************)
(* The thread.  It leaves its loop only to end, and the caller of halt     *)
(* waits for that.                                                         *)
(***************************************************************************)
LEMMA ThreadInductive == ThreadJoined /\ [Next]_vars => ThreadJoined'
<1> SUFFICES ASSUME ThreadJoined, [Next]_vars
             PROVE  ThreadJoined'
  OBVIOUS
<1> USE DEF ThreadJoined, Alive, caller, registry, queues, locals
<1>1. CASE Run \/ Halt \/ Join \/ WildPointer
  BY <1>1 DEF Run, Halt, Join, WildPointer, Die
<1>2. CASE Registration
  BY <1>2 DEF Registration, Register, RegisterActive, UnregisterModule, UnregisterCode,
              UnregisterAll, RegistryUndefined, Change, Die
<1>3. CASE Process
  BY <1>3 DEF Process, Compute, TestRunning, PopNothing, PopReception, ParseRejects,
              ParseThrows, Parse, React, ReactAbandons, ReactThrows, ReactDone, Act,
              ActAbandons, ActThrows, ActDone, Serialize, SerializeThrows, PushResponse,
              Goto, Lose, Die
<1>4. ASSUME NEW p \in Packets, Receive(p)
      PROVE  ThreadJoined'
  BY <1>4 DEF Receive
<1>5. CASE UNCHANGED vars
  BY <1>5 DEF vars
<1> QED
  BY <1>1, <1>2, <1>3, <1>4, <1>5 DEF Next

(***************************************************************************)
(* executetask.  Every way back to the loop goes through Finish, which     *)
(* forgets the packet and its responses.                                   *)
(***************************************************************************)
LEMMA HandInductive ==
    TypeOK /\ ThreadJoined /\ InHand /\ PacketsOrdered /\ [Next]_vars => InHand'
<1> SUFFICES ASSUME TypeOK, ThreadJoined, InHand, PacketsOrdered, [Next]_vars
             PROVE  InHand'
  OBVIOUS
<1> USE DEF InHand, Alive, caller, registry, queues, locals
<1>1. CASE Run \/ Halt \/ Join \/ WildPointer
  BY <1>1 DEF ThreadJoined, Run, Halt, Join, WildPointer, Die
<1>2. CASE Registration
  BY <1>2
     DEF Registration, Register, RegisterActive, UnregisterModule, UnregisterCode,
         UnregisterAll, RegistryUndefined, Change, Die
<1>3. CASE TestRunning \/ PopNothing \/ Parse \/ Serialize
  BY <1>3 DEF TypeOK, TestRunning, PopNothing, Parse, Serialize, Goto
<1>4. CASE PopReception
  <2>1. number' # 0
    BY <1>4, ProcessorAssumption DEF TypeOK, PacketsOrdered, PopReception
  <2> QED
    BY <1>4, <2>1 DEF PopReception, Goto
<1>5. CASE ParseRejects \/ ReactAbandons \/ ActAbandons \/ PushResponse
  BY <1>5 DEF ParseRejects, ReactAbandons, ActAbandons, PushResponse, Goto, Finish
<1>6. CASE ParseThrows \/ ReactThrows \/ ActThrows \/ SerializeThrows
  BY <1>6 DEF ParseThrows, ReactThrows, ActThrows, SerializeThrows, Lose
<1>7. CASE React
  BY <1>7 DEF TypeOK, React, Goto
<1>8. CASE ReactDone \/ \E m \in Modules : Act(m)
  BY <1>8 DEF ReactDone, Act, Goto
<1>9. CASE ActDone
  BY <1>9 DEF ActDone, Goto, Finish
<1>10. ASSUME NEW p \in Packets, Receive(p)
       PROVE  InHand'
  BY <1>10 DEF Receive
<1>11. CASE UNCHANGED vars
  BY <1>11 DEF vars
<1> QED
  BY <1>1, <1>2, <1>3, <1>4, <1>5, <1>6, <1>7, <1>8, <1>9, <1>10, <1>11
     DEF Next, Process, Compute

(***************************************************************************)
(* The reception queue.  It is taken from at one end and put to at the     *)
(* other, under increasing numbers.                                        *)
(***************************************************************************)
LEMMA PacketsInductive == TypeOK /\ PacketsOrdered /\ [Next]_vars => PacketsOrdered'
<1> SUFFICES ASSUME TypeOK, PacketsOrdered, [Next]_vars
             PROVE  PacketsOrdered'
  OBVIOUS
<1> USE ProcessorAssumption
<1> USE DEF Alive, caller, registry, queues, locals
<1>1. /\ number \in Nat /\ received \in Nat
      /\ receptionqueue \in Seq((1 .. MaxPackets) \X Packets)
  BY DEF TypeOK
<1>2. ASSUME UNCHANGED <<number, receptionqueue, received>>
      PROVE  PacketsOrdered'
  BY <1>2 DEF PacketsOrdered
<1>3. ASSUME Finish, UNCHANGED <<receptionqueue, received>>
      PROVE  PacketsOrdered'
  BY <1>1, <1>3 DEF PacketsOrdered, Finish
<1>4. CASE Run \/ Halt \/ Join \/ WildPointer
  BY <1>2, <1>4 DEF Run, Halt, Join, WildPointer
<1>5. CASE Registration
  BY <1>2, <1>5
     DEF Registration, Register, RegisterActive, UnregisterModule, UnregisterCode,
         UnregisterAll, RegistryUndefined, Change
<1>6. CASE TestRunning \/ PopNothing \/ Parse \/ React \/ ReactDone \/ Serialize
           \/ \E m \in Modules : Act(m)
  BY <1>2, <1>6 DEF TestRunning, PopNothing, Parse, React, ReactDone, Serialize, Act
<1>7. CASE PopReception
  <2>1. /\ receptionqueue # <<>> /\ number' = receptionqueue[1][1]
        /\ receptionqueue' = Tail(receptionqueue) /\ received' = received
    BY <1>1, <1>7 DEF PopReception
  <2>2. \A i \in 1 .. Len(receptionqueue') :
          /\ i + 1 \in 1 .. Len(receptionqueue) /\ i + 1 > 1
          /\ receptionqueue'[i] = receptionqueue[i + 1]
    BY <1>1, <2>1
  <2>3. 1 \in 1 .. Len(receptionqueue)
    BY <1>1, <2>1
  <2>4. Len(receptionqueue') \in Nat
    BY <1>1, <2>1
  <2> QED
    BY <2>1, <2>2, <2>3, <2>4 DEF PacketsOrdered
<1>8. CASE ParseRejects \/ ReactAbandons \/ ActAbandons \/ PushResponse
  BY <1>3, <1>8 DEF ParseRejects, ReactAbandons, ActAbandons, PushResponse
<1>9. CASE ParseThrows \/ ReactThrows \/ ActThrows \/ SerializeThrows
  BY <1>2, <1>9 DEF ParseThrows, ReactThrows, ActThrows, SerializeThrows, Lose
<1>10. CASE ActDone
  BY <1>2, <1>3, <1>10 DEF ActDone
<1>11. ASSUME NEW p \in Packets, Receive(p)
       PROVE  PacketsOrdered'
  BY <1>1, <1>11 DEF PacketsOrdered, Receive
<1>12. CASE UNCHANGED vars
  BY <1>2, <1>12 DEF vars
<1> QED
  BY <1>4, <1>5, <1>6, <1>7, <1>8, <1>9, <1>10, <1>11, <1>12
     DEF Next, Process, Compute

(***************************************************************************)
(* responsecommands.  It is empty when a packet is taken, and its vector   *)
(* is only ever appended to, at the command in hand.                       *)
(***************************************************************************)
LEMMA ResponsesInductive ==
    TypeOK /\ InHand /\ ResponsesOrdered /\ [Next]_vars => ResponsesOrdered'
<1> SUFFICES ASSUME TypeOK, InHand, ResponsesOrdered, [Next]_vars
             PROVE  ResponsesOrdered'
  OBVIOUS
<1> USE DEF Alive, caller, registry, queues, locals
<1>1. number \in Nat /\ position \in Nat /\ responses \in Seq(Nat \X Nat)
  BY ProcessorAssumption DEF TypeOK, Entry
<1>2. ASSUME UNCHANGED <<number, position, responses>>
      PROVE  ResponsesOrdered'
  BY <1>2 DEF ResponsesOrdered
<1>3. ASSUME responses' = <<>>
      PROVE  ResponsesOrdered'
  BY <1>3 DEF ResponsesOrdered
<1>4. ASSUME responses' \in {responses, Append(responses, <<number, position>>)},
             UNCHANGED number, position' \in {position, position + 1}
      PROVE  ResponsesOrdered'
  <2>1. CASE UNCHANGED responses
    BY <1>1, <1>4, <2>1 DEF ResponsesOrdered
  <2>2. CASE responses' = Append(responses, <<number, position>>)
    <3>1. /\ Len(responses) \in Nat /\ Len(responses') = Len(responses) + 1
          /\ responses'[Len(responses) + 1] = <<number, position>>
          /\ \A a \in 1 .. Len(responses) : responses'[a] = responses[a]
      BY <1>1, <2>2
    <3>2. ASSUME NEW a \in 1 .. Len(responses')
          PROVE  /\ responses'[a][1] = number
                 /\ responses'[a][2] \in Nat /\ responses'[a][2] <= position
      <4>1. CASE a = Len(responses) + 1
        BY <1>1, <3>1, <4>1
      <4>2. CASE a \in 1 .. Len(responses)
        <5>1. responses[a] \in Nat \X Nat /\ responses'[a] = responses[a]
          BY <1>1, <3>1, <4>2
        <5>2. responses[a][1] = number /\ responses[a][2] <= position
          BY <4>2 DEF ResponsesOrdered
        <5> QED
          BY <5>1, <5>2
      <4> QED
        BY <3>1, <4>1, <4>2
    <3>3. ASSUME NEW a \in 1 .. Len(responses'), NEW b \in 1 .. Len(responses'), a < b
          PROVE  responses'[a][2] <= responses'[b][2]
      <4>1. a \in 1 .. Len(responses)
        BY <3>1, <3>3
      <4>2. CASE b = Len(responses) + 1
        BY <3>1, <3>2, <4>2
      <4>3. CASE b \in 1 .. Len(responses)
        BY <3>1, <3>3, <4>1, <4>3 DEF ResponsesOrdered
      <4> QED
        BY <3>1, <4>2, <4>3
    <3>4. ASSUME NEW n \in Nat, n <= position
          PROVE  n <= position'
      BY <1>1, <1>4, <3>4
    <3> QED
      BY <1>4, <3>2, <3>3, <3>4 DEF ResponsesOrdered
  <2> QED
    BY <1>4, <2>1, <2>2
<1>5. CASE Run \/ Halt \/ Join \/ WildPointer
  BY <1>2, <1>5 DEF Run, Halt, Join, WildPointer
<1>6. CASE Registration
  BY <1>2, <1>6
     DEF Registration, Register, RegisterActive, UnregisterModule, UnregisterCode,
         UnregisterAll, RegistryUndefined, Change
<1>7. CASE TestRunning \/ PopNothing \/ ReactDone \/ Serialize
  BY <1>2, <1>7 DEF TestRunning, PopNothing, ReactDone, Serialize
<1>8. CASE PopReception \/ Parse
  BY <1>3, <1>8 DEF InHand, PopReception, Parse, Goto
<1>9. CASE ParseRejects \/ ReactAbandons \/ ActAbandons \/ PushResponse
  BY <1>3, <1>9 DEF ParseRejects, ReactAbandons, ActAbandons, PushResponse, Finish
<1>10. CASE ParseThrows \/ ReactThrows \/ ActThrows \/ SerializeThrows
  BY <1>2, <1>10 DEF ParseThrows, ReactThrows, ActThrows, SerializeThrows, Lose
<1>11. CASE React
  <2>1. responses' \in {responses, Append(responses, <<number, position>>)}
    BY <1>11, Zenon DEF React
  <2> QED
    BY <1>4, <1>11, <2>1 DEF React
<1>12. ASSUME NEW m \in Modules, Act(m)
       PROVE  ResponsesOrdered'
  BY <1>4, <1>12 DEF Act
<1>13. CASE ActDone
  BY <1>2, <1>3, <1>13 DEF ActDone, Finish
<1>14. ASSUME NEW p \in Packets, Receive(p)
       PROVE  ResponsesOrdered'
  BY <1>2, <1>14 DEF Receive
<1>15. CASE UNCHANGED vars
  BY <1>2, <1>15 DEF vars
<1> QED
  BY <1>5, <1>6, <1>7, <1>8, <1>9, <1>10, <1>11, <1>12, <1>13, <1>14, <1>15
     DEF Next, Process, Compute

\* The first response of a packet that has any is typed as all are, so the number
\* a response packet answers is a number.
LEMMA AnswersType ==
    ASSUME TypeOK, ResponseOfOnePacket, NEW i \in 1 .. Len(transmissionqueue)
    PROVE  transmissionqueue[i][1][1] \in Nat
<1>1. transmissionqueue[i] \in Seq(Entry) /\ transmissionqueue[i] # <<>>
  BY DEF TypeOK, ResponseOfOnePacket, OfOnePacket
<1>2. transmissionqueue[i][1] \in Entry
  BY <1>1
<1> QED
  BY <1>2, ProcessorAssumption DEF Entry

(***************************************************************************)
(* The response packets.  One is appended when the packet in hand is done  *)
(* with, whose number is above those answered and below those waiting.     *)
(***************************************************************************)
LEMMA AnswersInductive ==
    /\ TypeOK /\ InHand /\ PacketsOrdered /\ ResponsesOrdered /\ AnsweredBefore
    /\ ResponseOfOnePacket /\ ResponsesInOrder /\ [Next]_vars
    => AnsweredBefore' /\ ResponseOfOnePacket' /\ ResponsesInOrder'
<1> DEFINE Answers == AnsweredBefore /\ ResponseOfOnePacket /\ ResponsesInOrder
<1> SUFFICES ASSUME TypeOK, InHand, PacketsOrdered, ResponsesOrdered, Answers, [Next]_vars
             PROVE  Answers'
  OBVIOUS
<1> USE DEF Alive, caller, registry, queues, locals
<1>a. /\ number \in Nat /\ received \in Nat
      /\ receptionqueue \in Seq((1 .. MaxPackets) \X Packets)
      /\ transmissionqueue \in Seq(Seq(Entry)) /\ responses \in Seq(Entry)
  BY DEF TypeOK
<1>b. \A i \in 1 .. Len(transmissionqueue) : transmissionqueue[i][1][1] \in Nat
  BY AnswersType
<1>1. /\ number \in Nat /\ received \in Nat
      /\ receptionqueue \in Seq((1 .. MaxPackets) \X Packets)
      /\ transmissionqueue \in Seq(Seq(Entry)) /\ responses \in Seq(Entry)
      /\ \A i \in 1 .. Len(transmissionqueue) : transmissionqueue[i][1][1] \in Nat
  BY <1>a, <1>b
<1>2. ASSUME UNCHANGED transmissionqueue
      PROVE  ResponseOfOnePacket' /\ ResponsesInOrder'
  <2>1. ResponseOfOnePacket'
    BY <1>2 DEF ResponseOfOnePacket
  <2>2. ResponsesInOrder'
    BY <1>2, Zenon DEF ResponsesInOrder
  <2> QED
    BY <2>1, <2>2
<1>3. ASSUME UNCHANGED <<number, receptionqueue, received, transmissionqueue>>
      PROVE  Answers'
  BY <1>2, <1>3 DEF AnsweredBefore
<1>4. ASSUME Finish, UNCHANGED queues
      PROVE  Answers'
  BY <1>2, <1>4 DEF AnsweredBefore, Finish
<1>5. CASE Run \/ Halt \/ Join \/ WildPointer
  BY <1>3, <1>5 DEF Run, Halt, Join, WildPointer
<1>6. CASE Registration
  BY <1>3, <1>6
     DEF Registration, Register, RegisterActive, UnregisterModule, UnregisterCode,
         UnregisterAll, RegistryUndefined, Change
<1>7. CASE TestRunning \/ PopNothing \/ Parse \/ React \/ ReactDone \/ Serialize
           \/ \E m \in Modules : Act(m)
  BY <1>3, <1>7 DEF TestRunning, PopNothing, Parse, React, ReactDone, Serialize, Act
<1>8. CASE PopReception
  <2>1. /\ receptionqueue # <<>> /\ number' = receptionqueue[1][1]
        /\ receptionqueue' = Tail(receptionqueue)
        /\ UNCHANGED <<received, transmissionqueue>>
    BY <1>1, <1>8 DEF PopReception
  <2>2. \A j \in 1 .. Len(receptionqueue') :
          /\ j + 1 \in 1 .. Len(receptionqueue)
          /\ receptionqueue'[j] = receptionqueue[j + 1]
    BY <1>1, <2>1
  <2>3. 1 \in 1 .. Len(receptionqueue)
    BY <1>1, <2>1
  <2>4. AnsweredBefore'
    BY <2>1, <2>2, <2>3 DEF AnsweredBefore
  <2> QED
    BY <1>2, <2>1, <2>4
<1>9. CASE ParseRejects \/ ReactAbandons \/ ActAbandons
  BY <1>4, <1>9 DEF ParseRejects, ReactAbandons, ActAbandons
<1>10. CASE ParseThrows \/ ReactThrows \/ ActThrows \/ SerializeThrows
  BY <1>3, <1>10 DEF ParseThrows, ReactThrows, ActThrows, SerializeThrows, Lose
<1>11. CASE ActDone
  BY <1>3, <1>4, <1>11 DEF ActDone
<1>12. CASE PushResponse
  <2>1. UNCHANGED <<receptionqueue, received>> /\ Finish /\ number # 0 /\ responses # <<>>
    BY <1>12 DEF InHand, PushResponse, Goto
  <2>2. CASE UNCHANGED transmissionqueue
    BY <1>4, <2>1, <2>2
  <2>3. CASE transmissionqueue' = Append(transmissionqueue, responses)
    <3>1. responses[1][1] = number /\ 1 \in 1 .. Len(responses)
      BY <1>1, <2>1 DEF ResponsesOrdered
    <3>5. /\ Len(transmissionqueue) \in Nat
          /\ Len(transmissionqueue') = Len(transmissionqueue) + 1
          /\ transmissionqueue'[Len(transmissionqueue) + 1] = responses
          /\ \A i \in 1 .. Len(transmissionqueue) :
               transmissionqueue'[i] = transmissionqueue[i]
      BY <1>a, <2>3
    <3>2. AnsweredBefore'
      <4>1. number' = 0 /\ number <= received
        BY <2>1 DEF PacketsOrdered, Finish
      <4>2. ASSUME NEW i \in 1 .. Len(transmissionqueue')
            PROVE  LET n == transmissionqueue'[i][1][1] IN
                   /\ n <= received
                   /\ \A j \in 1 .. Len(receptionqueue) : n < receptionqueue[j][1]
        <5>1. CASE i \in 1 .. Len(transmissionqueue)
          BY <3>5, <5>1 DEF AnsweredBefore
        <5>2. CASE i = Len(transmissionqueue) + 1
          BY <3>1, <3>5, <4>1, <5>2 DEF PacketsOrdered
        <5> QED
          BY <3>5, <5>1, <5>2
      <4> QED
        BY <2>1, <4>1, <4>2 DEF AnsweredBefore
    <3>3. ResponseOfOnePacket'
      <4>1. OfOnePacket(responses)
        BY <2>1 DEF OfOnePacket, ResponsesOrdered
      <4>2. \A i \in 1 .. Len(transmissionqueue') : OfOnePacket(transmissionqueue'[i])
        BY <3>5, <4>1 DEF ResponseOfOnePacket
      <4> QED
        BY <4>2 DEF ResponseOfOnePacket
    <3>4. ResponsesInOrder'
      <4>1. \A i \in 1 .. Len(transmissionqueue) : transmissionqueue[i][1][1] < number
        BY <2>1 DEF AnsweredBefore
      <4>2. SUFFICES ASSUME NEW i \in 1 .. Len(transmissionqueue'),
                            NEW j \in 1 .. Len(transmissionqueue'), i < j
                     PROVE  transmissionqueue'[i][1][1] < transmissionqueue'[j][1][1]
        BY DEF ResponsesInOrder
      <4>3. i \in 1 .. Len(transmissionqueue)
        BY <3>5, <4>2
      <4>4. CASE j \in 1 .. Len(transmissionqueue)
        BY <3>5, <4>2, <4>3, <4>4 DEF ResponsesInOrder
      <4>5. CASE j = Len(transmissionqueue) + 1
        BY <3>1, <3>5, <4>1, <4>3, <4>5
      <4> QED
        BY <3>5, <4>4, <4>5
    <3> QED
      BY <3>2, <3>3, <3>4
  <2> QED
    BY <1>12, <2>2, <2>3 DEF PushResponse
<1>13. ASSUME NEW p \in Packets, Receive(p)
       PROVE  Answers'
  <2>1. UNCHANGED <<number, transmissionqueue>> /\ received' = received + 1
    BY <1>13 DEF Receive
  <2>2. /\ Len(receptionqueue) \in Nat /\ Len(receptionqueue') = Len(receptionqueue) + 1
        /\ receptionqueue'[Len(receptionqueue) + 1][1] = received + 1
        /\ \A j \in 1 .. Len(receptionqueue) : receptionqueue'[j] = receptionqueue[j]
    BY <1>a, <1>13 DEF Receive
  <2>3. ASSUME NEW i \in 1 .. Len(transmissionqueue), NEW j \in 1 .. Len(receptionqueue')
        PROVE  transmissionqueue[i][1][1] < receptionqueue'[j][1]
    <3>1. transmissionqueue[i][1][1] < received + 1
      BY <1>1, SMTT(30) DEF AnsweredBefore
    <3>2. CASE j \in 1 .. Len(receptionqueue)
      BY <2>2, <3>2 DEF AnsweredBefore
    <3>3. CASE j = Len(receptionqueue) + 1
      BY <2>2, <3>1, <3>3
    <3> QED
      BY <2>2, <3>2, <3>3
  <2>4. \A i \in 1 .. Len(transmissionqueue) :
          /\ transmissionqueue[i][1][1] <= received + 1
          /\ number # 0 => transmissionqueue[i][1][1] < number
    BY <1>1 DEF AnsweredBefore
  <2>5. AnsweredBefore'
    BY <2>1, <2>3, <2>4 DEF AnsweredBefore
  <2> QED
    BY <1>2, <2>1, <2>5
<1>14. CASE UNCHANGED vars
  BY <1>3, <1>14 DEF vars
<1> QED
  BY <1>5, <1>6, <1>7, <1>8, <1>9, <1>10, <1>11, <1>12, <1>13, <1>14
     DEF Next, Process, Compute

-----------------------------------------------------------------------------

\* A processor that was constructed satisfies the invariant.
LEMMA InitIInv == Init => IInv
<1> SUFFICES ASSUME Init PROVE IInv
  OBVIOUS
<1> USE ProcessorAssumption DEF Init
<1>1. TypeOK
  <2>1. isrunning \in BOOLEAN
    BY Zenon
  <2> QED
    BY <2>1 DEF TypeOK
<1>2. ThreadJoined /\ InHand /\ PacketsOrdered /\ ResponsesOrdered
  BY DEF ThreadJoined, InHand, PacketsOrdered, ResponsesOrdered
<1>3. AnsweredBefore /\ ResponseOfOnePacket /\ ResponsesInOrder
  BY DEF AnsweredBefore, ResponseOfOnePacket, ResponsesInOrder
<1> QED
  BY <1>1, <1>2, <1>3 DEF IInv

\* Every step of the callers and of the processing thread preserves it.
LEMMA IInvInductive == IInv /\ [Next]_vars => IInv'
BY TypeInductive, ThreadInductive, HandInductive, PacketsInductive, ResponsesInductive,
   AnswersInductive
   DEF IInv

\* So it holds for as long as the processor lives.
LEMMA Invariance == Spec => []IInv
BY InitIInv, IInvInductive, PTL DEF Spec

\* The processing thread is the only one to change what it has in hand, and the
\* queue it answers on.
LEMMA OnlyThreadAnswers ==
    ThreadJoined /\ packetprocessorthread # "thread" /\ [Next]_vars =>
        UNCHANGED <<number, responses, transmissionqueue>>
<1> SUFFICES ASSUME px = "none", [Next]_vars
             PROVE  UNCHANGED <<number, responses, transmissionqueue>>
  BY DEF ThreadJoined
<1> USE DEF queues, locals
<1>1. CASE Run \/ Halt \/ Join \/ WildPointer
  BY <1>1 DEF Run, Halt, Join, WildPointer
<1>2. CASE Registration
  BY <1>2
     DEF Registration, Register, RegisterActive, UnregisterModule, UnregisterCode,
         UnregisterAll, RegistryUndefined, Change
<1>3. ~Process
  BY DEF Process, Compute, TestRunning, PopNothing, PopReception, ParseRejects,
         ParseThrows, Parse, React, ReactAbandons, ReactThrows, ReactDone, Act,
         ActAbandons, ActThrows, ActDone, Serialize, SerializeThrows, PushResponse,
         Goto, Lose
<1>4. ASSUME NEW p \in Packets, Receive(p)
      PROVE  UNCHANGED <<number, responses, transmissionqueue>>
  BY <1>4 DEF Receive
<1>5. CASE UNCHANGED vars
  BY <1>5 DEF vars
<1> QED
  BY <1>1, <1>2, <1>3, <1>4, <1>5 DEF Next

-----------------------------------------------------------------------------
(* The processor among others: what the proofs about RuntimeBroker need of it *)

\* What others do, and a count of calls that covers theirs, leave the invariant alone.
LEMMA OthersStep ==
    ASSUME IInv, calls' \in 0 .. MaxCalls, fault' \in {"none", "terminate", "undefined"},
           UNCHANGED <<isrunning, packetprocessorthread, main, registry, queues, px, locals>>
    PROVE  IInv'
<1> USE DEF IInv, registry, queues, locals
<1>1. TypeOK'
  BY DEF TypeOK
<1>2. ThreadJoined' /\ InHand' /\ PacketsOrdered' /\ ResponsesOrdered'
  BY DEF ThreadJoined, InHand, PacketsOrdered, ResponsesOrdered
<1>3. AnsweredBefore' /\ ResponseOfOnePacket' /\ ResponsesInOrder'
  BY DEF AnsweredBefore, ResponseOfOnePacket, ResponsesInOrder
<1> QED
  BY <1>1, <1>2, <1>3

\* The steps by which packets come and are answered, and those of the caller.
LEMMA WhoAnswers ==
    ASSUME [Next]_vars
    PROVE  /\ \/ UNCHANGED <<received, transmissionqueue>>
              \/ PushResponse \/ \E p \in Packets : Receive(p)
           /\ Run \/ Halt \/ (calls' = calls /\ (main = "idle" => main' = "idle"))
<1> USE DEF caller, registry, queues, locals
<1>1. CASE Run \/ Halt \/ Join \/ WildPointer
  BY <1>1 DEF Run, Halt, Join, WildPointer, Die
<1>2. CASE Registration
  BY <1>2
     DEF Registration, Register, RegisterActive, UnregisterModule, UnregisterCode,
         UnregisterAll, RegistryUndefined, Change
<1>3. CASE Compute
  BY <1>3
     DEF Compute, TestRunning, PopNothing, PopReception, ParseRejects, ParseThrows, Parse,
         React, ReactAbandons, ReactThrows, ReactDone, Act, ActAbandons, ActThrows,
         ActDone, Serialize, SerializeThrows, Goto, Lose
<1>4. CASE PushResponse
  BY <1>4 DEF PushResponse, Goto
<1>5. ASSUME NEW p \in Packets, Receive(p)
      PROVE  calls' = calls /\ main' = main
  BY <1>5 DEF Receive
<1>6. CASE UNCHANGED vars
  BY <1>6 DEF vars
<1> QED
  BY <1>1, <1>2, <1>3, <1>4, <1>5, <1>6 DEF Next, Process

-----------------------------------------------------------------------------

\* The members, and the locals of executetask, keep their types.
THEOREM Typing == Spec => []TypeOK
BY Invariance, PTL DEF IInv

\* A response packet is that of one packet: executetask's vector starts empty and
\* what an exception interrupts is thrown away with it.
THEOREM OneResponse == Spec => []ResponseOfOnePacket
BY Invariance, PTL DEF IInv

\* Response packets are pushed in the order in which their packets came.
THEOREM ResponseOrder == Spec => []ResponsesInOrder
BY Invariance, PTL DEF IInv

\* halt joins the thread, so between it and the next run nothing is taken and
\* nothing is answered.
THEOREM Quiet == Spec => StoppedIsQuiet
<1>1. IInv /\ [Next]_vars =>
        (packetprocessorthread # "thread" =>
            UNCHANGED <<number, responses, transmissionqueue>>)
  BY OnlyThreadAnswers DEF IInv
<1> QED
  BY <1>1, Invariance, PTL DEF Spec, StoppedIsQuiet
=============================================================================
