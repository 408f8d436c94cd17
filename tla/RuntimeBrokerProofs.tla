------------------------- MODULE RuntimeBrokerProofs -------------------------
(***************************************************************************)
(* RuntimeBroker implements CommandService, for any clients, packets and   *)
(* modules.  What the two components keep, each by itself, is proved in    *)
(* WebSocketServerProofs and PacketProcessorProofs; here are what ties     *)
(* them together and the refinement.                                       *)
(***************************************************************************)
EXTENDS RuntimeBroker, SequenceTheorems, TLAPS

SP == INSTANCE WebSocketServerProofs WITH
    isrunning <- serverrunning, transmissionqueue <- outgoing,
    pushed <- Len(responsepackets), main <- servermain,
    calls <- next, MaxCalls <- Len(Program)

PP == INSTANCE PacketProcessorProofs WITH
    isrunning <- processorrunning, transmissionqueue <- responsepackets,
    main <- processormain, calls <- next, MaxCalls <- Len(Program)

-----------------------------------------------------------------------------
(* The inductive invariant *)

\* No connection becomes the operator's twice, and the handle is that of the last.
HandleIsLast ==
    /\ \A i, j \in 1 .. Len(accepted) : accepted[i] = accepted[j] => i = j
    /\ operatorconnectionhandle =
         IF accepted = <<>> THEN NoConnection ELSE accepted[Len(accepted)]

\* Packets came from operators, one after the other.
AskedByOperators ==
    /\ Len(asked) = received
    /\ \A i \in 1 .. Len(asked) : asked[i] \in SP!Accepted

\* A response in hand is on its way to an operator who is not before the one who asked.
ToLaterOperator ==
    tx = "send" =>
        Service!Rank(asked[responsepackets[txpacket][1][1]]) <= Service!Rank(txcon)

\* Where run and the destructors are: the server is started by the first call and
\* halted from the fourth on, and without threads once that has returned.
Phases ==
    /\ servermain = "starting" => next = 1
    /\ servermain \notin {"idle", "starting"} => next >= 4
    /\ next > 4 \/ (next = 4 /\ servermain = "idle") =>
         receptionthread = "null" /\ transmissionthread = "null"

Coupled ==
    asked \in Seq(Connections) /\ HandleIsLast /\ AskedByOperators /\ ToLaterOperator /\ Phases

IInv == SP!IInv /\ PP!IInv /\ Coupled

-----------------------------------------------------------------------------
(* The steps of the broker are steps of its components *)

\* The constants are as the components assume theirs to be.
LEMMA Assumptions ==
    /\ NoConnection \notin Connections
    /\ Len(Program) \in Nat /\ MaxPackets \in Nat
    /\ NoModule \notin Modules /\ NoPacket \notin Packets
    /\ Invalid \cap HeaderOnly = {}
    /\ Commands \in [Packets \ (Invalid \cup HeaderOnly) -> Seq(Codes)]
    /\ SerializerOutcomes \subseteq {"packet", "out_of_range"}
    /\ Len(Program) \in Nat /\ MaxChanges \in Nat /\ MaxPackets \in Nat
  BY BrokerAssumption DEF Program

LEMMA ServerKept == SP!IInv /\ [SP!Next]_(SP!vars) => SP!IInv'
  BY Assumptions, SP!IInvInductive

LEMMA ProcessorKept == PP!IInv /\ [PP!Next]_(PP!vars) => PP!IInv'
  BY Assumptions, PP!IInvInductive

\* WebSocketServer here is the one that WebSocketServerProofs is about.
LEMMA SameServer ==
    /\ Server!Run => SP!Run
    /\ Server!Halt => SP!Halt
    /\ Server!Proceed \/ Server!Setup \/ Server!Handler \/ Server!Transmit
         \/ Server!TornHandle \/ Server!PushTransmission => SP!Next
    /\ \A c \in Connections :
         /\ Server!Accept(c) \/ Server!Settle(c) \/ Server!Leave(c, "open") => SP!Next
         /\ Server!OnMessage(c) => SP!OnMessage(c)
    /\ Server!PushTransmission => SP!PushTransmission
<1> USE DEF Server!members, SP!members, Server!flags, SP!flags, Server!threads,
            SP!threads, Server!operator, SP!operator, Server!network, SP!network,
            Server!queues, SP!queues, Server!caller, SP!caller, Server!reception,
            SP!reception, Server!transmission, SP!transmission, Server!history,
            SP!history, Server!Alive, SP!Alive
<1>1. Server!Run => SP!Run
  BY Zenon
     DEF Server!Run, SP!Run, Server!MainStep, SP!MainStep, Server!NewCall, SP!NewCall
<1>2. Server!Halt => SP!Halt
  BY Zenon
     DEF Server!Halt, SP!Halt, Server!MainStep, SP!MainStep, Server!NewCall, SP!NewCall
<1>3. Server!Proceed => SP!Proceed
  BY Zenon
     DEF Server!Proceed, SP!Proceed, Server!StartTransmission, SP!StartTransmission,
         Server!JoinTransmission, SP!JoinTransmission, Server!StopListening,
         SP!StopListening, Server!CheckConnection, SP!CheckConnection,
         Server!CheckOpen, SP!CheckOpen, Server!CloseOperator, SP!CloseOperator,
         Server!ClearConnection, SP!ClearConnection, Server!JoinReception,
         SP!JoinReception, Server!HaltThrows, SP!HaltThrows, Server!WildPointer,
         SP!WildPointer, Server!MainStep, SP!MainStep, Server!Die, SP!Die
<1>4. Server!Setup => SP!Setup
  BY Zenon
     DEF Server!Setup, SP!Setup, Server!InitAsio, SP!InitAsio, Server!Listen,
         SP!Listen, Server!StartAccept, SP!StartAccept, Server!ServerReturns,
         SP!ServerReturns, Server!RxStep, SP!RxStep
<1>5. Server!Handler => SP!Handler
  BY Zenon
     DEF Server!Handler, SP!Handler, Server!Reject, SP!Reject, Server!BeginAssign,
         SP!BeginAssign, Server!EndAssign, SP!EndAssign, Server!SetConnection,
         SP!SetConnection, Server!OnClose, SP!OnClose, Server!OnCloseStep,
         SP!OnCloseStep, Server!RxStep, SP!RxStep
<1>6. Server!Transmit => SP!Transmit
  BY Zenon
     DEF Server!Transmit, SP!Transmit, Server!TestRunning, SP!TestRunning,
         Server!PopNothing, SP!PopNothing, Server!PopTransmission, SP!PopTransmission,
         Server!CheckOperator, SP!CheckOperator, Server!CopyHandle, SP!CopyHandle,
         Server!Send, SP!Send, Server!SendThrows, SP!SendThrows, Server!TxStep,
         SP!TxStep, Server!Die, SP!Die
<1>7. (Server!TornHandle => SP!TornHandle)
      /\ (Server!PushTransmission => SP!PushTransmission)
  BY Zenon
     DEF Server!TornHandle, SP!TornHandle, Server!PushTransmission,
         SP!PushTransmission, Server!Die, SP!Die
<1>8. ASSUME NEW c \in Connections
      PROVE  /\ Server!Accept(c) => SP!Accept(c)
             /\ Server!Settle(c) => SP!Settle(c)
             /\ Server!Leave(c, "open") => SP!Leave(c, "open")
             /\ Server!OnMessage(c) => SP!OnMessage(c)
  BY Zenon
     DEF Server!Accept, SP!Accept, Server!Settle, SP!Settle, Server!HandshakeFails,
         SP!HandshakeFails, Server!HandshakeDone, SP!HandshakeDone, Server!Leave,
         SP!Leave, Server!OnMessage, SP!OnMessage, Server!Event, SP!Event
<1> QED
  BY <1>1, <1>2, <1>3, <1>4, <1>5, <1>6, <1>7, <1>8, Zenon DEF SP!Next

\* So is PacketProcessor.
LEMMA SameProcessor ==
    /\ Processor!Run => PP!Run
    /\ Processor!Halt => PP!Halt
    /\ Processor!Join \/ Processor!Registration \/ Processor!Compute => PP!Next
    /\ Processor!PushResponse => PP!PushResponse
    /\ \A p \in Packets : Processor!Receive(p) => PP!Receive(p)
  BY Zenon
     DEF Processor!Run, PP!Run, Processor!Halt, PP!Halt, Processor!Join, PP!Join,
         Processor!WildPointer, PP!WildPointer, Processor!Register, PP!Register,
         Processor!RegisterActive, PP!RegisterActive, Processor!CodesOf, PP!CodesOf,
         Processor!UnregisterModule, PP!UnregisterModule, Processor!UnregisterCode,
         PP!UnregisterCode, Processor!UnregisterAll, PP!UnregisterAll,
         Processor!RegistryUndefined, PP!RegistryUndefined, Processor!Change,
         PP!Change, Processor!NewCall, PP!NewCall, Processor!Alive, PP!Alive,
         Processor!Die, PP!Die, Processor!Goto, PP!Goto, Processor!Finish, PP!Finish,
         Processor!Lose, PP!Lose, Processor!TestRunning, PP!TestRunning,
         Processor!PopNothing, PP!PopNothing, Processor!PopReception,
         PP!PopReception, Processor!ParseRejects, PP!ParseRejects,
         Processor!ParseThrows, PP!ParseThrows, Processor!Parse, PP!Parse,
         Processor!InCommands, PP!InCommands, Processor!Reacting, PP!Reacting,
         Processor!React, PP!React, Processor!Abandoning, PP!Abandoning,
         Processor!ReactAbandons, PP!ReactAbandons, Processor!ReactThrows,
         PP!ReactThrows, Processor!ReactDone, PP!ReactDone, Processor!Act, PP!Act,
         Processor!ActAbandons, PP!ActAbandons, Processor!ActThrows, PP!ActThrows,
         Processor!ActDone, PP!ActDone, Processor!Serialize, PP!Serialize,
         Processor!SerializeThrows, PP!SerializeThrows, Processor!PushResponse,
         PP!PushResponse, Processor!Receive, PP!Receive, Processor!Compute,
         PP!Compute, Processor!Registration, PP!Registration, Processor!caller,
         PP!caller, Processor!registry, PP!registry, Processor!queues, PP!queues,
         Processor!locals, PP!locals,
         PP!Next, PP!Process

\* What a step of one component leaves to the other, calls apart.
LEMMA ServerKeepsCalls ==
    ASSUME \/ Server!Proceed \/ Server!Setup \/ Server!Handler \/ Server!Transmit
           \/ Server!TornHandle \/ Server!PushTransmission
           \/ \E c \in Connections :
                Server!Accept(c) \/ Server!Settle(c) \/ Server!OnMessage(c)
                  \/ Server!Leave(c, "open")
    PROVE  next' = next
<1> USE DEF Server!caller
<1>1. CASE Server!Proceed
  BY <1>1
     DEF Server!Proceed, Server!StartTransmission, Server!JoinTransmission,
         Server!StopListening, Server!CheckConnection, Server!CheckOpen,
         Server!CloseOperator, Server!ClearConnection, Server!JoinReception,
         Server!HaltThrows, Server!WildPointer, Server!Die
<1>2. CASE Server!Setup \/ Server!Handler
  BY <1>2
     DEF Server!Setup, Server!InitAsio, Server!Listen, Server!StartAccept,
         Server!ServerReturns, Server!Handler, Server!Reject, Server!BeginAssign,
         Server!EndAssign, Server!SetConnection, Server!OnClose, Server!OnCloseStep,
         Server!RxStep
<1>3. CASE Server!Transmit
  BY <1>3
     DEF Server!Transmit, Server!TestRunning, Server!PopNothing, Server!PopTransmission,
         Server!CheckOperator, Server!CopyHandle, Server!Send, Server!SendThrows,
         Server!TxStep, Server!Die
<1>4. CASE Server!TornHandle \/ Server!PushTransmission
  BY <1>4 DEF Server!TornHandle, Server!PushTransmission, Server!Die
<1>5. ASSUME NEW c \in Connections,
             Server!Accept(c) \/ Server!Settle(c) \/ Server!OnMessage(c)
               \/ Server!Leave(c, "open")
      PROVE  next' = next
  BY <1>5
     DEF Server!Accept, Server!Settle, Server!HandshakeFails, Server!HandshakeDone,
         Server!OnMessage, Server!Leave, Server!Event
<1> QED
  BY <1>1, <1>2, <1>3, <1>4, <1>5

\* The processor alone neither receives nor answers.
LEMMA ProcessorKeepsQueues ==
    ASSUME Processor!Join \/ Processor!Registration \/ Processor!Compute
    PROVE  UNCHANGED <<next, received, responsepackets>>
<1> USE DEF Processor!caller, Processor!queues
<1>1. CASE Processor!Join
  BY <1>1 DEF Processor!Join
<1>2. CASE Processor!Registration
  BY <1>2
     DEF Processor!Registration, Processor!Register, Processor!RegisterActive,
         Processor!UnregisterModule, Processor!UnregisterCode, Processor!UnregisterAll,
         Processor!RegistryUndefined, Processor!Change
<1>3. CASE Processor!Compute
  BY <1>3
     DEF Processor!Compute, Processor!TestRunning, Processor!PopNothing,
         Processor!PopReception, Processor!ParseRejects, Processor!ParseThrows,
         Processor!Parse, Processor!React, Processor!ReactAbandons,
         Processor!ReactThrows, Processor!ReactDone, Processor!Act,
         Processor!ActAbandons, Processor!ActThrows, Processor!ActDone,
         Processor!Serialize, Processor!SerializeThrows, Processor!Goto, Processor!Lose
<1> QED
  BY <1>1, <1>2, <1>3

\* A call of Program.
Calling(first) == Returned /\ next >= first /\ next' = next + 1

\* A step of the server alone, of the processor alone, of both.
ServerStep ==
    /\ UNCHANGED <<processorside, asked>> /\ SP!Next
    /\ next' = next \/ (SP!Run /\ Calling(0) /\ next = 0) \/ (SP!Halt /\ Calling(3))

ProcessorStep ==
    /\ UNCHANGED <<serverside, asked, received, responsepackets>> /\ PP!Next
    /\ next' = next \/ (Calling(1) /\ next # 3)

ReceiveStep(c, p) ==
    /\ PP!Receive(p) /\ SP!OnMessage(c)
    /\ asked' = Append(asked, c) /\ next' = next

RespondStep ==
    /\ PP!PushResponse /\ UNCHANGED asked /\ next' = next
    /\ \/ SP!PushTransmission
       \/ UNCHANGED <<serverside, responsepackets>>

\* The calls, by how many were made before.
LEMMA CallsAre ==
    ASSUME Call, next \in Nat
    PROVE  /\ Returned /\ UNCHANGED asked
           /\ \/ next = 0 /\ UNCHANGED processorside /\ Server!Run
              \/ next >= 1 /\ next # 3 /\ UNCHANGED serverside /\ (Processor!Run \/ Processor!Halt)
              \/ next >= 3 /\ UNCHANGED processorside /\ Server!Halt
<1>1. /\ Len(Program) = 8
      /\ Program[1] = "run server" /\ Program[2] = "run processor"
      /\ Program[3] = "halt processor" /\ Program[5] = "halt processor"
      /\ Program[7] = "halt processor"
      /\ Program[4] = "halt server" /\ Program[6] = "halt server"
      /\ Program[8] = "halt server"
  BY DEF Program
<1>2. Returned /\ UNCHANGED asked /\ next < 8
  BY <1>1, Zenon DEF Call
<1>3. \/ next = 0 /\ next + 1 = 1
      \/ next >= 1 /\ next # 3 /\ (next + 1 = 2 \/ next + 1 = 3 \/ next + 1 = 5 \/ next + 1 = 7)
      \/ next >= 3 /\ (next + 1 = 4 \/ next + 1 = 6 \/ next + 1 = 8)
  BY <1>2
<1>4. \/ next = 0 /\ Program[next + 1] = "run server"
      \/ next >= 1 /\ next # 3 /\ Program[next + 1] \in {"run processor", "halt processor"}
      \/ next >= 3 /\ Program[next + 1] = "halt server"
  BY <1>1, <1>3, Zenon
<1>5. Program[next + 1] = "run server" => UNCHANGED processorside /\ Server!Run
  BY Zenon DEF Call
<1>6. Program[next + 1] = "run processor" => UNCHANGED serverside /\ Processor!Run
  BY Zenon DEF Call
<1>7. Program[next + 1] = "halt processor" => UNCHANGED serverside /\ Processor!Halt
  BY Zenon DEF Call
<1>8. Program[next + 1] = "halt server" => UNCHANGED processorside /\ Server!Halt
  BY Zenon DEF Call
<1> QED
  BY <1>2, <1>4, <1>5, <1>6, <1>7, <1>8

\* There are no other steps.
LEMMA Steps ==
    ASSUME [Next]_vars, next \in Nat
    PROVE  \/ ServerStep \/ ProcessorStep \/ RespondStep \/ UNCHANGED vars
           \/ \E c \in Connections, p \in Packets : ReceiveStep(c, p)
<1>1. CASE Call
  <2>1. CASE next = 0 /\ UNCHANGED processorside /\ Server!Run
    <3>1. SP!Run /\ SP!Next /\ next' = next + 1
      BY <2>1, SameServer DEF SP!Next, SP!Run, SP!NewCall
    <3> QED
      BY <1>1, <2>1, <3>1, CallsAre DEF ServerStep, Calling
  <2>2. CASE next >= 1 /\ next # 3 /\ UNCHANGED serverside /\ (Processor!Run \/ Processor!Halt)
    <3>1. PP!Next /\ next' = next + 1
      BY <2>2, SameProcessor DEF PP!Next, PP!Run, PP!Halt, PP!NewCall
    <3>2. UNCHANGED <<received, responsepackets>>
      BY <2>2 DEF Processor!Run, Processor!Halt, Processor!queues
    <3> QED
      BY <1>1, <2>2, <3>1, <3>2, CallsAre DEF ProcessorStep, Calling
  <2>3. CASE next >= 3 /\ UNCHANGED processorside /\ Server!Halt
    <3>1. SP!Halt /\ SP!Next /\ next' = next + 1
      BY <2>3, SameServer DEF SP!Next, SP!Halt, SP!NewCall
    <3> QED
      BY <1>1, <2>3, <3>1, CallsAre DEF ServerStep, Calling
  <2> QED
    BY <1>1, <2>1, <2>2, <2>3, CallsAre
<1>2. CASE \/ Alone(Server!Proceed) \/ Alone(Server!Setup) \/ Alone(Server!Handler)
           \/ Alone(Server!Transmit) \/ Alone(Server!TornHandle)
  BY <1>2, SameServer, ServerKeepsCalls DEF Alone, ServerStep
<1>3. ASSUME NEW c \in Connections,
             Alone(\/ Server!Accept(c) \/ Server!Settle(c) \/ Server!OnMessage(c)
                   \/ Server!Leave(c, "open"))
      PROVE  ServerStep
  <2>1. SP!OnMessage(c) => SP!Next
    BY DEF SP!Next
  <2> QED
    BY <1>3, <2>1, SameServer, ServerKeepsCalls DEF Alone, ServerStep
<1>4. CASE \/ ProcessorAlone(Processor!Join) \/ ProcessorAlone(Processor!Registration)
           \/ ProcessorAlone(Processor!Compute)
  BY <1>4, SameProcessor, ProcessorKeepsQueues DEF ProcessorAlone, ProcessorStep
<1>5. ASSUME NEW c \in Connections, NEW p \in Packets, Receive(c, p)
      PROVE  ReceiveStep(c, p)
  BY <1>5, SameServer, SameProcessor, ServerKeepsCalls DEF Receive, ReceiveStep
<1>6. CASE Respond
  <2>1. PP!PushResponse /\ UNCHANGED asked
    BY <1>6, SameProcessor DEF Respond
  <2>2. next' = next
    BY <1>6 DEF Respond, Processor!PushResponse, Processor!Goto, Processor!caller
  <2>3. SP!PushTransmission \/ UNCHANGED <<serverside, responsepackets>>
    BY <1>6, SameServer DEF Respond
  <2> QED
    BY <2>1, <2>2, <2>3 DEF RespondStep
<1>7. CASE UNCHANGED vars
  BY <1>7
<1> QED
  BY <1>1, <1>2, <1>3, <1>4, <1>5, <1>6, <1>7 DEF Next, Halting

-----------------------------------------------------------------------------
(* What the invariant says of numbers and ranks *)

\* The packet that a response answers came from someone.
LEMMA AnsweredWasAsked ==
    ASSUME PP!IInv, AskedByOperators, NEW k \in 1 .. Len(responsepackets)
    PROVE  responsepackets[k][1][1] \in 1 .. Len(asked)
<1>1. responsepackets \in Seq(Seq(PP!Entry)) /\ received \in Nat
  BY Assumptions DEF PP!IInv, PP!TypeOK
<1>2. responsepackets[k] \in Seq(PP!Entry) /\ responsepackets[k] # <<>>
  BY <1>1, ElementOfSeq DEF PP!IInv, PP!ResponseOfOnePacket, PP!OfOnePacket
<1>3. responsepackets[k][1] \in PP!Entry
  BY <1>2, ElementOfSeq
<1>4. responsepackets[k][1][1] \in 1 .. MaxPackets
  BY <1>3 DEF PP!Entry
<1>5. responsepackets[k][1][1] <= received
  BY DEF PP!IInv, PP!AnsweredBefore
<1> QED
  BY <1>1, <1>4, <1>5, Assumptions DEF AskedByOperators

\* So it is for the packet in hand, and for every packet sent.
LEMMA PacketsAreResponses ==
    ASSUME SP!IInv
    PROVE  /\ tx \in {"copy", "send"} => txpacket \in 1 .. Len(responsepackets)
           /\ \A i \in 1 .. Len(sent) :
                /\ sent[i][1] \in 1 .. Len(responsepackets)
                /\ sent[i][2] \in Connections
<1> USE Assumptions DEF SP!IInv, SP!TypeOK, SP!PacketsOrdered
<1>1. tx \in {"copy", "send"} => txpacket \in 1 .. Len(responsepackets)
  OBVIOUS
<1>2. ASSUME NEW i \in 1 .. Len(sent)
      PROVE  sent[i][1] \in 1 .. Len(responsepackets) /\ sent[i][2] \in Connections
  <2>1. sent[i] \in (1 .. MaxPackets) \X Connections
    BY ElementOfSeq
  <2> QED
    BY <2>1
<1> QED
  BY <1>1, <1>2

\* The rank of an operator is its place.
LEMMA RankIs ==
    ASSUME HandleIsLast, NEW i \in 1 .. Len(accepted)
    PROVE  Service!Rank(accepted[i]) = i
BY DEF HandleIsLast, Service!Rank

\* Those who asked have one.
LEMMA RankOf ==
    ASSUME HandleIsLast, NEW c \in SP!Accepted
    PROVE  Service!Rank(c) \in 1 .. Len(accepted) /\ accepted[Service!Rank(c)] = c
<1>1. PICK i \in 1 .. Len(accepted) : c = accepted[i]
  BY DEF SP!Accepted
<1> QED
  BY <1>1, RankIs

\* It is kept when another becomes the operator.
LEMMA RankKept ==
    ASSUME SP!TypeOK, HandleIsLast, HandleIsLast', NEW c \in SP!Accepted, NEW d,
           accepted' = Append(accepted, d) \/ accepted' = accepted
    PROVE  c \in SP!Accepted' /\ Service!Rank(c)' = Service!Rank(c)
<1>1. accepted \in Seq(Connections)
  BY DEF SP!TypeOK
<1>2. PICK i \in 1 .. Len(accepted) : c = accepted[i]
  BY DEF SP!Accepted
<1>3. i \in 1 .. Len(accepted)' /\ accepted'[i] = c
  BY <1>1, <1>2
<1>4. Service!Rank(c) = i
  BY <1>2, RankIs
<1>5. Service!Rank(c)' = i
  BY <1>3 DEF HandleIsLast, Service!Rank
<1> QED
  BY <1>3, <1>4, <1>5 DEF SP!Accepted

-----------------------------------------------------------------------------
(* The invariant is inductive *)

\* Each component's part is its own.
LEMMA PartsInductive ==
    SP!IInv /\ PP!IInv /\ [Next]_vars => SP!IInv' /\ PP!IInv'
<1> SUFFICES ASSUME SP!IInv, PP!IInv, [Next]_vars
             PROVE  SP!IInv' /\ PP!IInv'
  OBVIOUS
<1>1. next \in Nat
  BY Assumptions DEF SP!IInv, SP!TypeOK
<1>2. CASE ServerStep
  <2>1. SP!IInv'
    BY <1>2, ServerKept DEF ServerStep
  <2>2. next' \in 0 .. Len(Program) /\ fault' \in {"none", "terminate", "undefined"}
    BY <2>1 DEF SP!IInv, SP!TypeOK
  <2>3. PP!IInv'
    BY <1>2, <2>2, Assumptions, PP!OthersStep
       DEF ServerStep, processorside, PP!registry, PP!queues, PP!locals
  <2> QED
    BY <2>1, <2>3
<1>3. CASE ProcessorStep
  <2>1. PP!IInv'
    BY <1>3, ProcessorKept DEF ProcessorStep
  <2>2. next' \in 0 .. Len(Program) /\ fault' \in {"none", "terminate", "undefined"}
    BY <2>1 DEF PP!IInv, PP!TypeOK
  <2>3. SP!IInv'
    BY <1>3, <2>2, Assumptions, SP!OthersStep
       DEF ProcessorStep, serverside, SP!members, SP!network, SP!queues, SP!reception,
           SP!transmission, SP!history
  <2> QED
    BY <2>1, <2>3
<1>4. CASE RespondStep
  <2>1. PP!IInv'
    BY <1>4, ProcessorKept DEF RespondStep, PP!Next, PP!Process
  <2>2. next' \in 0 .. Len(Program) /\ fault' \in {"none", "terminate", "undefined"}
    BY <2>1 DEF PP!IInv, PP!TypeOK
  <2>3. CASE SP!PushTransmission
    BY <2>1, <2>3, ServerKept DEF SP!Next
  <2>4. CASE UNCHANGED <<serverside, responsepackets>>
    BY <2>1, <2>2, <2>4, Assumptions, SP!OthersStep
       DEF serverside, SP!members, SP!network, SP!queues, SP!reception,
           SP!transmission, SP!history
  <2> QED
    BY <1>4, <2>3, <2>4 DEF RespondStep
<1>5. ASSUME NEW c \in Connections, NEW p \in Packets, ReceiveStep(c, p)
      PROVE  SP!IInv' /\ PP!IInv'
  BY <1>5, ServerKept, ProcessorKept DEF ReceiveStep, SP!Next, PP!Next
<1>6. CASE UNCHANGED vars
  <2>1. UNCHANGED SP!vars
    BY <1>6
       DEF vars, serverside, processorside, SP!vars, SP!members, SP!network, SP!queues,
           SP!caller, SP!reception, SP!transmission, SP!history
  <2>2. UNCHANGED PP!vars
    BY <1>6
       DEF vars, serverside, processorside, PP!vars, PP!caller, PP!registry, PP!queues,
           PP!locals
  <2> QED
    BY <2>1, <2>2, ServerKept, ProcessorKept
<1> QED
  BY <1>1, <1>2, <1>3, <1>4, <1>5, <1>6, Steps

\* A step that changes neither the server nor who asked leaves what ties them.
LEMMA CoupledKept ==
    ASSUME SP!IInv, PP!IInv, Coupled,
           UNCHANGED <<serverside, asked, received>>,
           \A k \in 1 .. Len(responsepackets) : responsepackets'[k] = responsepackets[k],
           Phases'
    PROVE  Coupled'
<1> USE DEF Coupled, serverside
<1>1. HandleIsLast' /\ (asked \in Seq(Connections))'
  BY DEF HandleIsLast
<1>2. AskedByOperators'
  BY DEF AskedByOperators, SP!Accepted
<1>3. ToLaterOperator'
  BY PacketsAreResponses, ZenonT(40) DEF ToLaterOperator, Service!Rank
<1> QED
  BY <1>1, <1>2, <1>3

\* A packet that is received comes from a connection made the operator's; the
\* responses in hand are to packets before it.
LEMMA ReceiveCoupled ==
    ASSUME SP!IInv, PP!IInv, Coupled, NEW c \in Connections, NEW p \in Packets,
           ReceiveStep(c, p)
    PROVE  Coupled' /\ c \in SP!Accepted
<1> USE DEF Coupled
<1>1. /\ UNCHANGED <<servermain, receptionthread, transmissionthread, accepted,
                     operatorconnectionhandle, tx, txpacket, txcon>>
      /\ rx = "run" /\ connection[c] = "open" /\ next' = next
      /\ received' = received + 1 /\ UNCHANGED responsepackets
      /\ asked' = Append(asked, c)
  BY DEF ReceiveStep, SP!OnMessage, SP!Event, SP!members, SP!reception, SP!transmission,
         SP!caller, PP!Receive
<1>2. c \in SP!Accepted
  BY <1>1 DEF SP!IInv, SP!AcceptedLive
<1>3. HandleIsLast' /\ Phases'
  BY <1>1 DEF HandleIsLast, Phases
<1>4. asked' \in Seq(Connections) /\ Len(asked') = Len(asked) + 1
      /\ asked'[Len(asked) + 1] = c
  BY <1>1
<1>5. \A i \in 1 .. Len(asked) : asked'[i] = asked[i]
  BY <1>1
<1>6. AskedByOperators'
  <2>1. SP!Accepted' = SP!Accepted
    BY <1>1 DEF SP!Accepted
  <2>2. Len(asked') = received'
    BY <1>1, <1>4 DEF AskedByOperators
  <2>3. ASSUME NEW i \in 1 .. Len(asked')
        PROVE  asked'[i] \in SP!Accepted
    BY <1>2, <1>4, <1>5 DEF AskedByOperators
  <2> QED
    BY <2>1, <2>2, <2>3 DEF AskedByOperators
<1>7. ToLaterOperator'
  <2>1. ASSUME tx = "send"
        PROVE  /\ responsepackets[txpacket][1][1] \in 1 .. Len(asked)
               /\ Service!Rank(asked[responsepackets[txpacket][1][1]])
                    <= Service!Rank(txcon)
    BY <2>1, PacketsAreResponses, AnsweredWasAsked DEF ToLaterOperator
  <2> QED
    BY <1>1, <1>5, <2>1, ZenonT(40) DEF ToLaterOperator, Service!Rank
<1> QED
  BY <1>2, <1>3, <1>4, <1>6, <1>7

\* Where run and the destructors are after a step of the server.
LEMMA ServerPhases == SP!IInv /\ Phases /\ ServerStep => Phases'
<1> SUFFICES ASSUME SP!IInv, Phases, ServerStep
             PROVE  Phases'
  OBVIOUS
<1> USE DEF Phases
<1>1. next \in 0 .. Len(Program) /\ next \in Nat
  BY Assumptions DEF SP!IInv, SP!TypeOK
<1>2. CASE SP!Run
  <2>1. next' = next + 1 /\ servermain = "idle" /\ servermain' = "starting"
    BY <1>2 DEF SP!Run, SP!NewCall, SP!MainStep
  <2>2. next = 0
    BY <1>1, <1>2, <2>1 DEF ServerStep, SP!Halt, SP!MainStep
  <2> QED
    BY <2>1, <2>2
<1>3. CASE SP!Halt
  <2>1. /\ next' = next + 1 /\ servermain = "idle" /\ servermain' = "join_transmission"
        /\ UNCHANGED <<receptionthread, transmissionthread>>
    BY <1>3 DEF SP!Halt, SP!NewCall, SP!MainStep, SP!threads
  <2>2. next >= 3
    BY <1>1, <1>3, <2>1 DEF ServerStep, SP!Run, SP!MainStep, Calling
  <2> QED
    BY <1>1, <2>1, <2>2
<1>4. CASE ~SP!Run /\ ~SP!Halt
  <2>1. /\ next' = next
        /\ \/ servermain' = servermain /\ UNCHANGED SP!threads
           \/ servermain = "starting" /\ servermain' = "idle"
           \/ /\ servermain \notin {"idle", "starting"} /\ servermain' # "starting"
              /\ transmissionthread' = "null"
              /\ receptionthread = "null" => receptionthread' = "null"
              /\ servermain' = "idle" => receptionthread' = "null"
    BY <1>4, Assumptions, SP!WhoCalls DEF ServerStep, SP!IInv
  <2>2. CASE servermain' = servermain /\ UNCHANGED SP!threads
    BY <2>1, <2>2 DEF SP!threads
  <2>3. CASE servermain = "starting" /\ servermain' = "idle"
    BY <2>1, <2>3
  <2>4. CASE /\ servermain \notin {"idle", "starting"} /\ servermain' # "starting"
             /\ transmissionthread' = "null"
             /\ receptionthread = "null" => receptionthread' = "null"
             /\ servermain' = "idle" => receptionthread' = "null"
    BY <1>1, <2>1, <2>4
  <2> QED
    BY <2>1, <2>2, <2>3, <2>4
<1> QED
  BY <1>2, <1>3, <1>4

\* A step of the server alone: a new operator comes last, and a response sets out for
\* the last one.
LEMMA ServerCoupled ==
    ASSUME SP!IInv, PP!IInv, Coupled, ServerStep
    PROVE  Coupled'
<1> USE DEF Coupled
<1>1. /\ UNCHANGED <<asked, received, responsepackets>>
      /\ SP!Next
  BY DEF ServerStep, processorside
<1>2. Phases'
  BY ServerPhases
<1>3. accepted \in Seq(Connections) /\ Len(accepted) \in Nat
  BY DEF SP!IInv, SP!TypeOK
<1>4. \A i \in 1 .. Len(asked) :
        /\ asked[i] \in SP!Accepted
        /\ Service!Rank(asked[i]) \in 1 .. Len(accepted)
  BY RankOf DEF AskedByOperators
<1>5. tx \in {"copy", "send"} => responsepackets[txpacket][1][1] \in 1 .. Len(asked)
  BY PacketsAreResponses, AnsweredWasAsked
<1>6. CASE /\ UNCHANGED <<accepted, sent, operatorconnectionhandle>>
           /\ tx' = "send" => UNCHANGED SP!transmission
  <2>1. HandleIsLast' /\ AskedByOperators'
    BY <1>1, <1>6 DEF HandleIsLast, AskedByOperators, SP!Accepted
  <2>2. ToLaterOperator'
    BY <1>1, <1>6 DEF ToLaterOperator, Service!Rank, SP!transmission
  <2> QED
    BY <1>1, <1>2, <2>1, <2>2
<1>7. CASE SP!EndAssign
  <2>1. /\ accepted' = Append(accepted, rxcon) /\ operatorconnectionhandle' = rxcon
        /\ UNCHANGED <<tx, txpacket, txcon>> /\ rx = "assigning"
    BY <1>7 DEF SP!EndAssign, SP!RxStep, SP!transmission
  <2>2. rxcon \in Connections /\ rxcon \notin SP!Accepted
    BY <2>1 DEF SP!IInv, SP!TypeOK, SP!HandlerMeets
  <2>3. /\ Len(accepted') = Len(accepted) + 1 /\ accepted'[Len(accepted) + 1] = rxcon
        /\ \A i \in 1 .. Len(accepted) : accepted'[i] = accepted[i]
    BY <1>3, <2>1, <2>2
  <2>4. HandleIsLast'
    <3>1. ASSUME NEW i \in 1 .. Len(accepted'), NEW j \in 1 .. Len(accepted'),
                 accepted'[i] = accepted'[j]
          PROVE  i = j
      <4>1. \A k \in 1 .. Len(accepted) : accepted'[k] # rxcon
        BY <2>2, <2>3 DEF SP!Accepted
      <4>2. CASE i \in 1 .. Len(accepted) /\ j \in 1 .. Len(accepted)
        BY <2>3, <3>1, <4>2 DEF HandleIsLast
      <4>3. CASE i = Len(accepted) + 1 \/ j = Len(accepted) + 1
        BY <1>3, <2>3, <3>1, <4>1, <4>3
      <4> QED
        BY <1>3, <2>3, <4>2, <4>3
    <3>2. accepted' # <<>> /\ accepted'[Len(accepted')] = operatorconnectionhandle'
      BY <1>3, <2>1, <2>3
    <3> QED
      BY <3>1, <3>2 DEF HandleIsLast
  <2>5. \A c \in SP!Accepted : c \in SP!Accepted' /\ Service!Rank(c)' = Service!Rank(c)
    BY <2>1, <2>4, RankKept DEF SP!IInv
  <2>6. AskedByOperators'
    BY <1>1, <1>4, <2>5 DEF AskedByOperators
  <2>7. ToLaterOperator'
    <3>1. ASSUME tx = "send"
          PROVE  txcon \in SP!Accepted
      BY <3>1 DEF SP!IInv, SP!HandleAccepted
    <3> QED
      BY <1>1, <1>4, <1>5, <2>1, <2>5, <3>1 DEF ToLaterOperator
  <2> QED
    BY <1>1, <1>2, <2>4, <2>6, <2>7
<1>8. CASE SP!CopyHandle
  <2>1. /\ UNCHANGED <<accepted, operatorconnectionhandle, txpacket>>
        /\ tx = "copy" /\ txcon' = operatorconnectionhandle
    BY <1>8 DEF SP!CopyHandle, SP!TxStep, SP!members
  <2>2. HandleIsLast' /\ AskedByOperators'
    BY <1>1, <2>1 DEF HandleIsLast, AskedByOperators, SP!Accepted
  <2>3. accepted # <<>> /\ operatorconnectionhandle = accepted[Len(accepted)]
    BY <2>1 DEF SP!IInv, SP!HandleAccepted, HandleIsLast
  <2>4. Service!Rank(operatorconnectionhandle) = Len(accepted)
    BY <1>3, <2>3, RankIs
  <2>5. Service!Rank(asked[responsepackets[txpacket][1][1]])
          <= Service!Rank(operatorconnectionhandle)
    BY <1>3, <1>4, <1>5, <2>1, <2>4
  <2>6. ToLaterOperator'
    BY <1>1, <2>1, <2>5 DEF ToLaterOperator, Service!Rank
  <2> QED
    BY <1>1, <1>2, <2>2, <2>6
<1>9. CASE SP!Send
  <2>1. UNCHANGED <<accepted, operatorconnectionhandle>> /\ tx' = "test"
    BY <1>9 DEF SP!Send, SP!TxStep, SP!members
  <2> QED
    BY <1>1, <1>2, <2>1
       DEF HandleIsLast, AskedByOperators, SP!Accepted, ToLaterOperator
<1> QED
  BY <1>1, <1>6, <1>7, <1>8, <1>9, Assumptions, SP!WhoServes

\* What ties them is kept by every step.
LEMMA CoupledInductive ==
    SP!IInv /\ PP!IInv /\ Coupled /\ [Next]_vars => Coupled'
<1> SUFFICES ASSUME SP!IInv, PP!IInv, Coupled, [Next]_vars
             PROVE  Coupled'
  OBVIOUS
<1>1. next \in Nat
  BY Assumptions DEF SP!IInv, SP!TypeOK
<1>2. CASE ProcessorStep
  <2>1. Phases'
    BY <1>1, <1>2 DEF Coupled, Phases, ProcessorStep, Calling, Returned, serverside
  <2> QED
    BY <1>2, <2>1, CoupledKept DEF ProcessorStep
<1>3. CASE RespondStep
  <2>1. UNCHANGED <<next, asked, received>>
    BY <1>3 DEF RespondStep, PP!PushResponse
  <2>2. UNCHANGED <<servermain, receptionthread, transmissionthread, accepted,
                    operatorconnectionhandle, tx, txpacket, txcon>>
    BY <1>3
       DEF RespondStep, SP!PushTransmission, SP!members, SP!caller, SP!transmission,
           SP!history, serverside
  <2>3. \A k \in 1 .. Len(responsepackets) : responsepackets'[k] = responsepackets[k]
    <3>1. responsepackets \in Seq(Seq(PP!Entry))
      BY DEF PP!IInv, PP!TypeOK
    <3> QED
      BY <1>3, <3>1 DEF RespondStep, PP!PushResponse
  <2>4. Phases' /\ HandleIsLast' /\ AskedByOperators' /\ (asked \in Seq(Connections))'
    BY <2>1, <2>2
       DEF Coupled, Phases, HandleIsLast, AskedByOperators, SP!Accepted
  <2>5. ToLaterOperator'
    BY <2>1, <2>2, <2>3, PacketsAreResponses DEF Coupled, ToLaterOperator, Service!Rank
  <2> QED
    BY <2>4, <2>5 DEF Coupled
<1>4. CASE UNCHANGED vars
  BY <1>4, CoupledKept DEF Coupled, Phases, vars, serverside, processorside
<1> QED
  BY <1>1, <1>2, <1>3, <1>4, Steps, ServerCoupled, ReceiveCoupled

\* All of it together.
LEMMA IInvInductive == IInv /\ [Next]_vars => IInv'
BY PartsInductive, CoupledInductive DEF IInv

\* It holds at the start.
LEMMA InitIInv == Init => IInv
<1> SUFFICES ASSUME Init
             PROVE  IInv
  OBVIOUS
<1>1. SP!IInv
  <2>1. SP!Init
    BY Zenon DEF Init, Server!Init, SP!Init
  <2> QED
    BY <2>1, Assumptions, SP!InitIInv
<1>2. PP!IInv
  <2>1. PP!Init
    BY Zenon DEF Init, Processor!Init, PP!Init
  <2> QED
    BY <2>1, Assumptions, PP!InitIInv
<1>3. Coupled
  BY DEF Init, Server!Init, Processor!Init, Coupled, HandleIsLast, AskedByOperators,
         ToLaterOperator, Phases
<1> QED
  BY <1>1, <1>2, <1>3 DEF IInv

\* So it holds for as long as the broker lives.
LEMMA Invariance == Spec => []IInv
BY InitIInv, IInvInductive, PTL DEF Spec

-----------------------------------------------------------------------------
(* The broker serves *)

Answers == [i \in 1 .. Len(sent) |-> <<responsepackets[sent[i][1]][1][1], sent[i][2]>>]

\* run does not return twice, and once it has the server has no threads.
LEMMA ReturnedForGood ==
    ASSUME IInv, [Next]_vars, RunReturned
    PROVE  RunReturned' /\ rx = "none" /\ tx = "none"
<1> USE DEF IInv, Coupled
<1>1. next \in Nat
  BY Assumptions DEF SP!IInv, SP!TypeOK
<1>2. rx = "none" /\ tx = "none"
  BY <1>1 DEF RunReturned, Returned, Phases, SP!IInv, SP!ThreadsJoined
<1> SUFFICES RunReturned'
  BY <1>2
<1>3. CASE ServerStep
  <2>1. UNCHANGED processormain
    BY <1>3 DEF ServerStep, processorside
  <2>2. CASE next' = next
    <3>1. servermain = "idle" => servermain' = "idle"
      <4>1. ~SP!Run /\ ~SP!Halt
        BY <1>1, <2>2 DEF SP!Run, SP!Halt, SP!NewCall
      <4>2. SP!ThreadsJoined /\ SP!Next
        BY <1>3 DEF ServerStep, SP!IInv
      <4> QED
        BY <4>1, <4>2, Assumptions, SP!WhoCalls
    <3> QED
      BY <1>1, <2>1, <2>2, <3>1 DEF RunReturned, Returned
  <2>3. CASE next' # next
    BY <1>1, <1>3, <2>3 DEF ServerStep, Calling, RunReturned
  <2> QED
    BY <2>2, <2>3
<1>4. CASE ProcessorStep
  <2>1. UNCHANGED servermain
    BY <1>4 DEF ProcessorStep, serverside
  <2>2. CASE next' = next
    <3>1. processormain = "idle" => processormain' = "idle"
      <4>1. ~PP!Run /\ ~PP!Halt
        BY <1>1, <2>2 DEF PP!Run, PP!Halt, PP!NewCall
      <4>2. PP!Next
        BY <1>4 DEF ProcessorStep
      <4> QED
        BY <4>1, <4>2, Assumptions, PP!WhoAnswers
    <3> QED
      BY <1>1, <2>1, <2>2, <3>1 DEF RunReturned, Returned
  <2>3. CASE next' # next
    BY <1>1, <1>4, <2>3 DEF ProcessorStep, Calling, RunReturned
  <2> QED
    BY <2>2, <2>3
<1>5. CASE RespondStep
  <2>1. UNCHANGED <<next, processormain>>
    BY <1>5 DEF RespondStep, PP!PushResponse, PP!Goto, PP!caller
  <2>2. UNCHANGED servermain
    BY <1>5 DEF RespondStep, SP!PushTransmission, SP!caller, serverside
  <2> QED
    BY <2>1, <2>2 DEF RunReturned, Returned
<1>6. ASSUME NEW c \in Connections, NEW p \in Packets, ReceiveStep(c, p)
      PROVE  RunReturned'
  BY <1>6 DEF ReceiveStep, SP!OnMessage, SP!Event, SP!caller, PP!Receive, PP!caller,
              RunReturned, Returned
<1>7. CASE UNCHANGED vars
  BY <1>7 DEF vars, serverside, processorside, RunReturned, Returned
<1> QED
  BY <1>1, <1>2, <1>3, <1>4, <1>5, <1>6, <1>7, Steps

\* As long as it does the rest is not touched, a step may be one of stopping.
LEMMA Quietly ==
    ASSUME IInv, [Next]_vars, UNCHANGED <<accepted, asked, Answers>>
    PROVE  [Service!Next]_(Service!vars)
<1>1. RunReturned \in BOOLEAN /\ RunReturned' \in BOOLEAN
  BY Zenon DEF RunReturned
<1>2. CASE RunReturned'
  <2>1. RunReturned' = TRUE
    BY <1>1, <1>2
  <2>2. Service!Stop
    BY <2>1, Zenon DEF Answers, Service!Stop
  <2> QED
    BY <2>2 DEF Service!Next
<1>3. CASE ~RunReturned'
  <2>1. ~RunReturned
    BY <1>3, ReturnedForGood
  <2>2. RunReturned' = RunReturned
    BY <1>1, <1>3, <2>1
  <2> QED
    BY <2>2, Zenon DEF Answers, Service!vars
<1> QED
  BY <1>2, <1>3

\* An answer is not changed by later ones.
LEMMA AnswersKept ==
    ASSUME IInv, UNCHANGED sent,
           \A k \in 1 .. Len(responsepackets) : responsepackets'[k] = responsepackets[k]
    PROVE  UNCHANGED Answers
BY PacketsAreResponses, Zenon DEF IInv, Answers

(***************************************************************************)
(* Steps of the broker are steps of the service: onopen's assignment of    *)
(* the handle connects an operator, a packet that is queued is a request,  *)
(* and a send that succeeds is the answer.  Any other only stops it, or    *)
(* does not touch it.                                                      *)
(***************************************************************************)
LEMMA AssignConnects ==
    ASSUME IInv, [Next]_vars, ServerStep, SP!EndAssign
    PROVE  \E c \in Connections : Service!Connect(c)
<1> USE DEF IInv
<1>1. /\ rx = "assigning" /\ accepted' = Append(accepted, rxcon)
      /\ UNCHANGED <<sent, servermain, next>>
  BY DEF SP!EndAssign, SP!RxStep, SP!caller
<1>2. UNCHANGED <<asked, responsepackets, processormain>>
  BY DEF ServerStep, processorside
<1>3. rxcon \in Connections /\ rxcon \notin SP!Accepted
  BY <1>1 DEF SP!IInv, SP!TypeOK, SP!HandlerMeets
<1>4. ~Service!Known(rxcon)
  BY <1>3 DEF Service!Known, SP!Accepted
<1>5. ~RunReturned
  BY <1>1, ReturnedForGood
<1>6. RunReturned' = RunReturned
  BY <1>1, <1>2 DEF RunReturned, Returned
<1>7. UNCHANGED Answers
  BY <1>1, <1>2 DEF Answers
<1> QED
  BY <1>1, <1>2, <1>3, <1>4, <1>5, <1>6, <1>7 DEF Service!Connect, Answers

\* onmessage is a request of an operator.
LEMMA ReceiveRequests ==
    ASSUME IInv, [Next]_vars, NEW c \in Connections, NEW p \in Packets, ReceiveStep(c, p)
    PROVE  Service!Request(c)
<1> USE DEF IInv
<1>1. /\ rx = "run" /\ asked' = Append(asked, c)
      /\ UNCHANGED <<accepted, sent, servermain, next, processormain, responsepackets>>
  BY DEF ReceiveStep, SP!OnMessage, SP!Event, SP!caller, PP!Receive, PP!caller
<1>2. Service!Known(c)
  BY ReceiveCoupled DEF Service!Known, SP!Accepted
<1>3. ~RunReturned
  BY <1>1, ReturnedForGood
<1>4. RunReturned' = RunReturned
  BY <1>1 DEF RunReturned, Returned
<1>5. UNCHANGED Answers
  BY <1>1 DEF Answers
<1> QED
  BY <1>1, <1>2, <1>3, <1>4, <1>5 DEF Service!Request, Answers

\* send is the answer to the packet that the response in hand answers.
LEMMA SendAnswers ==
    ASSUME IInv, [Next]_vars, ServerStep, SP!Send
    PROVE  \E c \in Connections, n \in 1 .. Len(asked) : Service!Answer(n, c)
<1> DEFINE n == responsepackets[txpacket][1][1]
<1> USE DEF IInv, Coupled
<1>1. /\ tx = "send" /\ sent' = Append(sent, <<txpacket, txcon>>)
      /\ UNCHANGED <<accepted, servermain, next>>
  BY DEF SP!Send, SP!TxStep, SP!caller
<1>2. UNCHANGED <<asked, responsepackets, processormain>>
  BY DEF ServerStep, processorside
<1>3. txpacket \in 1 .. Len(responsepackets) /\ n \in 1 .. Len(asked)
  BY <1>1, PacketsAreResponses, AnsweredWasAsked
<1>4. txcon \in SP!Accepted /\ txcon \in Connections
  BY <1>1, SP!AcceptedType, Assumptions DEF SP!IInv, SP!HandleAccepted
<1>5. Service!Known(txcon)
  BY <1>4 DEF Service!Known, SP!Accepted
<1>6. Service!Rank(asked[n]) <= Service!Rank(txcon)
  BY <1>1 DEF ToLaterOperator
<1>7. ~RunReturned
  BY <1>1, ReturnedForGood
<1>8. RunReturned' = RunReturned
  BY <1>1, <1>2 DEF RunReturned, Returned
<1>9. sent \in Seq((1 .. MaxPackets) \X Connections)
  BY Assumptions DEF SP!IInv, SP!TypeOK
<1>10. \A i \in 1 .. Len(sent) : responsepackets[sent[i][1]][1][1] < n
  <2>1. ASSUME NEW i \in 1 .. Len(sent)
        PROVE  responsepackets[sent[i][1]][1][1] < n
    <3>1. sent[i][1] < txpacket
      BY <1>3 DEF SP!IInv, SP!PacketsOrdered
    <3>2. sent[i][1] \in 1 .. Len(responsepackets)
      BY PacketsAreResponses
    <3> QED
      BY <1>3, <3>1, <3>2 DEF PP!IInv, PP!ResponsesInOrder
  <2> QED
    BY <2>1
<1>11. Answers' = Append(Answers, <<n, txcon>>)
  <2> DEFINE Answer == (1 .. Len(asked)) \X Connections
  <2>1. \A i \in 1 .. Len(sent) :
          <<responsepackets[sent[i][1]][1][1], sent[i][2]>> \in Answer
    BY PacketsAreResponses, AnsweredWasAsked
  <2>2. Answers \in Seq(Answer) /\ Len(Answers) = Len(sent)
    BY <1>9, <2>1 DEF Answers
  <2>3. Len(sent') = Len(sent) + 1 /\ sent'[Len(sent) + 1] = <<txpacket, txcon>>
        /\ \A i \in 1 .. Len(sent) : sent'[i] = sent[i]
    BY <1>1, <1>9
  <2>4. Len(sent) \in Nat
    BY <1>9
  <2>5. /\ Answers' = [i \in 1 .. Len(sent) + 1 |-> Answers'[i]]
        /\ Answers'[Len(sent) + 1] = <<n, txcon>>
        /\ \A i \in 1 .. Len(sent) : Answers'[i] = Answers[i]
    BY <1>2, <2>3, <2>4 DEF Answers
  <2>6. <<n, txcon>> \in Answer
    BY <1>3, <1>4
  <2> HIDE DEF Answer, n
  <2> QED
    BY <2>2, <2>4, <2>5, <2>6
<1>12. \A i \in 1 .. Len(Answers) : Answers[i][1] < n
  BY <1>9, <1>10 DEF Answers
<1> HIDE DEF n
<1>13. PICK m \in 1 .. Len(asked), c \in Connections : m = n /\ c = txcon
  BY <1>3, <1>4
<1>14. Service!Known(c) /\ Service!Rank(asked[m]) <= Service!Rank(c)
  BY <1>5, <1>6, <1>13
<1>15. Service!Answer(m, c)
  BY <1>1, <1>2, <1>7, <1>8, <1>11, <1>12, <1>13, <1>14, Zenon
     DEF Service!Answer, Answers
<1> QED
  BY <1>15

\* Every step of the broker is one of the service, or leaves it alone.
LEMMA ServiceStep == IInv /\ [Next]_vars => [Service!Next]_(Service!vars)
<1> SUFFICES ASSUME IInv, [Next]_vars
             PROVE  [Service!Next]_(Service!vars)
  OBVIOUS
<1>1. next \in Nat
  BY Assumptions DEF IInv, SP!IInv, SP!TypeOK
<1>2. CASE ServerStep
  <2>1. UNCHANGED <<asked, responsepackets>> /\ SP!Next
    BY <1>2 DEF ServerStep, processorside
  <2>2. CASE UNCHANGED <<accepted, sent>>
    BY <2>1, <2>2, Quietly DEF Answers
  <2>3. CASE SP!EndAssign
    BY <1>2, <2>3, AssignConnects DEF Service!Next
  <2>4. CASE SP!CopyHandle
    <3>1. UNCHANGED <<accepted, sent>>
      BY <2>4 DEF SP!CopyHandle, SP!TxStep
    <3> QED
      BY <2>2, <3>1
  <2>5. CASE SP!Send
    BY <1>2, <2>5, SendAnswers DEF Service!Next
  <2> QED
    BY <2>1, <2>2, <2>3, <2>4, <2>5, Assumptions, SP!WhoServes
<1>3. CASE ProcessorStep
  <2>1. UNCHANGED <<accepted, sent, asked, responsepackets>>
    BY <1>3 DEF ProcessorStep, serverside
  <2> QED
    BY <2>1, Quietly DEF Answers
<1>4. CASE RespondStep
  <2>1. UNCHANGED <<accepted, sent, asked>>
    BY <1>4 DEF RespondStep, SP!PushTransmission, SP!history, serverside
  <2>2. responsepackets \in Seq(Seq(PP!Entry))
    BY DEF IInv, PP!IInv, PP!TypeOK
  <2>3. \A k \in 1 .. Len(responsepackets) : responsepackets'[k] = responsepackets[k]
    BY <1>4, <2>2 DEF RespondStep, PP!PushResponse
  <2> QED
    BY <2>1, <2>3, AnswersKept, Quietly
<1>5. ASSUME NEW c \in Connections, NEW p \in Packets, ReceiveStep(c, p)
      PROVE  Service!Next
  BY <1>5, ReceiveRequests DEF Service!Next
<1>6. CASE UNCHANGED vars
  BY <1>6, Quietly DEF vars, serverside, processorside, Answers
<1> QED
  BY <1>1, <1>2, <1>3, <1>4, <1>5, <1>6, Steps

\* Server, processor and queues together serve as CommandService has it: packets are
\* answered in order, once at most, never to an operator of before, and not after run
\* has returned.
THEOREM ServiceImplemented == Spec => ImplementsService
<1>1. Init => Service!Init
  BY DEF Init, Server!Init, Processor!Init, Service!Init, RunReturned
<1> QED
  BY <1>1, ServiceStep, Invariance, PTL DEF Spec, ImplementsService, Service!Spec
=============================================================================
