--------------------------- MODULE RuntimeBroker ---------------------------
(***************************************************************************)
(* R2CPRuntimeBroker: the robot server and the packet processor at work    *)
(* together, with the two queues between them, under the calls that run    *)
(* and the destructors make.                                               *)
(*                                                                         *)
(* The queues are channels, which MemoryQueue implements: a packet that    *)
(* onmessage pushes is one that the processing thread receives, and the    *)
(* response packet it pushes is one that the transmission thread may pop;  *)
(* either may be refused by a full queue.  The server knows a response     *)
(* packet by its number, the processor by what it answers.                 *)
(***************************************************************************)
EXTENDS Naturals, Sequences, FiniteSets

CONSTANTS Connections, NoConnection,
          Codes, Modules, NoModule, Packets, NoPacket, Invalid, HeaderOnly, Commands,
          ModuleThrows, SerializerOutcomes,
          MaxChanges,  \* bound: calls that change the registry
          MaxPackets   \* bound: packets received

\* What the two components assume of theirs.
ASSUME BrokerAssumption ==
    /\ NoConnection \notin Connections
    /\ NoModule \notin Modules /\ NoPacket \notin Packets
    /\ Invalid \cap HeaderOnly = {}
    /\ Commands \in [Packets \ (Invalid \cup HeaderOnly) -> Seq(Codes)]
    /\ SerializerOutcomes \subseteq {"packet", "out_of_range"}
    /\ MaxChanges \in Nat /\ MaxPackets \in Nat

VARIABLES
    next,   \* how many calls were made of those that run and the destructors make
    fault,  \* how the process died, if it did
    asked,  \* history: the connection each packet received came from

    \* R2CPWebSocketServer
    serverrunning, hasconnection, operatorconnectionhandle, receptionthread,
    transmissionthread, endpoint, connection, outgoing, servermain, maincon,
    rx, rxcon, tx, txpacket, txcon, accepted, heard, sent,

    \* R2CPPacketProcessor
    processorrunning, packetprocessorthread, robotmodulesmap, robotmodulesset,
    receptionqueue, received, responsepackets, processormain, changes,
    px, packet, number, position, toact, responses

serverside ==
    <<serverrunning, hasconnection, operatorconnectionhandle, receptionthread,
      transmissionthread, endpoint, connection, outgoing, servermain, maincon,
      rx, rxcon, tx, txpacket, txcon, accepted, heard, sent>>

processorside ==
    <<processorrunning, packetprocessorthread, robotmodulesmap, robotmodulesset,
      receptionqueue, received, responsepackets, processormain, changes,
      px, packet, number, position, toact, responses>>

vars == <<next, fault, asked, serverside, processorside>>

\* run starts both; halt comes from run, from the broker's destructor and from
\* those of the two members.
Program == <<"run server", "run processor",
             "halt processor", "halt server",
             "halt processor", "halt server",
             "halt processor", "halt server">>

Server == INSTANCE WebSocketServer WITH
    isrunning <- serverrunning, transmissionqueue <- outgoing,
    pushed <- Len(responsepackets), main <- servermain,
    calls <- next, MaxCalls <- Len(Program)

Processor == INSTANCE PacketProcessor WITH
    isrunning <- processorrunning, transmissionqueue <- responsepackets,
    main <- processormain, calls <- next, MaxCalls <- Len(Program)

Init ==
    /\ Processor!Init /\ Server!Init
    /\ asked = <<>>

-----------------------------------------------------------------------------

Returned == servermain = "idle" /\ processormain = "idle"

\* The next call, once the one before it has returned.
Call ==
    /\ Returned /\ next < Len(Program)
    /\ UNCHANGED asked
    /\ CASE Program[next + 1] = "run server" -> UNCHANGED processorside /\ Server!Run
         [] Program[next + 1] = "run processor" -> UNCHANGED serverside /\ Processor!Run
         [] Program[next + 1] = "halt processor" -> UNCHANGED serverside /\ Processor!Halt
         [] Program[next + 1] = "halt server" -> UNCHANGED processorside /\ Server!Halt

\* A step of the server alone, or of the processor alone.
Alone(A) == UNCHANGED <<processorside, asked>> /\ A

ProcessorAlone(A) == UNCHANGED <<serverside, asked>> /\ A

\* onmessage, when the reception queue takes the packet.
Receive(c, p) ==
    /\ Processor!Receive(p)
    /\ asked' = Append(asked, c)
    /\ Server!OnMessage(c)

\* The end of executetask: the transmission queue takes the response, or not.
Respond ==
    /\ Processor!PushResponse
    /\ UNCHANGED asked
    /\ IF responsepackets' = responsepackets
         THEN UNCHANGED serverside
         ELSE Server!PushTransmission

Halting == Alone(Server!Proceed) \/ ProcessorAlone(Processor!Join)

Next ==
    \/ Call
    \/ Halting
    \/ Alone(Server!Setup) \/ Alone(Server!Handler) \/ Alone(Server!Transmit)
    \/ Alone(Server!TornHandle)
    \/ \E c \in Connections :
         \/ Alone(\/ Server!Accept(c) \/ Server!Settle(c) \/ Server!OnMessage(c)
                  \/ Server!Leave(c, "open"))
         \/ \E p \in Packets : Receive(c, p)
    \/ ProcessorAlone(Processor!Registration) \/ ProcessorAlone(Processor!Compute)
    \/ Respond

Spec == Init /\ [][Next]_vars

\* The fairness of the two components; and once q was typed the calls go on.
\* No client stays for ever.
LeavingSpec ==
    /\ Spec
    /\ WF_vars(next # 2 /\ Call) /\ WF_vars(Halting)
    /\ WF_vars(Alone(Server!Setup \/ Server!Handler))
    /\ WF_vars(Alone(Server!Transmit))
    /\ WF_vars(ProcessorAlone(Processor!Compute) \/ Respond)
    /\ \A c \in Connections :
         WF_vars(Alone(Server!Settle(c) \/ Server!Leave(c, "open")))

-----------------------------------------------------------------------------
(* Properties *)

\* run has returned, its last call having been the server's halt.
RunReturned == next > 4 \/ (next = 4 /\ Returned)

Service == INSTANCE CommandService WITH
    operators <- accepted,
    requests <- asked,
    answers <- [i \in 1 .. Len(sent) |->
                  <<responsepackets[sent[i][1]][1][1], sent[i][2]>>],
    stopped <- RunReturned

\* Server, processor and queues together serve as CommandService has it.
ImplementsService == Service!Spec

\* Once q was typed, run and the destructors come to their end, or to an
\* exception: neither halt waits for a thread that waits for something else.
QuitEnds == next > 2 ~> (next = Len(Program) /\ Returned) \/ fault # "none"
=============================================================================
