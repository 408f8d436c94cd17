-------------------------- MODULE PacketProcessor --------------------------
(***************************************************************************)
(* R2CPPacketProcessor: the thread that calls run and halt, the processing *)
(* thread, and any thread that registers robot modules.  Nothing is locked *)
(* but the memory queues.                                                  *)
(*                                                                         *)
(* A packet stands for what the parser makes of it: the codes of the       *)
(* commands it returns, invalid_argument, or the out_of_range of a packet  *)
(* that is a header only.  A response stands for what it answers: the      *)
(* packet's number and the position of the command, or the position past   *)
(* the last command for what a module does of its own accord.              *)
(***************************************************************************)
EXTENDS Naturals, Sequences, FiniteSets

CONSTANTS Codes, Modules, NoModule,
          Packets,           \* the packets received
          NoPacket,          \* the packet in hand before there is one
          Invalid,           \* those the parser rejects
          HeaderOnly,        \* those of eight bytes: size 0, no command count
          Commands,          \* the command codes of each other packet
          ModuleThrows,      \* exceptions robot modules throw
          SerializerOutcomes,\* of serializecommands: a packet, as documented, or
                             \* the out_of_range that module Serializer arrives at
          MaxCalls,          \* bound: calls of run and halt
          MaxChanges,        \* bound: calls that change the registry
          MaxPackets         \* bound: packets received

ASSUME ProcessorAssumption ==
    /\ NoModule \notin Modules /\ NoPacket \notin Packets
    /\ Invalid \cap HeaderOnly = {}
    /\ Commands \in [Packets \ (Invalid \cup HeaderOnly) -> Seq(Codes)]
    /\ SerializerOutcomes \subseteq {"packet", "out_of_range"}
    /\ MaxCalls \in Nat /\ MaxChanges \in Nat /\ MaxPackets \in Nat

VARIABLES isrunning, packetprocessorthread, robotmodulesmap, robotmodulesset,
          receptionqueue, received,  \* packets waiting, numbered; how many ever came
          transmissionqueue,         \* response packets, in this module not taken
          main, calls, changes,      \* the callers
          px,                        \* where the processing thread is
          packet, number,            \* the packet in hand, and which it was
          position,                  \* the command in hand
          toact,                     \* modules evaluateactive is yet to visit
          responses,                 \* responsecommands
          fault                      \* how the process died, if it did

caller == <<isrunning, packetprocessorthread, main, calls>>
registry == <<robotmodulesmap, robotmodulesset, changes>>
queues == <<receptionqueue, received, transmissionqueue>>
locals == <<packet, number, position, toact, responses>>

vars == <<caller, registry, queues, px, locals, fault>>

Init ==
    /\ isrunning = FALSE /\ packetprocessorthread \in {"null", "wild"}
    /\ robotmodulesmap = [k \in Codes |-> NoModule] /\ robotmodulesset = {}
    /\ receptionqueue = <<>> /\ received = 0 /\ transmissionqueue = <<>>
    /\ main = "idle" /\ calls = 0 /\ changes = 0
    /\ px = "none" /\ packet = NoPacket /\ number = 0 /\ position = 0
    /\ toact = {} /\ responses = <<>>
    /\ fault = "none"

Alive == fault = "none" /\ UNCHANGED fault

Die(how) == fault = "none" /\ fault' = how

-----------------------------------------------------------------------------
(* run and halt *)

NewCall == calls < MaxCalls /\ calls' = calls + 1

\* run, on a processor that has no thread.
Run ==
    /\ Alive
    /\ main = "idle" /\ NewCall
    /\ packetprocessorthread # "thread"
    /\ isrunning' = TRUE
    /\ packetprocessorthread' = "thread" /\ px' = "test"
    /\ UNCHANGED <<main, registry, queues, locals>>

Halt ==
    /\ Alive
    /\ main = "idle" /\ main' = "join" /\ NewCall
    /\ isrunning' = FALSE
    /\ UNCHANGED <<packetprocessorthread, registry, queues, px, locals>>

\* Mutant of Join: the thread is not waited for.
JoinAtOnce ==
    /\ Alive
    /\ main = "join" /\ main' = "idle"
    /\ packetprocessorthread' = "null"
    /\ UNCHANGED <<isrunning, calls, registry, queues, px, locals>>

Join ==
    /\ Alive
    /\ main = "join" /\ main' = "idle"
    /\ \/ packetprocessorthread = "thread" /\ px = "exited" /\ px' = "none"
       \/ packetprocessorthread = "null" /\ UNCHANGED px
    /\ packetprocessorthread' = "null"
    /\ UNCHANGED <<isrunning, calls, registry, queues, locals>>

\* halt before any run follows the pointer that the constructor left alone.
WildPointer ==
    /\ main = "join" /\ packetprocessorthread = "wild"
    /\ Die("undefined")
    /\ UNCHANGED <<caller, registry, queues, px, locals>>

-----------------------------------------------------------------------------
(* The registry *)

\* One call, from any thread.
Change(map, set) ==
    /\ Alive
    /\ changes < MaxChanges /\ changes' = changes + 1
    /\ robotmodulesmap' = map /\ robotmodulesset' = set
    /\ UNCHANGED <<caller, queues, px, locals>>

\* Mutant of Register: the map entry is put into the set before it is assigned.
RegisterEntry(k, m) ==
    /\ robotmodulesmap[k] = NoModule
    /\ Change([robotmodulesmap EXCEPT ![k] = m], robotmodulesset \cup {robotmodulesmap[k]})

\* A code that is taken keeps its module: the call only warns.
Register(k, m) ==
    /\ robotmodulesmap[k] = NoModule
    /\ Change([robotmodulesmap EXCEPT ![k] = m], robotmodulesset \cup {m})

RegisterActive(m) == Change(robotmodulesmap, robotmodulesset \cup {m})

CodesOf(m) == {k \in Codes : robotmodulesmap[k] = m}

UnregisterModule(m) ==
    Change([k \in Codes |-> IF k \in CodesOf(m) THEN NoModule ELSE robotmodulesmap[k]],
           robotmodulesset \ {m})

UnregisterCode(k) ==
    /\ robotmodulesmap[k] # NoModule
    /\ Change([robotmodulesmap EXCEPT ![k] = NoModule],
              robotmodulesset \ {robotmodulesmap[k]})

UnregisterAll == Change([k \in Codes |-> NoModule], {})

\* The loop of unregisterrobotmodule steps on from the element it has erased;
\* and any call may change the map or the set that the thread is reading.
RegistryUndefined ==
    /\ changes < MaxChanges
    /\ \/ \E m \in Modules : CodesOf(m) # {}
       \/ px \in {"react", "act"}
    /\ Die("undefined")
    /\ UNCHANGED <<caller, registry, queues, px, locals>>

-----------------------------------------------------------------------------
(* The processing thread *)

Goto(from, to) ==
    /\ Alive
    /\ px = from /\ px' = to
    /\ UNCHANGED <<caller, registry>>

\* Mutant of Finish: responsecommands outlives its packet.
FinishKeepsResponses ==
    /\ packet' = NoPacket /\ number' = 0 /\ position' = 0
    /\ toact' = {}
    /\ UNCHANGED responses

\* executetask returns, or its exception is caught: its locals are gone.
Finish ==
    /\ packet' = NoPacket /\ number' = 0 /\ position' = 0
    /\ toact' = {} /\ responses' = <<>>

\* An exception nothing catches leaves the thread.
Lose(from) ==
    /\ px = from /\ px' = "lost"
    /\ Die("terminate")
    /\ UNCHANGED <<caller, registry, queues, locals>>

\* Mutant of TestRunning: the loop does not look at isrunning.
TestNothing == Goto("test", "pop") /\ UNCHANGED <<queues, locals>>

TestRunning ==
    /\ Goto("test", IF isrunning THEN "pop" ELSE "exited")
    /\ UNCHANGED <<queues, locals>>

PopNothing ==
    /\ Goto("pop", "test")
    /\ receptionqueue = <<>>
    /\ UNCHANGED <<queues, locals>>

\* Mutant of PopReception: the newest packet is taken.
PopNewest ==
    /\ Goto("pop", "parse")
    /\ receptionqueue # <<>>
    /\ LET n == Len(receptionqueue) IN
        /\ number' = receptionqueue[n][1] /\ packet' = receptionqueue[n][2]
        /\ receptionqueue' = SubSeq(receptionqueue, 1, n - 1)
    /\ UNCHANGED <<received, transmissionqueue, position, toact, responses>>

PopReception ==
    /\ Goto("pop", "parse")
    /\ receptionqueue # <<>>
    /\ number' = Head(receptionqueue)[1] /\ packet' = Head(receptionqueue)[2]
    /\ receptionqueue' = Tail(receptionqueue)
    /\ UNCHANGED <<received, transmissionqueue, position, toact, responses>>

\* Mutant of ParseRejects: a packet rejected is tried again.
ParseRetries ==
    /\ Goto("parse", "parse")
    /\ packet \in Invalid
    /\ UNCHANGED <<queues, locals>>

\* invalid_argument: the packet is dropped with a warning.
ParseRejects ==
    /\ Goto("parse", "test")
    /\ packet \in Invalid
    /\ Finish /\ UNCHANGED queues

\* The validation passes a header of size 0; the parse then reads a count.
ParseThrows == Lose("parse") /\ packet \in HeaderOnly

Parse ==
    /\ Goto("parse", "react")
    /\ packet \notin Invalid \cup HeaderOnly
    /\ position' = 1
    /\ UNCHANGED <<queues, packet, number, toact, responses>>

InCommands == position <= Len(Commands[packet])
Reacting == robotmodulesmap[Commands[packet][position]]

\* With or without a response, and with no module for the code.
React ==
    /\ Goto("react", "react")
    /\ InCommands
    /\ position' = position + 1
    /\ \/ UNCHANGED responses
       \/ Reacting # NoModule
          /\ responses' = Append(responses, <<number, position>>)
    /\ UNCHANGED <<queues, packet, number, toact>>

\* Two exceptions are caught around the whole packet.
Abandoning == {"invalid_argument", "underflow_error"}

\* out_of_range is taken for a code without a module, which React covers.
ReactAbandons ==
    /\ Goto("react", "test")
    /\ InCommands /\ Reacting # NoModule
    /\ ModuleThrows \cap Abandoning # {}
    /\ Finish /\ UNCHANGED queues

ReactThrows ==
    /\ Lose("react")
    /\ InCommands /\ Reacting # NoModule
    /\ ModuleThrows \ (Abandoning \cup {"out_of_range"}) # {}

ReactDone ==
    /\ Goto("react", "act")
    /\ ~InCommands
    /\ toact' = robotmodulesset
    /\ UNCHANGED <<queues, packet, number, position, responses>>

\* The set is in the order of addresses, which may be any.
Act(m) ==
    /\ Goto("act", "act")
    /\ m \in toact /\ toact' = toact \ {m}
    /\ responses' \in {responses, Append(responses, <<number, position>>)}
    /\ UNCHANGED <<queues, packet, number, position>>

ActAbandons ==
    /\ Goto("act", "test")
    /\ toact # {} /\ ModuleThrows \cap Abandoning # {}
    /\ Finish /\ UNCHANGED queues

ActThrows ==
    /\ Lose("act")
    /\ toact # {} /\ ModuleThrows \ Abandoning # {}

ActDone ==
    /\ toact = {}
    /\ \/ responses # <<>> /\ Goto("act", "serialize") /\ UNCHANGED locals
       \/ responses = <<>> /\ Goto("act", "test") /\ Finish
    /\ UNCHANGED queues

Serialize ==
    /\ Goto("serialize", "push")
    /\ "packet" \in SerializerOutcomes
    /\ UNCHANGED <<queues, locals>>

SerializeThrows == Lose("serialize") /\ "out_of_range" \in SerializerOutcomes

\* The full queue refuses the response packet with a warning.
PushResponse ==
    /\ Goto("push", "test")
    /\ transmissionqueue' \in {transmissionqueue, Append(transmissionqueue, responses)}
    /\ Finish /\ UNCHANGED <<receptionqueue, received>>

\* onmessage of the server, in the reception thread.
Receive(p) ==
    /\ Alive
    /\ received < MaxPackets /\ received' = received + 1
    /\ receptionqueue' = Append(receptionqueue, <<received + 1, p>>)
    /\ UNCHANGED <<caller, registry, transmissionqueue, px, locals>>

-----------------------------------------------------------------------------

\* executetask up to the response, and the loop around it.
Compute ==
    \/ TestRunning \/ PopNothing \/ PopReception
    \/ ParseRejects \/ ParseThrows \/ Parse
    \/ React \/ ReactAbandons \/ ReactThrows \/ ReactDone
    \/ (\E m \in Modules : Act(m)) \/ ActAbandons \/ ActThrows \/ ActDone
    \/ Serialize \/ SerializeThrows

Process == Compute \/ PushResponse

Registration ==
    \/ \E k \in Codes, m \in Modules : Register(k, m)
    \/ \E m \in Modules : RegisterActive(m) \/ UnregisterModule(m)
    \/ \E k \in Codes : UnregisterCode(k)
    \/ UnregisterAll
    \/ RegistryUndefined

Next ==
    \/ Run \/ Halt \/ Join \/ WildPointer
    \/ Registration
    \/ Process
    \/ \E p \in Packets : Receive(p)

Spec == Init /\ [][Next]_vars

\* Both threads are scheduled; nothing obliges anyone to call.
FairSpec == Spec /\ WF_vars(Process) /\ WF_vars(Join \/ WildPointer)

-----------------------------------------------------------------------------
(* Properties *)

Entry == (1 .. MaxPackets) \X (Nat \ {0})

\* Types of the members and of the locals of executetask.
TypeOK ==
    /\ isrunning \in BOOLEAN
    /\ packetprocessorthread \in {"null", "wild", "thread"}
    /\ robotmodulesmap \in [Codes -> Modules \cup {NoModule}]
    /\ robotmodulesset \subseteq Modules
    /\ receptionqueue \in Seq((1 .. MaxPackets) \X Packets) /\ received \in 0 .. MaxPackets
    /\ transmissionqueue \in Seq(Seq(Entry))
    /\ main \in {"idle", "join"}
    /\ calls \in 0 .. MaxCalls /\ changes \in 0 .. MaxChanges
    /\ px \in {"none", "test", "pop", "parse", "react", "act", "serialize", "push",
               "exited", "lost"}
    /\ packet \in Packets \cup {NoPacket} /\ number \in 0 .. MaxPackets
    /\ position \in Nat /\ toact \subseteq Modules
    /\ responses \in Seq(Entry)
    /\ fault \in {"none", "terminate", "undefined"}

OfOnePacket(r) ==
    /\ r # <<>>
    /\ \A a, b \in 1 .. Len(r) :
        /\ r[a][1] = r[b][1]
        /\ a < b => r[a][2] <= r[b][2]

\* A response packet answers one packet only, in the order of its commands, the
\* active modules last: what an abandoned packet had
\* gathered never reaches the operator.
ResponseOfOnePacket ==
    \A i \in 1 .. Len(transmissionqueue) : OfOnePacket(transmissionqueue[i])

\* Response packets follow the order of the packets they answer, one for each
\* at most.
ResponsesInOrder ==
    \A i, j \in 1 .. Len(transmissionqueue) :
        i < j => transmissionqueue[i][1][1] < transmissionqueue[j][1][1]

\* Once halt has returned nothing more is taken or sent until the next run.
StoppedIsQuiet ==
    [][packetprocessorthread # "thread" =>
        UNCHANGED <<number, responses, transmissionqueue>>]_vars

\* halt returns when the packet in hand is done with, or the process dies.
HaltReturns == main = "join" ~> main = "idle" \/ fault # "none"

\* What is received is processed while the processor runs.
ReceptionDrains ==
    receptionqueue # <<>> /\ packetprocessorthread = "thread" ~>
        receptionqueue = <<>> \/ ~isrunning \/ fault # "none"
=============================================================================
