-------------------------- MODULE WebSocketServer --------------------------
(***************************************************************************)
(* R2CPWebSocketServer: the thread that calls run and halt, the reception  *)
(* thread in which the websocketpp endpoint runs every handler, and the    *)
(* transmission thread.  They share the members with no lock.              *)
(*                                                                         *)
(* A connection of websocketpp behaves as ConnectionLife has it, which     *)
(* Connection implements; send throws unless it is open, and messages      *)
(* reach the handler only then.  Of the endpoint the module has what it    *)
(* throws on and when its run returns.                                     *)
(***************************************************************************)
EXTENDS Naturals, Sequences, FiniteSets

CONSTANTS Connections,   \* the connections clients make, each used once
          NoConnection,  \* an empty connection_hdl
          MaxCalls,      \* bound: calls of run and halt
          MaxPackets     \* bound: packets put in the transmission queue

ASSUME ServerAssumption ==
    /\ NoConnection \notin Connections
    /\ MaxCalls \in Nat /\ MaxPackets \in Nat

VARIABLES isrunning, hasconnection, operatorconnectionhandle,
          receptionthread,     \* the pointers: null, a thread, or wild while
          transmissionthread,  \*   nothing has initialised them
          endpoint,            \* m_state of wsserver's asio endpoint
          connection,          \* the life of each connection
          transmissionqueue,   \* numbers of the packets in it
          pushed,              \* how many packets were ever put in it
          main, maincon,       \* where the caller of run and halt is, halt's con
          calls,               \* how many calls it has made
          rx, rxcon,           \* where the reception thread is, onopen's hdl
          tx, txpacket, txcon, \* where the transmission thread is, its locals
          fault,               \* how the process died, if it did
          accepted,            \* history: connections made the operator's, in order
          heard,               \* history: connections with messages pushed
          sent                 \* history: <<packet, connection>> of each send

members == <<isrunning, hasconnection, operatorconnectionhandle,
             receptionthread, transmissionthread>>
flags == <<isrunning, hasconnection>>
threads == <<receptionthread, transmissionthread>>
operator == <<hasconnection, operatorconnectionhandle>>
network == <<endpoint, connection>>
queues == <<transmissionqueue, pushed>>
caller == <<main, maincon, calls>>
reception == <<rx, rxcon>>
transmission == <<tx, txpacket, txcon>>
history == <<accepted, heard, sent>>

vars == <<members, network, queues, caller, reception, transmission,
          fault, history>>

Init ==
    /\ isrunning = FALSE /\ hasconnection = FALSE
    /\ operatorconnectionhandle = NoConnection
    /\ receptionthread \in {"null", "wild"}
    /\ transmissionthread \in {"null", "wild"}
    /\ endpoint = "uninitialized"
    /\ connection = [c \in Connections |-> "none"]
    /\ transmissionqueue = <<>> /\ pushed = 0
    /\ main = "idle" /\ maincon = NoConnection /\ calls = 0
    /\ rx = "none" /\ rxcon = NoConnection
    /\ tx = "none" /\ txpacket = 0 /\ txcon = NoConnection
    /\ fault = "none"
    /\ accepted = <<>> /\ heard = {} /\ sent = <<>>

-----------------------------------------------------------------------------
(* The caller of run and halt *)

Alive == fault = "none" /\ UNCHANGED fault

MainStep(from, to) ==
    /\ Alive
    /\ main = from /\ main' = to
    /\ UNCHANGED <<operatorconnectionhandle, queues, rxcon, txpacket, txcon, history>>

NewCall == calls < MaxCalls /\ calls' = calls + 1

\* run, on a server that has no threads.
Run ==
    /\ MainStep("idle", "starting")
    /\ NewCall
    /\ receptionthread # "thread" /\ transmissionthread # "thread"
    /\ isrunning' = TRUE
    /\ receptionthread' = "thread" /\ rx' = "init_asio"
    /\ UNCHANGED <<maincon, hasconnection, transmissionthread, network, tx>>

StartTransmission ==
    /\ MainStep("starting", "idle")
    /\ transmissionthread' = "thread" /\ tx' = "test"
    /\ UNCHANGED <<maincon, flags, receptionthread, network, calls, rx>>

Halt ==
    /\ MainStep("idle", "join_transmission")
    /\ NewCall
    /\ isrunning' = FALSE
    /\ UNCHANGED <<maincon, hasconnection, threads, network, rx, tx>>

\* Mutant of JoinTransmission: the thread is not waited for.
JoinTransmissionAtOnce ==
    /\ MainStep("join_transmission", "stop_listening")
    /\ transmissionthread' = "null"
    /\ UNCHANGED <<maincon, flags, receptionthread, network, calls, rx, tx>>

JoinTransmission ==
    /\ MainStep("join_transmission", "stop_listening")
    /\ \/ transmissionthread = "thread" /\ tx = "exited" /\ tx' = "none"
       \/ transmissionthread = "null" /\ UNCHANGED tx
    /\ transmissionthread' = "null"
    /\ UNCHANGED <<maincon, flags, receptionthread, network, calls, rx>>

\* Mutant of StopListening: the endpoint goes on listening.
StopNothing ==
    /\ MainStep("stop_listening", IF receptionthread = "null" THEN "idle" ELSE "check")
    /\ UNCHANGED <<maincon, flags, threads, network, calls, rx, tx>>

StopListening ==
    /\ \/ receptionthread = "null" /\ MainStep("stop_listening", "idle")
          /\ UNCHANGED endpoint
       \/ receptionthread = "thread" /\ MainStep("stop_listening", "check")
          /\ endpoint = "listening" /\ endpoint' = "ready"
    /\ UNCHANGED <<maincon, flags, threads, connection, calls, rx, tx>>

\* closewsserverconnections, in four steps.  A mutant of CheckOpen first: the
\* state is not tested.
CheckNothing ==
    /\ MainStep("close", "closing")
    /\ rx # "assigning"
    /\ maincon' = operatorconnectionhandle
    /\ UNCHANGED <<flags, threads, network, calls, rx, tx>>

CheckConnection ==
    /\ MainStep("check", IF hasconnection THEN "close" ELSE "join_reception")
    /\ UNCHANGED <<maincon, flags, threads, network, calls, rx, tx>>

\* close finds the connection open; it then makes it a closing one, whatever has
\* become of it.
CheckOpen ==
    /\ MainStep("close", "closing")
    /\ rx # "assigning"
    /\ connection[operatorconnectionhandle] = "open"
    /\ maincon' = operatorconnectionhandle
    /\ UNCHANGED <<flags, threads, network, calls, rx, tx>>

CloseOperator ==
    /\ MainStep("closing", "clear")
    /\ connection' = [connection EXCEPT ![maincon] =
         CASE @ = "closed" -> "reclosing" [] @ = "gone" -> "zombie" [] OTHER -> "closing"]
    /\ maincon' = NoConnection
    /\ UNCHANGED <<flags, threads, endpoint, calls, rx, tx>>

ClearConnection ==
    /\ MainStep("clear", "join_reception")
    /\ hasconnection' = FALSE
    /\ UNCHANGED <<maincon, isrunning, threads, network, calls, rx, tx>>

\* Mutant of JoinReception: the thread is not waited for.
JoinReceptionAtOnce ==
    /\ MainStep("join_reception", "idle")
    /\ receptionthread' = "null"
    /\ UNCHANGED <<maincon, flags, transmissionthread, network, calls, rx, tx>>

JoinReception ==
    /\ MainStep("join_reception", "idle")
    /\ rx = "exited" /\ rx' = "none"
    /\ receptionthread' = "null"
    /\ UNCHANGED <<maincon, flags, transmissionthread, network, calls, tx>>

-----------------------------------------------------------------------------
(* The reception thread *)

RxStep(from, to) ==
    /\ Alive
    /\ rx = from /\ rx' = to
    /\ UNCHANGED <<isrunning, threads, queues, caller,
                   transmission, heard, sent>>

\* On an endpoint used before, init_asio throws and the thread ends.
InitAsio ==
    /\ \/ RxStep("init_asio", "listen")
          /\ endpoint = "uninitialized" /\ endpoint' = "ready"
       \/ RxStep("init_asio", "exited")
          /\ endpoint # "uninitialized" /\ UNCHANGED endpoint
    /\ UNCHANGED <<operator, connection, rxcon, accepted>>

\* listen throws when the port is taken.
Listen ==
    /\ \/ RxStep("listen", "start_accept") /\ endpoint' = "listening"
       \/ RxStep("listen", "exited") /\ UNCHANGED endpoint
    /\ UNCHANGED <<operator, connection, rxcon, accepted>>

StartAccept ==
    /\ RxStep("start_accept", IF endpoint = "listening" THEN "run" ELSE "exited")
    /\ UNCHANGED <<operator, network, rxcon, accepted>>

\* No connection is left, nor the timer of one that was closed too late.
ServerReturns ==
    /\ RxStep("run", "exited")
    /\ endpoint # "listening"
    /\ \A c \in Connections : connection[c] \in {"none", "gone"}
    /\ UNCHANGED <<operator, network, rxcon, accepted>>

\* The endpoint handles one event of connection c.
Event(c, from, to) ==
    /\ Alive
    /\ rx = "run"
    /\ connection[c] = from /\ connection' = [connection EXCEPT ![c] = to]
    /\ UNCHANGED <<endpoint, queues, caller, transmission>>

Accept(c) ==
    /\ endpoint = "listening"
    /\ Event(c, "none", "connecting")
    /\ UNCHANGED <<members, reception, history>>

HandshakeFails(c) ==
    /\ Event(c, "connecting", "gone")
    /\ UNCHANGED <<members, reception, history>>

\* Mutant of HandshakeDone: onopen is bound without its handle.
HandshakeUnbound(c) ==
    /\ Event(c, "connecting", "open")
    /\ rx' = "onopen" /\ rxcon' = NoConnection
    /\ UNCHANGED <<members, history>>

HandshakeDone(c) ==
    /\ Event(c, "connecting", "open")
    /\ rx' = "onopen" /\ rxcon' = c
    /\ UNCHANGED <<members, history>>

\* The peer closes, vanishes, or answers the server's close or lets it time out;
\* the close handler is called at once.
Leave(c, from) ==
    /\ Event(c, from, "closed")
    /\ rx' = "onclose" /\ rxcon' = c
    /\ UNCHANGED <<members, history>>

OnCloseStep ==
    /\ RxStep("onclose", "run") /\ rxcon' = NoConnection
    /\ connection' = [connection EXCEPT ![rxcon] = IF @ = "closed" THEN "gone" ELSE "zombie"]
    /\ UNCHANGED <<operatorconnectionhandle, endpoint, accepted>>

\* Mutant of OnClose: the flag stays.
OnCloseKeepsFlag == OnCloseStep /\ UNCHANGED hasconnection

OnClose == OnCloseStep /\ hasconnection' = FALSE

\* onmessage; a message the full queue refuses leaves no trace.
OnMessage(c) ==
    /\ Event(c, "open", "open")
    /\ heard' = heard \cup {c}
    /\ UNCHANGED <<members, reception, accepted, sent>>

\* Mutant of Reject: the connection is ignored, not closed.
RejectIgnores ==
    /\ RxStep("onopen", "run") /\ rxcon' = NoConnection
    /\ hasconnection
    /\ UNCHANGED <<operator, network, accepted>>

Reject ==
    /\ RxStep("onopen", "run") /\ rxcon' = NoConnection
    /\ hasconnection
    /\ connection' = [connection EXCEPT ![rxcon] = "closing"]
    /\ UNCHANGED <<operator, endpoint, accepted>>

\* The assignment of the handle is not atomic: it begins and ends.
BeginAssign ==
    /\ RxStep("onopen", "assigning")
    /\ ~hasconnection
    /\ UNCHANGED <<operator, network, rxcon, accepted>>

EndAssign ==
    /\ RxStep("assigning", "assigned")
    /\ operatorconnectionhandle' = rxcon
    /\ accepted' = Append(accepted, rxcon)
    /\ UNCHANGED <<hasconnection, network, rxcon>>

SetConnection ==
    /\ RxStep("assigned", "run") /\ rxcon' = NoConnection
    /\ hasconnection' = TRUE
    /\ UNCHANGED <<operatorconnectionhandle, network, accepted>>

-----------------------------------------------------------------------------
(* The transmission thread *)

TxStep(from, to) ==
    /\ Alive
    /\ tx = from /\ tx' = to
    /\ UNCHANGED <<members, network, pushed, caller, reception, accepted, heard>>

TestRunning ==
    /\ TxStep("test", IF isrunning THEN "pop" ELSE "exited")
    /\ UNCHANGED <<transmissionqueue, txpacket, txcon, sent>>

\* std::underflow_error: the thread sleeps and tests again.
PopNothing ==
    /\ TxStep("pop", "test")
    /\ transmissionqueue = <<>>
    /\ UNCHANGED <<transmissionqueue, txpacket, txcon, sent>>

\* Mutant of PopTransmission: the packet is read and left in the queue.
PeekTransmission ==
    /\ TxStep("pop", "check")
    /\ transmissionqueue # <<>>
    /\ txpacket' = Head(transmissionqueue)
    /\ UNCHANGED <<transmissionqueue, txcon, sent>>

PopTransmission ==
    /\ TxStep("pop", "check")
    /\ transmissionqueue # <<>>
    /\ txpacket' = Head(transmissionqueue)
    /\ transmissionqueue' = Tail(transmissionqueue)
    /\ UNCHANGED <<txcon, sent>>

\* Mutant of CheckOperator: the packet waits for an operator.
AwaitOperator ==
    /\ TxStep("check", IF hasconnection THEN "copy" ELSE "check")
    /\ UNCHANGED <<transmissionqueue, txpacket, txcon, sent>>

\* With no operator the packet popped is dropped.
CheckOperator ==
    /\ TxStep("check", IF hasconnection THEN "copy" ELSE "test")
    /\ txpacket' = IF hasconnection THEN txpacket ELSE 0
    /\ UNCHANGED <<transmissionqueue, txcon, sent>>

\* The handle is passed to send by value.
CopyHandle ==
    /\ TxStep("copy", "send")
    /\ rx # "assigning"
    /\ txcon' = operatorconnectionhandle
    /\ UNCHANGED <<transmissionqueue, txpacket, sent>>

Send ==
    /\ TxStep("send", "test")
    /\ connection[txcon] = "open"
    /\ sent' = Append(sent, <<txpacket, txcon>>)
    /\ txcon' = NoConnection /\ txpacket' = 0
    /\ UNCHANGED transmissionqueue

\* The processing thread, or any code that uses the queue's instance.
PushTransmission ==
    /\ Alive
    /\ pushed < MaxPackets
    /\ pushed' = pushed + 1
    /\ transmissionqueue' = Append(transmissionqueue, pushed + 1)
    /\ UNCHANGED <<members, network, caller, reception, transmission, history>>

-----------------------------------------------------------------------------
(* How the process dies *)

Die(how) ==
    /\ fault = "none" /\ fault' = how
    /\ UNCHANGED <<members, network, queues, caller, reception, history>>

\* A websocketpp::exception leaves halt, which the broker calls with no
\* handler and once more in its destructor.
HaltThrows ==
    /\ \/ main = "stop_listening" /\ receptionthread = "thread"
          /\ endpoint # "listening"
       \/ main = "close" /\ rx # "assigning" /\ connection[operatorconnectionhandle] # "open"
    /\ Die("terminate")
    /\ UNCHANGED transmission

\* It leaves the transmission thread, which handles underflow_error only.
SendThrows ==
    /\ tx = "send" /\ tx' = "lost"
    /\ connection[txcon] # "open"
    /\ Die("terminate")
    /\ UNCHANGED <<txpacket, txcon>>

\* The handle is copied while the reception thread assigns it.
TornHandle ==
    /\ rx = "assigning"
    /\ tx = "copy" \/ main = "close"
    /\ Die("undefined")
    /\ UNCHANGED transmission

\* halt before any run follows pointers that the constructor left alone.
WildPointer ==
    /\ \/ main = "join_transmission" /\ transmissionthread = "wild"
       \/ main = "stop_listening" /\ receptionthread = "wild"
    /\ Die("undefined")
    /\ UNCHANGED transmission

-----------------------------------------------------------------------------

\* What the thread that called run or halt does next.
Proceed ==
    \/ StartTransmission \/ JoinTransmission \/ StopListening
    \/ CheckConnection \/ CheckOpen \/ CloseOperator \/ ClearConnection \/ JoinReception
    \/ HaltThrows \/ WildPointer

Setup == InitAsio \/ Listen \/ StartAccept \/ ServerReturns

Handler == Reject \/ BeginAssign \/ EndAssign \/ SetConnection \/ OnClose

\* What the endpoint does with c whatever the peer does: a handshake ends or
\* times out, and so does the exchange that closes a connection.
Settle(c) ==
    HandshakeFails(c) \/ HandshakeDone(c) \/ Leave(c, "closing") \/ Leave(c, "zombie")

Transmit ==
    TestRunning \/ PopNothing \/ PopTransmission \/ CheckOperator \/ CopyHandle
    \/ Send \/ SendThrows

Next ==
    \/ Run \/ Halt \/ Proceed
    \/ Setup \/ Handler
    \/ Transmit \/ PushTransmission
    \/ \E c \in Connections :
         Accept(c) \/ Settle(c) \/ OnMessage(c) \/ Leave(c, "open")
    \/ TornHandle

Spec == Init /\ [][Next]_vars

\* Every thread is scheduled, and the endpoint's timers run out.
Fairness ==
    /\ WF_vars(Proceed) /\ WF_vars(Setup) /\ WF_vars(Handler) /\ WF_vars(Transmit)
    /\ \A c \in Connections : WF_vars(Settle(c))

FairSpec == Spec /\ Fairness

\* In addition no client stays for ever.
LeavingSpec == FairSpec /\ \A c \in Connections : WF_vars(Leave(c, "open"))

-----------------------------------------------------------------------------
(* Properties *)

\* Types of the members and of the threads' positions.
TypeOK ==
    /\ isrunning \in BOOLEAN /\ hasconnection \in BOOLEAN
    /\ operatorconnectionhandle \in Connections \cup {NoConnection}
    /\ receptionthread \in {"null", "wild", "thread"}
    /\ transmissionthread \in {"null", "wild", "thread"}
    /\ endpoint \in {"uninitialized", "ready", "listening"}
    /\ connection \in [Connections -> {"none", "connecting", "open", "closing", "closed",
                                      "gone", "reclosing", "zombie"}]
    /\ transmissionqueue \in Seq(1 .. MaxPackets) /\ pushed \in 0 .. MaxPackets
    /\ main \in {"idle", "starting", "join_transmission", "stop_listening",
                 "check", "close", "closing", "clear", "join_reception"}
    /\ maincon \in Connections \cup {NoConnection}
    /\ maincon \in Connections <=> main = "closing"
    /\ calls \in 0 .. MaxCalls
    /\ rx \in {"none", "init_asio", "listen", "start_accept", "run", "onopen",
               "assigning", "assigned", "onclose", "exited"}
    /\ tx \in {"none", "test", "pop", "check", "copy", "send", "lost", "exited"}
    /\ rxcon \in Connections \cup {NoConnection}
    /\ rxcon \in Connections <=> rx \in {"onopen", "assigning", "assigned", "onclose"}
    /\ txcon \in Connections \cup {NoConnection}
    /\ txpacket \in 0 .. MaxPackets
    /\ fault \in {"none", "terminate", "undefined"}
    /\ accepted \in Seq(Connections) /\ heard \subseteq Connections
    /\ sent \in Seq((1 .. MaxPackets) \X Connections)

\* The connections that were made the operator's.
Accepted == {accepted[i] : i \in 1 .. Len(accepted)}

Up == {"open", "closing", "closed", "reclosing"}

\* While hasconnection is set the handle names a connection that the endpoint
\* still has, so get_con_from_hdl finds it: onclose of that connection, in the
\* same thread as onopen, takes the flag back before the endpoint forgets it.
FlagVouchesForHandle ==
    hasconnection =>
        /\ operatorconnectionhandle \in Accepted
        /\ connection[operatorconnectionhandle] \in Up

\* No command of a connection that onopen turned away reaches the reception
\* queue, since it is closing before its first message can be dispatched.
OnlyOperatorsHeard == heard \subseteq Accepted

\* Packets leave in the order they were queued, none twice, and only to
\* connections that were made the operator's.
SentInOrder ==
    /\ \A i, j \in 1 .. Len(sent) : i < j => sent[i][1] < sent[j][1]
    /\ \A i \in 1 .. Len(sent) : sent[i][2] \in Accepted

\* halt joins the transmission thread before it closes the connection, and
\* onopen never turns the operator away: a send that throws was overtaken by
\* the peer, never by a close of the server's own.
SendNeverMeetsOwnClose == tx = "send" => connection[txcon] # "closing"

\* Once halt has returned no socket is left, of an accepted client or of another:
\* the join of the reception thread waited for every one of them.
HaltLeavesNoConnection ==
    receptionthread = "null" =>
        \A c \in Connections : connection[c] \in {"none", "gone", "zombie"}

Con(c) == INSTANCE ConnectionLife WITH
    life <- connection[c], checked <- maincon = c

\* No connection does what websocketpp's do not do.
ConnectionsLive == [][\A c \in Connections : [Con(c)!Next]_(Con(c)!vars)]_vars

\* A halt comes to its end, or to an exception, once the clients leave.
HaltReturns == main = "join_transmission" ~> (main = "idle" \/ fault # "none")

\* Queued packets are taken while the server runs, operator or not.
QueueDrains ==
    transmissionqueue # <<>> /\ transmissionthread = "thread" ~>
        transmissionqueue = <<>> \/ ~isrunning \/ fault # "none"

\* onopen's reason for turning a second operator away: "Other operator already
\* connected!"  So no two operators are connected at a time.
OneOperator == Cardinality({c \in Accepted : connection[c] = "open"}) <= 1
=============================================================================
