----------------------- MODULE WebSocketServerProofs -----------------------
(***************************************************************************)
(* Proofs about WebSocketServer, for any clients, calls and packets.       *)
(***************************************************************************)
EXTENDS WebSocketServer, SequenceTheorems, TLAPS

-----------------------------------------------------------------------------
(* The inductive invariant *)

\* A thread that is not pointed to does not run, and halt touches the connection
\* only after it has joined the transmission thread.
ThreadsJoined ==
    /\ receptionthread # "thread" => rx = "none"
    /\ transmissionthread # "thread" => tx = "none"
    /\ main = "starting" => transmissionthread # "thread"
    /\ main \in {"stop_listening", "check", "close", "closing", "clear", "join_reception"} =>
         transmissionthread = "null"

\* Where the handle is used, it is that of a connection made the operator's.
HandleAccepted ==
    /\ operatorconnectionhandle # NoConnection => operatorconnectionhandle \in Accepted
    /\ hasconnection \/ main = "close" \/ tx = "copy" =>
         operatorconnectionhandle # NoConnection
    /\ maincon # NoConnection => maincon \in Accepted
    /\ tx = "send" => txcon \in Accepted
    /\ rx = "assigned" => operatorconnectionhandle = rxcon

\* A connection is new to onopen, and stays open until onopen has assigned it;
\* onclose meets one that has ended.
HandlerMeets ==
    /\ rx \in {"onopen", "assigning"} => connection[rxcon] = "open" /\ rxcon \notin Accepted
    /\ rx \in {"assigning", "assigned"} => ~hasconnection
    /\ rx = "assigned" => connection[rxcon] \in {"open", "closing"}
    /\ rx = "onclose" => connection[rxcon] \in {"closed", "reclosing"}

\* Which connections the operator's may be among, by where they are in their life.
AcceptedLive ==
    /\ \A c \in Accepted : connection[c] \notin {"none", "connecting"}
    /\ \A c \in Connections : connection[c] = "open" =>
         c \in Accepted \/ (rx \in {"onopen", "assigning"} /\ c = rxcon)
    /\ \A c \in Accepted : connection[c] = "closing" => main \in {"clear", "join_reception"}

\* A late close meets a connection that no close has brought back before.
CloseMeets ==
    maincon # NoConnection => connection[maincon] \in {"open", "closing", "closed", "gone"}

\* Outside run of the endpoint there are no connections.
RunHasAll ==
    rx \in {"none", "init_asio", "listen", "start_accept", "exited"} =>
        \A c \in Connections : connection[c] \in {"none", "gone", "zombie"}

\* The packets sent, in hand and queued are in the order of their numbers.
PacketsOrdered ==
    /\ tx \in {"check", "copy", "send", "lost"} => txpacket # 0
    /\ \A i \in 1 .. Len(transmissionqueue) :
         transmissionqueue[i] <= pushed /\ txpacket < transmissionqueue[i]
    /\ \A i, j \in 1 .. Len(transmissionqueue) :
         i < j => transmissionqueue[i] < transmissionqueue[j]
    /\ txpacket <= pushed
    /\ \A i \in 1 .. Len(sent) :
         /\ sent[i][1] <= pushed
         /\ txpacket # 0 => sent[i][1] < txpacket
         /\ \A j \in 1 .. Len(transmissionqueue) : sent[i][1] < transmissionqueue[j]

IInv ==
    /\ TypeOK /\ ThreadsJoined /\ HandleAccepted /\ HandlerMeets /\ AcceptedLive
    /\ CloseMeets /\ RunHasAll /\ PacketsOrdered
    /\ FlagVouchesForHandle /\ OnlyOperatorsHeard /\ SentInOrder /\ SendNeverMeetsOwnClose

-----------------------------------------------------------------------------

\* onopen makes only connections of the endpoint the operator's.
LEMMA AcceptedType == TypeOK => Accepted \subseteq Connections
<1> SUFFICES ASSUME accepted \in Seq(Connections), NEW i \in 1 .. Len(accepted)
             PROVE  accepted[i] \in Connections
  BY DEF TypeOK, Accepted
<1> QED
  BY ElementOfSeq

\* The operators so far change with the list of them.
LEMMA AcceptedKept == UNCHANGED accepted => Accepted' = Accepted
BY DEF Accepted

\* onopen's assignment of the handle adds the connection it was called for.
LEMMA AcceptedGrows == TypeOK /\ EndAssign => Accepted' = Accepted \cup {rxcon}
<1> SUFFICES ASSUME TypeOK, EndAssign
             PROVE  Accepted' = Accepted \cup {rxcon}
  OBVIOUS
<1>1. accepted \in Seq(Connections) /\ rxcon \in Connections
  BY DEF TypeOK, EndAssign, RxStep
<1>2. accepted' = Append(accepted, rxcon)
  BY DEF EndAssign
<1> QED
  BY <1>1, <1>2 DEF Accepted

(***************************************************************************)
(* Typing.  What is not a matter of types: a packet that is sent has a     *)
(* number, and the handles sent and closed are not empty.                  *)
(***************************************************************************)
LEMMA TypeInductive ==
    TypeOK /\ ThreadsJoined /\ HandleAccepted /\ PacketsOrdered /\ [Next]_vars => TypeOK'
<1> SUFFICES ASSUME TypeOK, ThreadsJoined, HandleAccepted, PacketsOrdered, [Next]_vars
             PROVE  TypeOK'
  OBVIOUS
<1> USE ServerAssumption
<1> USE DEF TypeOK, Alive, members, flags, threads, operator, network, queues,
            caller, reception, transmission, history
<1>1. CASE Run
  BY <1>1 DEF Run, MainStep, NewCall, ThreadsJoined
<1>2. CASE Halt
  <2>1. isrunning' \in BOOLEAN
    BY <1>2, Zenon DEF Halt
  <2> QED
    BY <1>2, <2>1 DEF Halt, MainStep, NewCall
<1>3. CASE StartTransmission \/ JoinTransmission \/ StopListening \/ JoinReception
  BY <1>3 DEF StartTransmission, JoinTransmission, StopListening, JoinReception, MainStep
<1>4. CASE CheckConnection
  BY <1>4 DEF CheckConnection, MainStep
<1>5. CASE CheckOpen
  BY <1>5, AcceptedType DEF CheckOpen, MainStep, HandleAccepted
<1>6. CASE CloseOperator
  BY <1>6 DEF CloseOperator, MainStep
<1>7. CASE ClearConnection
  <2>1. hasconnection' \in BOOLEAN
    BY <1>7, Zenon DEF ClearConnection
  <2> QED
    BY <1>7, <2>1 DEF ClearConnection, MainStep
<1>8. CASE HaltThrows \/ WildPointer \/ TornHandle
  BY <1>8 DEF HaltThrows, WildPointer, TornHandle, Die
<1>9. CASE Setup
  BY <1>9, SMTT(30) DEF Setup, InitAsio, Listen, StartAccept, ServerReturns, RxStep
<1>10. CASE Reject
  BY <1>10 DEF Reject, RxStep
<1>11. CASE BeginAssign
  BY <1>11 DEF BeginAssign, RxStep
<1>12. CASE EndAssign
  <2>1. accepted' \in Seq(Connections)
    BY <1>12 DEF EndAssign, RxStep
  <2> QED
    BY <1>12, <2>1 DEF EndAssign, RxStep
<1>13. CASE SetConnection
  BY <1>13 DEF SetConnection, RxStep
<1>14. CASE OnClose
  <2>1. hasconnection' \in BOOLEAN
    BY <1>14, Zenon DEF OnClose
  <2> QED
    BY <1>14, <2>1 DEF OnClose, OnCloseStep, RxStep
<1>15. CASE TestRunning \/ PopNothing \/ CheckOperator \/ CopyHandle \/ SendThrows
  BY <1>15, SMTT(30)
     DEF TestRunning, PopNothing, CheckOperator, CopyHandle, SendThrows, TxStep, Die
<1>16. CASE PopTransmission
  BY <1>16 DEF PopTransmission, TxStep
<1>17. CASE Send
  <2>1. txpacket \in 1 .. MaxPackets /\ txcon \in Connections
    BY <1>17, AcceptedType DEF Send, TxStep, PacketsOrdered, HandleAccepted
  <2>2. sent' \in Seq((1 .. MaxPackets) \X Connections)
    BY <1>17, <2>1 DEF Send
  <2> QED
    BY <1>17, <2>2 DEF Send, TxStep
<1>18. CASE PushTransmission
  BY <1>18 DEF PushTransmission
<1>19. ASSUME NEW c \in Connections,
              Accept(c) \/ Settle(c) \/ OnMessage(c) \/ Leave(c, "open")
       PROVE  TypeOK'
  <2>1. CASE Accept(c)
    BY <2>1 DEF Accept, Event
  <2>2. CASE HandshakeFails(c)
    BY <2>2 DEF HandshakeFails, Event
  <2>3. CASE HandshakeDone(c)
    BY <2>3 DEF HandshakeDone, Event
  <2>4. CASE OnMessage(c)
    <3>1. heard' \subseteq Connections
      BY <2>4 DEF OnMessage
    <3> QED
      BY <2>4, <3>1 DEF OnMessage, Event
  <2>5. ASSUME NEW from, Leave(c, from)
        PROVE  TypeOK'
    BY <2>5 DEF Leave, Event
  <2> QED
    BY <1>19, <2>1, <2>2, <2>3, <2>4, <2>5 DEF Settle
<1>20. CASE UNCHANGED vars
  BY <1>20 DEF vars
<1> QED
  BY <1>1, <1>2, <1>3, <1>4, <1>5, <1>6, <1>7, <1>8, <1>9, <1>10, <1>11, <1>12, <1>13,
     <1>14, <1>15, <1>16, <1>17, <1>18, <1>19, <1>20
     DEF Next, Proceed, Handler, Transmit

(***************************************************************************)
(* Threads.  Each position is changed by its own thread, which the pointer *)
(* names; the caller makes and takes back the pointers.                    *)
(***************************************************************************)
LEMMA ThreadsInductive == ThreadsJoined /\ [Next]_vars => ThreadsJoined'
<1> SUFFICES ASSUME ThreadsJoined, [Next]_vars
             PROVE  ThreadsJoined'
  OBVIOUS
<1> USE DEF ThreadsJoined, Alive, members, flags, threads, operator, network, queues,
            caller, reception, transmission, history
<1>1. CASE Run \/ Halt
  BY <1>1 DEF Run, Halt, MainStep
<1>2. CASE Proceed
  BY <1>2 DEF Proceed, StartTransmission, JoinTransmission, StopListening, CheckConnection,
              CheckOpen, CloseOperator, ClearConnection, JoinReception, HaltThrows,
              WildPointer, MainStep, Die
<1>3. CASE Setup \/ Handler
  BY <1>3 DEF Setup, InitAsio, Listen, StartAccept, ServerReturns, Handler, Reject,
              BeginAssign, EndAssign, SetConnection, OnClose, OnCloseStep, RxStep
<1>4. CASE Transmit
  BY <1>4 DEF Transmit, TestRunning, PopNothing, PopTransmission, CheckOperator,
              CopyHandle, Send, SendThrows, TxStep, Die
<1>5. CASE PushTransmission \/ TornHandle
  BY <1>5 DEF PushTransmission, TornHandle, Die
<1>6. ASSUME NEW c \in Connections,
             Accept(c) \/ Settle(c) \/ OnMessage(c) \/ Leave(c, "open")
      PROVE  ThreadsJoined'
  BY <1>6 DEF Accept, Settle, HandshakeFails, HandshakeDone, Leave, OnMessage, Event
<1>7. CASE UNCHANGED vars
  BY <1>7 DEF vars
<1> QED
  BY <1>1, <1>2, <1>3, <1>4, <1>5, <1>6, <1>7 DEF Next

(***************************************************************************)
(* The operator's handle.  The set of the accepted only grows, so a step   *)
(* is to be looked at where it copies a handle or tests the flag.          *)
(***************************************************************************)
LEMMA HandleInductive ==
    TypeOK /\ HandleAccepted /\ [Next]_vars => HandleAccepted'
<1> SUFFICES ASSUME TypeOK, HandleAccepted, [Next]_vars
             PROVE  HandleAccepted'
  OBVIOUS
<1> USE ServerAssumption
<1> USE DEF HandleAccepted, Alive, members, flags, threads, operator, network, queues,
            caller, reception, transmission, history
<1>1. CASE Run \/ Halt
  BY <1>1, AcceptedKept DEF Run, Halt, MainStep
<1>2. CASE Proceed
  BY <1>2, AcceptedKept
     DEF Proceed, StartTransmission, JoinTransmission, StopListening, CheckConnection,
         CheckOpen, CloseOperator, ClearConnection, JoinReception, HaltThrows,
         WildPointer, MainStep, Die
<1>3. CASE Setup
  BY <1>3, AcceptedKept
     DEF Setup, InitAsio, Listen, StartAccept, ServerReturns, RxStep
<1>4. CASE Reject \/ BeginAssign \/ OnClose
  BY <1>4, AcceptedKept DEF Reject, BeginAssign, OnClose, OnCloseStep, RxStep
<1>5. CASE EndAssign
  <2>1. rxcon \in Connections
    BY <1>5 DEF TypeOK, EndAssign, RxStep
  <2> QED
    BY <1>5, <2>1, AcceptedGrows DEF EndAssign, RxStep
<1>6. CASE SetConnection
  <2>1. rxcon \in Connections
    BY <1>6 DEF TypeOK, SetConnection, RxStep
  <2> QED
    BY <1>6, <2>1, AcceptedKept DEF SetConnection, RxStep
<1>7. CASE Transmit
  BY <1>7, AcceptedKept
     DEF Transmit, TestRunning, PopNothing, PopTransmission, CheckOperator, CopyHandle,
         Send, SendThrows, TxStep, Die
<1>8. CASE PushTransmission \/ TornHandle
  BY <1>8, AcceptedKept DEF PushTransmission, TornHandle, Die
<1>9. ASSUME NEW c \in Connections,
             Accept(c) \/ Settle(c) \/ OnMessage(c) \/ Leave(c, "open")
      PROVE  HandleAccepted'
  BY <1>9, AcceptedKept
     DEF Accept, Settle, HandshakeFails, HandshakeDone, Leave, OnMessage, Event
<1>10. CASE UNCHANGED vars
  BY <1>10, AcceptedKept DEF vars
<1> QED
  BY <1>1, <1>2, <1>3, <1>4, <1>5, <1>6, <1>7, <1>8, <1>9, <1>10 DEF Next, Handler

(***************************************************************************)
(* The handlers.  Only closewsserverconnections touches a connection while *)
(* one of them runs, and it touches the operator's.                        *)
(***************************************************************************)
LEMMA HandlerInductive ==
    /\ TypeOK /\ HandleAccepted /\ HandlerMeets /\ AcceptedLive /\ CloseMeets
    /\ [Next]_vars
    => HandlerMeets'
<1> SUFFICES ASSUME TypeOK, HandleAccepted, HandlerMeets, AcceptedLive, CloseMeets,
                    [Next]_vars
             PROVE  HandlerMeets'
  OBVIOUS
<1> USE ServerAssumption
<1> USE DEF HandlerMeets, Alive, members, flags, threads, operator, network, queues,
            caller, reception, transmission, history
<1>1. CASE Run \/ Halt
  BY <1>1, AcceptedKept DEF Run, Halt, MainStep
<1>2. CASE StartTransmission \/ JoinTransmission \/ StopListening \/ CheckConnection
           \/ CheckOpen \/ ClearConnection \/ JoinReception \/ HaltThrows \/ WildPointer
  BY <1>2, AcceptedKept
     DEF StartTransmission, JoinTransmission, StopListening, CheckConnection,
         CheckOpen, ClearConnection, JoinReception, HaltThrows,
         WildPointer, MainStep, Die
<1>3. CASE CloseOperator
  <2>1. maincon \in Connections /\ maincon \in Accepted
    BY <1>3 DEF TypeOK, HandleAccepted, CloseOperator, MainStep
  <2>2. connection[maincon] \in {"open", "closing", "closed", "gone"}
    BY <2>1 DEF CloseMeets
  <2> QED
    BY <1>3, <2>1, <2>2, AcceptedKept DEF TypeOK, CloseOperator, MainStep
<1>4. CASE Setup
  BY <1>4, AcceptedKept
     DEF Setup, InitAsio, Listen, StartAccept, ServerReturns, RxStep
<1>5. CASE Handler
  BY <1>5, AcceptedKept
     DEF Handler, Reject, BeginAssign, EndAssign, SetConnection, OnClose, OnCloseStep,
         RxStep
<1>6. CASE Transmit
  BY <1>6, AcceptedKept
     DEF Transmit, TestRunning, PopNothing, PopTransmission, CheckOperator, CopyHandle,
         Send, SendThrows, TxStep, Die
<1>7. CASE PushTransmission \/ TornHandle
  BY <1>7, AcceptedKept DEF PushTransmission, TornHandle, Die
<1>8. ASSUME NEW c \in Connections, Accept(c) \/ HandshakeFails(c) \/ OnMessage(c)
      PROVE  HandlerMeets'
  BY <1>8, AcceptedKept DEF Accept, HandshakeFails, OnMessage, Event
<1>9. ASSUME NEW c \in Connections, HandshakeDone(c)
      PROVE  HandlerMeets'
  BY <1>9, AcceptedKept DEF TypeOK, AcceptedLive, HandshakeDone, Event
<1>10. ASSUME NEW c \in Connections, NEW from, Leave(c, from)
       PROVE  HandlerMeets'
  BY <1>10, AcceptedKept DEF TypeOK, Leave, Event
<1>11. CASE UNCHANGED vars
  BY <1>11, AcceptedKept DEF vars
<1> QED
  BY <1>1, <1>2, <1>3, <1>4, <1>5, <1>6, <1>7, <1>8, <1>9, <1>10, <1>11
     DEF Next, Proceed, Settle

(***************************************************************************)
(* The operator's connections.  onopen appends a connection that is open,  *)
(* which the connection cannot have become without onopen; and halt, which *)
(* closes one of them, does not return before none is closing.             *)
(***************************************************************************)
LEMMA AcceptedInductive ==
    /\ TypeOK /\ ThreadsJoined /\ HandleAccepted /\ HandlerMeets /\ AcceptedLive
    /\ RunHasAll /\ [Next]_vars
    => AcceptedLive'
<1> SUFFICES ASSUME TypeOK, ThreadsJoined, HandleAccepted, HandlerMeets, AcceptedLive,
                    RunHasAll, [Next]_vars
             PROVE  AcceptedLive'
  OBVIOUS
<1> USE ServerAssumption
<1> USE DEF AcceptedLive, Alive, members, flags, threads, operator, network, queues,
            caller, reception, transmission, history
<1>1. CASE Run \/ Halt
  BY <1>1, AcceptedKept DEF ThreadsJoined, Run, Halt, MainStep
<1>2. CASE StartTransmission \/ JoinTransmission \/ StopListening \/ CheckConnection
           \/ CheckOpen \/ ClearConnection \/ HaltThrows \/ WildPointer
  BY <1>2, AcceptedKept
     DEF StartTransmission, JoinTransmission, StopListening, CheckConnection,
         CheckOpen, ClearConnection, HaltThrows, WildPointer, MainStep, Die
<1>3. CASE CloseOperator
  <2>1. maincon \in Connections /\ maincon \in Accepted
    BY <1>3 DEF TypeOK, HandleAccepted, CloseOperator, MainStep
  <2> QED
    BY <1>3, <2>1, AcceptedType, AcceptedKept DEF TypeOK, CloseOperator, MainStep
<1>4. CASE JoinReception
  <2>1. \A c \in Accepted : connection[c] # "closing"
    BY <1>4, AcceptedType DEF RunHasAll, JoinReception
  <2> QED
    BY <1>4, <2>1, AcceptedKept DEF JoinReception, MainStep
<1>5. CASE Setup
  BY <1>5, AcceptedKept
     DEF Setup, InitAsio, Listen, StartAccept, ServerReturns, RxStep
<1>6. CASE Reject
  BY <1>6, AcceptedType, AcceptedKept DEF TypeOK, HandlerMeets, Reject, RxStep
<1>7. CASE OnClose
  BY <1>7, AcceptedType, AcceptedKept DEF TypeOK, OnClose, OnCloseStep, RxStep
<1>8. CASE BeginAssign \/ SetConnection
  BY <1>8, AcceptedKept DEF BeginAssign, SetConnection, RxStep
<1>9. CASE EndAssign
  BY <1>9, AcceptedGrows DEF HandlerMeets, EndAssign, RxStep
<1>10. CASE Transmit
  BY <1>10, AcceptedKept
     DEF Transmit, TestRunning, PopNothing, PopTransmission, CheckOperator, CopyHandle,
         Send, SendThrows, TxStep, Die
<1>11. CASE PushTransmission \/ TornHandle
  BY <1>11, AcceptedKept DEF PushTransmission, TornHandle, Die
<1>12. ASSUME NEW c \in Connections, Accept(c) \/ HandshakeFails(c) \/ OnMessage(c)
       PROVE  AcceptedLive'
  BY <1>12, AcceptedType, AcceptedKept DEF TypeOK, Accept, HandshakeFails, OnMessage, Event
<1>13. ASSUME NEW c \in Connections, HandshakeDone(c)
       PROVE  AcceptedLive'
  BY <1>13, AcceptedType, AcceptedKept DEF TypeOK, HandshakeDone, Event
<1>14. ASSUME NEW c \in Connections, NEW from, Leave(c, from)
       PROVE  AcceptedLive'
  BY <1>14, AcceptedType, AcceptedKept DEF TypeOK, Leave, Event
<1>15. CASE UNCHANGED vars
  BY <1>15, AcceptedKept DEF vars
<1> QED
  BY <1>1, <1>2, <1>3, <1>4, <1>5, <1>6, <1>7, <1>8, <1>9, <1>10, <1>11, <1>12, <1>13,
     <1>14, <1>15 DEF Next, Proceed, Handler, Settle

(***************************************************************************)
(* The connection that halt is closing was open when it looked, so no step *)
(* of the endpoint has made it one that a late close brought back.         *)
(***************************************************************************)
LEMMA CloseInductive ==
    TypeOK /\ HandlerMeets /\ CloseMeets /\ [Next]_vars => CloseMeets'
<1> SUFFICES ASSUME TypeOK, HandlerMeets, CloseMeets, [Next]_vars
             PROVE  CloseMeets'
  OBVIOUS
<1> USE ServerAssumption
<1> USE DEF CloseMeets, Alive, members, flags, threads, operator, network, queues,
            caller, reception, transmission, history
<1>1. CASE Run \/ Halt
  BY <1>1 DEF Run, Halt, MainStep
<1>2. CASE Proceed
  BY <1>2
     DEF TypeOK, Proceed, StartTransmission, JoinTransmission, StopListening, CheckConnection,
         CheckOpen, CloseOperator, ClearConnection, JoinReception, HaltThrows,
         WildPointer, MainStep, Die
<1>3. CASE Setup
  BY <1>3 DEF Setup, InitAsio, Listen, StartAccept, ServerReturns, RxStep
<1>4. CASE Reject
  BY <1>4 DEF TypeOK, Reject, RxStep
<1>5. CASE OnClose
  BY <1>5 DEF TypeOK, HandlerMeets, OnClose, OnCloseStep, RxStep
<1>6. CASE BeginAssign \/ EndAssign \/ SetConnection
  BY <1>6 DEF BeginAssign, EndAssign, SetConnection, RxStep
<1>7. CASE Transmit
  BY <1>7 DEF Transmit, TestRunning, PopNothing, PopTransmission, CheckOperator,
              CopyHandle, Send, SendThrows, TxStep, Die
<1>8. CASE PushTransmission \/ TornHandle
  BY <1>8 DEF PushTransmission, TornHandle, Die
<1>9. ASSUME NEW c \in Connections, Accept(c) \/ HandshakeFails(c) \/ OnMessage(c)
      PROVE  CloseMeets'
  BY <1>9 DEF TypeOK, Accept, HandshakeFails, OnMessage, Event
<1>10. ASSUME NEW c \in Connections, HandshakeDone(c)
       PROVE  CloseMeets'
  BY <1>10 DEF TypeOK, HandshakeDone, Event
<1>11. ASSUME NEW c \in Connections, NEW from, Leave(c, from)
       PROVE  CloseMeets'
  BY <1>11 DEF TypeOK, Leave, Event
<1>12. CASE UNCHANGED vars
  BY <1>12 DEF vars
<1> QED
  BY <1>1, <1>2, <1>3, <1>4, <1>5, <1>6, <1>7, <1>8, <1>9, <1>10, <1>11, <1>12
     DEF Next, Handler, Settle

(***************************************************************************)
(* The endpoint's run returns with no connection left, and before it none  *)
(* is accepted; what halt still closes then is gone, and comes back to     *)
(* stay.                                                                   *)
(***************************************************************************)
LEMMA RunInductive ==
    TypeOK /\ ThreadsJoined /\ CloseMeets /\ RunHasAll /\ [Next]_vars => RunHasAll'
<1> SUFFICES ASSUME TypeOK, ThreadsJoined, CloseMeets, RunHasAll, [Next]_vars
             PROVE  RunHasAll'
  OBVIOUS
<1> USE ServerAssumption
<1> USE DEF RunHasAll, Alive, members, flags, threads, operator, network, queues,
            caller, reception, transmission, history
<1>1. CASE Run
  BY <1>1 DEF ThreadsJoined, Run, MainStep
<1>2. CASE Halt
  BY <1>2 DEF Halt, MainStep
<1>3. CASE StartTransmission \/ JoinTransmission \/ StopListening \/ CheckConnection
           \/ CheckOpen \/ ClearConnection \/ JoinReception \/ HaltThrows \/ WildPointer
  BY <1>3
     DEF StartTransmission, JoinTransmission, StopListening, CheckConnection,
         CheckOpen, ClearConnection, JoinReception, HaltThrows,
         WildPointer, MainStep, Die
<1>4. CASE CloseOperator
  <2>1. maincon \in Connections
        /\ connection[maincon] \in {"open", "closing", "closed", "gone"}
    BY <1>4 DEF TypeOK, CloseMeets, CloseOperator, MainStep
  <2> QED
    BY <1>4, <2>1 DEF TypeOK, CloseOperator, MainStep
<1>5. CASE Setup
  BY <1>5 DEF Setup, InitAsio, Listen, StartAccept, ServerReturns, RxStep
<1>6. CASE Handler
  BY <1>6 DEF Handler, Reject, BeginAssign, EndAssign, SetConnection, OnClose,
              OnCloseStep, RxStep
<1>7. CASE Transmit
  BY <1>7 DEF Transmit, TestRunning, PopNothing, PopTransmission, CheckOperator,
              CopyHandle, Send, SendThrows, TxStep, Die
<1>8. CASE PushTransmission \/ TornHandle
  BY <1>8 DEF PushTransmission, TornHandle, Die
<1>9. ASSUME NEW c \in Connections,
             Accept(c) \/ Settle(c) \/ OnMessage(c) \/ Leave(c, "open")
      PROVE  RunHasAll'
  BY <1>9 DEF Accept, Settle, HandshakeFails, HandshakeDone, Leave, OnMessage, Event
<1>10. CASE UNCHANGED vars
  BY <1>10 DEF vars
<1> QED
  BY <1>1, <1>2, <1>3, <1>4, <1>5, <1>6, <1>7, <1>8, <1>9, <1>10 DEF Next, Proceed

(***************************************************************************)
(* Packets.  One number is in hand or none, below every number queued and  *)
(* above every number sent.                                                *)
(***************************************************************************)
LEMMA PacketsInductive ==
    TypeOK /\ PacketsOrdered /\ [Next]_vars => PacketsOrdered'
<1> SUFFICES ASSUME TypeOK, PacketsOrdered, [Next]_vars
             PROVE  PacketsOrdered'
  OBVIOUS
<1> USE ServerAssumption
<1> USE DEF Alive, members, flags, threads, operator, network, queues,
            caller, reception, transmission, history
<1>a. /\ transmissionqueue \in Seq(Nat) /\ pushed \in Nat /\ txpacket \in Nat
      /\ sent \in Seq(Nat \X Connections)
  BY DEF TypeOK
<1>1. CASE Run \/ Halt
  BY <1>1 DEF Run, Halt, MainStep, PacketsOrdered
<1>2. CASE Proceed
  BY <1>2
     DEF Proceed, StartTransmission, JoinTransmission, StopListening, CheckConnection,
         CheckOpen, CloseOperator, ClearConnection, JoinReception, HaltThrows,
         WildPointer, MainStep, Die, PacketsOrdered
<1>3. CASE Setup \/ Handler
  BY <1>3 DEF Setup, InitAsio, Listen, StartAccept, ServerReturns, Handler, Reject,
              BeginAssign, EndAssign, SetConnection, OnClose, OnCloseStep, RxStep,
              PacketsOrdered
<1>4. CASE TestRunning \/ PopNothing \/ CopyHandle \/ SendThrows
  BY <1>4 DEF TestRunning, PopNothing, CopyHandle, SendThrows, TxStep, Die, PacketsOrdered
<1>5. CASE PopTransmission
  <2>1. /\ txpacket' = transmissionqueue[1] /\ transmissionqueue # <<>>
        /\ transmissionqueue' = Tail(transmissionqueue)
        /\ UNCHANGED <<pushed, sent>>
    BY <1>5, <1>a DEF PopTransmission, TxStep
  <2>2. /\ Len(transmissionqueue') = Len(transmissionqueue) - 1
        /\ \A i \in 1 .. Len(transmissionqueue') :
             /\ i + 1 \in 2 .. Len(transmissionqueue)
             /\ transmissionqueue'[i] = transmissionqueue[i + 1]
    BY <1>a, <2>1
  <2> QED
    BY <1>a, <2>1, <2>2, SMTT(30) DEF PacketsOrdered
<1>6. CASE CheckOperator
  BY <1>6, <1>a DEF CheckOperator, TxStep, PacketsOrdered
<1>7. CASE Send
  BY <1>7, <1>a DEF Send, TxStep, PacketsOrdered
<1>8. CASE PushTransmission
  BY <1>8, <1>a, SMTT(30) DEF PushTransmission, PacketsOrdered
<1>9. CASE TornHandle
  BY <1>9 DEF TornHandle, Die, PacketsOrdered
<1>10. ASSUME NEW c \in Connections,
              Accept(c) \/ Settle(c) \/ OnMessage(c) \/ Leave(c, "open")
       PROVE  PacketsOrdered'
  BY <1>10 DEF Accept, Settle, HandshakeFails, HandshakeDone, Leave, OnMessage, Event,
               PacketsOrdered
<1>11. CASE UNCHANGED vars
  BY <1>11 DEF vars, PacketsOrdered
<1> QED
  BY <1>1, <1>2, <1>3, <1>4, <1>5, <1>6, <1>7, <1>8, <1>9, <1>10, <1>11
     DEF Next, Transmit

(***************************************************************************)
(* The flag.  It is set by onopen, for a connection that is open or that   *)
(* halt is closing, and no step but onclose, in the same thread, takes the *)
(* connection out of the endpoint.                                         *)
(***************************************************************************)
LEMMA FlagInductive ==
    /\ TypeOK /\ HandleAccepted /\ HandlerMeets /\ FlagVouchesForHandle
    /\ [Next]_vars
    => FlagVouchesForHandle'
<1> SUFFICES ASSUME TypeOK, HandleAccepted, HandlerMeets, FlagVouchesForHandle,
                    [Next]_vars
             PROVE  FlagVouchesForHandle'
  OBVIOUS
<1> USE ServerAssumption
<1> USE DEF Alive, members, flags, threads, operator, network,
            queues, caller, reception, transmission, history
<1>1. ASSUME UNCHANGED <<hasconnection, operatorconnectionhandle, connection, Accepted>>
      PROVE  FlagVouchesForHandle'
  BY <1>1 DEF FlagVouchesForHandle, Up
<1>2. CASE Run \/ Halt
  BY <1>1, <1>2, AcceptedKept DEF Run, Halt, MainStep
<1>3. CASE StartTransmission \/ JoinTransmission \/ StopListening \/ CheckConnection
           \/ CheckOpen \/ JoinReception \/ HaltThrows \/ WildPointer
  BY <1>1, <1>3, AcceptedKept
     DEF StartTransmission, JoinTransmission, StopListening, CheckConnection,
         CheckOpen, JoinReception, HaltThrows, WildPointer, MainStep, Die
<1>4. CASE CloseOperator
  BY <1>4, AcceptedKept, AcceptedType
     DEF FlagVouchesForHandle, Up, TypeOK, CloseOperator, MainStep
<1>5. CASE ClearConnection \/ OnClose
  BY <1>5 DEF FlagVouchesForHandle, ClearConnection, OnClose
<1>6. CASE Setup
  BY <1>1, <1>6, AcceptedKept
     DEF Setup, InitAsio, Listen, StartAccept, ServerReturns, RxStep
<1>7. CASE Reject
  BY <1>7, AcceptedKept, AcceptedType DEF FlagVouchesForHandle, Up, TypeOK, Reject, RxStep
<1>8. CASE BeginAssign
  BY <1>1, <1>8, AcceptedKept DEF BeginAssign, RxStep
<1>9. CASE EndAssign
  <2>1. ~hasconnection'
    BY <1>9 DEF HandlerMeets, EndAssign, RxStep
  <2> QED
    BY <2>1 DEF FlagVouchesForHandle
<1>10. CASE SetConnection
  <2>1. rxcon \in Connections
    BY <1>10 DEF TypeOK, SetConnection, RxStep
  <2>2. operatorconnectionhandle = rxcon /\ operatorconnectionhandle \in Accepted
    BY <1>10, <2>1 DEF HandleAccepted, SetConnection, RxStep
  <2>3. connection[rxcon] \in Up
    BY <1>10 DEF HandlerMeets, SetConnection, RxStep, Up
  <2>4. UNCHANGED <<operatorconnectionhandle, connection, Accepted>>
    BY <1>10, AcceptedKept DEF SetConnection, RxStep
  <2> QED
    BY <2>2, <2>3, <2>4 DEF FlagVouchesForHandle, Up
<1>11. CASE Transmit
  BY <1>1, <1>11, AcceptedKept
     DEF Transmit, TestRunning, PopNothing, PopTransmission, CheckOperator, CopyHandle,
         Send, SendThrows, TxStep, Die
<1>12. CASE PushTransmission \/ TornHandle
  BY <1>1, <1>12, AcceptedKept DEF PushTransmission, TornHandle, Die
<1>13. ASSUME NEW c \in Connections,
              Accept(c) \/ Settle(c) \/ OnMessage(c) \/ Leave(c, "open")
       PROVE  FlagVouchesForHandle'
  <2>1. UNCHANGED <<hasconnection, operatorconnectionhandle, Accepted>>
    BY <1>13, AcceptedKept
       DEF Accept, Settle, HandshakeFails, HandshakeDone, OnMessage, Leave
  <2>2. \E to \in Up \cup {"connecting", "gone"} :
          /\ connection' = [connection EXCEPT ![c] = to]
          /\ to = "connecting" => connection[c] = "none"
          /\ to = "gone" => connection[c] = "connecting"
    BY <1>13 DEF Accept, Settle, HandshakeFails, HandshakeDone, OnMessage, Leave, Event, Up
  <2> QED
    BY <2>1, <2>2, AcceptedType DEF FlagVouchesForHandle, Up, TypeOK
<1>14. CASE UNCHANGED vars
  BY <1>1, <1>14, AcceptedKept DEF vars
<1> QED
  BY <1>2, <1>3, <1>4, <1>5, <1>6, <1>7, <1>8, <1>9, <1>10, <1>11, <1>12, <1>13,
     <1>14 DEF Next, Proceed, Handler, Settle

\* onmessage is called for open connections, which are operators unless onopen is
\* running; the endpoint runs one handler at a time.
LEMMA HeardInductive ==
    TypeOK /\ AcceptedLive /\ OnlyOperatorsHeard /\ [Next]_vars => OnlyOperatorsHeard'
<1> SUFFICES ASSUME TypeOK, AcceptedLive, OnlyOperatorsHeard, [Next]_vars
             PROVE  OnlyOperatorsHeard'
  OBVIOUS
<1> USE DEF OnlyOperatorsHeard, Alive, members, flags, threads, operator, network, queues,
            caller, reception, transmission, history
<1>1. ASSUME NEW c \in Connections, OnMessage(c)
      PROVE  OnlyOperatorsHeard'
  BY <1>1, AcceptedKept DEF AcceptedLive, OnMessage, Event
<1>2. CASE EndAssign
  BY <1>2, AcceptedGrows DEF EndAssign, RxStep
<1>3. CASE Run \/ Halt
  BY <1>3, AcceptedKept DEF Run, Halt, MainStep
<1>4. CASE Proceed
  BY <1>4, AcceptedKept
     DEF Proceed, StartTransmission, JoinTransmission, StopListening, CheckConnection,
         CheckOpen, CloseOperator, ClearConnection, JoinReception, HaltThrows,
         WildPointer, MainStep, Die
<1>5. CASE Setup \/ Reject \/ BeginAssign \/ SetConnection \/ OnClose
  BY <1>5, AcceptedKept
     DEF Setup, InitAsio, Listen, StartAccept, ServerReturns, Reject,
         BeginAssign, SetConnection, OnClose, OnCloseStep, RxStep
<1>6. CASE Transmit
  BY <1>6, AcceptedKept
     DEF Transmit, TestRunning, PopNothing, PopTransmission, CheckOperator, CopyHandle,
         Send, SendThrows, TxStep, Die
<1>7. CASE PushTransmission \/ TornHandle
  BY <1>7, AcceptedKept DEF PushTransmission, TornHandle, Die
<1>8. ASSUME NEW c \in Connections, Accept(c) \/ Settle(c) \/ Leave(c, "open")
      PROVE  OnlyOperatorsHeard'
  BY <1>8, AcceptedKept DEF Accept, Settle, HandshakeFails, HandshakeDone, Leave, Event
<1>9. CASE UNCHANGED vars
  BY <1>9, AcceptedKept DEF vars
<1> QED
  BY <1>1, <1>2, <1>3, <1>4, <1>5, <1>6, <1>7, <1>8, <1>9 DEF Next, Handler

\* What makes a connection closing: onopen, of one that is no operator's, and halt,
\* when no transmission thread is left.
LEMMA SendInductive ==
    /\ TypeOK /\ ThreadsJoined /\ HandleAccepted /\ HandlerMeets /\ AcceptedLive
    /\ SendNeverMeetsOwnClose /\ [Next]_vars
    => SendNeverMeetsOwnClose'
<1> SUFFICES ASSUME TypeOK, ThreadsJoined, HandleAccepted, HandlerMeets, AcceptedLive,
                    SendNeverMeetsOwnClose, [Next]_vars
             PROVE  SendNeverMeetsOwnClose'
  OBVIOUS
<1> USE DEF SendNeverMeetsOwnClose, Alive, members, flags, threads, operator, network,
            queues, caller, reception, transmission, history
<1>1. CASE Run \/ Halt
  BY <1>1 DEF Run, Halt, MainStep
<1>2. CASE StartTransmission \/ JoinTransmission \/ StopListening \/ CheckConnection
           \/ CheckOpen \/ ClearConnection \/ JoinReception \/ HaltThrows \/ WildPointer
  BY <1>2
     DEF StartTransmission, JoinTransmission, StopListening, CheckConnection,
         CheckOpen, ClearConnection, JoinReception, HaltThrows,
         WildPointer, MainStep, Die
<1>3. CASE CloseOperator
  BY <1>3 DEF ThreadsJoined, CloseOperator, MainStep
<1>4. CASE Setup \/ BeginAssign \/ EndAssign \/ SetConnection
  BY <1>4 DEF Setup, InitAsio, Listen, StartAccept, ServerReturns, BeginAssign, EndAssign,
              SetConnection, RxStep
<1>5. CASE Reject
  BY <1>5, AcceptedType DEF TypeOK, HandleAccepted, HandlerMeets, Reject, RxStep
<1>6. CASE OnClose
  BY <1>6, AcceptedType DEF TypeOK, HandleAccepted, OnClose, OnCloseStep, RxStep
<1>7. CASE TestRunning \/ PopNothing \/ PopTransmission \/ CheckOperator \/ Send \/ SendThrows
  BY <1>7 DEF TestRunning, PopNothing, PopTransmission, CheckOperator, Send, SendThrows,
              TxStep, Die
<1>8. CASE CopyHandle
  <2>1. operatorconnectionhandle \in Accepted
    BY <1>8 DEF HandleAccepted, CopyHandle, TxStep
  <2>2. main \notin {"clear", "join_reception"}
    BY <1>8 DEF ThreadsJoined, CopyHandle, TxStep
  <2> QED
    BY <1>8, <2>1, <2>2 DEF AcceptedLive, CopyHandle, TxStep
<1>9. CASE PushTransmission \/ TornHandle
  BY <1>9 DEF PushTransmission, TornHandle, Die
<1>10. ASSUME NEW c \in Connections,
              Accept(c) \/ Settle(c) \/ OnMessage(c) \/ Leave(c, "open")
       PROVE  SendNeverMeetsOwnClose'
  BY <1>10, AcceptedType
     DEF TypeOK, HandleAccepted, Accept, Settle, HandshakeFails, HandshakeDone, OnMessage,
         Leave, Event
<1>11. CASE UNCHANGED vars
  BY <1>11 DEF vars
<1> QED
  BY <1>1, <1>2, <1>3, <1>4, <1>5, <1>6, <1>7, <1>8, <1>9, <1>10, <1>11
     DEF Next, Proceed, Handler, Transmit

\* send is passed the packet in hand, numbered above all that were sent, and the
\* handle that was copied.
LEMMA SentInductive ==
    /\ TypeOK /\ HandleAccepted /\ PacketsOrdered /\ SentInOrder /\ [Next]_vars
    => SentInOrder'
<1> SUFFICES ASSUME TypeOK, HandleAccepted, PacketsOrdered, SentInOrder, [Next]_vars
             PROVE  SentInOrder'
  OBVIOUS
<1> USE DEF Alive, members, flags, threads, operator, network,
            queues, caller, reception, transmission, history
<1>1. CASE Send
  <2>1. /\ txpacket \in Nat /\ txpacket # 0 /\ txcon \in Accepted
        /\ sent \in Seq(Nat \X Connections)
    BY <1>1, ServerAssumption DEF TypeOK, HandleAccepted, PacketsOrdered, Send, TxStep
  <2>2. sent' = Append(sent, <<txpacket, txcon>>) /\ Accepted' = Accepted
    BY <1>1, AcceptedKept DEF Send, TxStep
  <2>3. \A i \in 1 .. Len(sent) : sent[i][1] < txpacket
    BY <2>1 DEF PacketsOrdered
  <2> QED
    BY <2>1, <2>2, <2>3 DEF SentInOrder
<1>2. CASE EndAssign
  BY <1>2, AcceptedGrows DEF SentInOrder, EndAssign, RxStep
<1>3. ASSUME UNCHANGED <<sent, Accepted>>
      PROVE  SentInOrder'
  BY <1>3 DEF SentInOrder
<1>4. CASE Run \/ Halt \/ Proceed
  BY <1>3, <1>4, AcceptedKept
     DEF Run, Halt, Proceed, StartTransmission, JoinTransmission, StopListening,
         CheckConnection, CheckOpen, CloseOperator, ClearConnection, JoinReception,
         HaltThrows, WildPointer, MainStep, Die
<1>5. CASE Setup \/ Reject \/ BeginAssign \/ SetConnection \/ OnClose
  BY <1>3, <1>5, AcceptedKept
     DEF Setup, InitAsio, Listen, StartAccept, ServerReturns, Reject,
         BeginAssign, SetConnection, OnClose, OnCloseStep, RxStep
<1>6. CASE TestRunning \/ PopNothing \/ PopTransmission \/ CheckOperator \/ CopyHandle
           \/ SendThrows
  BY <1>3, <1>6, AcceptedKept
     DEF TestRunning, PopNothing, PopTransmission, CheckOperator, CopyHandle,
         SendThrows, TxStep, Die
<1>7. CASE PushTransmission \/ TornHandle
  BY <1>3, <1>7, AcceptedKept DEF PushTransmission, TornHandle, Die
<1>8. ASSUME NEW c \in Connections,
             Accept(c) \/ Settle(c) \/ OnMessage(c) \/ Leave(c, "open")
      PROVE  SentInOrder'
  BY <1>3, <1>8, AcceptedKept
     DEF Accept, Settle, HandshakeFails, HandshakeDone, OnMessage, Leave
<1>9. CASE UNCHANGED vars
  BY <1>3, <1>9, AcceptedKept DEF vars
<1> QED
  BY <1>1, <1>2, <1>4, <1>5, <1>6, <1>7, <1>8, <1>9 DEF Next, Handler, Transmit

-----------------------------------------------------------------------------

\* A server that was constructed satisfies the invariant.
LEMMA InitIInv == Init => IInv
<1> SUFFICES ASSUME Init PROVE IInv
  OBVIOUS
<1> USE ServerAssumption DEF Init
<1>1. TypeOK
  <2>1. isrunning \in BOOLEAN /\ hasconnection \in BOOLEAN
    BY Zenon
  <2> QED
    BY <2>1 DEF TypeOK
<1>2. Accepted = {}
  BY DEF Accepted
<1>3. ThreadsJoined /\ HandleAccepted /\ HandlerMeets /\ AcceptedLive /\ CloseMeets
  BY <1>2 DEF ThreadsJoined, HandleAccepted, HandlerMeets, AcceptedLive, CloseMeets
<1>4. RunHasAll
  BY DEF RunHasAll
<1>5. PacketsOrdered
  BY DEF PacketsOrdered
<1>6. /\ FlagVouchesForHandle /\ OnlyOperatorsHeard /\ SentInOrder
      /\ SendNeverMeetsOwnClose
  BY <1>2 DEF FlagVouchesForHandle, OnlyOperatorsHeard, SentInOrder, SendNeverMeetsOwnClose
<1> QED
  BY <1>1, <1>3, <1>4, <1>5, <1>6 DEF IInv

\* Every step of the three threads and of the endpoint preserves it.
LEMMA IInvInductive == IInv /\ [Next]_vars => IInv'
BY TypeInductive, ThreadsInductive, HandleInductive, HandlerInductive, AcceptedInductive,
   CloseInductive, RunInductive, PacketsInductive, FlagInductive, HeardInductive,
   SendInductive, SentInductive
   DEF IInv

\* So it holds for as long as the server lives.
LEMMA Invariance == Spec => []IInv
BY InitIInv, IInvInductive, PTL DEF Spec

-----------------------------------------------------------------------------
(* The server among others: what the proofs about RuntimeBroker need of it *)

\* What others do, and a count of calls that covers theirs, leave the invariant alone.
LEMMA OthersStep ==
    ASSUME IInv, calls' \in 0 .. MaxCalls, fault' \in {"none", "terminate", "undefined"},
           UNCHANGED <<members, network, queues, main, maincon, reception, transmission,
                       history>>
    PROVE  IInv'
<1> USE DEF IInv, members, network, queues, reception, transmission, history
<1>1. Accepted' = Accepted
  BY AcceptedKept
<1>2. TypeOK'
  BY DEF TypeOK
<1>3. ThreadsJoined' /\ HandleAccepted' /\ HandlerMeets' /\ AcceptedLive' /\ CloseMeets'
  BY <1>1 DEF ThreadsJoined, HandleAccepted, HandlerMeets, AcceptedLive, CloseMeets
<1>4. RunHasAll' /\ PacketsOrdered'
  BY DEF RunHasAll, PacketsOrdered
<1>5. /\ FlagVouchesForHandle' /\ OnlyOperatorsHeard' /\ SentInOrder'
      /\ SendNeverMeetsOwnClose'
  BY <1>1 DEF FlagVouchesForHandle, OnlyOperatorsHeard, SentInOrder, SendNeverMeetsOwnClose, Up
<1> QED
  BY <1>2, <1>3, <1>4, <1>5

\* The steps by which a connection becomes the operator's, a packet in hand gets its
\* way, and one is sent.
LEMMA WhoServes ==
    ASSUME [Next]_vars
    PROVE  \/ /\ UNCHANGED <<accepted, sent, operatorconnectionhandle>>
              /\ tx' = "send" => UNCHANGED transmission
           \/ EndAssign \/ CopyHandle \/ Send
<1> USE DEF Alive, members, flags, threads, operator, network, queues,
            caller, reception, transmission, history
<1>1. CASE Run \/ Halt \/ Proceed
  BY <1>1
     DEF Run, Halt, Proceed, StartTransmission, JoinTransmission, StopListening,
         CheckConnection, CheckOpen, CloseOperator, ClearConnection, JoinReception,
         HaltThrows, WildPointer, MainStep, Die
<1>2. CASE Setup \/ Reject \/ BeginAssign \/ SetConnection \/ OnClose
  BY <1>2
     DEF Setup, InitAsio, Listen, StartAccept, ServerReturns, Reject, BeginAssign,
         SetConnection, OnClose, OnCloseStep, RxStep
<1>3. CASE TestRunning \/ PopNothing \/ PopTransmission \/ CheckOperator
  BY <1>3 DEF TestRunning, PopNothing, PopTransmission, CheckOperator, TxStep
<1>4. CASE SendThrows \/ PushTransmission \/ TornHandle \/ UNCHANGED vars
  BY <1>4 DEF SendThrows, PushTransmission, TornHandle, Die, vars
<1>5. ASSUME NEW c \in Connections,
             Accept(c) \/ Settle(c) \/ OnMessage(c) \/ Leave(c, "open")
      PROVE  /\ UNCHANGED <<accepted, sent, operatorconnectionhandle>>
             /\ tx' = "send" => UNCHANGED transmission
  BY <1>5
     DEF Accept, Settle, HandshakeFails, HandshakeDone, OnMessage, Leave, Event
<1> QED
  BY <1>1, <1>2, <1>3, <1>4, <1>5 DEF Next, Handler, Transmit

\* run starts both threads in two steps, and what follows the first step of halt goes
\* on to an end without them.
LEMMA WhoCalls ==
    ASSUME ThreadsJoined, [Next]_vars
    PROVE  \/ Run \/ Halt
           \/ /\ calls' = calls
              /\ \/ main' = main /\ UNCHANGED threads
                 \/ main = "starting" /\ main' = "idle"
                 \/ /\ main \notin {"idle", "starting"} /\ main' # "starting"
                    /\ transmissionthread' = "null"
                    /\ receptionthread = "null" => receptionthread' = "null"
                    /\ main' = "idle" => receptionthread' = "null"
<1> USE DEF Alive, members, flags, threads, operator, network, queues,
            caller, reception, transmission, history
<1>1. CASE StartTransmission
  BY <1>1 DEF StartTransmission, MainStep
<1>2. CASE JoinTransmission \/ StopListening \/ CheckConnection \/ CheckOpen
           \/ CloseOperator \/ ClearConnection \/ JoinReception
  BY <1>2
     DEF ThreadsJoined, JoinTransmission, StopListening, CheckConnection, CheckOpen,
         CloseOperator, ClearConnection, JoinReception, MainStep
<1>3. CASE HaltThrows \/ WildPointer \/ TornHandle
  BY <1>3 DEF HaltThrows, WildPointer, TornHandle, Die
<1>4. CASE Setup \/ Handler
  BY <1>4
     DEF Setup, InitAsio, Listen, StartAccept, ServerReturns, Handler, Reject,
         BeginAssign, EndAssign, SetConnection, OnClose, OnCloseStep, RxStep
<1>5. CASE Transmit
  BY <1>5
     DEF Transmit, TestRunning, PopNothing, PopTransmission, CheckOperator, CopyHandle,
         Send, SendThrows, TxStep, Die
<1>6. CASE PushTransmission \/ UNCHANGED vars
  BY <1>6 DEF PushTransmission, vars
<1>7. ASSUME NEW c \in Connections,
             Accept(c) \/ Settle(c) \/ OnMessage(c) \/ Leave(c, "open")
      PROVE  calls' = calls /\ main' = main /\ UNCHANGED threads
  BY <1>7
     DEF Accept, Settle, HandshakeFails, HandshakeDone, OnMessage, Leave, Event
<1> QED
  BY <1>1, <1>2, <1>3, <1>4, <1>5, <1>6, <1>7 DEF Next, Proceed

-----------------------------------------------------------------------------

(***************************************************************************)
(* Steps of the server are steps of its connections.  Where one starts     *)
(* from the invariant says: onopen closes a connection that is open,       *)
(* onclose one that has ended, and no close of another thread is under way *)
(* when the caller of halt begins one.                                     *)
(***************************************************************************)
LEMMA ConnectionStep ==
    ASSUME IInv, [Next]_vars, NEW c \in Connections
    PROVE  [Con(c)!Next]_(Con(c)!vars)
<1> USE ServerAssumption DEF IInv
<1> USE DEF Alive, members, flags, threads, operator, network, queues,
            caller, reception, transmission, history
<1>1. ASSUME UNCHANGED <<connection, maincon>>
      PROVE  UNCHANGED Con(c)!vars
  BY <1>1 DEF Con!vars
<1>2. CASE Run \/ Halt
  BY <1>1, <1>2 DEF Run, Halt, MainStep
<1>3. CASE StartTransmission \/ JoinTransmission \/ StopListening \/ CheckConnection
           \/ ClearConnection \/ JoinReception \/ HaltThrows \/ WildPointer
  BY <1>1, <1>3
     DEF StartTransmission, JoinTransmission, StopListening, CheckConnection,
         ClearConnection, JoinReception, HaltThrows, WildPointer, MainStep, Die
<1>4. CASE CheckOpen
  <2>1. maincon = NoConnection /\ maincon' = operatorconnectionhandle
        /\ connection[operatorconnectionhandle] = "open" /\ UNCHANGED connection
    BY <1>4 DEF TypeOK, CheckOpen, MainStep
  <2>2. CASE operatorconnectionhandle = c
    BY <2>1, <2>2 DEF Con!Next, Con!CheckOpen
  <2>3. CASE operatorconnectionhandle # c
    BY <2>1, <2>3 DEF Con!vars
  <2> QED
    BY <2>2, <2>3
<1>5. CASE CloseOperator
  <2>1. /\ maincon \in Connections /\ maincon' = NoConnection
        /\ connection' = [connection EXCEPT ![maincon] =
             CASE @ = "closed" -> "reclosing" [] @ = "gone" -> "zombie"
               [] OTHER -> "closing"]
    BY <1>5 DEF TypeOK, CloseOperator, MainStep
  <2>2. CASE maincon = c
    BY <2>1, <2>2 DEF TypeOK, Con!Next, Con!LateClose
  <2>3. CASE maincon # c
    BY <2>1, <2>3 DEF TypeOK, Con!vars
  <2> QED
    BY <2>2, <2>3
<1>6. CASE Setup
  BY <1>1, <1>6 DEF Setup, InitAsio, Listen, StartAccept, ServerReturns, RxStep
<1>7. CASE BeginAssign \/ EndAssign \/ SetConnection
  BY <1>1, <1>7 DEF BeginAssign, EndAssign, SetConnection, RxStep
<1>8. CASE Reject
  BY <1>8 DEF TypeOK, HandlerMeets, Reject, RxStep, Con!vars, Con!Next, Con!StartClose,
              Con!Move
<1>9. CASE OnClose
  BY <1>9 DEF TypeOK, HandlerMeets, OnClose, OnCloseStep, RxStep, Con!vars, Con!Next,
              Con!CloseHandler, Con!Move
<1>10. CASE Transmit
  BY <1>1, <1>10
     DEF Transmit, TestRunning, PopNothing, PopTransmission, CheckOperator, CopyHandle,
         Send, SendThrows, TxStep, Die
<1>11. CASE PushTransmission \/ TornHandle
  BY <1>1, <1>11 DEF PushTransmission, TornHandle, Die
<1>12. ASSUME NEW d \in Connections,
              Accept(d) \/ Settle(d) \/ OnMessage(d) \/ Leave(d, "open")
       PROVE  [Con(c)!Next]_(Con(c)!vars)
  <2>1. CASE d # c
    <3>1. UNCHANGED <<connection[c], maincon>>
      BY <1>12, <2>1
         DEF TypeOK, Accept, Settle, HandshakeFails, HandshakeDone, OnMessage, Leave, Event
    <3> QED
      BY <3>1 DEF Con!vars
  <2>2. CASE d = c /\ Accept(c)
    BY <2>2 DEF TypeOK, Accept, Event, Con!Next, Con!Accept, Con!Move
  <2>3. CASE d = c /\ HandshakeFails(c)
    BY <2>3 DEF TypeOK, HandshakeFails, Event, Con!Next, Con!Fail, Con!Move
  <2>4. CASE d = c /\ HandshakeDone(c)
    BY <2>4 DEF TypeOK, HandshakeDone, Event, Con!Next, Con!Open, Con!Move
  <2>5. CASE d = c /\ OnMessage(c)
    BY <2>5 DEF TypeOK, OnMessage, Event, Con!vars
  <2>6. ASSUME d = c, NEW from \in {"open", "closing", "zombie"}, Leave(c, from)
        PROVE  Con(c)!Terminate
    BY <2>6 DEF TypeOK, Leave, Event, Con!Terminate, Con!Move
  <2>7. ASSUME d = c, NEW from \in {"open", "closing", "zombie"}, Leave(c, from)
        PROVE  Con(c)!Next
    BY <2>6, <2>7 DEF Con!Next
  <2> QED
    BY <1>12, <2>1, <2>2, <2>3, <2>4, <2>5, <2>7 DEF Settle
<1>13. CASE UNCHANGED vars
  BY <1>1, <1>13 DEF vars
<1> QED
  BY <1>2, <1>3, <1>4, <1>5, <1>6, <1>7, <1>8, <1>9, <1>10, <1>11, <1>12, <1>13
     DEF Next, Proceed, Handler

-----------------------------------------------------------------------------

\* The members and the positions of the three threads keep their types, whatever
\* the clients do and however run and halt are called.
THEOREM Typing == Spec => []TypeOK
BY Invariance, PTL DEF IInv

\* hasconnection is a promise that the endpoint still knows the handle: onopen
\* sets the flag after the handle, onclose takes it back before the endpoint
\* forgets the connection.
THEOREM FlagVouches == Spec => []FlagVouchesForHandle
BY Invariance, PTL DEF IInv

\* onmessage takes packets of connections that onopen made the operator's, and
\* of no other.
THEOREM StrangersUnheard == Spec => []OnlyOperatorsHeard
BY Invariance, PTL DEF IInv

\* The transmission thread sends the packets of its queue in their order, each at
\* most once, and to operators only.
THEOREM SendingOrder == Spec => []SentInOrder
BY Invariance, PTL DEF IInv

\* No close of halt or onopen makes a send of the transmission thread throw.
THEOREM NoOwnClose == Spec => []SendNeverMeetsOwnClose
BY Invariance, PTL DEF IInv

\* halt's join of the reception thread is a join of every connection.
THEOREM HaltIsComplete == Spec => []HaltLeavesNoConnection
<1>1. IInv => HaltLeavesNoConnection
  BY DEF IInv, ThreadsJoined, RunHasAll, HaltLeavesNoConnection
<1> QED
  BY <1>1, Invariance, PTL

\* What the server's threads do to a connection is what websocketpp lets happen
\* to one.
THEOREM ConnectionsBehave == Spec => ConnectionsLive
<1>1. IInv /\ [Next]_vars => \A c \in Connections : [Con(c)!Next]_(Con(c)!vars)
  BY ConnectionStep
<1> QED
  BY <1>1, Invariance, PTL DEF Spec, ConnectionsLive
=============================================================================
