-------------------------- MODULE ConnectionProofs --------------------------
(***************************************************************************)
(* What the properties of Connection rest on, for any number of sends and  *)
(* of the peer's frames: its inductive invariant, the proofs that it is    *)
(* one, and that the connection implements ConnectionLife.                 *)
(***************************************************************************)
EXTENDS Connection, SequenceLemmas

-----------------------------------------------------------------------------
(* The inductive invariant: the frames *)

\* What is written, being written and waiting are stretches of what was pushed,
\* the first two from its beginning and the last up to its end; a gap between
\* them is what a failed write took along, and the write flag then stays.
Flow ==
    /\ m_current_msgs # <<>> => m_write_flag
    /\ Len(wire) + Len(m_current_msgs) + Len(m_send_queue) <= Len(queued)
    /\ m_write_flag = (m_current_msgs # <<>>) =>
         Len(wire) + Len(m_current_msgs) + Len(m_send_queue) = Len(queued)
    /\ \A i \in 1 .. Len(wire) : wire[i] = queued[i]
    /\ \A i \in 1 .. Len(m_current_msgs) : m_current_msgs[i] = queued[Len(wire) + i]
    /\ \A i \in 1 .. Len(m_send_queue) :
         m_send_queue[i] = queued[Len(queued) - Len(m_send_queue) + i]

\* A terminal frame is the last of the frames written at once; when it has been
\* written the write flag stays.
TerminalLast ==
    /\ \A i \in 1 .. Len(m_current_msgs) :
         m_current_msgs[i][1] = "last" => i = Len(m_current_msgs)
    /\ \A i \in 1 .. Len(wire) :
         wire[i][1] = "last" => i = Len(wire) /\ m_write_flag /\ m_current_msgs = <<>>

\* No message is pushed after a close frame that is not terminal: such a frame is
\* that of a rejected connection, which has no messages, or halt's, which has
\* waited for the transmission thread.
MessagesFirst ==
    /\ \A i \in 1 .. Len(queued) : queued[i][1] = "close" =>
         /\ pc["tx"] = "idle"
         /\ pc["main"] # "idle" \/ role = "rejected"
    /\ \A i, j \in 1 .. Len(queued) :
         i < j /\ queued[i][1] = "close" => queued[j][1] # "message"

-----------------------------------------------------------------------------
(* The inductive invariant: the threads and the session *)

\* The other threads have only an operator's connection, and halt closes it when
\* the transmission thread is gone.
OthersUse ==
    /\ pc["tx"] # "idle" => role = "operator" /\ pc["main"] = "idle"
    /\ pc["main"] # "idle" => role = "operator"

\* Nothing goes on in a connection that is not started.
NotStarted ==
    /\ m_internal_state = "USER_INIT" => m_state = "none"
    /\ m_state = "none" =>
         /\ pc["rx"] = "idle" /\ role = "none"
         /\ m_internal_state = "USER_INIT" /\ reading = "none"
         /\ m_handshake_timer = "none" /\ orphans = 0
         /\ m_send_queue = <<>> /\ m_current_msgs = <<>>

\* A connection has its role from its open handler, which is called when the
\* handshake is over; a rejected one is not open but in that call.
Opening ==
    /\ pc["rx"] = "onopen" =>
         /\ m_state = "open" /\ role = "none"
         /\ reading = "frame"
    /\ pc["rx"] \in {"closing", "arm", "push", "pong", "onclose"} => role # "none"
    /\ role # "none" => m_state \in {"open", "closing", "closed"}
    /\ m_state \in {"open", "closing"} /\ pc["rx"] # "onopen" => role # "none"
    /\ m_state = "open" /\ role = "rejected" => pc["rx"] = "closing"

\* The frame of the reception thread's close is set before it is used, and is the
\* one that is not terminal only on a rejected connection.
FrameSet ==
    /\ pc["rx"] \in {"closing", "arm", "push"} => closeframe # "none"
    /\ closeframe = "close" => role = "rejected"

\* What the server's handlers have been told, against the state.
Told ==
    /\ role = "none" => handled = <<>>
    /\ role # "none" => handled # <<>> /\ handled[1] = role
    /\ \A i \in 1 .. Len(handled) : handled[i] = "close" => m_state \in {"closing", "closed"}
    /\ pc["rx"] = "closing" => m_state \in {"open", "closing"}
    /\ pc["rx"] = "onclose" => m_state \in {"closing", "closed"}
    /\ m_state = "closed" /\ role # "none" /\ pc["rx"] # "onclose" =>
         handled[Len(handled)] = "close"
    /\ m_state = "closing" /\ pc["main"] \in {"idle", "closing"} =>
         pc["rx"] # "onclose" /\ handled[Len(handled)] # "close"

IInv ==
    /\ TypeOK
    /\ Flow /\ TerminalLast /\ MessagesFirst
    /\ OthersUse /\ NotStarted /\ Opening /\ FrameSet /\ Told
    /\ MessagesInSession

-----------------------------------------------------------------------------
(* Lemmas *)

\* What write_frame takes of a queue that is not empty: a frame at least, and no
\* terminal one but as the last.
LEMMA BatchTakes ==
    ASSUME m_send_queue \in Seq(QueueEntry), m_send_queue # <<>>
    PROVE  /\ Batch \in 1 .. Len(m_send_queue)
           /\ \A i \in 1 .. Batch : m_send_queue[i][1] = "last" => i = Batch
<1> DEFINE terminals == {i \in 1 .. Len(m_send_queue) : m_send_queue[i][1] = "last"}
           first == CHOOSE i \in terminals : \A j \in terminals : i <= j
<1>1. Len(m_send_queue) \in Nat \ {0}
  OBVIOUS
<1>2. CASE terminals = {}
  <2>1. Batch = Len(m_send_queue)
    BY <1>2 DEF Batch
  <2> QED
    BY <1>1, <1>2, <2>1
<1>3. CASE terminals # {}
  <2>1. Batch = first
    BY <1>3 DEF Batch
  <2>2. terminals \in SUBSET Nat
    BY <1>1
  <2>3. \E i \in terminals : \A j \in terminals : i <= j
    <3> HIDE DEF terminals
    <3> QED
      BY <1>3, <2>2, SmallestOf
  <2>4. first \in terminals /\ \A j \in terminals : first <= j
    <3> HIDE DEF terminals
    <3> QED
      BY <2>3
  <2>5. ASSUME NEW i \in 1 .. first, m_send_queue[i][1] = "last"
        PROVE  i = first
    <3>1. i \in terminals
      BY <1>1, <2>4, <2>5
    <3> QED
      BY <1>1, <2>4, <2>5, <3>1
  <2> QED
    BY <1>1, <2>1, <2>4, <2>5
<1> QED
  BY <1>2, <1>3

-----------------------------------------------------------------------------
(* Typing, in three parts *)

Positions ==
    [rx : {"idle", "onopen", "closing", "arm", "push", "pong", "terminate", "shut", "onclose"},
     tx : {"idle", "push"},
     main : {"idle", "closing", "arm", "push", "done"}]

FrameTypes ==
    /\ m_send_queue \in Seq(QueueEntry) /\ m_current_msgs \in Seq(QueueEntry)
    /\ m_write_flag \in BOOLEAN /\ posted \in Nat
    /\ queued \in Seq(QueueEntry) /\ wire \in Seq(QueueEntry)

SessionTypes ==
    /\ m_state \in {"none", "connecting", "open", "closing", "closed"}
    /\ m_internal_state \in {"USER_INIT", "READ_HTTP_REQUEST", "PROCESS_HTTP_REQUEST",
                             "PROCESS_CONNECTION"}
    /\ m_was_clean \in BOOLEAN
    /\ m_connection_state_lock \in {"none", "rx", "main"}
    /\ m_handshake_timer \in {"none", "armed", "expired", "fired"} /\ orphans \in Nat
    /\ reading \in {"none", "request", "response", "frame"}
    /\ closeframe \in {"none", "close", "last"}
    /\ sends \in 0 .. MaxSends /\ reads \in 0 .. MaxReads
    /\ fault \in BOOLEAN
    /\ role \in {"none", "operator", "rejected"}
    /\ handled \in Seq({"operator", "rejected", "message", "close"})

\* Typing falls into the types of the positions, of the frames and of the session.
LEMMA TypeParts == TypeOK <=> pc \in Positions /\ FrameTypes /\ SessionTypes
  BY DEF TypeOK, Positions, FrameTypes, SessionTypes

\* A step of a thread moves it alone.
LEMMA RxMoves ==
    ASSUME pc \in Positions, NEW from, NEW to, Step("rx", from, to)
    PROVE  /\ pc["rx"] = from /\ pc'["rx"] = to
           /\ pc'["tx"] = pc["tx"] /\ pc'["main"] = pc["main"]
           /\ to \in {"idle", "onopen", "closing", "arm", "push", "pong", "terminate",
                      "shut", "onclose"} => pc' \in Positions
           /\ fault' = fault
  BY DEF Positions, Step

\* The same of the thread that sends.
LEMMA TxMoves ==
    ASSUME pc \in Positions, NEW from, NEW to, Step("tx", from, to)
    PROVE  /\ pc["tx"] = from /\ pc'["tx"] = to
           /\ pc'["rx"] = pc["rx"] /\ pc'["main"] = pc["main"]
           /\ to \in {"idle", "push"} => pc' \in Positions
           /\ fault' = fault
  BY DEF Positions, Step

\* The same of the main thread.
LEMMA MainMoves ==
    ASSUME pc \in Positions, NEW from, NEW to, Step("main", from, to)
    PROVE  /\ pc["main"] = from /\ pc'["main"] = to
           /\ pc'["rx"] = pc["rx"] /\ pc'["tx"] = pc["tx"]
           /\ to \in {"idle", "closing", "arm", "push", "done"} => pc' \in Positions
           /\ fault' = fault
  BY DEF Positions, Step

\* No step takes a thread to a position it does not have.
LEMMA PositionsInductive == pc \in Positions /\ [Next]_vars => pc' \in Positions
<1> SUFFICES ASSUME pc \in Positions, [Next]_vars
             PROVE  pc' \in Positions
  OBVIOUS
<1> USE DEF RxStep
<1>1. CASE Start
  BY <1>1, RxMoves DEF Start
<1>2. CASE Handshake
  BY <1>2, RxMoves
     DEF Handshake, HandleReadHandshake, HandshakeError, HandshakeRefused, HandleWriteHttpResponse
<1>3. CASE Frames \/ ReadError
  BY <1>3, RxMoves DEF Frames, ReadData, ReadPing, ReadClose, ReadBad, ReadError, ReadFrame
<1>4. CASE Timeout
  BY <1>4, RxMoves DEF Timeout, Expire, HandleTimeout, TimerStep
<1>5. CASE Writing
  BY <1>5, RxMoves DEF Writing, WriteFrame, HandleWriteFrame, WriteFails
<1>6. CASE OnOpen \/ PushPong \/ SendCloseFrame("rx") \/ TerminateCancels \/ Terminate \/ OnClose
  BY <1>6, RxMoves
     DEF OnOpen, PushPong, SendCloseFrame, Closing, Arm, PushClose, TerminateCancels, Terminate, OnClose
<1>7. CASE SendChecks \/ SendPushes
  BY <1>7, TxMoves DEF SendChecks, SendPushes
<1>8. CASE Close \/ SendCloseFrame("main")
  BY <1>8, MainMoves DEF Close, SendCloseFrame, Closing, Arm, PushClose
<1>9. CASE TimerRace \/ UNCHANGED vars
  BY <1>9 DEF TimerRace, vars
<1> QED
  BY <1>1, <1>2, <1>3, <1>4, <1>5, <1>6, <1>7, <1>8, <1>9 DEF Next, Handler

\* A push adds one frame to the queue and to the history of pushes.
LEMMA PushType ==
    ASSUME FrameTypes, NEW kind \in {"message", "pong", "close", "last"},
           NEW n \in 0 .. MaxSends, Push(kind, n)
    PROVE  FrameTypes'
<1>1. <<kind, n>> \in QueueEntry
  BY DEF QueueEntry
<1> QED
  BY <1>1 DEF FrameTypes, Push

\* FrameSet is needed for the frame that a close pushes.
LEMMA FramesTyped ==
    ASSUME FrameTypes, SessionTypes, pc \in Positions, FrameSet, [Next]_vars
    PROVE  FrameTypes'
<1> USE ConnectionAssumption
<1>1. ASSUME UNCHANGED output
      PROVE  FrameTypes'
  BY <1>1 DEF output, FrameTypes
<1>2. CASE Start \/ Handshake
  BY <1>1, <1>2
     DEF Start, Handshake, HandleReadHandshake, HandshakeError, HandshakeRefused,
         HandleWriteHttpResponse, RxStep
<1>3. CASE Frames \/ ReadError \/ Timeout
  BY <1>1, <1>3
     DEF Frames, ReadData, ReadPing, ReadClose, ReadBad, ReadError, ReadFrame,
         Timeout, Expire, HandleTimeout, TimerStep, RxStep
<1>4. CASE WriteFrame
  <2> USE DEF FrameTypes
  <2>1. CASE m_write_flag \/ m_send_queue = <<>>
    BY <1>4, <2>1 DEF WriteFrame
  <2>2. CASE ~ (m_write_flag \/ m_send_queue = <<>>)
    <3>1. Batch \in 1 .. Len(m_send_queue)
      BY <2>2, BatchTakes
    <3>2. /\ SubSeq(m_send_queue, 1, Batch) \in Seq(QueueEntry)
          /\ SubSeq(m_send_queue, Batch + 1, Len(m_send_queue)) \in Seq(QueueEntry)
      BY <3>1
    <3>3. m_write_flag' \in BOOLEAN /\ UNCHANGED <<queued, wire>>
      BY <1>4, <2>2, Zenon DEF WriteFrame
    <3>4. /\ m_current_msgs' \in Seq(QueueEntry) /\ m_send_queue' \in Seq(QueueEntry)
      BY <1>4, <2>2, <3>2, Zenon DEF WriteFrame
    <3>5. posted' \in Nat
      BY <1>4 DEF WriteFrame
    <3> QED
      BY <3>3, <3>4, <3>5
  <2> QED
    BY <2>1, <2>2
<1>5. CASE HandleWriteFrame
  <2> USE DEF FrameTypes
  <2>1. m_write_flag' \in BOOLEAN
    BY <1>5, Zenon DEF HandleWriteFrame
  <2>2. wire' \in Seq(QueueEntry) /\ m_current_msgs' \in Seq(QueueEntry)
    BY <1>5 DEF HandleWriteFrame, FrameWritten
  <2> QED
    BY <1>5, <2>1, <2>2 DEF HandleWriteFrame, FrameWritten
<1>6. CASE WriteFails
  BY <1>6 DEF WriteFails, FrameTypes
<1>7. CASE PushPong
  BY <1>7, PushType DEF PushPong
<1>8. ASSUME NEW t \in {"rx", "main"}, SendCloseFrame(t)
      PROVE  FrameTypes'
  <2>1. CASE PushClose(t)
    <3>1. (IF t = "rx" THEN closeframe ELSE "close") \in {"close", "last"}
      BY <2>1 DEF PushClose, FrameSet, Step, SessionTypes
    <3> QED
      BY <2>1, <3>1, PushType DEF PushClose
  <2> QED
    BY <1>1, <1>8, <2>1 DEF SendCloseFrame, Closing, Arm
<1>9. CASE OnOpen \/ TerminateCancels \/ Terminate \/ OnClose
  BY <1>1, <1>9 DEF OnOpen, TerminateCancels, Terminate, OnClose, RxStep
<1>10. CASE SendPushes
  BY <1>10, PushType DEF SendPushes, SessionTypes
<1>11. CASE SendChecks \/ Close \/ TimerRace
  BY <1>1, <1>11 DEF SendChecks, Close, TimerRace
<1>12. CASE UNCHANGED vars
  BY <1>1, <1>12 DEF vars
<1> QED
  BY <1>2, <1>3, <1>4, <1>5, <1>6, <1>7, <1>8, <1>9, <1>10, <1>11, <1>12
     DEF Next, Writing, Handler

\* Every step keeps the types of the session's members and of what the handlers are told.
LEMMA SessionTyped ==
    ASSUME SessionTypes, pc \in Positions, [Next]_vars
    PROVE  SessionTypes'
<1> USE ConnectionAssumption
<1> USE DEF SessionTypes, session, timer, bounded, rest, Step, RxStep
<1>1. CASE Start
  BY <1>1 DEF Start
<1>2. CASE HandleReadHandshake \/ HandshakeError
  BY <1>2 DEF HandleReadHandshake, HandshakeError
<1>3. ASSUME CancelTimer
      PROVE  /\ m_handshake_timer' \in {"none", "armed", "expired", "fired"}
             /\ orphans' \in Nat
  BY <1>3 DEF CancelTimer
<1>4. CASE HandshakeRefused
  BY <1>3, <1>4 DEF HandshakeRefused
<1>5. CASE HandleWriteHttpResponse
  BY <1>3, <1>5 DEF HandleWriteHttpResponse
<1>6. CASE ReadData
  BY <1>6 DEF ReadData, ReadFrame, NewRead
<1>7. CASE ReadPing
  BY <1>7 DEF ReadPing, ReadFrame, NewRead
<1>8. CASE ReadClose
  <2>1. m_was_clean' \in BOOLEAN
    BY <1>8, Zenon DEF ReadClose
  <2> QED
    BY <1>8, <2>1 DEF ReadClose, ReadFrame, NewRead
<1>9. CASE ReadBad
  BY <1>9 DEF ReadBad, ReadFrame, NewRead
<1>10. CASE ReadError
  BY <1>10 DEF ReadError, ReadFrame
<1>11. CASE Timeout
  BY <1>11 DEF Timeout, Expire, HandleTimeout, TimerStep
<1>12. CASE Writing
  BY <1>12 DEF Writing, WriteFrame, HandleWriteFrame, FrameWritten, WriteFails
<1>13. CASE OnOpen
  BY <1>13 DEF OnOpen
<1>14. CASE PushPong \/ SendPushes
  BY <1>14 DEF PushPong, SendPushes
<1>15. ASSUME NEW t \in {"rx", "main"}, SendCloseFrame(t)
       PROVE  SessionTypes'
  <2>1. CASE Closing(t)
    <3>1. m_was_clean' \in BOOLEAN
      BY <2>1, Zenon DEF Closing
    <3> QED
      BY <2>1, <3>1 DEF Closing
  <2>2. CASE Arm(t)
    BY <2>2 DEF Arm
  <2>3. CASE PushClose(t)
    BY <2>3 DEF PushClose
  <2> QED
    BY <1>15, <2>1, <2>2, <2>3 DEF SendCloseFrame
<1>16. CASE TerminateCancels
  BY <1>3, <1>16 DEF TerminateCancels
<1>17. CASE Terminate
  BY <1>17 DEF Terminate
<1>18. CASE OnClose
  BY <1>18 DEF OnClose
<1>19. CASE SendChecks
  BY <1>19 DEF SendChecks
<1>20. CASE Close
  BY <1>20 DEF Close
<1>21. CASE TimerRace
  <2>1. fault' \in BOOLEAN
    BY <1>21, Zenon DEF TimerRace
  <2> QED
    BY <1>21, <2>1 DEF TimerRace
<1>22. CASE UNCHANGED vars
  BY <1>22 DEF vars
<1> QED
  BY <1>1, <1>2, <1>4, <1>5, <1>6, <1>7, <1>8, <1>9, <1>10, <1>11, <1>12, <1>13,
     <1>14, <1>15, <1>16, <1>17, <1>18, <1>19, <1>20, <1>21, <1>22
     DEF Next, Handshake, Frames, Handler

\* Typing: each part is kept, the frames' with the help of FrameSet.
LEMMA TypeInductive == TypeOK /\ FrameSet /\ [Next]_vars => TypeOK'
<1> SUFFICES ASSUME TypeOK, FrameSet, [Next]_vars
             PROVE  TypeOK'
  OBVIOUS
<1>1. pc' \in Positions /\ FrameTypes' /\ SessionTypes'
  BY TypeParts, PositionsInductive, FramesTyped, SessionTyped
<1> QED
  BY <1>1 DEF TypeOK, Positions, FrameTypes, SessionTypes
-----------------------------------------------------------------------------
(* The frames: Flow and TerminalLast *)

\* The steps that leave the frames alone.
LEMMA FramesLeft ==
    ASSUME [Next]_vars
    PROVE  \/ UNCHANGED output
           \/ \E kind \in {"message", "pong", closeframe, "close"}, n \in {0, sends} : Push(kind, n)
           \/ UNCHANGED <<m_send_queue, m_current_msgs, m_write_flag, queued, wire>>
           \/ WriteFrame /\ ~ (m_write_flag \/ m_send_queue = <<>>)
           \/ HandleWriteFrame \/ WriteFails
<1>1. CASE Start \/ Handshake
  BY <1>1
     DEF Start, Handshake, HandleReadHandshake, HandshakeError, HandshakeRefused,
         HandleWriteHttpResponse, RxStep
<1>2. CASE Frames \/ ReadError \/ Timeout
  BY <1>2
     DEF Frames, ReadData, ReadPing, ReadClose, ReadBad, ReadError, ReadFrame,
         Timeout, Expire, HandleTimeout, TimerStep, RxStep
<1>3. CASE WriteFrame
  BY <1>3 DEF WriteFrame
<1>4. CASE OnOpen \/ TerminateCancels \/ Terminate \/ OnClose
  BY <1>4 DEF OnOpen, TerminateCancels, Terminate, OnClose, RxStep
<1>5. CASE PushPong \/ SendPushes
  BY <1>5 DEF PushPong, SendPushes
<1>6. ASSUME NEW t \in {"rx", "main"}, SendCloseFrame(t)
      PROVE  \/ UNCHANGED output
             \/ \E kind \in {closeframe, "close"} : Push(kind, 0)
  BY <1>6 DEF SendCloseFrame, Closing, Arm, PushClose
<1>7. CASE SendChecks \/ Close \/ TimerRace
  BY <1>7 DEF SendChecks, Close, TimerRace
<1>8. CASE UNCHANGED vars
  BY <1>8 DEF vars
<1> QED
  BY <1>1, <1>2, <1>3, <1>4, <1>5, <1>6, <1>7, <1>8 DEF Next, Writing, Handler

\* Frames wait in the order of their pushes, and are taken and written in that order.
LEMMA FlowInductive ==
    ASSUME FrameTypes, Flow, [Next]_vars
    PROVE  Flow'
<1>1. ASSUME UNCHANGED <<m_send_queue, m_current_msgs, m_write_flag, queued, wire>>
      PROVE  Flow'
  BY <1>1 DEF Flow
<1>2. ASSUME NEW kind, NEW n, Push(kind, n)
      PROVE  Flow'
  <2> DEFINE f == <<kind, n>>
  <2>1. /\ m_send_queue' = Append(m_send_queue, f) /\ queued' = Append(queued, f)
        /\ m_current_msgs' = m_current_msgs /\ wire' = wire /\ m_write_flag' = m_write_flag
    BY <1>2 DEF Push
  <2> HIDE DEF f
  <2>2. /\ Len(m_send_queue') = Len(m_send_queue) + 1 /\ Len(queued') = Len(queued) + 1
        /\ \A i \in 1 .. Len(queued) : queued'[i] = queued[i]
        /\ \A i \in 1 .. Len(m_send_queue) : m_send_queue'[i] = m_send_queue[i]
        /\ queued'[Len(queued) + 1] = f /\ m_send_queue'[Len(m_send_queue) + 1] = f
    BY <2>1 DEF FrameTypes
  <2>3. /\ Len(wire) \in Nat /\ Len(m_current_msgs) \in Nat /\ Len(m_send_queue) \in Nat
        /\ Len(queued) \in Nat
    BY DEF FrameTypes
  <2>4. \A i \in 1 .. Len(m_send_queue') :
          m_send_queue'[i] = queued'[Len(queued') - Len(m_send_queue') + i]
    <3> SUFFICES ASSUME NEW i \in 1 .. Len(m_send_queue')
                 PROVE  m_send_queue'[i] = queued'[Len(queued') - Len(m_send_queue') + i]
      OBVIOUS
    <3>1. CASE i = Len(m_send_queue')
      BY <2>2, <2>3, <3>1
    <3>2. CASE i # Len(m_send_queue')
      <4>1. i \in 1 .. Len(m_send_queue)
        BY <2>2, <2>3, <3>2
      <4>2. m_send_queue[i] = queued[Len(queued) - Len(m_send_queue) + i]
        BY <4>1 DEF Flow
      <4>3. Len(queued) - Len(m_send_queue) + i \in 1 .. Len(queued)
        BY <2>3, <4>1 DEF Flow
      <4> QED
        BY <2>2, <2>3, <4>1, <4>2, <4>3, SMTT(30)
    <3> QED
      BY <3>1, <3>2
  <2>5. /\ \A i \in 1 .. Len(wire) : wire[i] = queued'[i]
        /\ \A i \in 1 .. Len(m_current_msgs) : m_current_msgs[i] = queued'[Len(wire) + i]
    <3>1. Len(wire) + Len(m_current_msgs) + Len(m_send_queue) <= Len(queued)
      BY DEF Flow
    <3>2. ASSUME NEW i \in 1 .. Len(wire)
          PROVE  wire[i] = queued'[i]
      <4>1. wire[i] = queued[i]
        BY DEF Flow
      <4>2. i \in 1 .. Len(queued)
        BY <2>3, <3>1
      <4> QED
        BY <2>2, <4>1, <4>2
    <3>3. ASSUME NEW i \in 1 .. Len(m_current_msgs)
          PROVE  m_current_msgs[i] = queued'[Len(wire) + i]
      <4>1. m_current_msgs[i] = queued[Len(wire) + i]
        BY DEF Flow
      <4>2. Len(wire) + i \in 1 .. Len(queued)
        BY <2>3, <3>1
      <4> QED
        BY <2>2, <4>1, <4>2
    <3> QED
      BY <3>2, <3>3
  <2>6. /\ m_current_msgs # <<>> => m_write_flag
        /\ Len(wire) + Len(m_current_msgs) + Len(m_send_queue') <= Len(queued')
        /\ m_write_flag = (m_current_msgs # <<>>) =>
             Len(wire) + Len(m_current_msgs) + Len(m_send_queue') = Len(queued')
    BY <2>2, <2>3 DEF Flow
  <2> QED
    BY <2>1, <2>4, <2>5, <2>6, Zenon DEF Flow
<1>3. CASE WriteFrame /\ ~ (m_write_flag \/ m_send_queue = <<>>)
  <2> DEFINE B == Batch
             L == Len(m_send_queue)
  <2>1. B \in 1 .. L
    BY <1>3, BatchTakes DEF FrameTypes
  <2>2. /\ m_current_msgs' = SubSeq(m_send_queue, 1, B)
        /\ m_send_queue' = SubSeq(m_send_queue, B + 1, L)
        /\ m_write_flag' = TRUE
        /\ queued' = queued /\ wire' = wire
    BY <1>3, Zenon DEF WriteFrame
  <2>3. m_current_msgs = <<>> /\ ~ m_write_flag
    BY <1>3 DEF Flow
  <2>4. /\ L \in Nat /\ Len(wire) \in Nat /\ Len(queued) \in Nat
        /\ Len(wire) + L = Len(queued)
    BY <2>3 DEF Flow, FrameTypes
  <2> HIDE DEF B
  <2>5. /\ Len(m_current_msgs') = B /\ Len(m_send_queue') = L - B
        /\ \A i \in 1 .. B : m_current_msgs'[i] = m_send_queue[i]
        /\ \A i \in 1 .. L - B : m_send_queue'[i] = m_send_queue[B + i]
    BY <2>1, <2>2, <2>4 DEF FrameTypes
  <2>6. ASSUME NEW i \in 1 .. L
        PROVE  m_send_queue[i] = queued[Len(wire) + i]
    <3>1. m_send_queue[i] = queued[Len(queued) - L + i]
      BY DEF Flow
    <3>2. Len(queued) - L + i = Len(wire) + i
      BY <2>4
    <3> QED
      BY <3>1, <3>2
  <2> HIDE DEF L
  <2>7. ASSUME NEW i \in 1 .. Len(m_current_msgs')
        PROVE  m_current_msgs'[i] = queued'[Len(wire') + i]
    <3>1. i \in 1 .. B /\ i \in 1 .. L
      BY <2>1, <2>4, <2>5
    <3>2. m_current_msgs'[i] = m_send_queue[i] /\ m_send_queue[i] = queued[Len(wire) + i]
      BY <2>5, <2>6, <3>1
    <3> QED
      BY <2>2, <3>2, Zenon
  <2>8. ASSUME NEW i \in 1 .. Len(m_send_queue')
        PROVE  m_send_queue'[i] = queued'[Len(queued') - Len(m_send_queue') + i]
    <3>1. i \in 1 .. L - B /\ B + i \in 1 .. L
      BY <2>1, <2>4, <2>5
    <3>2. m_send_queue'[i] = m_send_queue[B + i] /\ m_send_queue[B + i] = queued[Len(wire) + (B + i)]
      BY <2>5, <2>6, <3>1
    <3>3. Len(queued') - Len(m_send_queue') + i = Len(wire) + (B + i)
      <4>1. Len(queued') = Len(wire) + L /\ Len(m_send_queue') = L - B
        BY <2>2, <2>4, <2>5, Zenon
      <4> QED
        BY <2>1, <2>4, <3>1, <4>1
    <3>4. queued' = queued
      BY <2>2
    <3> QED
      BY <3>2, <3>3, <3>4, Zenon
  <2>9. Len(wire') + Len(m_current_msgs') + Len(m_send_queue') = Len(queued')
    <3>1. /\ Len(queued') = Len(wire) + L /\ Len(m_send_queue') = L - B
          /\ Len(m_current_msgs') = B /\ Len(wire') = Len(wire)
      BY <2>2, <2>4, <2>5, Zenon
    <3> QED
      BY <2>1, <2>4, <3>1
  <2>10. \A i \in 1 .. Len(wire') : wire'[i] = queued'[i]
    BY <2>2, Zenon DEF Flow
  <2>11. Len(wire') + Len(m_current_msgs') + Len(m_send_queue') <= Len(queued')
    <3>1. Len(queued') \in Nat
      BY <2>2, <2>4, Zenon
    <3> QED
      BY <2>9, <3>1
  <2> QED
    BY <2>2, <2>7, <2>8, <2>9, <2>10, <2>11, Zenon DEF Flow
<1>4. CASE HandleWriteFrame
  <2>1. /\ m_current_msgs # <<>> /\ m_current_msgs' = <<>>
        /\ wire' = wire \o m_current_msgs
        /\ m_send_queue' = m_send_queue /\ queued' = queued
    BY <1>4 DEF HandleWriteFrame, FrameWritten
  <2>2. Len(wire) + Len(m_current_msgs) + Len(m_send_queue) = Len(queued)
    <3>1. m_write_flag
      BY <2>1 DEF Flow
    <3>2. m_write_flag = (m_current_msgs # <<>>)
      BY <2>1, <3>1, Zenon DEF FrameTypes
    <3> QED
      BY <3>2, Zenon DEF Flow
  <2>3. /\ Len(wire) \in Nat /\ Len(m_current_msgs) \in Nat /\ Len(m_send_queue) \in Nat
        /\ Len(queued) \in Nat
    BY DEF FrameTypes
  <2>4. /\ Len(wire') = Len(wire) + Len(m_current_msgs)
        /\ \A i \in 1 .. Len(wire) : wire'[i] = wire[i]
        /\ \A i \in 1 .. Len(m_current_msgs) : wire'[Len(wire) + i] = m_current_msgs[i]
    BY <2>1 DEF FrameTypes
  <2>5. Len(m_current_msgs') = 0
    BY <2>1
  <2>6. ASSUME NEW i \in 1 .. Len(wire')
        PROVE  wire'[i] = queued'[i]
    <3>1. CASE i <= Len(wire)
      BY <2>1, <2>3, <2>4, <3>1 DEF Flow
    <3>2. CASE i > Len(wire)
      <4>1. i - Len(wire) \in 1 .. Len(m_current_msgs) /\ Len(wire) + (i - Len(wire)) = i
        BY <2>3, <2>4, <3>2
      <4>2. /\ wire'[Len(wire) + (i - Len(wire))] = m_current_msgs[i - Len(wire)]
            /\ m_current_msgs[i - Len(wire)] = queued[Len(wire) + (i - Len(wire))]
        BY <2>4, <4>1 DEF Flow
      <4> QED
        BY <2>1, <4>1, <4>2
    <3> QED
      BY <2>3, <2>4, <3>1, <3>2
  <2>7. Len(wire') + Len(m_current_msgs') + Len(m_send_queue') = Len(queued')
    BY <2>1, <2>2, <2>3, <2>4, <2>5
  <2>8. Len(wire') + Len(m_current_msgs') + Len(m_send_queue') <= Len(queued')
    BY <2>1, <2>3, <2>7
  <2>9. \A i \in 1 .. Len(m_current_msgs') : m_current_msgs'[i] = queued'[Len(wire') + i]
    BY <2>5
  <2>10. \A i \in 1 .. Len(m_send_queue') :
           m_send_queue'[i] = queued'[Len(queued') - Len(m_send_queue') + i]
    BY <2>1, Zenon DEF Flow
  <2> QED
    BY <2>1, <2>6, <2>7, <2>8, <2>9, <2>10, Zenon DEF Flow
<1>5. CASE WriteFails
  <2>1. /\ m_current_msgs # <<>> /\ m_current_msgs' = <<>>
        /\ UNCHANGED <<m_send_queue, m_write_flag, queued, wire>>
    BY <1>5 DEF WriteFails
  <2>2. m_write_flag' /\ ~ (m_current_msgs' # <<>>)
    BY <2>1 DEF Flow
  <2>3. /\ Len(wire) \in Nat /\ Len(m_current_msgs) \in Nat /\ Len(m_send_queue) \in Nat
        /\ Len(queued) \in Nat /\ Len(m_current_msgs') = 0
    BY <2>1 DEF FrameTypes
  <2>4. Len(wire') + Len(m_current_msgs') + Len(m_send_queue') <= Len(queued')
    BY <2>1, <2>3 DEF Flow
  <2>5. \A i \in 1 .. Len(m_current_msgs') : m_current_msgs'[i] = queued'[Len(wire') + i]
    BY <2>3
  <2>6. /\ \A i \in 1 .. Len(wire') : wire'[i] = queued'[i]
        /\ \A i \in 1 .. Len(m_send_queue') :
             m_send_queue'[i] = queued'[Len(queued') - Len(m_send_queue') + i]
    BY <2>1, Zenon DEF Flow
  <2> QED
    BY <2>2, <2>4, <2>5, <2>6, Zenon DEF Flow
<1> QED
  BY <1>1, <1>2, <1>3, <1>4, <1>5, FramesLeft DEF output

\* A terminal frame ends what is taken, and nothing is taken after it.
LEMMA TerminalInductive ==
    ASSUME FrameTypes, Flow, TerminalLast, [Next]_vars
    PROVE  TerminalLast'
<1>1. ASSUME UNCHANGED <<m_current_msgs, m_write_flag, wire>>
      PROVE  TerminalLast'
  BY <1>1 DEF TerminalLast
<1>2. ASSUME NEW kind, NEW n, Push(kind, n)
      PROVE  TerminalLast'
  BY <1>1, <1>2 DEF Push
<1>3. CASE WriteFrame /\ ~ (m_write_flag \/ m_send_queue = <<>>)
  <2> DEFINE B == Batch
  <2>1. /\ B \in 1 .. Len(m_send_queue)
        /\ \A i \in 1 .. B : m_send_queue[i][1] = "last" => i = B
    BY <1>3, BatchTakes DEF FrameTypes
  <2>2. m_current_msgs' = SubSeq(m_send_queue, 1, B) /\ wire' = wire
    BY <1>3, Zenon DEF WriteFrame
  <2> HIDE DEF B
  <2>3. /\ Len(m_current_msgs') = B
        /\ \A i \in 1 .. B : m_current_msgs'[i] = m_send_queue[i]
    BY <2>1, <2>2 DEF FrameTypes
  <2>4. \A i \in 1 .. Len(wire) : wire[i][1] # "last"
    BY <1>3 DEF TerminalLast
  <2> QED
    BY <2>1, <2>2, <2>3, <2>4 DEF TerminalLast
<1>4. CASE HandleWriteFrame
  <2>1. /\ m_current_msgs # <<>> /\ m_current_msgs' = <<>>
        /\ wire' = wire \o m_current_msgs
    BY <1>4 DEF HandleWriteFrame, FrameWritten
  <2>2. m_current_msgs[Len(m_current_msgs)][1] = "last" => m_write_flag' = m_write_flag
    BY <1>4 DEF HandleWriteFrame, Last
  <2>3. /\ Len(wire) \in Nat /\ Len(m_current_msgs) \in Nat /\ Len(m_current_msgs') = 0
        /\ Len(wire') = Len(wire) + Len(m_current_msgs)
        /\ \A i \in 1 .. Len(wire) : wire'[i] = wire[i]
        /\ \A i \in 1 .. Len(m_current_msgs) : wire'[Len(wire) + i] = m_current_msgs[i]
    BY <2>1 DEF FrameTypes
  <2>4. ASSUME NEW i \in 1 .. Len(wire'), wire'[i][1] = "last"
        PROVE  i = Len(wire') /\ m_write_flag'
    <3>1. CASE i <= Len(wire)
      <4>1. i \in 1 .. Len(wire) /\ wire[i][1] = "last"
        BY <2>3, <2>4, <3>1
      <4> QED
        BY <2>1, <4>1 DEF TerminalLast
    <3>2. CASE i > Len(wire)
      <4>1. i - Len(wire) \in 1 .. Len(m_current_msgs) /\ Len(wire) + (i - Len(wire)) = i
        BY <2>3, <3>2
      <4>2. wire'[Len(wire) + (i - Len(wire))] = m_current_msgs[i - Len(wire)]
        BY <2>3, <4>1
      <4>3. i - Len(wire) = Len(m_current_msgs)
        BY <2>4, <4>1, <4>2 DEF TerminalLast
      <4>4. m_current_msgs[Len(m_current_msgs)][1] = "last"
        BY <2>4, <4>1, <4>2, <4>3
      <4>5. m_write_flag
        BY <2>1 DEF Flow
      <4> QED
        BY <2>2, <2>3, <4>3, <4>4, <4>5
    <3> QED
      BY <2>3, <3>1, <3>2
  <2> QED
    BY <2>1, <2>3, <2>4 DEF TerminalLast
<1>5. CASE WriteFails
  <2>1. m_current_msgs # <<>> /\ m_current_msgs' = <<>> /\ wire' = wire
    BY <1>5 DEF WriteFails
  <2>2. Len(m_current_msgs') = 0 /\ \A i \in 1 .. Len(wire) : wire[i][1] # "last"
    BY <2>1 DEF TerminalLast
  <2> QED
    BY <2>1, <2>2 DEF TerminalLast
<1> QED
  BY <1>1, <1>2, <1>3, <1>4, <1>5, FramesLeft DEF output
-----------------------------------------------------------------------------
(* The threads: OthersUse and MessagesFirst *)

\* Who steps: the reception thread, which changes the role only in onopen, one of
\* the others, or nobody.
LEMMA WhoSteps ==
    ASSUME [Next]_vars
    PROVE  \/ \E from, to : Step("rx", from, to) /\ UNCHANGED role
           \/ OnOpen
           \/ SendChecks \/ SendPushes \/ Close \/ SendCloseFrame("main")
           \/ UNCHANGED <<pc, role, output, m_state, handled, closeframe>>
<1>1. CASE Start \/ Handshake
  BY <1>1
     DEF Start, Handshake, HandleReadHandshake, HandshakeError, HandshakeRefused,
         HandleWriteHttpResponse, RxStep, rest
<1>2. CASE Frames \/ ReadError \/ Timeout
  BY <1>2
     DEF Frames, ReadData, ReadPing, ReadClose, ReadBad, ReadError, ReadFrame,
         Timeout, Expire, HandleTimeout, TimerStep, RxStep, rest
<1>3. CASE Writing
  BY <1>3 DEF Writing, WriteFrame, HandleWriteFrame, FrameWritten, WriteFails, rest
<1>4. CASE PushPong \/ SendCloseFrame("rx") \/ TerminateCancels \/ Terminate \/ OnClose
  BY <1>4
     DEF PushPong, SendCloseFrame, Closing, Arm, PushClose, TerminateCancels, Terminate,
         OnClose, RxStep, rest
<1>5. CASE TimerRace \/ UNCHANGED vars
  BY <1>5 DEF TimerRace, vars, rest, session
<1> QED
  BY <1>1, <1>2, <1>3, <1>4, <1>5 DEF Next, Handler

\* The other threads use the connection only once on_open has vouched for it.
LEMMA OthersInductive ==
    ASSUME pc \in Positions, OthersUse, Opening, [Next]_vars
    PROVE  OthersUse'
<1>1. ASSUME NEW from, NEW to, Step("rx", from, to), UNCHANGED role
      PROVE  OthersUse'
  BY <1>1, RxMoves DEF OthersUse
<1>2. CASE OnOpen
  <2>1. pc["rx"] = "onopen" /\ pc'["tx"] = pc["tx"] /\ pc'["main"] = pc["main"]
    BY <1>2, RxMoves DEF OnOpen, RxStep
  <2> QED
    BY <2>1 DEF OthersUse, Opening
<1>3. CASE SendChecks \/ SendPushes
  <2>1. role' = role /\ (pc'["tx"] # "idle" => role = "operator" /\ pc["main"] = "idle")
    BY <1>3, TxMoves DEF SendChecks, SendPushes, rest
  <2>2. pc'["main"] = pc["main"]
    BY <1>3, TxMoves DEF SendChecks, SendPushes
  <2> QED
    BY <2>1, <2>2 DEF OthersUse
<1>4. CASE Close
  <2>1. role' = role /\ role = "operator" /\ pc["tx"] = "idle" /\ pc'["tx"] = pc["tx"]
    BY <1>4, MainMoves DEF Close, rest
  <2> QED
    BY <2>1 DEF OthersUse
<1>5. CASE SendCloseFrame("main")
  <2>1. role' = role /\ pc["main"] # "idle" /\ pc'["tx"] = pc["tx"]
    BY <1>5, MainMoves DEF SendCloseFrame, Closing, Arm, PushClose, rest
  <2> QED
    BY <2>1 DEF OthersUse
<1>6. CASE UNCHANGED <<pc, role, output, m_state, handled, closeframe>>
  BY <1>6 DEF OthersUse
<1> QED
  BY <1>1, <1>2, <1>3, <1>4, <1>5, <1>6, WhoSteps

\* What is pushed by whom.
LEMMA WhoPushes ==
    ASSUME pc \in Positions, [Next]_vars
    PROVE  \/ UNCHANGED queued
           \/ PushPong
           \/ PushClose("rx")
           \/ PushClose("main")
           \/ SendPushes
<1>1. CASE Start \/ Handshake
  BY <1>1
     DEF Start, Handshake, HandleReadHandshake, HandshakeError, HandshakeRefused,
         HandleWriteHttpResponse, RxStep, output
<1>2. CASE Frames \/ ReadError \/ Timeout
  BY <1>2
     DEF Frames, ReadData, ReadPing, ReadClose, ReadBad, ReadError, ReadFrame,
         Timeout, Expire, HandleTimeout, TimerStep, RxStep, output
<1>3. CASE Writing
  BY <1>3 DEF Writing, WriteFrame, HandleWriteFrame, FrameWritten, WriteFails
<1>4. CASE OnOpen \/ TerminateCancels \/ Terminate \/ OnClose
  BY <1>4 DEF OnOpen, TerminateCancels, Terminate, OnClose, RxStep, output
<1>5. ASSUME NEW t \in {"rx", "main"}, SendCloseFrame(t)
      PROVE  UNCHANGED queued \/ PushClose(t)
  BY <1>5 DEF SendCloseFrame, Closing, Arm, output
<1>6. CASE SendChecks \/ Close \/ TimerRace
  BY <1>6 DEF SendChecks, Close, TimerRace, output
<1>7. CASE UNCHANGED vars
  BY <1>7 DEF vars, output
<1> QED
  BY <1>1, <1>2, <1>3, <1>4, <1>5, <1>6, <1>7 DEF Next, Handler

\* Once a close frame that is not terminal is queued, the transmission thread is
\* idle and stays so.
LEMMA MessagesInductive ==
    ASSUME pc \in Positions, FrameTypes, SessionTypes, OthersUse, Opening, FrameSet,
           MessagesFirst, [Next]_vars
    PROVE  MessagesFirst'
<1> DEFINE CloseQueued == \E i \in 1 .. Len(queued) : queued[i][1] = "close"
           Quiet == pc["tx"] = "idle" /\ (pc["main"] # "idle" \/ role = "rejected")
<1>1. Quiet => Quiet'
  <2> SUFFICES ASSUME Quiet PROVE Quiet'
    OBVIOUS
  <2>1. ASSUME NEW from, NEW to, Step("rx", from, to), UNCHANGED role
        PROVE  Quiet'
    BY <2>1, RxMoves
  <2>2. CASE OnOpen
    <3>1. /\ pc["rx"] = "onopen"
      BY <2>2, RxMoves DEF OnOpen, RxStep
    <3> QED
      BY <3>1 DEF Opening, OthersUse
  <2>3. CASE SendChecks \/ SendPushes
    BY <2>3, TxMoves DEF SendChecks, SendPushes
  <2>4. CASE Close
    <3>1. pc'["main"] # "idle" /\ pc'["tx"] = pc["tx"]
      BY <2>4, MainMoves DEF Close
    <3> QED
      BY <3>1
  <2>5. CASE SendCloseFrame("main")
    <3>1. pc'["main"] # "idle" /\ pc'["tx"] = pc["tx"]
      BY <2>5, MainMoves DEF SendCloseFrame, Closing, Arm, PushClose
    <3> QED
      BY <3>1
  <2>6. CASE UNCHANGED <<pc, role, output, m_state, handled, closeframe>>
    BY <2>6
  <2> QED
    BY <2>1, <2>2, <2>3, <2>4, <2>5, <2>6, WhoSteps
<1>2. CASE UNCHANGED queued
  BY <1>1, <1>2 DEF MessagesFirst
<1>3. ASSUME NEW kind, NEW n, Push(kind, n),
             kind = "close" => Quiet',
             kind = "message" => ~ CloseQueued
      PROVE  MessagesFirst'
  <2>1. queued' = Append(queued, <<kind, n>>)
    BY <1>3 DEF Push
  <2>2. /\ Len(queued') = Len(queued) + 1 /\ Len(queued) \in Nat
        /\ \A i \in 1 .. Len(queued) : queued'[i] = queued[i]
        /\ queued'[Len(queued) + 1] = <<kind, n>>
    BY <2>1 DEF FrameTypes
  <2>3. queued'[Len(queued) + 1][1] = kind
    BY <2>2
  <2>4. ASSUME NEW i \in 1 .. Len(queued'), queued'[i][1] = "close"
        PROVE  Quiet'
    <3>1. CASE i \in 1 .. Len(queued)
      <4>1. queued[i][1] = "close"
        BY <2>2, <2>4, <3>1
      <4> QED
        BY <1>1, <3>1, <4>1 DEF MessagesFirst
    <3>2. CASE i = Len(queued) + 1
      BY <1>3, <2>3, <2>4, <3>2
    <3> QED
      BY <2>2, <3>1, <3>2
  <2>5. ASSUME NEW i \in 1 .. Len(queued'), NEW j \in 1 .. Len(queued'),
               i < j, queued'[i][1] = "close"
        PROVE  queued'[j][1] # "message"
    <3>1. i \in 1 .. Len(queued) /\ queued[i][1] = "close"
      BY <2>2, <2>5
    <3>2. CASE j \in 1 .. Len(queued)
      <4>1. queued[j][1] # "message"
        BY <2>5, <3>1, <3>2 DEF MessagesFirst
      <4> QED
        BY <2>2, <3>2, <4>1
    <3>3. CASE j = Len(queued) + 1
      BY <1>3, <2>3, <3>1, <3>3
    <3> QED
      BY <2>2, <3>2, <3>3
  <2> QED
    BY <2>4, <2>5 DEF MessagesFirst
<1>4. CASE PushPong
  BY <1>3, <1>4 DEF PushPong
<1>5. CASE PushClose("rx")
  <2>1. Push(closeframe, 0) /\ pc["rx"] = "push" /\ role' = role
    BY <1>5 DEF PushClose, Step, rest
  <2>2. closeframe = "close" => Quiet
    BY <2>1 DEF FrameSet, OthersUse
  <2>3. closeframe # "message"
    BY DEF SessionTypes
  <2> QED
    BY <1>1, <1>3, <2>1, <2>2, <2>3
<1>6. CASE PushClose("main")
  <2>1. Push("close", 0) /\ pc["main"] = "push"
    BY <1>6 DEF PushClose, Step
  <2>2. Quiet
    BY <2>1 DEF OthersUse
  <2> QED
    BY <1>1, <1>3, <2>1, <2>2
<1>7. CASE SendPushes
  <2>1. Push("message", sends) /\ pc["tx"] = "push"
    BY <1>7 DEF SendPushes, Step
  <2>2. ~ CloseQueued
    BY <2>1 DEF MessagesFirst
  <2> QED
    BY <1>3, <2>1, <2>2
<1> QED
  BY <1>2, <1>4, <1>5, <1>6, <1>7, WhoPushes
-----------------------------------------------------------------------------
(* The session: NotStarted, Opening, FrameSet *)

\* Nothing has come of a connection that has not been started.
LEMMA NotStartedInductive ==
    ASSUME pc \in Positions, OthersUse, NotStarted, [Next]_vars
    PROVE  NotStarted'
<1> USE DEF session, timer, rest, RxStep
<1>1. CASE Start
  BY <1>1 DEF Start, NotStarted
<1>2. ASSUME m_state # "none", m_state' # "none", m_internal_state' # "USER_INIT"
      PROVE  NotStarted'
  BY <1>2 DEF NotStarted
<1>3. CASE Handshake
  <2>1. m_state # "none" /\ m_internal_state # "USER_INIT"
    BY <1>3
       DEF Handshake, HandleReadHandshake, HandshakeError, HandshakeRefused,
           HandleWriteHttpResponse, NotStarted
  <2>2. m_state' # "none" /\ m_internal_state' # "USER_INIT"
    BY <1>3, <2>1
       DEF Handshake, HandleReadHandshake, HandshakeError, HandshakeRefused,
           HandleWriteHttpResponse
  <2> QED
    BY <1>2, <2>1, <2>2
<1>4. ASSUME m_state # "none", m_internal_state' = m_internal_state,
             m_state' = m_state \/ m_state' \in {"open", "closing", "closed"}
      PROVE  NotStarted'
  BY <1>2, <1>4 DEF NotStarted
<1>5. CASE Frames \/ ReadError
  <2>1. m_state # "none"
    BY <1>5 DEF Frames, ReadData, ReadPing, ReadClose, ReadBad, ReadError, ReadFrame, NotStarted
  <2>2. m_internal_state' = m_internal_state /\ m_state' = m_state
    BY <1>5 DEF Frames, ReadData, ReadPing, ReadClose, ReadBad, ReadError, ReadFrame
  <2> QED
    BY <1>4, <2>1, <2>2
<1>6. CASE Timeout
  <2>1. m_state # "none"
    BY <1>6 DEF Timeout, Expire, HandleTimeout, TimerStep, NotStarted
  <2>2. m_internal_state' = m_internal_state /\ m_state' = m_state
    BY <1>6 DEF Timeout, Expire, HandleTimeout, TimerStep
  <2> QED
    BY <1>4, <2>1, <2>2
<1>7. CASE WriteFrame
  <2>1. m_state = "none" => UNCHANGED <<m_send_queue, m_current_msgs>>
    BY <1>7 DEF WriteFrame, NotStarted
  <2>2. /\ UNCHANGED <<m_state, m_internal_state, reading, m_handshake_timer, orphans, role>>
        /\ pc'["rx"] = pc["rx"]
    BY <1>7, RxMoves DEF WriteFrame
  <2> QED
    BY <2>1, <2>2 DEF NotStarted
<1>8. CASE HandleWriteFrame \/ WriteFails
  <2>1. m_state # "none"
    BY <1>8 DEF HandleWriteFrame, FrameWritten, WriteFails, NotStarted
  <2>2. m_internal_state' = m_internal_state /\ m_state' = m_state
    BY <1>8 DEF HandleWriteFrame, FrameWritten, WriteFails
  <2> QED
    BY <1>4, <2>1, <2>2
<1>9. CASE Handler
  <2>1. pc["rx"] # "idle"
    BY <1>9, RxMoves
       DEF Handler, OnOpen, PushPong, SendCloseFrame, Closing, Arm, PushClose,
           TerminateCancels, Terminate, OnClose
  <2>2. m_internal_state' = m_internal_state /\ (m_state' = m_state \/ m_state' \in {"closing", "closed"})
    BY <1>9
       DEF Handler, OnOpen, PushPong, SendCloseFrame, Closing, Arm, PushClose,
           TerminateCancels, Terminate, OnClose
  <2> QED
    BY <1>4, <2>1, <2>2 DEF NotStarted
<1>10. CASE SendChecks \/ Close
  <2>1. role = "operator"
    BY <1>10 DEF SendChecks, Close
  <2>2. m_internal_state' = m_internal_state /\ m_state' = m_state
    BY <1>10 DEF SendChecks, Close
  <2> QED
    BY <1>4, <2>1, <2>2 DEF NotStarted
<1>11. CASE SendPushes
  <2>1. role = "operator"
    BY <1>11, TxMoves DEF SendPushes, OthersUse
  <2>2. m_internal_state' = m_internal_state /\ m_state' = m_state
    BY <1>11 DEF SendPushes
  <2> QED
    BY <1>4, <2>1, <2>2 DEF NotStarted
<1>12. CASE SendCloseFrame("main")
  <2>1. role = "operator"
    BY <1>12, MainMoves DEF SendCloseFrame, Closing, Arm, PushClose, OthersUse
  <2>2. m_internal_state' = m_internal_state /\ (m_state' = m_state \/ m_state' = "closing")
    BY <1>12 DEF SendCloseFrame, Closing, Arm, PushClose
  <2> QED
    BY <1>4, <2>1, <2>2 DEF NotStarted
<1>13. CASE TimerRace \/ UNCHANGED vars
  BY <1>13 DEF TimerRace, vars, output, NotStarted
<1> QED
  BY <1>1, <1>3, <1>5, <1>6, <1>7, <1>8, <1>9, <1>10, <1>11, <1>12, <1>13 DEF Next, Writing

\* The states the connection passes through while it is opened.
LEMMA OpeningInductive ==
    ASSUME pc \in Positions, SessionTypes, OthersUse, NotStarted, Opening, [Next]_vars
    PROVE  Opening'
<1> USE DEF session, timer, rest, RxStep
<1>1. ASSUME UNCHANGED <<m_state, role, reading>>, pc'["rx"] = pc["rx"]
      PROVE  Opening'
  BY <1>1 DEF Opening
<1>2. ASSUME UNCHANGED <<m_state, role>>, pc["rx"] # "onopen", pc["rx"] # "closing",
             pc'["rx"] \notin {"onopen", "closing", "arm", "push", "pong", "onclose"}
      PROVE  Opening'
  BY <1>2 DEF Opening
<1>3. CASE Start
  BY <1>3, RxMoves DEF Start, NotStarted, Opening
<1>4. CASE HandleReadHandshake \/ HandshakeError \/ HandshakeRefused
  <2>1. /\ UNCHANGED <<m_state, role>> /\ pc["rx"] = "idle"
        /\ pc'["rx"] \in {"idle", "terminate"}
    BY <1>4, RxMoves DEF HandleReadHandshake, HandshakeError, HandshakeRefused
  <2> QED
    BY <1>2, <2>1
<1>5. CASE HandleWriteHttpResponse
  <2>1. CASE m_state = "connecting"
    BY <1>5, <2>1, RxMoves DEF HandleWriteHttpResponse, Opening
  <2>2. CASE m_state # "connecting"
    <3>1. UNCHANGED <<m_state, role>> /\ pc["rx"] = "idle" /\ pc'["rx"] = "idle"
      BY <1>5, <2>2, RxMoves DEF HandleWriteHttpResponse
    <3> QED
      BY <1>2, <3>1
  <2> QED
    BY <2>1, <2>2
<1>6. CASE Frames
  <2>1. /\ UNCHANGED <<m_state, role>> /\ pc["rx"] = "idle"
        /\ pc'["rx"] \in {"idle", "pong", "closing", "terminate"}
        /\ pc'["rx"] \in {"pong", "closing"} => m_state \in {"open", "closing"}
    BY <1>6, RxMoves DEF Frames, ReadData, ReadPing, ReadClose, ReadBad, ReadFrame
  <2> QED
    BY <2>1 DEF Opening
<1>7. CASE ReadError \/ Timeout
  <2>1. /\ UNCHANGED <<m_state, role>> /\ pc["rx"] = "idle"
        /\ pc'["rx"] \in {"idle", "terminate"}
    BY <1>7, RxMoves DEF ReadError, ReadFrame, Timeout, Expire, HandleTimeout, TimerStep
  <2> QED
    BY <1>2, <2>1
<1>8. CASE Writing
  <2>1. /\ UNCHANGED <<m_state, role>> /\ pc["rx"] = "idle"
        /\ pc'["rx"] \in {"idle", "terminate"}
    BY <1>8, RxMoves DEF Writing, WriteFrame, HandleWriteFrame, FrameWritten, WriteFails
  <2> QED
    BY <1>2, <2>1
<1>9. CASE OnOpen
  <2>1. m_state' = m_state /\ m_state = "open"
    BY <1>9, RxMoves DEF OnOpen, Opening
  <2>2. \/ pc'["rx"] = "idle" /\ role' = "operator"
        \/ pc'["rx"] = "closing" /\ role' = "rejected"
    BY <1>9, RxMoves DEF OnOpen
  <2> QED
    BY <2>1, <2>2 DEF Opening
<1>10. CASE PushPong \/ TerminateCancels \/ OnClose
  <2>1. /\ UNCHANGED <<m_state, role>> /\ pc["rx"] \in {"pong", "terminate", "onclose"}
        /\ pc'["rx"] \in {"idle", "shut"}
    BY <1>10, RxMoves DEF PushPong, TerminateCancels, OnClose
  <2> QED
    BY <1>2, <2>1
<1>11. CASE Terminate
  <2>1. /\ m_state' = "closed" /\ role' = role /\ pc["rx"] = "shut"
        /\ pc'["rx"] \in {"idle", "onclose"}
        /\ pc'["rx"] = "onclose" => m_state \notin {"connecting", "closed"}
    BY <1>11, RxMoves DEF Terminate
  <2>2. m_state # "none"
    BY <2>1 DEF NotStarted
  <2>3. pc'["rx"] = "onclose" => m_state \in {"open", "closing"}
    BY <2>1, <2>2 DEF SessionTypes
  <2> QED
    BY <2>1, <2>3 DEF Opening
<1>12. CASE SendCloseFrame("rx")
  <2>1. role' = role /\ role # "none"
    BY <1>12, RxMoves DEF SendCloseFrame, Closing, Arm, PushClose, Opening
  <2>2. CASE Closing("rx")
    <3>1. m_state' = "closing" /\ pc'["rx"] = "arm"
      BY <2>2, RxMoves DEF Closing
    <3> QED
      BY <2>1, <3>1 DEF Opening
  <2>3. CASE Arm("rx") \/ PushClose("rx")
    <3>1. m_state' = m_state /\ pc["rx"] \in {"arm", "push"} /\ pc'["rx"] \in {"push", "idle"}
      BY <2>3, RxMoves DEF Arm, PushClose
    <3> QED
      BY <2>1, <3>1 DEF Opening
  <2> QED
    BY <1>12, <2>2, <2>3 DEF SendCloseFrame
<1>13. CASE SendChecks \/ SendPushes
  <2>1. UNCHANGED <<m_state, role, reading>> /\ pc'["rx"] = pc["rx"]
    BY <1>13, TxMoves DEF SendChecks, SendPushes
  <2> QED
    BY <1>1, <2>1
<1>14. CASE Close \/ Arm("main") \/ PushClose("main")
  <2>1. UNCHANGED <<m_state, role, reading>> /\ pc'["rx"] = pc["rx"]
    BY <1>14, MainMoves DEF Close, Arm, PushClose
  <2> QED
    BY <1>1, <2>1
<1>15. CASE Closing("main")
  <2>1. /\ m_state' = "closing" /\ UNCHANGED <<role, reading>> /\ pc'["rx"] = pc["rx"]
        /\ role = "operator"
    BY <1>15, MainMoves DEF Closing, OthersUse
  <2> QED
    BY <2>1 DEF Opening
<1>16. CASE TimerRace \/ UNCHANGED vars
  BY <1>1, <1>16 DEF TimerRace, vars
<1> QED
  BY <1>3, <1>4, <1>5, <1>6, <1>7, <1>8, <1>9, <1>10, <1>11, <1>12, <1>13, <1>14, <1>15,
     <1>16 DEF Next, Handshake, Handler, SendCloseFrame

\* What sends a close frame has one.
LEMMA FrameSetInductive ==
    ASSUME pc \in Positions, Opening, FrameSet, [Next]_vars
    PROVE  FrameSet'
<1> USE DEF session, timer, rest, RxStep
<1>1. ASSUME UNCHANGED <<closeframe, role>>,
             pc'["rx"] = pc["rx"] \/ pc'["rx"] \notin {"closing", "arm", "push"}
      PROVE  FrameSet'
  BY <1>1 DEF FrameSet
<1>2. CASE Start
  BY <1>1, <1>2, RxMoves DEF Start
<1>3. CASE Handshake
  BY <1>1, <1>3, RxMoves
     DEF Handshake, HandleReadHandshake, HandshakeError, HandshakeRefused,
         HandleWriteHttpResponse
<1>4. CASE ReadData \/ ReadPing \/ ReadError \/ Timeout
  <2>1. UNCHANGED <<closeframe, role>> /\ pc'["rx"] \in {"idle", "pong", "terminate"}
    BY <1>4, RxMoves
       DEF ReadData, ReadPing, ReadError, ReadFrame, Timeout, Expire, HandleTimeout, TimerStep
  <2> QED
    BY <1>1, <2>1
<1>5. CASE ReadClose \/ ReadBad
  <2>1. /\ role' = role /\ pc["rx"] = "idle"
        /\ \/ pc'["rx"] = "closing" /\ closeframe' = "last"
           \/ pc'["rx"] \in {"idle", "terminate"} /\ closeframe' = closeframe
    BY <1>5, RxMoves DEF ReadClose, ReadBad, ReadFrame
  <2> QED
    BY <2>1 DEF FrameSet
<1>6. CASE Writing
  <2>1. UNCHANGED <<closeframe, role>> /\ pc'["rx"] \in {"idle", "terminate"}
    BY <1>6, RxMoves DEF Writing, WriteFrame, HandleWriteFrame, FrameWritten, WriteFails
  <2> QED
    BY <1>1, <2>1
<1>7. CASE OnOpen
  <2>1. role = "none"
    BY <1>7, RxMoves DEF OnOpen, Opening
  <2>2. \/ pc'["rx"] = "idle" /\ closeframe' = closeframe
        \/ pc'["rx"] = "closing" /\ closeframe' = "close" /\ role' = "rejected"
    BY <1>7, RxMoves DEF OnOpen
  <2> QED
    BY <2>1, <2>2 DEF FrameSet
<1>8. CASE PushPong \/ TerminateCancels \/ Terminate \/ OnClose
  <2>1. UNCHANGED <<closeframe, role>> /\ pc'["rx"] \in {"idle", "shut", "onclose"}
    BY <1>8, RxMoves DEF PushPong, TerminateCancels, Terminate, OnClose
  <2> QED
    BY <1>1, <2>1
<1>9. CASE SendCloseFrame("rx")
  <2>1. UNCHANGED <<closeframe, role>> /\ pc["rx"] \in {"closing", "arm", "push"}
    BY <1>9, RxMoves DEF SendCloseFrame, Closing, Arm, PushClose
  <2> QED
    BY <2>1 DEF FrameSet
<1>10. CASE SendChecks \/ SendPushes
  BY <1>1, <1>10, TxMoves DEF SendChecks, SendPushes
<1>11. CASE Close \/ SendCloseFrame("main")
  BY <1>1, <1>11, MainMoves DEF Close, SendCloseFrame, Closing, Arm, PushClose
<1>12. CASE TimerRace \/ UNCHANGED vars
  BY <1>1, <1>12 DEF TimerRace, vars
<1> QED
  BY <1>2, <1>3, <1>4, <1>5, <1>6, <1>7, <1>8, <1>9, <1>10, <1>11, <1>12
     DEF Next, Frames, Handler
-----------------------------------------------------------------------------
(* The session: Told and MessagesInSession *)

\* An entry is added behind those that are there.
LEMMA HandledGrows ==
    ASSUME SessionTypes, NEW h, handled' = Append(handled, h)
    PROVE  /\ handled' # <<>> /\ Len(handled') = Len(handled) + 1 /\ Len(handled) \in Nat
           /\ \A i \in 1 .. Len(handled) : handled'[i] = handled[i]
           /\ handled'[Len(handled')] = h
           /\ handled # <<>> => handled'[1] = handled[1]
           /\ handled = <<>> => handled'[1] = h
<1>1. /\ Len(handled') = Len(handled) + 1 /\ Len(handled) \in Nat
      /\ \A i \in 1 .. Len(handled) : handled'[i] = handled[i]
      /\ handled'[Len(handled) + 1] = h
  BY DEF SessionTypes
<1>2. handled # <<>> => Len(handled) > 0
  BY DEF SessionTypes
<1>3. handled = <<>> => Len(handled) = 0
  OBVIOUS
<1>4. handled' # <<>>
  BY <1>1
<1> QED
  BY <1>1, <1>2, <1>3, <1>4

\* What the handlers have been told agrees with the state of the connection.
LEMMA ToldInductive ==
    ASSUME pc \in Positions, SessionTypes, OthersUse, NotStarted, Opening, Told, [Next]_vars
    PROVE  Told'
<1> USE DEF session, timer, rest, RxStep
<1>1. ASSUME UNCHANGED <<m_state, role, handled>>,
             pc'["main"] = pc["main"] \/ pc'["main"] \notin {"idle", "closing"},
             \/ pc'["rx"] = pc["rx"]
             \/ pc["rx"] # "onclose" /\ pc'["rx"] \notin {"closing", "onclose"}
      PROVE  Told'
  BY <1>1 DEF Told
<1>2. CASE Start
  <2>1. m_state' = "connecting" /\ UNCHANGED <<role, handled>> /\ pc'["rx"] = "idle"
    BY <1>2, RxMoves DEF Start
  <2>2. role = "none"
    BY <1>2 DEF Start, NotStarted
  <2>3. handled = <<>> /\ Len(handled) = 0
    BY <2>2 DEF Told
  <2> QED
    BY <2>1, <2>2, <2>3 DEF Told
<1>3. CASE HandleReadHandshake \/ HandshakeError \/ HandshakeRefused
  <2>1. /\ UNCHANGED <<m_state, role, handled>> /\ pc'["main"] = pc["main"]
        /\ pc["rx"] = "idle" /\ pc'["rx"] \in {"idle", "terminate"}
    BY <1>3, RxMoves DEF HandleReadHandshake, HandshakeError, HandshakeRefused
  <2> QED
    BY <1>1, <2>1
<1>4. CASE HandleWriteHttpResponse
  <2>1. CASE m_state = "connecting"
    <3>1. m_state' = "open" /\ UNCHANGED <<role, handled>> /\ pc'["rx"] = "onopen"
      BY <1>4, <2>1, RxMoves DEF HandleWriteHttpResponse
    <3>2. role = "none"
      BY <2>1 DEF Opening
    <3>3. handled = <<>> /\ Len(handled) = 0
      BY <3>2 DEF Told
    <3> QED
      BY <3>1, <3>2, <3>3 DEF Told
  <2>2. CASE m_state # "connecting"
    <3>1. /\ UNCHANGED <<m_state, role, handled>> /\ pc["rx"] = "idle" /\ pc'["rx"] = "idle"
          /\ pc'["main"] = pc["main"]
      BY <1>4, <2>2, RxMoves DEF HandleWriteHttpResponse
    <3> QED
      BY <1>1, <3>1
  <2> QED
    BY <2>1, <2>2
<1>5. CASE ReadData
  <2>1. /\ UNCHANGED <<m_state, role>> /\ pc["rx"] = "idle" /\ pc'["rx"] = "idle"
        /\ pc'["main"] = pc["main"]
    BY <1>5, RxMoves DEF ReadData, ReadFrame
  <2>2. CASE m_state # "open"
    <3>1. handled' = handled
      BY <1>5, <2>2 DEF ReadData
    <3> QED
      BY <1>1, <2>1, <3>1
  <2>3. CASE m_state = "open"
    <3>1. handled' = Append(handled, "message")
      BY <1>5, <2>3 DEF ReadData
    <3>2. role # "none" /\ handled # <<>> /\ handled[1] = role
      BY <2>1, <2>3 DEF Opening, Told
    <3>3. \A i \in 1 .. Len(handled') : handled'[i] # "close"
      <4>1. \A i \in 1 .. Len(handled) : handled[i] # "close"
        BY <2>3 DEF Told
      <4> QED
        BY <3>1, <4>1, HandledGrows
    <3>4. handled' # <<>> /\ handled'[1] = role
      BY <3>1, <3>2, HandledGrows
    <3> QED
      BY <2>1, <2>3, <3>2, <3>3, <3>4 DEF Told
  <2> QED
    BY <2>2, <2>3
<1>6. CASE ReadPing \/ ReadClose \/ ReadBad
  <2>1. /\ UNCHANGED <<m_state, role, handled>> /\ pc["rx"] = "idle"
        /\ pc'["rx"] \in {"idle", "pong", "closing", "terminate"}
        /\ pc'["rx"] = "closing" => m_state \in {"open", "closing"}
        /\ pc'["main"] = pc["main"]
    BY <1>6, RxMoves DEF ReadPing, ReadClose, ReadBad, ReadFrame
  <2> QED
    BY <2>1 DEF Told
<1>7. CASE ReadError \/ Timeout
  <2>1. /\ UNCHANGED <<m_state, role, handled>> /\ pc["rx"] = "idle"
        /\ pc'["rx"] \in {"idle", "terminate"} /\ pc'["main"] = pc["main"]
    BY <1>7, RxMoves DEF ReadError, ReadFrame, Timeout, Expire, HandleTimeout, TimerStep
  <2> QED
    BY <1>1, <2>1
<1>8. CASE Writing
  <2>1. /\ UNCHANGED <<m_state, role, handled>> /\ pc["rx"] = "idle"
        /\ pc'["rx"] \in {"idle", "terminate"} /\ pc'["main"] = pc["main"]
    BY <1>8, RxMoves DEF Writing, WriteFrame, HandleWriteFrame, FrameWritten, WriteFails
  <2> QED
    BY <1>1, <2>1
<1>9. CASE OnOpen
  <2>1. m_state' = m_state /\ m_state = "open" /\ role = "none"
    BY <1>9, RxMoves DEF OnOpen, Opening
  <2>2. pc'["rx"] \in {"idle", "closing"} /\ role' \in {"operator", "rejected"}
    BY <1>9, RxMoves DEF OnOpen
  <2>3. handled' = Append(handled, role') /\ handled = <<>> /\ Len(handled) = 0
    BY <1>9, <2>1 DEF OnOpen, Told
  <2>4. /\ handled' # <<>> /\ handled'[1] = role'
        /\ \A i \in 1 .. Len(handled') : handled'[i] # "close"
    BY <2>2, <2>3, HandledGrows
  <2> QED
    BY <2>1, <2>2, <2>4 DEF Told
<1>10. CASE PushPong \/ TerminateCancels
  <2>1. /\ UNCHANGED <<m_state, role, handled>> /\ pc["rx"] \in {"pong", "terminate"}
        /\ pc'["rx"] \in {"idle", "shut"} /\ pc'["main"] = pc["main"]
    BY <1>10, RxMoves DEF PushPong, TerminateCancels
  <2> QED
    BY <1>1, <2>1
<1>11. CASE Terminate
  <2>1. /\ m_state' = "closed" /\ UNCHANGED <<role, handled>> /\ pc["rx"] = "shut"
        /\ pc'["rx"] = (IF m_state \in {"connecting", "closed"} THEN "idle" ELSE "onclose")
    BY <1>11, RxMoves DEF Terminate
  <2>2. m_state = "connecting" => role = "none"
    BY DEF Opening
  <2> QED
    BY <2>1, <2>2 DEF Told
<1>12. CASE OnClose
  <2>1. /\ UNCHANGED <<m_state, role>> /\ handled' = Append(handled, "close")
        /\ pc["rx"] = "onclose" /\ pc'["rx"] = "idle" /\ pc'["main"] = pc["main"]
    BY <1>12, RxMoves DEF OnClose
  <2>2. role # "none" /\ m_state \in {"closing", "closed"} /\ handled # <<>> /\ handled[1] = role
    BY <2>1 DEF Opening, Told
  <2>3. handled' # <<>> /\ handled'[1] = role /\ handled'[Len(handled')] = "close"
    BY <2>1, <2>2, HandledGrows
  <2>4. ~ (m_state = "closing" /\ pc["main"] \in {"idle", "closing"})
    BY <2>1 DEF Told
  <2> QED
    BY <2>1, <2>2, <2>3, <2>4 DEF Told
<1>13. CASE Closing("rx")
  <2>1. /\ m_state' = "closing" /\ UNCHANGED <<role, handled>> /\ pc["rx"] = "closing"
        /\ pc'["rx"] = "arm" /\ pc'["main"] = pc["main"]
    BY <1>13, RxMoves DEF Closing
  <2>2. role # "none" /\ handled # <<>> /\ m_state \in {"open", "closing"}
    BY <2>1 DEF Opening, Told
  <2>3. Len(handled) \in 1 .. Len(handled)
    BY <2>2 DEF SessionTypes
  <2>4. pc["main"] \in {"idle", "closing"} => handled[Len(handled)] # "close"
    BY <2>2, <2>3 DEF Told
  <2> QED
    BY <2>1, <2>2, <2>4 DEF Told
<1>14. CASE Arm("rx") \/ PushClose("rx")
  <2>1. /\ UNCHANGED <<m_state, role, handled>> /\ pc["rx"] \in {"arm", "push"}
        /\ pc'["rx"] \in {"push", "idle"} /\ pc'["main"] = pc["main"]
    BY <1>14, RxMoves DEF Arm, PushClose
  <2> QED
    BY <1>1, <2>1
<1>15. CASE SendChecks \/ SendPushes
  <2>1. /\ UNCHANGED <<m_state, role, handled>> /\ pc'["rx"] = pc["rx"]
        /\ pc'["main"] = pc["main"]
    BY <1>15, TxMoves DEF SendChecks, SendPushes
  <2> QED
    BY <1>1, <2>1
<1>16. CASE Close
  <2>1. /\ UNCHANGED <<m_state, role, handled>> /\ pc'["rx"] = pc["rx"]
        /\ pc'["main"] = "done" \/ m_state = "open"
    BY <1>16, MainMoves DEF Close
  <2> QED
    BY <2>1 DEF Told
<1>17. CASE Closing("main")
  <2>1. /\ m_state' = "closing" /\ UNCHANGED <<role, handled>> /\ pc'["rx"] = pc["rx"]
        /\ pc'["main"] = "arm"
    BY <1>17, MainMoves DEF Closing
  <2> QED
    BY <2>1 DEF Told
<1>18. CASE Arm("main") \/ PushClose("main")
  <2>1. /\ UNCHANGED <<m_state, role, handled>> /\ pc'["rx"] = pc["rx"]
        /\ pc'["main"] \in {"push", "done"}
    BY <1>18, MainMoves DEF Arm, PushClose
  <2> QED
    BY <1>1, <2>1
<1>19. CASE TimerRace \/ UNCHANGED vars
  BY <1>1, <1>19 DEF TimerRace, vars
<1> QED
  BY <1>2, <1>3, <1>4, <1>5, <1>6, <1>7, <1>8, <1>9, <1>10, <1>11, <1>12, <1>13, <1>14,
     <1>15, <1>16, <1>17, <1>18, <1>19
     DEF Next, Handshake, Frames, Handler, SendCloseFrame

\* What the handlers are told grows by the three of them.
LEMMA WhoTells ==
    ASSUME [Next]_vars
    PROVE  UNCHANGED handled \/ ReadData \/ OnOpen \/ OnClose
<1>1. CASE Start \/ Handshake
  BY <1>1
     DEF Start, Handshake, HandleReadHandshake, HandshakeError, HandshakeRefused,
         HandleWriteHttpResponse
<1>2. CASE ReadPing \/ ReadClose \/ ReadBad \/ ReadError \/ Timeout
  BY <1>2
     DEF ReadPing, ReadClose, ReadBad, ReadError, Timeout, Expire, HandleTimeout, TimerStep
<1>3. CASE Writing
  BY <1>3 DEF Writing, WriteFrame, HandleWriteFrame, FrameWritten, WriteFails
<1>4. CASE PushPong \/ TerminateCancels \/ Terminate
  BY <1>4 DEF PushPong, TerminateCancels, Terminate
<1>5. ASSUME NEW t \in {"rx", "main"}, SendCloseFrame(t)
      PROVE  UNCHANGED handled
  BY <1>5 DEF SendCloseFrame, Closing, Arm, PushClose
<1>6. CASE SendChecks \/ SendPushes \/ Close \/ TimerRace
  BY <1>6 DEF SendChecks, SendPushes, Close, TimerRace
<1>7. CASE UNCHANGED vars
  BY <1>7 DEF vars
<1> QED
  BY <1>1, <1>2, <1>3, <1>4, <1>5, <1>6, <1>7 DEF Next, Frames, Handler

\* A message is handled on an open connection: which is an operator's, as a
\* rejected one is open only within its open handler, and has not been closed.
LEMMA SessionInductive ==
    ASSUME pc \in Positions, SessionTypes, Opening, Told, MessagesInSession, [Next]_vars
    PROVE  MessagesInSession'
<1>1. CASE UNCHANGED handled
  BY <1>1 DEF MessagesInSession
<1>2. ASSUME NEW h, handled' = Append(handled, h),
             h = "message" => /\ handled # <<>> /\ handled[1] = "operator"
                              /\ \A i \in 1 .. Len(handled) : handled[i] # "close"
      PROVE  MessagesInSession'
  <2>1. /\ Len(handled') = Len(handled) + 1 /\ Len(handled) \in Nat
        /\ \A i \in 1 .. Len(handled) : handled'[i] = handled[i]
        /\ handled'[Len(handled')] = h
        /\ handled # <<>> => handled'[1] = handled[1]
    BY <1>2, HandledGrows
  <2>2. ASSUME NEW j \in 1 .. Len(handled'), handled'[j] = "message"
        PROVE  handled'[1] = "operator" /\ \A i \in 1 .. j : handled'[i] # "close"
    <3>1. CASE j = Len(handled')
      <4>1. /\ handled # <<>> /\ handled[1] = "operator"
            /\ \A i \in 1 .. Len(handled) : handled[i] # "close"
        BY <1>2, <2>1, <2>2, <3>1
      <4>2. ASSUME NEW i \in 1 .. j
            PROVE  handled'[i] # "close"
        <5>1. i = Len(handled') \/ i \in 1 .. Len(handled)
          BY <2>1, <3>1
        <5> QED
          BY <2>1, <2>2, <3>1, <4>1, <5>1
      <4> QED
        BY <2>1, <4>1, <4>2
    <3>2. CASE j # Len(handled')
      <4>1. j \in 1 .. Len(handled) /\ \A i \in 1 .. j : i \in 1 .. Len(handled)
        BY <2>1, <3>2
      <4>2. handled[1] = "operator" /\ \A i \in 1 .. j : handled[i] # "close"
        BY <2>1, <2>2, <4>1 DEF MessagesInSession
      <4>3. handled # <<>>
        BY <4>1
      <4> QED
        BY <2>1, <4>1, <4>2, <4>3
    <3> QED
      BY <3>1, <3>2
  <2> QED
    BY <2>2 DEF MessagesInSession
<1>3. CASE ReadData
  <2>1. CASE m_state = "open"
    <3>1. pc["rx"] = "idle" /\ handled' = Append(handled, "message")
      BY <1>3, <2>1 DEF ReadData, ReadFrame, RxStep, Step
    <3>2. role # "none" /\ role # "rejected"
      BY <2>1, <3>1 DEF Opening
    <3>3. handled # <<>> /\ handled[1] = "operator"
      BY <3>2 DEF Told, SessionTypes
    <3>4. \A i \in 1 .. Len(handled) : handled[i] # "close"
      BY <2>1 DEF Told
    <3> QED
      BY <1>2, <3>1, <3>3, <3>4
  <2>2. CASE m_state # "open"
    BY <1>1, <1>3, <2>2 DEF ReadData
  <2> QED
    BY <2>1, <2>2
<1>4. CASE OnOpen
  <2>1. role' # "message" /\ handled' = Append(handled, role')
    BY <1>4 DEF OnOpen
  <2> QED
    BY <1>2, <2>1
<1>5. CASE OnClose
  BY <1>2, <1>5 DEF OnClose
<1> QED
  BY <1>1, <1>3, <1>4, <1>5, WhoTells

-----------------------------------------------------------------------------
(* The invariant gives the properties of the frames *)

\* The flow of frames through the two queues gives the order they are written in.
LEMMA FlowGives == FrameTypes /\ Flow => WrittenInOrder
<1> SUFFICES ASSUME FrameTypes, Flow
             PROVE  WrittenInOrder
  OBVIOUS
<1> DEFINE out == wire \o m_current_msgs
<1>1. /\ Len(wire) \in Nat /\ Len(m_current_msgs) \in Nat /\ Len(m_send_queue) \in Nat
      /\ Len(queued) \in Nat
  BY DEF FrameTypes
<1>2. /\ out \in Seq(QueueEntry) /\ Len(out) = Len(wire) + Len(m_current_msgs)
      /\ \A i \in 1 .. Len(wire) : out[i] = wire[i]
      /\ \A i \in 1 .. Len(m_current_msgs) : out[Len(wire) + i] = m_current_msgs[i]
  BY DEF FrameTypes
<1> HIDE DEF out
<1>3. Len(wire) + Len(m_current_msgs) + Len(m_send_queue) <= Len(queued)
  BY DEF Flow
<1>4. ASSUME NEW i \in 1 .. Len(out)
      PROVE  out[i] = queued[i]
  <2>1. CASE i <= Len(wire)
    BY <1>1, <1>2, <2>1 DEF Flow
  <2>2. CASE i > Len(wire)
    <3>1. i - Len(wire) \in 1 .. Len(m_current_msgs) /\ Len(wire) + (i - Len(wire)) = i
      BY <1>1, <1>2, <2>2
    <3>2. /\ out[Len(wire) + (i - Len(wire))] = m_current_msgs[i - Len(wire)]
          /\ m_current_msgs[i - Len(wire)] = queued[Len(wire) + (i - Len(wire))]
      BY <1>2, <3>1 DEF Flow
    <3> QED
      BY <3>1, <3>2
  <2> QED
    BY <1>1, <1>2, <2>1, <2>2
<1>5. IsPrefix(out, queued)
  <2>1. queued \in Seq(QueueEntry) /\ Len(out) <= Len(queued)
    BY <1>1, <1>2, <1>3 DEF FrameTypes
  <2> QED
    BY <1>2, <1>4, <2>1, PrefixBy
<1>6. IsSuffix(m_send_queue, queued)
  <2>1. /\ queued \in Seq(QueueEntry) /\ m_send_queue \in Seq(QueueEntry)
        /\ Len(m_send_queue) <= Len(queued)
    BY <1>1, <1>3 DEF FrameTypes
  <2>2. \A i \in 1 .. Len(m_send_queue) :
          m_send_queue[i] = queued[Len(queued) - Len(m_send_queue) + i]
    BY DEF Flow
  <2> QED
    BY <2>1, <2>2, SuffixBy
<1>7. ASSUME m_write_flag = (m_current_msgs # <<>>)
      PROVE  queued = out \o m_send_queue
  <2>1. Len(wire) + Len(m_current_msgs) + Len(m_send_queue) = Len(queued)
    BY <1>7, Zenon DEF Flow
  <2>2. queued \in Seq(QueueEntry) /\ m_send_queue \in Seq(QueueEntry)
    BY DEF FrameTypes
  <2>3. /\ out \o m_send_queue \in Seq(QueueEntry)
        /\ Len(out \o m_send_queue) = Len(out) + Len(m_send_queue)
        /\ \A i \in 1 .. Len(out) : (out \o m_send_queue)[i] = out[i]
        /\ \A i \in 1 .. Len(m_send_queue) : (out \o m_send_queue)[Len(out) + i] = m_send_queue[i]
    <3>1. out \in Seq(QueueEntry)
      BY <1>2
    <3> QED
      BY <2>2, <3>1, ConcatIs
  <2>4. Len(out) + Len(m_send_queue) = Len(queued)
    BY <1>1, <1>2, <2>1
  <2>5. ASSUME NEW i \in 1 .. Len(queued)
        PROVE  queued[i] = (out \o m_send_queue)[i]
    <3>1. CASE i <= Len(out)
      <4>1. i \in 1 .. Len(out)
        BY <1>1, <1>2, <3>1
      <4> QED
        BY <1>4, <2>3, <4>1
    <3>2. CASE i > Len(out)
      <4>1. i - Len(out) \in 1 .. Len(m_send_queue) /\ Len(out) + (i - Len(out)) = i
        BY <1>1, <1>2, <2>4, <3>2
      <4>2. m_send_queue[i - Len(out)] = queued[Len(queued) - Len(m_send_queue) + (i - Len(out))]
        BY <4>1 DEF Flow
      <4>3. Len(queued) - Len(m_send_queue) + (i - Len(out)) = i
        BY <1>1, <1>2, <2>4
      <4>4. (out \o m_send_queue)[Len(out) + (i - Len(out))] = m_send_queue[i - Len(out)]
        BY <2>3, <4>1
      <4> QED
        BY <4>1, <4>2, <4>3, <4>4
    <3>3. i <= Len(out) \/ i > Len(out)
      BY <1>1, <1>2
    <3> QED
      BY <3>1, <3>2, <3>3
  <2>6. Len(queued) = Len(out \o m_send_queue)
    BY <2>3, <2>4
  <2> QED
    BY <2>2, <2>3, <2>5, <2>6, SeqEqual
<1> QED
  BY <1>5, <1>6, <1>7, Zenon DEF WrittenInOrder, out

\* What goes out is as it was pushed, so that what holds of the pushes holds of it.
LEMMA FramesGive ==
    FrameTypes /\ Flow /\ TerminalLast /\ MessagesFirst => NothingAfterClose
<1> SUFFICES ASSUME FrameTypes, Flow, TerminalLast, MessagesFirst
             PROVE  NothingAfterClose
  OBVIOUS
<1> DEFINE out == wire \o m_current_msgs
<1>1. /\ Len(wire) \in Nat /\ Len(m_current_msgs) \in Nat /\ Len(m_send_queue) \in Nat
      /\ Len(queued) \in Nat
  BY DEF FrameTypes
<1>2. /\ Len(out) = Len(wire) + Len(m_current_msgs)
      /\ \A i \in 1 .. Len(wire) : out[i] = wire[i]
      /\ \A i \in 1 .. Len(m_current_msgs) : out[Len(wire) + i] = m_current_msgs[i]
  BY DEF FrameTypes
<1> HIDE DEF out
<1>3. Len(out) <= Len(queued)
  BY <1>1, <1>2 DEF Flow
<1>4. ASSUME NEW i \in 1 .. Len(out)
      PROVE  out[i] = queued[i] /\ (out[i][1] = "last" => i = Len(out))
  <2>1. CASE i <= Len(wire)
    <3>1. i \in 1 .. Len(wire) /\ out[i] = wire[i]
      BY <1>1, <1>2, <2>1
    <3>2. wire[i] = queued[i]
      BY <3>1 DEF Flow
    <3>3. ASSUME wire[i][1] = "last"
          PROVE  i = Len(wire) /\ m_current_msgs = <<>>
      BY <3>1, <3>3 DEF TerminalLast
    <3> QED
      BY <1>1, <1>2, <3>1, <3>2, <3>3
  <2>2. CASE i > Len(wire)
    <3>1. i - Len(wire) \in 1 .. Len(m_current_msgs) /\ Len(wire) + (i - Len(wire)) = i
      BY <1>1, <1>2, <2>2
    <3>2. /\ out[Len(wire) + (i - Len(wire))] = m_current_msgs[i - Len(wire)]
          /\ m_current_msgs[i - Len(wire)] = queued[Len(wire) + (i - Len(wire))]
      BY <1>2, <3>1 DEF Flow
    <3>3. m_current_msgs[i - Len(wire)][1] = "last" => i - Len(wire) = Len(m_current_msgs)
      BY <3>1 DEF TerminalLast
    <3> QED
      BY <1>1, <1>2, <3>1, <3>2, <3>3
  <2> QED
    BY <1>1, <1>2, <2>1, <2>2
<1>5. ASSUME NEW i \in 1 .. Len(out), NEW j \in 1 .. Len(out), i < j
      PROVE  /\ out[i][1] # "last"
             /\ out[i][1] = "close" => out[j][1] # "message"
  <2>1. i # Len(out) /\ i \in 1 .. Len(queued) /\ j \in 1 .. Len(queued)
    BY <1>1, <1>2, <1>3, <1>5
  <2>2. queued[i][1] = "close" => queued[j][1] # "message"
    BY <1>5, <2>1 DEF MessagesFirst
  <2> QED
    BY <1>4, <2>1, <2>2
<1> QED
  BY <1>5, Zenon DEF NothingAfterClose, out

-----------------------------------------------------------------------------
(* The theorems *)

\* The invariant holds of a connection that is made.
LEMMA InvariantInit == Init => IInv
<1> SUFFICES ASSUME Init
             PROVE  IInv
  OBVIOUS
<1> USE ConnectionAssumption DEF Init
<1>1. TypeOK
  <2>1. m_was_clean \in BOOLEAN /\ m_write_flag \in BOOLEAN /\ fault \in BOOLEAN
    BY Zenon
  <2> QED
    BY <2>1 DEF TypeOK
<1>2. Flow /\ TerminalLast /\ MessagesFirst
  BY DEF Flow, TerminalLast, MessagesFirst
<1>3. OthersUse /\ NotStarted /\ Opening /\ FrameSet
  BY DEF OthersUse, NotStarted, Opening, FrameSet
<1>4. Told /\ MessagesInSession
  BY DEF Told, MessagesInSession
<1> QED
  BY <1>1, <1>2, <1>3, <1>4 DEF IInv

\* Every step of every thread keeps the invariant.
LEMMA InvariantStep == IInv /\ [Next]_vars => IInv'
<1> SUFFICES ASSUME IInv, [Next]_vars
             PROVE  IInv'
  OBVIOUS
<1>1. /\ TypeOK /\ Flow /\ TerminalLast /\ MessagesFirst /\ OthersUse /\ NotStarted
      /\ Opening /\ FrameSet /\ Told /\ MessagesInSession
  BY DEF IInv
<1>2. pc \in Positions /\ FrameTypes /\ SessionTypes
  BY <1>1, TypeParts
<1>3. TypeOK'
  BY <1>1, TypeInductive
<1>4. Flow' /\ TerminalLast'
  BY <1>1, <1>2, FlowInductive, TerminalInductive
<1>5. OthersUse' /\ MessagesFirst'
  BY <1>1, <1>2, OthersInductive, MessagesInductive
<1>6. NotStarted' /\ Opening' /\ FrameSet'
  BY <1>1, <1>2, NotStartedInductive, OpeningInductive, FrameSetInductive
<1>7. Told' /\ MessagesInSession'
  BY <1>1, <1>2, ToldInductive, SessionInductive
<1> QED
  BY <1>3, <1>4, <1>5, <1>6, <1>7 DEF IInv

\* The invariant holds throughout.
LEMMA Invariance == Spec => []IInv
<1>1. Init => IInv
  BY InvariantInit
<1>2. IInv /\ [Next]_vars => IInv'
  BY InvariantStep
<1> QED
  BY <1>1, <1>2, PTL DEF Spec

\* The members and the threads' positions have their types.
THEOREM Typing == Spec => []TypeOK
<1>1. IInv => TypeOK
  BY DEF IInv
<1> QED
  BY <1>1, Invariance, PTL

\* write_push, write_frame and handle_write_frame keep the frames in the order of
\* their pushes, each written once or lost with a write that failed.
THEOREM FramesInOrder == Spec => []WrittenInOrder
<1>1. IInv => WrittenInOrder
  BY FlowGives, TypeParts DEF IInv
<1> QED
  BY <1>1, Invariance, PTL

\* Nothing is written after a terminal close frame, and no message after any,
\* whichever of the three threads pushed them.
THEOREM CloseIsLast == Spec => []NothingAfterClose
<1>1. IInv => NothingAfterClose
  BY FramesGive, TypeParts DEF IInv
<1> QED
  BY <1>1, Invariance, PTL

\* The message handler is called between an operator's open handler and the close
\* handler only.
THEOREM MessagesHaveSession == Spec => []MessagesInSession
<1>1. IInv => MessagesInSession
  BY DEF IInv
<1> QED
  BY <1>1, Invariance, PTL

-----------------------------------------------------------------------------
(* The connection implements ConnectionLife *)

\* A step that changes neither the state nor whether the close handler is due or
\* was called does not show.
LEMMA LifeStays ==
    ASSUME UNCHANGED <<m_state, handled>>,
           pc["rx"] = "onclose" <=> pc'["rx"] = "onclose"
    PROVE  life' = life
  BY DEF life

\* Where the connection is, in the terms of its state.
LEMMA LifeIs ==
    /\ m_state \notin {"closed", "closing"} => life = m_state
    /\ m_state = "closed" /\ pc["rx"] = "onclose" => life = "closed"
    /\ m_state = "closed" /\ pc["rx"] # "onclose" => life = "gone"
    /\ m_state = "closing" /\ pc["rx"] = "onclose" => life = "reclosing"
    /\ m_state = "closing" /\ pc["rx"] # "onclose" /\ Len(handled) > 0 =>
         /\ handled[Len(handled)] = "close" => life = "zombie"
         /\ handled[Len(handled)] # "close" => life = "closing"
  BY DEF life, Last

\* A connection that is made is at the beginning of its life.
LEMMA LifeInit == Init => Life!Init
  BY DEF Init, Life!Init, life, checked

\* Every step of the connection is one of its life, or leaves it where it is.
LEMMA LifeStep == IInv /\ [Next]_vars => [Life!Next]_(Life!vars)
<1> SUFFICES ASSUME IInv, [Next]_vars
             PROVE  Life!Next \/ UNCHANGED Life!vars
  OBVIOUS
<1>0. /\ pc \in Positions /\ SessionTypes /\ OthersUse /\ NotStarted /\ Opening /\ Told
  BY TypeParts DEF IInv
<1> USE <1>0 DEF session, timer, rest, RxStep
<1>a. role # "none" => Len(handled) > 0 /\ Len(handled) \in 1 .. Len(handled)
  BY DEF Told, SessionTypes
<1>b. ASSUME UNCHANGED <<m_state, handled>>,
             pc["rx"] = "onclose" <=> pc'["rx"] = "onclose",
             pc["main"] = "closing" <=> pc'["main"] = "closing"
      PROVE  UNCHANGED Life!vars
  BY <1>b, LifeStays DEF Life!vars, checked
<1>1. CASE Start
  <2>1. /\ m_state = "none" /\ m_state' = "connecting" /\ pc'["main"] = pc["main"]
    BY <1>1, RxMoves DEF Start, NotStarted
  <2>2. life = "none" /\ life' = "connecting" /\ checked' = checked
    BY <2>1 DEF life, checked
  <2> QED
    BY <2>2 DEF Life!Next, Life!Accept, Life!Move
<1>2. CASE HandleReadHandshake \/ HandshakeError \/ HandshakeRefused
  <2>1. /\ UNCHANGED <<m_state, handled>> /\ pc["rx"] = "idle" /\ pc'["rx"] \in {"idle", "terminate"}
        /\ pc'["main"] = pc["main"]
    BY <1>2, RxMoves DEF HandleReadHandshake, HandshakeError, HandshakeRefused
  <2> QED
    BY <1>b, <2>1
<1>3. CASE HandleWriteHttpResponse
  <2>1. CASE m_state = "connecting"
    <3>1. m_state' = "open" /\ pc'["main"] = pc["main"]
      BY <1>3, <2>1, RxMoves DEF HandleWriteHttpResponse
    <3>2. life = "connecting" /\ life' = "open" /\ checked' = checked
      BY <2>1, <3>1 DEF life, checked
    <3> QED
      BY <3>2 DEF Life!Next, Life!Open, Life!Move
  <2>2. CASE m_state # "connecting"
    <3>1. /\ UNCHANGED <<m_state, handled>> /\ pc["rx"] = "idle" /\ pc'["rx"] = "idle"
          /\ pc'["main"] = pc["main"]
      BY <1>3, <2>2, RxMoves DEF HandleWriteHttpResponse
    <3> QED
      BY <1>b, <3>1
  <2> QED
    BY <2>1, <2>2
<1>4. CASE ReadData \/ OnOpen
  <2>1. /\ m_state' = m_state /\ pc["rx"] # "onclose" /\ pc'["rx"] # "onclose"
        /\ pc'["main"] = pc["main"]
    BY <1>4, RxMoves DEF ReadData, ReadFrame, OnOpen
  <2>2. CASE m_state = "open"
    <3>1. UNCHANGED <<life, checked>>
      BY <2>1, <2>2 DEF life, checked
    <3> QED
      BY <3>1 DEF Life!vars
  <2>3. CASE m_state # "open"
    <3>1. handled' = handled
      BY <1>4, <2>3, RxMoves DEF ReadData, OnOpen, Opening
    <3> QED
      BY <1>b, <2>1, <3>1
  <2> QED
    BY <2>2, <2>3
<1>5. CASE ReadPing \/ ReadClose \/ ReadBad
  <2>1. /\ UNCHANGED <<m_state, handled>> /\ pc["rx"] = "idle"
        /\ pc'["rx"] \in {"idle", "pong", "closing", "terminate"} /\ pc'["main"] = pc["main"]
    BY <1>5, RxMoves DEF ReadPing, ReadClose, ReadBad, ReadFrame
  <2> QED
    BY <1>b, <2>1
<1>6. CASE ReadError \/ Timeout
  <2>1. /\ UNCHANGED <<m_state, handled>> /\ pc["rx"] = "idle"
        /\ pc'["rx"] \in {"idle", "terminate"} /\ pc'["main"] = pc["main"]
    BY <1>6, RxMoves DEF ReadError, ReadFrame, Timeout, Expire, HandleTimeout, TimerStep
  <2> QED
    BY <1>b, <2>1
<1>7. CASE Writing
  <2>1. /\ UNCHANGED <<m_state, handled>> /\ pc["rx"] = "idle"
        /\ pc'["rx"] \in {"idle", "terminate"} /\ pc'["main"] = pc["main"]
    BY <1>7, RxMoves DEF Writing, WriteFrame, HandleWriteFrame, FrameWritten, WriteFails
  <2> QED
    BY <1>b, <2>1
<1>8. CASE PushPong \/ TerminateCancels \/ Arm("rx") \/ PushClose("rx")
  <2>1. /\ UNCHANGED <<m_state, handled>> /\ pc["rx"] \in {"pong", "terminate", "arm", "push"}
        /\ pc'["rx"] \in {"idle", "shut", "push"} /\ pc'["main"] = pc["main"]
    BY <1>8, RxMoves DEF PushPong, TerminateCancels, Arm, PushClose
  <2> QED
    BY <1>b, <2>1
<1>9. CASE Terminate
  <2>1. /\ m_state' = "closed" /\ handled' = handled /\ pc["rx"] = "shut"
        /\ pc'["rx"] = (IF m_state \in {"connecting", "closed"} THEN "idle" ELSE "onclose")
        /\ checked' = checked
    BY <1>9, RxMoves DEF Terminate, checked
  <2>2. m_state # "none"
    BY <2>1 DEF NotStarted
  <2>3. CASE m_state = "connecting"
    <3>1. life = "connecting" /\ life' = "gone"
      BY <2>1, <2>3 DEF life
    <3> QED
      BY <2>1, <3>1 DEF Life!Next, Life!Fail, Life!Move
  <2>4. CASE m_state = "closed"
    <3>1. life = "gone" /\ life' = "gone"
      BY <2>1, <2>4 DEF life
    <3> QED
      BY <2>1, <3>1 DEF Life!vars
  <2>5. CASE m_state \in {"open", "closing"}
    <3>1. life \in {"open", "closing", "zombie"} /\ life' = "closed"
      BY <2>1, <2>5 DEF life
    <3> QED
      BY <2>1, <3>1 DEF Life!Next, Life!Terminate, Life!Move
  <2> QED
    BY <2>2, <2>3, <2>4, <2>5 DEF SessionTypes
<1>10. CASE OnClose
  <2>1. /\ m_state' = m_state /\ handled' = Append(handled, "close") /\ pc["rx"] = "onclose"
        /\ pc'["rx"] = "idle" /\ checked' = checked
    BY <1>10, RxMoves DEF OnClose, checked
  <2>2. Len(handled') > 0 /\ handled'[Len(handled')] = "close"
    BY <2>1, HandledGrows
  <2>3. m_state \in {"closing", "closed"}
    BY <2>1 DEF Told
  <2>4. \/ life = "closed" /\ life' = "gone"
        \/ life = "reclosing" /\ life' = "zombie"
    BY <2>1, <2>2, <2>3 DEF life, Last
  <2> QED
    BY <2>1, <2>4 DEF Life!Next, Life!CloseHandler, Life!Move
<1>11. CASE Closing("rx")
  <2>1. /\ m_state' = "closing" /\ handled' = handled /\ pc["rx"] = "closing"
        /\ pc'["rx"] = "arm" /\ checked' = checked
    BY <1>11, RxMoves DEF Closing, checked
  <2>2. m_state \in {"open", "closing"} /\ role # "none"
    BY <2>1 DEF Told, Opening
  <2>3. CASE m_state = "open"
    <3>1. handled[Len(handled)] # "close"
      BY <1>a, <2>2, <2>3 DEF Told
    <3>2. life = "open" /\ life' = "closing"
      BY <1>a, <2>1, <2>2, <2>3, <3>1 DEF life, Last
    <3> QED
      BY <2>1, <3>2 DEF Life!Next, Life!StartClose, Life!Move
  <2>4. CASE m_state = "closing"
    <3>1. life' = life
      BY <2>1, <2>4, LifeStays
    <3> QED
      BY <2>1, <3>1 DEF Life!vars
  <2> QED
    BY <2>2, <2>3, <2>4
<1>12. CASE SendChecks \/ SendPushes
  <2>1. /\ UNCHANGED <<m_state, handled>> /\ pc'["rx"] = pc["rx"] /\ pc'["main"] = pc["main"]
    BY <1>12, TxMoves DEF SendChecks, SendPushes
  <2> QED
    BY <1>b, <2>1
<1>13. CASE Close
  <2>1. /\ UNCHANGED <<m_state, handled>> /\ pc'["rx"] = pc["rx"] /\ pc["main"] = "idle"
        /\ \/ m_state = "open" /\ pc'["main"] = "closing"
           \/ pc'["main"] = "done"
    BY <1>13, MainMoves DEF Close
  <2>2. CASE pc'["main"] = "done"
    BY <1>b, <2>1, <2>2
  <2>3. CASE m_state = "open" /\ pc'["main"] = "closing"
    <3>1. life = "open" /\ life' = life /\ checked = FALSE /\ checked' = TRUE
      BY <2>1, <2>3 DEF life, checked
    <3> QED
      BY <3>1 DEF Life!Next, Life!CheckOpen
  <2> QED
    BY <2>1, <2>2, <2>3
<1>14. CASE Closing("main")
  <2>1. /\ m_state' = "closing" /\ handled' = handled /\ pc'["rx"] = pc["rx"]
        /\ pc["main"] = "closing" /\ pc'["main"] = "arm"
    BY <1>14, MainMoves DEF Closing
  <2>2. checked = TRUE /\ checked' = FALSE
    BY <2>1 DEF checked
  <2>3. role # "none" /\ m_state \in {"open", "closing", "closed"}
    BY <2>1 DEF OthersUse, Opening
  <2>4. CASE m_state = "open"
    <3>1. handled[Len(handled)] # "close" /\ pc["rx"] # "onclose"
      BY <1>a, <2>3, <2>4 DEF Told
    <3>2. life = "open" /\ life' = "closing"
      BY <1>a, <2>1, <2>3, <2>4, <3>1 DEF life, Last
    <3> QED
      BY <2>2, <3>2 DEF Life!Next, Life!LateClose
  <2>5. CASE m_state = "closing"
    <3>1. handled[Len(handled)] # "close" /\ pc["rx"] # "onclose"
      BY <2>1, <2>5 DEF Told
    <3>2. life = "closing" /\ life' = "closing"
      BY <1>a, <2>1, <2>3, <2>5, <3>1 DEF life, Last
    <3> QED
      BY <2>2, <3>2 DEF Life!Next, Life!LateClose
  <2>6. CASE m_state = "closed" /\ pc["rx"] = "onclose"
    <3>1. life = "closed" /\ life' = "reclosing"
      BY <2>1, <2>6 DEF life
    <3> QED
      BY <2>2, <3>1 DEF Life!Next, Life!LateClose
  <2>7. CASE m_state = "closed" /\ pc["rx"] # "onclose"
    <3>1. handled[Len(handled)] = "close"
      BY <2>3, <2>7 DEF Told
    <3>2. life = "gone" /\ life' = "zombie"
      BY <1>a, <2>1, <2>3, <2>7, <3>1 DEF life, Last
    <3> QED
      BY <2>2, <3>2 DEF Life!Next, Life!LateClose
  <2> QED
    BY <2>3, <2>4, <2>5, <2>6, <2>7
<1>15. CASE Arm("main") \/ PushClose("main")
  <2>1. /\ UNCHANGED <<m_state, handled>> /\ pc'["rx"] = pc["rx"]
        /\ pc["main"] \in {"arm", "push"} /\ pc'["main"] \in {"push", "done"}
    BY <1>15, MainMoves DEF Arm, PushClose
  <2> QED
    BY <1>b, <2>1
<1>16. CASE TimerRace \/ UNCHANGED vars
  <2>1. UNCHANGED <<m_state, handled, pc>>
    BY <1>16 DEF TimerRace, vars
  <2> QED
    BY <1>b, <2>1
<1> QED
  BY <1>1, <1>2, <1>3, <1>4, <1>5, <1>6, <1>7, <1>8, <1>9, <1>10, <1>11, <1>12, <1>13,
     <1>14, <1>15, <1>16 DEF Next, Handshake, Frames, Handler, SendCloseFrame

\* Whatever the threads and the peer do, the connection lives as ConnectionLife
\* has it: one close handler for every end, a second end only after a late close.
THEOREM LifeImplemented == Spec => ImplementsLife
<1>1. Init => Life!Init
  BY LifeInit
<1>2. IInv /\ [Next]_vars => [Life!Next]_(Life!vars)
  BY LifeStep
<1> QED
  BY <1>1, <1>2, Invariance, PTL DEF Spec, ImplementsLife, Life!Spec
=============================================================================
