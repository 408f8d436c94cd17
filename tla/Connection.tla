----------------------------- MODULE Connection -----------------------------
(***************************************************************************)
(* websocketpp::connection on the server's side, over its asio transport:  *)
(* one connection from its acceptance to its end, and the three threads of *)
(* R2CPWebSocketServer that call into it.  The reception thread runs every *)
(* handler of the io_service, one at a time; the transmission thread calls *)
(* send; the thread in halt calls close, once it has joined the            *)
(* transmission thread.  Only close, send and pong take the state lock:    *)
(* terminate and the answer to the peer's close frame do not.              *)
(*                                                                         *)
(* A frame in the send queue is its kind and, for a message, which one it  *)
(* is; a "last" one is a close frame marked terminal.  A read delivers one *)
(* frame of the peer: a buffer with several is several reads.              *)
(***************************************************************************)
EXTENDS Naturals, Sequences, SequencesExt

CONSTANTS MaxSends,  \* bound: messages sent
          MaxReads   \* bound: frames the peer sends

ASSUME ConnectionAssumption == MaxSends \in Nat /\ MaxReads \in Nat

VARIABLES m_state, m_internal_state, m_was_clean,
          m_connection_state_lock,  \* who holds it across steps
          m_handshake_timer,  \* the timer it points to
          orphans,            \* timers that no pointer reaches and that will fire
          reading,            \* the read in progress
          m_send_queue, m_current_msgs, m_write_flag,
          posted,             \* how many write_frame the io_service has queued
          pc,                 \* where each thread is
          closeframe,         \* the frame of the reception thread's close
          sends, reads,       \* how many were made
          fault,              \* whether a data race has made all undefined
          role,               \* what onopen made of the connection
          handled,            \* history: calls of the server's handlers
          queued, wire        \* history: frames pushed, frames written

session == <<m_state, m_internal_state, m_was_clean>>
timer == <<m_handshake_timer, orphans>>
output == <<m_send_queue, m_current_msgs, m_write_flag, posted, queued, wire>>
bounded == <<sends, reads>>
rest == <<closeframe, role>>

vars == <<session, m_connection_state_lock, timer, reading, output, pc,
          bounded, fault, rest, handled>>

Init ==
    /\ m_state = "none" /\ m_internal_state = "USER_INIT" /\ m_was_clean = FALSE
    /\ m_connection_state_lock = "none"
    /\ m_handshake_timer = "none" /\ orphans = 0
    /\ reading = "none"
    /\ m_send_queue = <<>> /\ m_current_msgs = <<>> /\ m_write_flag = FALSE
    /\ posted = 0
    /\ pc = [rx |-> "idle", tx |-> "idle", main |-> "idle"]
    /\ closeframe = "none"
    /\ sends = 0 /\ reads = 0
    /\ fault = FALSE
    /\ role = "none" /\ handled = <<>>
    /\ queued = <<>> /\ wire = <<>>

Step(t, from, to) ==
    /\ ~fault /\ UNCHANGED fault
    /\ pc[t] = from /\ pc' = [pc EXCEPT ![t] = to]

\* Takes no longer than the step, so that it need not be held.
StateLockFree == m_connection_state_lock = "none"

-----------------------------------------------------------------------------
(* The send queue *)

\* write_push under the write lock, and the dispatch of write_frame.
Push(kind, n) ==
    /\ m_send_queue' = Append(m_send_queue, <<kind, n>>)
    /\ queued' = Append(queued, <<kind, n>>)
    /\ posted' = IF m_write_flag THEN posted ELSE posted + 1
    /\ UNCHANGED <<m_current_msgs, m_write_flag, wire>>

\* The frames one write takes: up to the first terminal one.
Batch ==
    LET terminals == {i \in 1 .. Len(m_send_queue) : m_send_queue[i][1] = "last"}
    IN  IF terminals = {} THEN Len(m_send_queue)
        ELSE CHOOSE i \in terminals : \A j \in terminals : i <= j

WriteFrame ==
    /\ Step("rx", "idle", "idle")
    /\ posted > 0 /\ posted' = posted - 1
    /\ IF m_write_flag \/ m_send_queue = <<>>
         THEN UNCHANGED <<m_send_queue, m_current_msgs, m_write_flag>>
         ELSE /\ m_current_msgs' = SubSeq(m_send_queue, 1, Batch)
              /\ m_send_queue' = SubSeq(m_send_queue, Batch + 1, Len(m_send_queue))
              /\ m_write_flag' = TRUE
    /\ UNCHANGED <<session, m_connection_state_lock, timer, reading, queued, wire,
                   bounded, rest, handled>>

FrameWritten ==
    /\ m_current_msgs # <<>> /\ m_current_msgs' = <<>>
    /\ wire' = wire \o m_current_msgs
    /\ UNCHANGED <<session, m_connection_state_lock, timer, reading, m_send_queue,
                   queued, bounded, rest, handled>>

\* Mutant of HandleWriteFrame: what was queued meanwhile is not dispatched.
WrittenAndForgotten ==
    FrameWritten /\
    IF Last(m_current_msgs)[1] = "last"
      THEN Step("rx", "idle", "terminate") /\ UNCHANGED <<m_write_flag, posted>>
      ELSE /\ Step("rx", "idle", "idle")
           /\ m_write_flag' = FALSE
           /\ UNCHANGED posted

\* A terminal frame ends the connection, with the write flag still set.
HandleWriteFrame ==
    FrameWritten /\
    IF Last(m_current_msgs)[1] = "last"
      THEN Step("rx", "idle", "terminate") /\ UNCHANGED <<m_write_flag, posted>>
      ELSE /\ Step("rx", "idle", "idle")
           /\ m_write_flag' = FALSE
           /\ posted' = IF m_send_queue = <<>> THEN posted ELSE posted + 1

\* Mutant of WriteFails: the failure is not the end.
WriteFailsAndGoesOn ==
    /\ Step("rx", "idle", "idle")
    /\ m_current_msgs # <<>> /\ m_current_msgs' = <<>>
    /\ m_write_flag' = FALSE
    /\ UNCHANGED <<session, m_connection_state_lock, timer, reading, m_send_queue,
                   posted, queued, wire, bounded, rest, handled>>

WriteFails ==
    /\ Step("rx", "idle", "terminate")
    /\ m_current_msgs # <<>> /\ m_current_msgs' = <<>>
    /\ UNCHANGED <<session, m_connection_state_lock, timer, reading, m_send_queue,
                   m_write_flag, posted, queued, wire, bounded, rest, handled>>

-----------------------------------------------------------------------------
(* send_close_frame, of either thread *)

\* Mutant of Arm: no timer is set.
ArmNothing(t) ==
    /\ Step(t, "arm", "push")
    /\ UNCHANGED <<session, m_connection_state_lock, timer, reading, output, bounded,
                   rest, handled>>

\* The answer to the peer's close frame is the one that is made without the lock.
Closing(t) ==
    /\ Step(t, "closing", "arm")
    /\ m_state' = "closing"
    /\ m_was_clean' = (m_was_clean \/ m_connection_state_lock # t)
    /\ UNCHANGED <<m_internal_state, m_connection_state_lock, timer, reading, output,
                   bounded, rest, handled>>

\* set_timer; a timer the pointer leaves keeps itself alive until it fires.
Arm(t) ==
    /\ Step(t, "arm", "push")
    /\ orphans' = IF m_handshake_timer \in {"armed", "expired"} THEN orphans + 1 ELSE orphans
    /\ m_handshake_timer' = "armed"
    /\ UNCHANGED <<session, m_connection_state_lock, reading, output, bounded, rest, handled>>

PushClose(t) ==
    /\ Step(t, "push", IF t = "rx" THEN "idle" ELSE "done")
    /\ Push(IF t = "rx" THEN closeframe ELSE "close", 0)
    /\ m_connection_state_lock' =
         IF m_connection_state_lock = t THEN "none" ELSE m_connection_state_lock
    /\ UNCHANGED <<session, timer, reading, bounded, rest, handled>>

SendCloseFrame(t) == Closing(t) \/ Arm(t) \/ PushClose(t)

-----------------------------------------------------------------------------
(* The transmission thread, and the thread in halt *)

\* send has found the connection open, and drops the lock.
SendChecks ==
    /\ Step("tx", "idle", "push")
    /\ role = "operator"
    /\ sends < MaxSends /\ sends' = sends + 1
    /\ pc["main"] = "idle"
    /\ StateLockFree /\ m_state = "open"
    /\ UNCHANGED <<session, m_connection_state_lock, timer, reading, output, reads,
                   rest, handled>>

SendPushes ==
    /\ Step("tx", "push", "idle")
    /\ Push("message", sends)
    /\ UNCHANGED <<session, m_connection_state_lock, timer, reading, bounded, rest, handled>>

\* Mutant of Close: halt does not wait for the transmission thread.
CloseAtOnce ==
    /\ role = "operator"
    /\ StateLockFree
    /\ IF m_state = "open"
         THEN Step("main", "idle", "closing") /\ m_connection_state_lock' = "main"
         ELSE Step("main", "idle", "done") /\ UNCHANGED m_connection_state_lock
    /\ UNCHANGED <<session, timer, reading, output, bounded, rest, handled>>

\* close("going_away") of the operator's connection: the lock is held to the end.
\* On a connection that is not open it throws.
Close ==
    /\ role = "operator" /\ pc["tx"] = "idle"
    /\ StateLockFree
    /\ IF m_state = "open"
         THEN Step("main", "idle", "closing") /\ m_connection_state_lock' = "main"
         ELSE Step("main", "idle", "done") /\ UNCHANGED m_connection_state_lock
    /\ UNCHANGED <<session, timer, reading, output, bounded, rest, handled>>

-----------------------------------------------------------------------------
(* The reception thread: the handshake *)

RxStep(from, to) ==
    /\ Step("rx", from, to)
    /\ UNCHANGED <<output, sends>>

\* start, handle_transport_init and read_handshake.
Start ==
    /\ RxStep("idle", "idle")
    /\ m_internal_state = "USER_INIT" /\ m_internal_state' = "READ_HTTP_REQUEST"
    /\ m_state' = "connecting"
    /\ m_handshake_timer' = "armed"
    /\ reading' = "request"
    /\ UNCHANGED <<m_was_clean, m_connection_state_lock, orphans, reads, rest, handled>>

\* More of the request is awaited, or the response is being written, or the
\* connection was terminated by the timer.
HandleReadHandshake ==
    /\ RxStep("idle", "idle")
    /\ StateLockFree
    /\ reading = "request"
    /\ IF m_state = "connecting"
         THEN \/ UNCHANGED <<reading, m_internal_state>>
              \/ reading' = "response" /\ m_internal_state' = "PROCESS_HTTP_REQUEST"
         ELSE reading' = "none" /\ UNCHANGED m_internal_state
    /\ UNCHANGED <<m_state, m_was_clean, m_connection_state_lock, timer, reads, rest, handled>>

\* The socket fails, of itself or because it was shut down.
HandshakeError ==
    /\ reading \in {"request", "response"} /\ reading' = "none"
    /\ \/ RxStep("idle", "terminate")
       \/ RxStep("idle", "idle") /\ m_state = "closed"
    /\ UNCHANGED <<session, m_connection_state_lock, timer, reads, rest, handled>>

\* cancel and reset of m_handshake_timer: one that has expired fires all the same.
CancelTimer ==
    /\ m_handshake_timer' = "none"
    /\ orphans' = IF m_handshake_timer = "expired" THEN orphans + 1 ELSE orphans

\* handle_write_http_response: the response to a bad request ends the connection.
HandshakeRefused ==
    /\ RxStep("idle", "terminate")
    /\ StateLockFree
    /\ reading = "response" /\ reading' = "none"
    /\ m_state = "connecting"
    /\ CancelTimer
    /\ UNCHANGED <<session, m_connection_state_lock, reads, rest, handled>>

HandleWriteHttpResponse ==
    /\ StateLockFree
    /\ reading = "response"
    /\ IF m_state = "connecting"
         THEN /\ RxStep("idle", "onopen")
              /\ CancelTimer
              /\ m_internal_state' = "PROCESS_CONNECTION" /\ m_state' = "open"
              /\ reading' = "frame"
         ELSE /\ RxStep("idle", "idle")
              /\ reading' = "none"
              /\ UNCHANGED <<timer, m_internal_state, m_state>>
    /\ UNCHANGED <<m_was_clean, m_connection_state_lock, reads, rest, handled>>

\* onopen of the server: the connection is the operator's, or is closed with
\* "try_again_later".
OnOpen ==
    /\ \/ RxStep("onopen", "idle")
          /\ role' = "operator"
          /\ UNCHANGED <<m_connection_state_lock, closeframe>>
       \/ RxStep("onopen", "closing")
          /\ role' = "rejected"
          /\ m_connection_state_lock' = "rx" /\ closeframe' = "close"
    /\ handled' = Append(handled, role')
    /\ UNCHANGED <<session, timer, reading, reads>>

-----------------------------------------------------------------------------
(* The reception thread: frames *)

ReadFrame(to) ==
    /\ RxStep("idle", to)
    /\ reading = "frame"
    /\ UNCHANGED timer

NewRead == reads < MaxReads /\ reads' = reads + 1

\* Mutant of ReadData: the state is not looked at.
ReadDataAlways ==
    /\ ReadFrame("idle") /\ NewRead
    /\ handled' = Append(handled, "message")
    /\ UNCHANGED <<session, m_connection_state_lock, reading, rest>>

\* onmessage of the server, only while the connection is open.
ReadData ==
    /\ ReadFrame("idle") /\ NewRead
    /\ handled' = IF m_state = "open" THEN Append(handled, "message") ELSE handled
    /\ UNCHANGED <<session, m_connection_state_lock, reading, rest>>

\* A ping: pong tests the state under the lock, and pushes later.
ReadPing ==
    /\ NewRead
    /\ IF m_state = "open"
         THEN ReadFrame("pong") /\ StateLockFree
         ELSE ReadFrame("idle")
    /\ UNCHANGED <<session, m_connection_state_lock, reading, rest, handled>>

PushPong ==
    /\ Step("rx", "pong", "idle")
    /\ Push("pong", 0)
    /\ UNCHANGED <<session, m_connection_state_lock, timer, reading, bounded, rest, handled>>

\* A close frame is answered, or is the answer, or comes too late; one with a code
\* or a reason that is not valid is answered in any case.
ReadClose ==
    /\ NewRead
    /\ \/ /\ m_state \in {"open", "closing"}
          /\ ReadFrame("closing") /\ closeframe' = "last"
          /\ UNCHANGED m_was_clean
       \/ /\ m_state = "closing" /\ ~m_was_clean
          /\ ReadFrame("terminate") /\ m_was_clean' = TRUE
          /\ UNCHANGED closeframe
       \/ /\ m_state = "closed" \/ (m_was_clean /\ m_state = "closing")
          /\ ReadFrame("idle")
          /\ UNCHANGED <<m_was_clean, closeframe>>
    /\ UNCHANGED <<m_state, m_internal_state, m_connection_state_lock, reading, role, handled>>

\* A frame against the protocol: close() with a terminal code, or terminate when
\* it fails; either way nothing more is read.
ReadBad ==
    /\ NewRead
    /\ StateLockFree
    /\ reading' = "none"
    /\ IF m_state = "open"
         THEN /\ ReadFrame("closing")
              /\ m_connection_state_lock' = "rx" /\ closeframe' = "last"
         ELSE /\ ReadFrame("terminate")
              /\ UNCHANGED <<m_connection_state_lock, closeframe>>
    /\ UNCHANGED <<session, role, handled>>

\* The peer is gone, or the socket was shut down.  End of file on a closed
\* connection is ignored.
ReadError ==
    /\ reading' = "none"
    /\ \/ ReadFrame("terminate")
       \/ ReadFrame("idle") /\ m_state = "closed"
    /\ UNCHANGED <<session, m_connection_state_lock, reads, rest, handled>>

-----------------------------------------------------------------------------
(* The reception thread: the end *)

TimerStep(to) ==
    /\ RxStep("idle", to)
    /\ UNCHANGED <<session, m_connection_state_lock, reading, reads, rest, handled>>

Expire ==
    /\ TimerStep("idle")
    /\ m_handshake_timer = "armed" /\ m_handshake_timer' = "expired"
    /\ UNCHANGED orphans

\* Mutant of HandleTimeout: a handler runs for a timer that was cancelled.
TimeoutOfCancelled ==
    /\ TimerStep("terminate")
    /\ \/ m_handshake_timer = "expired" /\ m_handshake_timer' = "fired"
          /\ UNCHANGED orphans
       \/ m_handshake_timer # "expired" /\ orphans' = orphans - 1
          /\ UNCHANGED m_handshake_timer

\* handle_open_handshake_timeout and handle_close_handshake_timeout.
HandleTimeout ==
    /\ TimerStep("terminate")
    /\ \/ m_handshake_timer = "expired" /\ m_handshake_timer' = "fired"
          /\ UNCHANGED orphans
       \/ orphans > 0 /\ orphans' = orphans - 1
          /\ UNCHANGED m_handshake_timer

TerminateCancels ==
    /\ RxStep("terminate", "shut")
    /\ CancelTimer
    /\ UNCHANGED <<session, m_connection_state_lock, reading, reads, rest, handled>>

\* Mutant of Terminate: it does not notice that the connection was terminated.
TerminateAgain ==
    /\ RxStep("shut", IF m_state = "connecting" THEN "idle" ELSE "onclose")
    /\ m_state' = "closed"
    /\ UNCHANGED <<m_internal_state, m_was_clean, m_connection_state_lock, timer, reading,
                   reads, rest, handled>>

\* The state is changed and the socket shut down, both without a lock, and the
\* close handler is called before terminate returns.
Terminate ==
    /\ RxStep("shut", IF m_state \in {"connecting", "closed"} THEN "idle" ELSE "onclose")
    /\ m_state' = "closed"
    /\ UNCHANGED <<m_internal_state, m_was_clean, m_connection_state_lock, timer, reading,
                   reads, rest, handled>>

OnClose ==
    /\ RxStep("onclose", "idle")
    /\ handled' = Append(handled, "close")
    /\ UNCHANGED <<session, m_connection_state_lock, timer, reading, reads, rest>>

\* halt's close assigns m_handshake_timer while the reception thread assigns or
\* resets it.
TimerRace ==
    /\ ~fault /\ fault' = TRUE
    /\ pc["main"] = "arm" /\ pc["rx"] \in {"arm", "terminate"}
    /\ UNCHANGED <<session, m_connection_state_lock, timer, reading, output, pc,
                   bounded, rest, handled>>

-----------------------------------------------------------------------------

Handshake ==
    HandleReadHandshake \/ HandshakeError \/ HandshakeRefused \/ HandleWriteHttpResponse

Frames == ReadData \/ ReadPing \/ ReadClose \/ ReadBad

Timeout == Expire \/ HandleTimeout

Writing == WriteFrame \/ HandleWriteFrame \/ WriteFails

\* What the reception thread goes on with.
Handler == OnOpen \/ PushPong \/ SendCloseFrame("rx") \/ TerminateCancels \/ Terminate \/ OnClose

Next ==
    \/ Start \/ Handshake \/ Frames \/ ReadError \/ Timeout \/ Writing \/ Handler
    \/ SendChecks \/ SendPushes \/ Close \/ SendCloseFrame("main")
    \/ TimerRace

Spec == Init /\ [][Next]_vars

\* Threads are scheduled, writes end, timers run out, and the io_service runs
\* handlers in the order they became ready, so that no peer can keep a timer's
\* handler waiting for ever.
FairSpec ==
    /\ Spec
    /\ WF_vars(Writing) /\ WF_vars(Handler) /\ SF_vars(Timeout)
    /\ WF_vars(SendPushes) /\ WF_vars(SendCloseFrame("main"))

-----------------------------------------------------------------------------
(* Properties *)

QueueEntry == {"message", "pong", "close", "last"} \X (0 .. MaxSends)

\* Types of the members and of the threads' positions.
TypeOK ==
    /\ m_state \in {"none", "connecting", "open", "closing", "closed"}
    /\ m_internal_state \in {"USER_INIT", "READ_HTTP_REQUEST", "PROCESS_HTTP_REQUEST",
                             "PROCESS_CONNECTION"}
    /\ m_was_clean \in BOOLEAN
    /\ m_connection_state_lock \in {"none", "rx", "main"}
    /\ m_handshake_timer \in {"none", "armed", "expired", "fired"} /\ orphans \in Nat
    /\ reading \in {"none", "request", "response", "frame"}
    /\ m_send_queue \in Seq(QueueEntry) /\ m_current_msgs \in Seq(QueueEntry)
    /\ m_write_flag \in BOOLEAN /\ posted \in Nat
    /\ pc \in [rx : {"idle", "onopen", "closing", "arm", "push", "pong", "terminate",
                     "shut", "onclose"},
               tx : {"idle", "push"},
               main : {"idle", "closing", "arm", "push", "done"}]
    /\ closeframe \in {"none", "close", "last"}
    /\ sends \in 0 .. MaxSends /\ reads \in 0 .. MaxReads
    /\ fault \in BOOLEAN
    /\ role \in {"none", "operator", "rejected"}
    /\ handled \in Seq({"operator", "rejected", "message", "close"})
    /\ queued \in Seq(QueueEntry) /\ wire \in Seq(QueueEntry)

\* The frames written are those pushed by the three threads, in the order of
\* their pushes and none twice; those of a write that failed are the only ones
\* lost, and then nothing is written any more.
WrittenInOrder ==
    /\ IsPrefix(wire \o m_current_msgs, queued)
    /\ IsSuffix(m_send_queue, queued)
    /\ m_write_flag = (m_current_msgs # <<>>) =>
         queued = wire \o m_current_msgs \o m_send_queue

\* No frame follows a terminal one, and no message any close frame: a send that
\* found the connection open can push after the answer to the peer's close,
\* which is terminal, but not after halt's own, which is not.
NothingAfterClose ==
    LET out == wire \o m_current_msgs IN
    \A i, j \in 1 .. Len(out) : i < j =>
        /\ out[i][1] # "last"
        /\ out[i][1] = "close" => out[j][1] # "message"

\* Messages are handled after the open handler has taken the connection for the
\* operator's, and before the close handler; a rejected connection has none.
MessagesInSession ==
    \A j \in 1 .. Len(handled) : handled[j] = "message" =>
        /\ handled[1] = "operator"
        /\ \A i \in 1 .. j : handled[i] # "close"

\* What is queued is written, or the connection closes.
OutputDrains == m_send_queue # <<>> ~> m_send_queue = <<>> \/ m_state = "closed" \/ fault

\* A handshake and a close come to their end whatever the peer does or leaves
\* undone, a close that came too late included.
ExchangesEnd ==
    /\ m_state = "connecting" ~> m_state # "connecting"
    /\ m_state = "closing" ~> m_state = "closed" \/ fault

\* "The close handler will be called exactly once for every connection for which
\* the open handler was called."
ClosedOnce == Len(SelectSeq(handled, LAMBDA h : h = "close")) <= 1

\* What the server is told of a connection, where its own code may be.
life ==
    CASE m_state \notin {"closing", "closed"}              -> m_state
      [] m_state = "closed" /\ pc["rx"] = "onclose"       -> "closed"
      [] m_state = "closed" /\ pc["rx"] # "onclose"       -> "gone"
      [] m_state = "closing" /\ pc["rx"] = "onclose"      -> "reclosing"
      [] m_state = "closing" /\ pc["rx"] # "onclose"      ->
           IF Len(handled) > 0 /\ Last(handled) = "close" THEN "zombie" ELSE "closing"

checked == pc["main"] = "closing"

Life == INSTANCE ConnectionLife

\* The connection lives as ConnectionLife has it.
ImplementsLife == Life!Spec
=============================================================================
