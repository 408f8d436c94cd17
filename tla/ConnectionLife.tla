--------------------------- MODULE ConnectionLife ---------------------------
(***************************************************************************)
(* What websocketpp promises R2CPWebSocketServer of one connection: it is  *)
(* accepted, its handshake fails or it opens, and an open one closes, by a *)
(* closing handshake or without, and then has its close handler called.    *)
(*                                                                         *)
(* A close() of another thread is two steps, the test of the state and its *)
(* change.  The reception thread may end the connection in between; then   *)
(* the change brings it back, and it ends a second time.                   *)
(*                                                                         *)
(* Connection implements this module, and the connections of               *)
(* WebSocketServer behave by it.                                           *)
(***************************************************************************)

VARIABLES life,     \* where the connection is
          checked   \* a close() of another thread has found it open

vars == <<life, checked>>

Lives == {"none", "connecting", "open", "closing",
          "closed", "gone",       \* ended: close handler due, close handler called
          "reclosing", "zombie"}  \* the same, brought back by a late close

Init == life = "none" /\ checked = FALSE

Move(from, to) ==
    /\ life \in from /\ life' = to
    /\ UNCHANGED checked

Accept == Move({"none"}, "connecting")
Fail == Move({"connecting"}, "gone")
Open == Move({"connecting"}, "open")

\* The peer's close frame, a frame the peer may not send, or a close() of the
\* reception thread.
StartClose == Move({"open"}, "closing")

\* The socket is shut down: the closing handshake is over or timed out, or the
\* peer is gone.
Terminate == Move({"open", "closing", "zombie"}, "closed")

CloseHandler == Move({"closed"}, "gone") \/ Move({"reclosing"}, "zombie")

\* close() of another thread.
CheckOpen ==
    /\ life = "open" /\ ~checked
    /\ checked' = TRUE
    /\ UNCHANGED life

LateClose ==
    /\ checked /\ checked' = FALSE
    /\ life' = CASE life = "closed" -> "reclosing"
                 [] life = "gone" -> "zombie"
                 [] OTHER -> "closing"

Next ==
    \/ Accept \/ Fail \/ Open \/ StartClose \/ Terminate \/ CloseHandler
    \/ CheckOpen \/ LateClose

Spec == Init /\ [][Next]_vars
=============================================================================
