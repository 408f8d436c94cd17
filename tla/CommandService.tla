--------------------------- MODULE CommandService ---------------------------
(***************************************************************************)
(* What the runtime broker promises the operators of a robot: their        *)
(* packets are answered in the order they came, each once at most, until   *)
(* the broker stops, and for good.  An answer goes to the operator of the  *)
(* moment: the one who asked, or one who took over since, but never one    *)
(* who was there before.  RuntimeBroker implements this module.            *)
(***************************************************************************)
EXTENDS Naturals, Sequences

CONSTANT Connections

VARIABLES operators,  \* the connections taken for the operator's, in order
          requests,   \* the connection that each packet came from
          answers,    \* the packet that each answer is to, and where it went
          stopped

vars == <<operators, requests, answers, stopped>>

Init == operators = <<>> /\ requests = <<>> /\ answers = <<>> /\ stopped = FALSE

Rank(c) == CHOOSE i \in 1 .. Len(operators) : operators[i] = c

Known(c) == \E i \in 1 .. Len(operators) : operators[i] = c

Connect(c) ==
    /\ ~stopped
    /\ ~Known(c)
    /\ operators' = Append(operators, c)
    /\ UNCHANGED <<requests, answers, stopped>>

Request(c) ==
    /\ ~stopped
    /\ Known(c)
    /\ requests' = Append(requests, c)
    /\ UNCHANGED <<operators, answers, stopped>>

Answer(n, c) ==
    /\ ~stopped
    /\ n \in 1 .. Len(requests)
    /\ \A i \in 1 .. Len(answers) : answers[i][1] < n
    /\ Known(c) /\ Rank(requests[n]) <= Rank(c)
    /\ answers' = Append(answers, <<n, c>>)
    /\ UNCHANGED <<operators, requests, stopped>>

Stop ==
    /\ stopped' = TRUE
    /\ UNCHANGED <<operators, requests, answers>>

Next ==
    \/ Stop
    \/ \E c \in Connections :
         Connect(c) \/ Request(c) \/ \E n \in 1 .. Len(requests) : Answer(n, c)

Spec == Init /\ [][Next]_vars
=============================================================================
