---------------------------- MODULE RequestChannel ----------------------------
(***************************************************************************)
(* What a fuerte connection promises its callers (spec 2, 4.4, 8), with    *)
(* no queues, atomics or sockets: every request submitted is either        *)
(* refused at once or accepted; an accepted request waits, goes on the     *)
(* wire, and is answered exactly once; an HTTP connection is half-duplex,  *)
(* so at most one request is on the wire at a time.                        *)
(***************************************************************************)
EXTENDS Naturals, Sequences

CONSTANTS
    Ids,         \* message ids
    ErrorCodes   \* what a callback can be invoked with

VARIABLES
    status,      \* status[id]: "new", "rejected", "waiting", "wire", "closed"
    answers      \* answers[id]: the error codes id's callback received

vars == <<status, answers>>

Statuses == {"new", "rejected", "waiting", "wire", "closed"}

OnWire == {id \in Ids : status[id] = "wire"}

Init ==
    /\ status = [id \in Ids |-> "new"]
    /\ answers = [id \in Ids |-> <<>>]

\* sendRequest accepts the request
Submit(id) ==
    /\ status[id] = "new"
    /\ status' = [status EXCEPT ![id] = "waiting"]
    /\ UNCHANGED answers

\* sendRequest refuses it: no callback will ever be invoked
Reject(id) ==
    /\ status[id] = "new"
    /\ status' = [status EXCEPT ![id] = "rejected"]
    /\ UNCHANGED answers

\* a waiting request is written while nothing else is on the wire
Transmit(id) ==
    /\ status[id] = "waiting"
    /\ OnWire = {}
    /\ status' = [status EXCEPT ![id] = "wire"]
    /\ UNCHANGED answers

\* the request on the wire is answered, once, with a response or an error;
\* the connection may move straight on to the next waiting request
Answer(id, ec) ==
    /\ status[id] = "wire"
    /\ answers' = [answers EXCEPT ![id] = <<ec>>]
    /\ \/ status' = [status EXCEPT ![id] = "closed"]
       \/ \E next \in Ids :
            /\ status[next] = "waiting"
            /\ status' = [status EXCEPT ![id] = "closed", ![next] = "wire"]

Next ==
    \E id \in Ids :
        \/ Submit(id)
        \/ Reject(id)
        \/ Transmit(id)
        \/ \E ec \in ErrorCodes : Answer(id, ec)

Spec == Init /\ [][Next]_vars

TypeOK ==
    /\ status \in [Ids -> Statuses]
    /\ answers \in [Ids -> Seq(ErrorCodes)]
====
