-------------------------- MODULE ConnectionLifetime --------------------------
(***************************************************************************)
(* The end of a connection's life: ~AsioConnection() in                    *)
(* src/src/AsioConnection.cpp.  Every completion handler captures          *)
(* shared_from_this() and a thread calling sendRequest holds the handle,   *)
(* so the destructor runs only once no handler is pending, no thread is    *)
(* inside sendRequest and the user has released the handle.  By then       *)
(* HttpConnection's part is destroyed, so the destructor's                 *)
(* shutdownConnection() is the base version: it cancels the message store  *)
(* and nothing else.                                                       *)
(***************************************************************************)
EXTENDS HttpConnection

VARIABLE destroyed   \* the destructor has run

lifeVars == <<vars, destroyed>>

\* ~AsioConnection(): _resolver.cancel() (nothing is pending), then
\* AsioConnection::shutdownConnection(): _connected = false, stop the
\* loops, close the socket, _messageStore.cancelAll(Canceled)
Destroy ==
    /\ ~destroyed
    /\ ~crashed
    /\ pending = {}
    /\ \A t \in Threads : pc[t] = "idle"
    /\ AsioShutdownConnection
    /\ calls' = CancelAll(calls, store, "Canceled")
    /\ destroyed' = TRUE
    /\ UNCHANGED <<writeQueue, ssl, pending, inFlight, partial, nextId,
                   accepted, rejected, pc, ret, faults, owner, crashed>>

LifeInit == Init /\ destroyed = FALSE

LifeNext ==
    \/ ~destroyed /\ Next /\ UNCHANGED destroyed
    \/ Destroy
    \/ destroyed /\ UNCHANGED lifeVars

LifeSpec == LifeInit /\ [][LifeNext]_lifeVars

\* When the connection is destroyed, every request it accepted has had its
\* callback invoked (spec 8: the callback of every submitted request fires,
\* and destroying the handle fails the outstanding requests).
NoRequestOutlivesConnection ==
    destroyed => \A id \in accepted : calls[id] # <<>>
====
