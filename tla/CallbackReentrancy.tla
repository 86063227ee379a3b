-------------------------- MODULE CallbackReentrancy --------------------------
(***************************************************************************)
(* A user callback that calls the blocking Connection::sendRequest         *)
(* (src/src/connection.cpp).  Callbacks run on the I/O thread, inside the  *)
(* handler that invokes them (RequestCallback::invoke), so the blocking    *)
(* call's wg.wait() holds the I/O thread: no handler runs until the        *)
(* callback returns.                                                       *)
(*                                                                         *)
(* IOThread is the I/O thread in its role as the caller of the blocking    *)
(* sendRequest; it takes steps only while inCallback holds.  The callbacks *)
(* of requests submitted by ReentrantOwners make that call.  The handler's *)
(* own work after the invocation (the completion CAS) is taken in the same *)
(* step, before the callback: it may start a write the code would only    *)
(* queue, but only a handler can answer either, and none runs while the   *)
(* callback blocks.                                                        *)
(***************************************************************************)
EXTENDS SyncFacade

CONSTANTS
    IOThread,         \* the I/O thread as a caller of sendRequest
    ReentrantOwners   \* threads whose requests' callbacks call the blocking form

ASSUME /\ IOThread \in SyncThreads
       /\ ReentrantOwners \subseteq Threads \ {IOThread}

VARIABLE inCallback   \* the I/O thread is inside a callback's blocking call

reVars == <<allVars, inCallback>>

\* the step invokes the callback of a request whose callback calls the
\* blocking sendRequest
Reenters ==
    \E id \in Ids :
        /\ owner[id] \in ReentrantOwners
        /\ calls[id] = <<>>
        /\ calls'[id] # <<>>

\* an I/O-thread handler, run only while no callback holds the thread; it
\* enters the callback when it invokes a re-entrant one
ReactorDoes(A) ==
    /\ ~crashed
    /\ ~inCallback
    /\ A
    /\ UNCHANGED facadeVars
    /\ inCallback' = Reenters

\* an application thread, unaffected by the callback
AppThread(t) ==
    /\ t # IOThread
    /\ ~crashed
    /\ SyncThreadStep(t)
    /\ UNCHANGED inCallback

\* the callback's blocking sendRequest, on the I/O thread: wg.add, the
\* asynchronous sendRequest (ticket, push, fetch_add, _connected check,
\* startWriting), and wg.wait(); the callback returns with the call
CallbackStep ==
    /\ ~crashed
    /\ inCallback
    /\ SyncThreadStep(IOThread)
    /\ inCallback' = (sync'[IOThread] # "idle" \/ pc'[IOThread] # "idle")

ReInit == SyncInit /\ inCallback = FALSE

ReNext ==
    \/ \E t \in Threads : AppThread(t)
    \/ CallbackStep
    \/ ReactorDoes(ReactorStep)
    \/ ReactorDoes(Quiescent)

\* application threads are scheduled (all steps but a new submission), the
\* callback runs while it can, and the I/O thread runs every ready handler
\* it is free to run
ReFairness ==
    /\ \A t \in Threads \ {IOThread} :
          WF_reVars(AppThread(t) /\ (pc[t] # "idle" \/ sync[t] = "async"))
    /\ WF_reVars(CallbackStep)
    /\ WF_reVars(ReactorDoes(ResolveSucceeded))
    /\ WF_reVars(ReactorDoes(ConnectSucceeded))
    /\ WF_reVars(ReactorDoes(HandshakeSucceeded))
    /\ WF_reVars(ReactorDoes(\E id \in Ids : WriteSucceeded(id)))
    /\ WF_reVars(ReactorDoes(\E id \in Ids : ReadPartial(id) \/ ReadComplete(id)))

ReSpec == ReInit /\ [][ReNext]_reVars /\ ReFairness
====
