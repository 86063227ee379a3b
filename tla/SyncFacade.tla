------------------------------ MODULE SyncFacade ------------------------------
(***************************************************************************)
(* The synchronous Connection::sendRequest(request) of                     *)
(* src/src/connection.cpp, composed with the asynchronous HTTP connection  *)
(* it wraps.  A synchronous caller adds one to a WaitGroup, calls the      *)
(* asynchronous sendRequest with a callback that stores the response and   *)
(* signals the WaitGroup, and waits.  The other application threads use    *)
(* the asynchronous form directly.                                         *)
(*                                                                         *)
(* The WaitGroup's source (fuerte/waitgroup.h) is not in the repository:   *)
(* its counter is the number of add() calls of the caller less the number  *)
(* of times the request's callback, whose WaitGroupDone signals done() on  *)
(* exit, has been invoked; wait() returns once it is zero (spec 4.7).      *)
(***************************************************************************)
EXTENDS HttpConnection

CONSTANT SyncThreads   \* the threads that call the blocking sendRequest

ASSUME SyncThreads \subseteq Threads

VARIABLES
    sync,    \* sync[t]: "idle", or "async" while inside sendRequest/wait
    mine,    \* mine[t]: the message id of t's current synchronous request
    added    \* added[t]: t's wg.add() calls for its current request

facadeVars == <<sync, mine, added>>
allVars == <<vars, facadeVars>>

\* the WaitGroup counter: add() calls less done() calls by the callback
WaitGroupCount(t) == added[t] - Len(calls[mine[t]])

\* wg.add(); sendRequest(std::move(request), cb): the ticket of the
\* asynchronous sendRequest is t's request; a full queue throws out of the
\* synchronous call too, before it waits
SyncSendRequest(t) ==
    /\ sync[t] = "idle"
    /\ SendRequest(t)
    /\ mine' = [mine EXCEPT ![t] = nextId]
    /\ added' = [added EXCEPT ![t] = 1]
    /\ sync' = [sync EXCEPT ![t] = "async"]

\* the push of t's request: when the queue is full the exception thrown by
\* queueRequest leaves the synchronous call before wg.wait()
SyncQueueRequest(t) ==
    /\ QueueRequestPush(t)
    /\ IF mine[t] \in rejected'
       THEN /\ sync' = [sync EXCEPT ![t] = "idle"]
            /\ added' = [added EXCEPT ![t] = 0]
       ELSE UNCHANGED <<sync, added>>
    /\ UNCHANGED mine

\* the asynchronous sendRequest has returned and wg.wait() returns: the
\* callback has run; the response (or the error, thrown) goes to the caller
SyncWait(t) ==
    /\ sync[t] = "async"
    /\ pc[t] = "idle"
    /\ WaitGroupCount(t) = 0
    /\ sync' = [sync EXCEPT ![t] = "idle"]
    /\ added' = [added EXCEPT ![t] = 0]
    /\ UNCHANGED <<vars, mine>>

SyncInit ==
    /\ Init
    /\ sync = [t \in Threads |-> "idle"]
    /\ mine = [t \in Threads |-> 1]
    /\ added = [t \in Threads |-> 0]

\* one step of application thread t: the blocking sendRequest's own steps
\* for a synchronous caller, the asynchronous sendRequest's otherwise
SyncThreadStep(t) ==
    \/ t \in SyncThreads /\ (SyncSendRequest(t) \/ SyncQueueRequest(t) \/ SyncWait(t))
    \/ /\ t \notin SyncThreads
       /\ SendRequest(t) \/ QueueRequestPush(t)
       /\ UNCHANGED facadeVars
    \/ /\ \/ QueueRequestInc(t)
          \/ CheckConnected(t)
          \/ StartWriting(t)
          \/ StartWritingCas(t)
       /\ UNCHANGED facadeVars

SyncNext ==
    /\ ~crashed
    /\ \/ \E t \in Threads : SyncThreadStep(t)
       \/ ReactorStep /\ UNCHANGED facadeVars
       \/ Quiescent /\ UNCHANGED facadeVars

\* a thread blocked in wait() is woken by the scheduler once the count is 0
SyncSpec ==
    /\ SyncInit /\ [][SyncNext]_allVars
    /\ Fairness
    /\ \A t \in SyncThreads : WF_allVars(~crashed /\ SyncWait(t))

-----------------------------------------------------------------------------
(* Properties.                                                             *)

\* A thread that called the blocking sendRequest and got its request
\* accepted eventually returns from wg.wait(): the connection invokes the
\* callback of the request, across write errors and reconnects.
SyncRequestReturns ==
    \A t \in SyncThreads : sync[t] = "async" ~> sync[t] = "idle"
====
