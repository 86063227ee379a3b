---------------------------- MODULE HttpConnection ----------------------------
(***************************************************************************)
(* The HTTP driver of fuerte: AsioConnection<http::RequestItem> together   *)
(* with the HttpConnection overrides (src/src/AsioConnection.cpp,          *)
(* src/src/HttpConnection.cpp).                                            *)
(*                                                                         *)
(* Two kinds of actors share the connection:                               *)
(*  - application threads calling sendRequest(request, callback); each     *)
(*    thread is split at its atomic operations on _loopState, because the  *)
(*    loop-state word is the only synchronisation with the I/O thread;     *)
(*  - the single boost::asio I/O thread, which runs one completion handler *)
(*    at a time.  `pending` is the set of asynchronous operations whose    *)
(*    handler is still to run (resolve, connect, handshake, write, read).  *)
(*                                                                         *)
(* Data is abstracted away: a request is its message id, a response is     *)
(* the error code handed to the callback, and the HTTP parser is reduced   *)
(* to the outcomes a read can produce (partial, complete, upgrade/invalid).*)
(***************************************************************************)
EXTENDS Naturals, Sequences, FiniteSets

CONSTANTS
    Threads,        \* application threads that call sendRequest
    MaxRequests,    \* number of requests submitted in one behaviour
    QueueCapacity,  \* capacity of _writeQueue (1024 in the code)
    Faults,         \* the transport failures the environment may inject
    MaxFaults,      \* at most this many failures per behaviour
    NoItem          \* model value: "no request" (a null pointer)

Ids == 1..MaxRequests

FaultKinds == {"resolve", "connect", "handshake", "write", "read", "protocol"}

ErrorCodes == {"NoError", "WriteError", "ConnectionError", "ProtocolError",
               "CouldNotConnect", "Canceled"}

ASSUME /\ Threads # {}
       /\ MaxRequests \in Nat \ {0}
       /\ QueueCapacity \in Nat \ {0}
       /\ Faults \subseteq FaultKinds
       /\ MaxFaults \in Nat
       /\ NoItem \notin Ids \cup Threads

VARIABLES
    loopState,   \* _loopState: WRITE_LOOP_ACTIVE, READ_LOOP_ACTIVE, queue count
    writeQueue,  \* _writeQueue: items pushed by sendRequest, popped by asyncWrite
    connected,   \* _connected
    ssl,         \* _configuration._ssl (fixed for the life of the connection)
    pending,     \* asynchronous operations whose completion handler has not run
    store,       \* _messageStore: ids of the items added by fetchBuffers
    inFlight,    \* _inFlight: the item whose response is being parsed
    partial,     \* the parser has consumed part of _inFlight's response
    calls,       \* calls[id]: error codes the callback of id was invoked with
    nextId,      \* the static ticketId counter of sendRequest
    accepted,    \* ids whose item was pushed onto _writeQueue
    rejected,    \* ids for which queueRequest threw "queue capacity exceeded"
    pc,          \* where each application thread is inside sendRequest
    owner,       \* owner[id]: the thread that took ticket id (history)
    ret,         \* each thread's local `state` copy of _loopState
    faults,      \* number of failures injected so far
    crashed      \* the process died on a null dereference (see ShutdownConnection)

vars == <<loopState, writeQueue, connected, ssl, pending, store, inFlight,
          partial, calls, nextId, accepted, rejected, pc, owner, ret, faults,
          crashed>>

LoopStates == [write : BOOLEAN, read : BOOLEAN, count : 0..QueueCapacity]

Op(kind, id) == [op |-> kind, item |-> id]

PendingOps ==
    {Op(k, NoItem) : k \in {"resolve", "connect", "handshake"}}
        \cup {Op(k, id) : k \in {"write", "read"}, id \in Ids}

-----------------------------------------------------------------------------
(* The loop-state word.                                                    *)

\* state & LOOP_FLAGS
Active(s) == s.write \/ s.read

\* state | LOOP_FLAGS: HTTP turns both loops on at once
WithFlags(s) == [s EXCEPT !.write = TRUE, !.read = TRUE]

\* mutation: stopIOLoops stores 0, dropping the queued-writes count
StopIOLoopsResetsCount(s) == [write |-> FALSE, read |-> FALSE, count |-> 0]

\* stopIOLoops(): CAS-clears both flags, leaving the queue count alone
StopIOLoops(s) == [s EXCEPT !.write = FALSE, !.read = FALSE]

(* The message store (not under src/: modelled from the spec, 4.3).        *)

\* invoke the callback of every id in `ids` with error code `ec`
Invoke(c, ids, ec) == [i \in Ids |-> IF i \in ids THEN Append(c[i], ec) ELSE c[i]]

\* MessageStore::cancelAll(ec): every stored item's callback gets `ec`,
\* together with the item's request (spec 4.3)
CancelAll(c, st, ec) == Invoke(c, st, ec)

\* every invocation moves RequestItem::_request into the callback
\* (HttpConnection.cpp:223, 275, 366 and cancelAll): an item still holds its
\* request until its callback has run
RequestPresent(c, id) == c[id] = <<>>

Fault(kind) ==
    /\ kind \in Faults
    /\ faults < MaxFaults
    /\ faults' = faults + 1

-----------------------------------------------------------------------------
(* Operations shared by the application threads and the I/O thread.       *)

\* fetchBuffers(item): the item is added to the message store under its id
FetchBuffers(st, id) == st \cup {id}

\* mutation: asyncWrite pops the newest queued item instead of the oldest
AsyncWritePopsNewest(ls, conn, st, pend) ==
    IF ~conn
    THEN /\ loopState' = StopIOLoops(ls)
         /\ store' = st
         /\ pending' = pend
         /\ UNCHANGED writeQueue
    ELSE LET newest == writeQueue[Len(writeQueue)]
         IN /\ loopState' = [ls EXCEPT !.count = @ - 1]
            /\ writeQueue' = SubSeq(writeQueue, 1, Len(writeQueue) - 1)
            /\ store' = FetchBuffers(st, newest)
            /\ pending' = pend \cup {Op("write", newest)}

\* mutation: asyncWrite without the `!_connected` early return
AsyncWriteIgnoresConnected(ls, conn, st, pend) ==
    /\ loopState' = [ls EXCEPT !.count = @ - 1]
    /\ writeQueue' = Tail(writeQueue)
    /\ store' = st \cup {Head(writeQueue)}
    /\ pending' = pend \cup {Op("write", Head(writeQueue))}

\* asyncWrite(), entered with loop state `ls` (flags already on), the
\* value `conn` of _connected it reads, and the store and pending set left
\* by the caller: pop one item, add it to the store (fetchBuffers) and
\* start the gathered write of header and payload.
AsyncWrite(ls, conn, st, pend) ==
    IF ~conn
    THEN /\ loopState' = StopIOLoops(ls)
         /\ store' = st
         /\ pending' = pend
         /\ UNCHANGED writeQueue
    ELSE /\ loopState' = [ls EXCEPT !.count = @ - 1]
         /\ writeQueue' = Tail(writeQueue)
         /\ store' = FetchBuffers(st, Head(writeQueue))
         /\ pending' = pend \cup {Op("write", Head(writeQueue))}

\* asyncReadSome() for the item `id` just written
AsyncReadSome(id, pend) ==
    IF ~loopState.read
    THEN /\ pending' = pend
         /\ UNCHANGED loopState
    ELSE IF ~connected
    THEN /\ pending' = pend
         /\ loopState' = StopIOLoops(loopState)
    ELSE /\ pending' = pend \cup {Op("read", id)}
         /\ UNCHANGED loopState

\* AsioConnection::shutdownConnection(ec): _connected = false, stop both
\* loops, close the socket, cancel and empty the message store
AsioShutdownConnection ==
    /\ connected' = FALSE
    /\ loopState' = StopIOLoops(loopState)
    /\ store' = {}

\* HttpConnection::shutdownConnection(ec): the base version, then, if an
\* item is _inFlight, removeByID(_inFlight->_request->messageID) and its
\* callback.  _inFlight is in the store, so cancelAll has already moved its
\* request out: line 222 dereferences a null unique_ptr and the process
\* dies there (crashed), before the second invocation.
ShutdownConnection(ec, st, c) ==
    LET afterCancel == CancelAll(c, st, ec)
        nullRequest == inFlight # NoItem /\ ~RequestPresent(afterCancel, inFlight)
    IN /\ AsioShutdownConnection
       /\ crashed' = nullRequest
       /\ calls' = IF inFlight = NoItem \/ nullRequest THEN afterCancel
                   ELSE Invoke(afterCancel, {inFlight}, ec)
       /\ inFlight' = IF nullRequest THEN inFlight ELSE NoItem

\* restartConnection(ec): shut down, then resolve again
\* (_permanent_failure is never set)
RestartConnection(ec, st, c, pend) ==
    /\ ShutdownConnection(ec, st, c)
    /\ pending' = pend \cup {Op("resolve", NoItem)}

\* startWriting() run on the I/O thread: no other thread can clear the
\* flags it sets, so its CAS loop ends after one successful CAS
ReactorStartWriting(pend) ==
    IF ~Active(loopState) /\ loopState.count > 0
    THEN AsyncWrite(WithFlags(loopState), TRUE, store, pend)
    ELSE /\ pending' = pend
         /\ UNCHANGED <<loopState, writeQueue, store>>

\* finishInitialization(): the socket is up
FinishInitialization(pend) ==
    /\ connected' = TRUE
    /\ ReactorStartWriting(pend)

-----------------------------------------------------------------------------
(* Application threads: sendRequest(request, callback).                    *)

\* HttpConnection::sendRequest: take a ticket id from the static ticketId
\* counter and build the RequestItem (createRequestItem)
SendRequest(t) ==
    /\ pc[t] = "idle"
    /\ nextId <= MaxRequests
    /\ nextId' = nextId + 1
    /\ owner' = [owner EXCEPT ![nextId] = t]
    /\ pc' = [pc EXCEPT ![t] = "queueRequest"]
    /\ UNCHANGED <<loopState, writeQueue, connected, ssl, pending, store,
                   inFlight, partial, calls, accepted, rejected, ret, faults, crashed>>

\* the id whose item thread t is about to push
Held(t) == CHOOSE id \in Ids : owner[id] = t /\ id \notin accepted \cup rejected

\* mutation: the capacity check of _writeQueue.push is missing
QueueRequestPushUnbounded(t) ==
    /\ pc[t] = "queueRequest"
    /\ writeQueue' = Append(writeQueue, Held(t))
    /\ accepted' = accepted \cup {Held(t)}
    /\ pc' = [pc EXCEPT ![t] = "fetchAdd"]
    /\ UNCHANGED <<rejected, loopState, connected, ssl, pending, store,
                   inFlight, partial, calls, nextId, owner, ret, faults, crashed>>

\* queueRequest: push the item onto _writeQueue; a full queue throws
\* std::length_error out of sendRequest and no callback is registered
QueueRequestPush(t) ==
    /\ pc[t] = "queueRequest"
    /\ \/ /\ Len(writeQueue) < QueueCapacity
          /\ writeQueue' = Append(writeQueue, Held(t))
          /\ accepted' = accepted \cup {Held(t)}
          /\ pc' = [pc EXCEPT ![t] = "fetchAdd"]
          /\ UNCHANGED rejected
       \/ /\ Len(writeQueue) >= QueueCapacity
          /\ rejected' = rejected \cup {Held(t)}
          /\ pc' = [pc EXCEPT ![t] = "idle"]
          /\ UNCHANGED <<writeQueue, accepted>>
    /\ UNCHANGED <<loopState, connected, ssl, pending, store, inFlight,
                   partial, calls, nextId, owner, ret, faults, crashed>>

\* queueRequest: _loopState.fetch_add(WRITE_LOOP_QUEUE_INC), keeping the
\* value it returns
QueueRequestInc(t) ==
    /\ pc[t] = "fetchAdd"
    /\ ret' = [ret EXCEPT ![t] = loopState]
    /\ loopState' = [loopState EXCEPT !.count = @ + 1]
    /\ pc' = [pc EXCEPT ![t] = "checkConnected"]
    /\ UNCHANGED <<writeQueue, connected, ssl, pending, store, inFlight,
                   partial, calls, nextId, accepted, rejected, faults, owner, crashed>>

\* if (_connected) { if (!(state & LOOP_FLAGS)) startWriting(); }
CheckConnected(t) ==
    /\ pc[t] = "checkConnected"
    /\ pc' = [pc EXCEPT ![t] = IF connected /\ ~Active(ret[t])
                               THEN "startWriting" ELSE "idle"]
    /\ UNCHANGED <<loopState, writeQueue, connected, ssl, pending, store,
                   inFlight, partial, calls, nextId, accepted, rejected,
                   ret, faults, owner, crashed>>

\* startWriting(): assert(_connected); state = _loopState.load()
StartWriting(t) ==
    /\ pc[t] = "startWriting"
    /\ ret' = [ret EXCEPT ![t] = loopState]
    /\ pc' = [pc EXCEPT ![t] = "casLoop"]
    /\ UNCHANGED <<loopState, writeQueue, connected, ssl, pending, store,
                   inFlight, partial, calls, nextId, accepted, rejected, faults, owner, crashed>>

\* one turn of startWriting's loop: while no flag is set and something is
\* queued, CAS both flags on; the winner calls asyncWrite() and loops on
\* with its old `state` (a successful compare_exchange does not reload it)
StartWritingCas(t) ==
    LET s == ret[t] IN
    /\ pc[t] = "casLoop"
    /\ \/ /\ Active(s) \/ s.count = 0
          /\ pc' = [pc EXCEPT ![t] = "idle"]
          /\ UNCHANGED <<loopState, writeQueue, store, pending, ret>>
       \/ /\ ~Active(s) /\ s.count > 0
          /\ loopState = s
          /\ AsyncWrite(WithFlags(s), connected, store, pending)
          /\ UNCHANGED <<pc, owner, ret>>
       \/ /\ ~Active(s) /\ s.count > 0
          /\ loopState # s
          /\ ret' = [ret EXCEPT ![t] = loopState]
          /\ UNCHANGED <<loopState, writeQueue, store, pending, pc, owner>>
    /\ UNCHANGED <<connected, ssl, inFlight, partial, calls, nextId,
                   accepted, rejected, faults, owner, crashed>>

-----------------------------------------------------------------------------
(* The I/O thread: completion handlers.                                    *)

ResolveOp == Op("resolve", NoItem)
ConnectOp == Op("connect", NoItem)
HandshakeOp == Op("handshake", NoItem)

\* startResolveHost's handler, error or empty endpoint list: onFailure only
ResolveFailed ==
    /\ ResolveOp \in pending
    /\ Fault("resolve")
    /\ pending' = pending \ {ResolveOp}
    /\ UNCHANGED <<loopState, writeQueue, connected, ssl, store, inFlight,
                   partial, calls, nextId, accepted, rejected, pc, owner, ret, crashed>>

\* startConnect(endpoints): async_connect to the first endpoint (the
\* resolver's list is not empty here)
StartConnect(pend) == pend \cup {ConnectOp}

\* resolve succeeded: initSocket() and startConnect()
ResolveSucceeded ==
    /\ ResolveOp \in pending
    /\ pending' = StartConnect(pending \ {ResolveOp})
    /\ UNCHANGED <<loopState, writeQueue, connected, ssl, store, inFlight,
                   partial, calls, nextId, accepted, rejected, pc, owner, ret, faults, crashed>>

\* asyncConnectCallback with an error: shutdownConnection(), onFailure,
\* cancelAll(CouldNotConnect) of the (now empty) store; no reconnect
ConnectFailed ==
    /\ ConnectOp \in pending
    /\ Fault("connect")
    /\ ShutdownConnection("Canceled", store, calls)
    /\ pending' = pending \ {ConnectOp}
    /\ UNCHANGED <<writeQueue, ssl, partial, nextId, accepted, rejected, pc, owner, ret>>

\* asyncConnectCallback without error: SSL handshake or finishInitialization
ConnectSucceeded ==
    /\ ConnectOp \in pending
    /\ \/ /\ ssl
          /\ pending' = (pending \ {ConnectOp}) \cup {HandshakeOp}
          /\ UNCHANGED <<loopState, writeQueue, connected, store>>
       \/ /\ ~ssl
          /\ FinishInitialization(pending \ {ConnectOp})
    /\ UNCHANGED <<ssl, inFlight, partial, calls, nextId, accepted, rejected,
                   pc, owner, ret, faults, crashed>>

\* handshake handler with an error: shutdownSocket, onFailure,
\* cancelAll(CouldNotConnect); _connected and the loop flags are untouched
HandshakeFailed ==
    /\ HandshakeOp \in pending
    /\ Fault("handshake")
    /\ calls' = CancelAll(calls, store, "CouldNotConnect")
    /\ store' = {}
    /\ pending' = pending \ {HandshakeOp}
    /\ UNCHANGED <<loopState, writeQueue, connected, ssl, inFlight, partial,
                   nextId, accepted, rejected, pc, owner, ret, crashed>>

HandshakeSucceeded ==
    /\ HandshakeOp \in pending
    /\ FinishInitialization(pending \ {HandshakeOp})
    /\ UNCHANGED <<ssl, inFlight, partial, calls, nextId, accepted, rejected,
                   pc, owner, ret, faults, crashed>>

\* mutation: a write error removes the item but never invokes its callback
WriteFailedWithoutCallback(id) ==
    /\ Op("write", id) \in pending
    /\ Fault("write")
    /\ RestartConnection("WriteError", store \ {id}, calls,
                         pending \ {Op("write", id)})
    /\ UNCHANGED <<writeQueue, ssl, partial, nextId, accepted, rejected, pc, owner, ret>>

\* asyncWriteCallback with an error: remove the item from the store, call
\* it back with WriteError, restartConnection(WriteError)
WriteFailed(id) ==
    /\ Op("write", id) \in pending
    /\ Fault("write")
    /\ RestartConnection("WriteError", store \ {id},
                         Invoke(calls, {id}, "WriteError"),
                         pending \ {Op("write", id)})
    /\ UNCHANGED <<writeQueue, ssl, partial, nextId, accepted, rejected, pc, owner, ret>>

\* asyncWriteCallback without error: the item becomes _inFlight, the
\* parser is reset and asyncReadSome() listens for the response
WriteSucceeded(id) ==
    /\ Op("write", id) \in pending
    /\ inFlight' = id
    /\ partial' = FALSE
    /\ AsyncReadSome(id, pending \ {Op("write", id)})
    /\ UNCHANGED <<writeQueue, connected, ssl, store, calls, nextId, accepted,
                   rejected, pc, owner, ret, faults, crashed>>

\* asyncReadCallback with a socket error: restartConnection(ConnectionError)
ReadFailed(id) ==
    /\ Op("read", id) \in pending
    /\ Fault("read")
    /\ RestartConnection("ConnectionError", store, calls, pending \ {Op("read", id)})
    /\ UNCHANGED <<writeQueue, ssl, partial, nextId, accepted, rejected, pc, owner, ret>>

\* the parser reports an upgrade or stops short of the bytes received:
\* shutdownConnection(ProtocolError), with no reconnect
ReadProtocolError(id) ==
    /\ Op("read", id) \in pending
    /\ Fault("protocol")
    /\ ShutdownConnection("ProtocolError", store, calls)
    /\ pending' = pending \ {Op("read", id)}
    /\ UNCHANGED <<writeQueue, ssl, partial, nextId, accepted, rejected, pc, owner, ret>>

\* the bytes read hold part of the response: keep reading
\* (a response arrives in at most two reads)
ReadPartial(id) ==
    /\ Op("read", id) \in pending
    /\ ~partial
    /\ partial' = TRUE
    /\ AsyncReadSome(id, pending \ {Op("read", id)})
    /\ UNCHANGED <<writeQueue, connected, ssl, store, inFlight, calls, nextId,
                   accepted, rejected, pc, owner, ret, faults, crashed>>

\* mutation: the flags are cleared before the next write is started
CompletionStepClearsFirst(st, pend) ==
    IF Active(loopState) /\ loopState.count = 0
    THEN /\ loopState' = StopIOLoops(loopState)
         /\ store' = st
         /\ pending' = pend
         /\ UNCHANGED writeQueue
    ELSE AsyncWrite(StopIOLoops(loopState), connected, st, pend)

\* mutation: the loops are stopped without looking at the queue count
CompletionStepIgnoresQueue(st, pend) ==
    /\ loopState' = StopIOLoops(loopState)
    /\ store' = st
    /\ pending' = pend
    /\ UNCHANGED writeQueue

\* after a completed response: clear both flags if nothing is queued,
\* otherwise write the next item (asyncReadCallback's CAS loop)
CompletionStep(st, pend) ==
    IF Active(loopState) /\ loopState.count = 0
    THEN /\ loopState' = StopIOLoops(loopState)
         /\ store' = st
         /\ pending' = pend
         /\ UNCHANGED writeQueue
    ELSE AsyncWrite(loopState, connected, st, pend)

\* mutation: the completed item stays in the message store
ReadCompleteKeepsStored(id) ==
    /\ Op("read", id) \in pending
    /\ inFlight' = NoItem
    /\ calls' = Invoke(calls, {inFlight}, "NoError")
    /\ CompletionStep(store, pending \ {Op("read", id)})
    /\ UNCHANGED <<connected, ssl, partial, nextId, accepted, rejected, pc, owner,
                   ret, faults, crashed>>

\* on_message_complete: remove the item from the store, invoke its
\* callback with error 0, reset _inFlight, then CompletionStep
ReadComplete(id) ==
    /\ Op("read", id) \in pending
    /\ inFlight' = NoItem
    /\ calls' = Invoke(calls, {inFlight}, "NoError")
    /\ CompletionStep(store \ {inFlight}, pending \ {Op("read", id)})
    /\ UNCHANGED <<connected, ssl, partial, nextId, accepted, rejected, pc, owner,
                   ret, faults, crashed>>

\* io_context::run() returns: no handler is pending and no thread is
\* inside sendRequest any more
Quiescent ==
    /\ pending = {}
    /\ \A t \in Threads : pc[t] = "idle"
    /\ nextId > MaxRequests
    /\ UNCHANGED vars

-----------------------------------------------------------------------------
Init ==
    /\ loopState = [write |-> FALSE, read |-> FALSE, count |-> 0]
    /\ writeQueue = <<>>
    /\ connected = FALSE
    /\ ssl \in BOOLEAN
    /\ pending = {ResolveOp}          \* ConnectionBuilder::connect calls start()
    /\ store = {}
    /\ inFlight = NoItem
    /\ partial = FALSE
    /\ calls = [i \in Ids |-> <<>>]
    /\ nextId = 1
    /\ accepted = {}
    /\ rejected = {}
    /\ pc = [t \in Threads |-> "idle"]
    /\ owner = [id \in Ids |-> NoItem]
    /\ ret = [t \in Threads |-> [write |-> FALSE, read |-> FALSE, count |-> 0]]
    /\ faults = 0
    /\ crashed = FALSE

ThreadStep(t) ==
    \/ SendRequest(t)
    \/ QueueRequestPush(t)
    \/ QueueRequestInc(t)
    \/ CheckConnected(t)
    \/ StartWriting(t)
    \/ StartWritingCas(t)

ReactorStep ==
    \/ ResolveFailed
    \/ ResolveSucceeded
    \/ ConnectFailed
    \/ ConnectSucceeded
    \/ HandshakeFailed
    \/ HandshakeSucceeded
    \/ \E id \in Ids :
        \/ WriteFailed(id)
        \/ WriteSucceeded(id)
        \/ ReadFailed(id)
        \/ ReadProtocolError(id)
        \/ ReadPartial(id)
        \/ ReadComplete(id)

\* a dead process takes no more steps
Crashed ==
    /\ crashed
    /\ UNCHANGED vars

Next ==
    \/ ~crashed /\ \E t \in Threads : ThreadStep(t)
    \/ ~crashed /\ ReactorStep
    \/ ~crashed /\ Quiescent
    \/ Crashed

\* Threads are scheduled, the I/O thread runs every ready handler, and the
\* server answers every request: all steps but sendRequest itself and the
\* injected failures are weakly fair.
Fairness ==
    /\ \A t \in Threads :
          /\ WF_vars(~crashed /\ QueueRequestPush(t))
          /\ WF_vars(~crashed /\ QueueRequestInc(t))
          /\ WF_vars(~crashed /\ CheckConnected(t))
          /\ WF_vars(~crashed /\ StartWriting(t))
          /\ WF_vars(~crashed /\ StartWritingCas(t))
    /\ WF_vars(~crashed /\ ResolveSucceeded)
    /\ WF_vars(~crashed /\ ConnectSucceeded)
    /\ WF_vars(~crashed /\ HandshakeSucceeded)
    /\ WF_vars(~crashed /\ \E id \in Ids : WriteSucceeded(id))
    /\ WF_vars(~crashed /\ \E id \in Ids : ReadPartial(id) \/ ReadComplete(id))

Spec == Init /\ [][Next]_vars /\ Fairness

-----------------------------------------------------------------------------
(* Properties.                                                             *)

TypeOK ==
    /\ loopState \in LoopStates
    /\ writeQueue \in Seq(Ids) /\ Len(writeQueue) <= QueueCapacity
    /\ connected \in BOOLEAN
    /\ ssl \in BOOLEAN
    /\ pending \subseteq PendingOps
    /\ store \subseteq Ids
    /\ inFlight \in Ids \cup {NoItem}
    /\ partial \in BOOLEAN
    /\ calls \in [Ids -> Seq(ErrorCodes)]
    /\ nextId \in 1..(MaxRequests + 1)
    /\ accepted \subseteq Ids /\ rejected \subseteq Ids
    /\ owner \in [Ids -> Threads \cup {NoItem}]
    /\ pc \in [Threads -> {"idle", "queueRequest", "fetchAdd", "checkConnected",
                           "startWriting", "casLoop"}]
    /\ ret \in [Threads -> LoopStates]
    /\ faults \in 0..MaxFaults
    /\ crashed \in BOOLEAN

IOOps == {p \in pending : p.op \in {"write", "read"}}

\* HTTP is half-duplex: whatever the interleaving of sendRequest's CAS with
\* the I/O thread's CAS in asyncReadCallback, at most one write or read is
\* outstanding, only while the loop flags are on, a write only while no
\* response is being parsed and a read only for the _inFlight item.
HalfDuplex ==
    /\ Cardinality(IOOps) <= 1
    /\ IOOps # {} => Active(loopState)
    /\ \A p \in IOOps :
          /\ p.op = "write" => inFlight = NoItem
          /\ p.op = "read" => p.item = inFlight

\* A write or read is only ever started on a connected socket: an
\* application thread that won startWriting's CAS with a stale view of
\* _connected must not reach async_write after a restart closed the socket.
IOOnlyWhenConnected ==
    \A p \in IOOps : connected

\* The queue count in _loopState never runs ahead of _writeQueue: every
\* pushed item is counted once its thread's fetch_add is done, and the pop
\* asserted in asyncWrite (`assert(_writeQueue.pop(ptr))`) cannot fail.
QueueCountMatchesQueue ==
    Len(writeQueue) = loopState.count
                      + Cardinality({t \in Threads : pc[t] = "fetchAdd"})

\* Every accepted request whose callback has not fired is still somewhere
\* the connection will act on it: queued, or in the message store with a
\* write outstanding or as _inFlight; and an item is only in the store
\* while its callback has not fired (spec 3, "present in the Message Store
\* iff its callback has not yet been invoked").  A request whose push threw
\* (queue full, after its ticket was taken) is left nowhere: never queued,
\* stored or called back.
RequestAccounted ==
    LET queued(id) == \E i \in 1..Len(writeQueue) : writeQueue[i] = id
    IN /\ \A id \in accepted :
            LET tracked == /\ id \in store
                           /\ id = inFlight \/ Op("write", id) \in pending
            IN /\ calls[id] = <<>> => queued(id) \/ tracked
               /\ id \in store => calls[id] = <<>>
       /\ \A id \in rejected :
            /\ id \notin accepted \cup store
            /\ ~queued(id)
            /\ calls[id] = <<>>

\* An assertion of the code: startWriting() begins with assert(_connected).
StartWritingWhileConnected ==
    \A t \in Threads : pc[t] = "startWriting" => connected

\* Every request that sendRequest accepted has its callback invoked
\* eventually (spec 8: "for every submitted request, the callback fires").
RequestEventuallyAnswered ==
    \A id \in Ids : id \in accepted ~> calls[id] # <<>>

\* HttpConnection::shutdownConnection reads _inFlight->_request (line 222)
\* only while the in-flight item still holds its request, i.e. no shutdown
\* runs after its cancelAll handed that request to the callback: the
\* process never dies on that null dereference.
NoNullRequestDereference == ~crashed

-----------------------------------------------------------------------------
(* Refinement: the connection implements the abstract RequestChannel.      *)

\* where a request stands, read off the connection's state: refused by
\* queueRequest, answered through its callback, in the message store
\* (being written or parsed), pushed onto _writeQueue, or not yet sent
ChannelStatus ==
    [id \in Ids |->
        IF id \in rejected THEN "rejected"
        ELSE IF calls[id] # <<>> THEN "closed"
        ELSE IF id \in store THEN "wire"
        ELSE IF id \in accepted THEN "waiting"
        ELSE "new"]

Channel == INSTANCE RequestChannel WITH status <- ChannelStatus, answers <- calls

\* The connection implements RequestChannel: every step of the threads and
\* the I/O thread is a step of the abstract channel or leaves it alone, so
\* a request goes on the wire only while no other one is there, is answered
\* only once it was written, and its callback fires exactly once.
ChannelRefinement == Channel!Spec

-----------------------------------------------------------------------------
(* Ordering and ownership (spec 5).                                        *)

Queued(id) == \E i \in 1..Len(writeQueue) : writeQueue[i] = id

Written(id) == id \in store \/ calls[id] # <<>>

\* Requests submitted by one thread go on the wire in submission order,
\* even though tickets and pushes of different threads interleave
\* (spec 5): no request of a thread is written while an earlier one of the
\* same thread still sits in _writeQueue.
WireOrderPerThread ==
    \A i, j \in Ids :
        (i < j /\ owner[i] = owner[j] /\ owner[j] # NoItem /\ Written(j))
            => ~Queued(i)

\* Spec 5: "the reactor thread is the only mutator of ... the message
\* store": no step of an application thread changes _messageStore.
StoreOnlyChangedByReactor ==
    [][\A t \in Threads : ThreadStep(t) => UNCHANGED store]_vars
====
