# Model-checking fuerte's connection engine

TLA+ models of the asynchronous connection engine of fuerte, the C++ ArangoDB
client (`src/src/AsioConnection.cpp`, `src/src/HttpConnection.cpp`), checked
with TLC. `PROJECT.json` lists the components, runs, mutants, the map from every
definition to the source lines it models, the findings and the hazards.

## 1. Inventory

### Components and their state

| Component | Source | State | Operations |
|---|---|---|---|
| Connection base `AsioConnection<T>` | `src/src/AsioConnection.cpp` | `_connected`, `_permanent_failure` (never set), socket(s), `_endpoints`, `_loopState`, `_writeQueue` (capacity 1024), `_messageStore` | `start`/`startResolveHost` and its handler, `initSocket`, `startConnect`, `asyncConnectCallback`, `startSSLHandshake` and its handler, `queueRequest`, `asyncWrite`, `asyncReadSome`, `stopIOLoops`, `shutdownSocket`, `shutdownConnection`, `restartConnection`, destructor |
| Loop state word | same | one atomic: WRITE_LOOP_ACTIVE, READ_LOOP_ACTIVE, queue count | `fetch_add`, `fetch_sub`, CAS loops in `startWriting`, `asyncReadCallback`, `stopIOLoops` |
| HTTP driver `HttpConnection` | `src/src/HttpConnection.cpp` | `_inFlight` (one item), parser, receive buffer; per item: header string, response buffer, last header field/value, `last_header_was_a_value`, `message_complete` | `sendRequest`, `createRequestItem`, `finishInitialization`, `shutdownConnection` override, `fetchBuffers`, `startWriting`, `asyncWriteCallback`, `asyncReadCallback`, parser callbacks |
| Message store | not in the repository (spec 4.3) | map id -> item | `add`, `removeByID`, `cancelAll` |
| Synchronous facade | `src/src/connection.cpp` | a `WaitGroup`, the response slot | `Connection::sendRequest(request)` blocks until the callback fires |
| Connection interface, builder | `src/include/fuerte/connection.h` | configuration | `onFailure`, builder setters (the URL parser is not in the repository) |
| VST driver | not in the repository | - | spec 4.5 only |
| LoopProvider, node binding, fuerte-get, tests | `src/arango-cxx-driver/...`, `src/arango-node-driver/...` | - | legacy loop runner, declarations, CLI, live-server tests |

### How they interact

Application threads call `sendRequest(request, callback)`: take a ticket id,
build a `RequestItem`, push it on the lock-free `_writeQueue`, `fetch_add` the
queue count in `_loopState`, and, if `_connected` and no loop flag was set,
enter `startWriting`, whose CAS turns both flags on; the CAS winner calls
`asyncWrite` itself, on the application thread. Everything else runs on the
single boost::asio I/O thread as completion handlers: resolve -> connect ->
(TLS handshake) -> `finishInitialization` (sets `_connected`, calls
`startWriting`) -> write -> read ... -> response complete -> either write the
next queued item or CAS both flags off. `_loopState` is the only
synchronisation between the two kinds of actors. A write or read error calls
`restartConnection` (shutdown, resolve again); a connect or TLS failure, and a
protocol error, shut down without reconnecting.

### What is hard here

* Interleavings of several application threads' atomics with the I/O thread's
  CAS loops: lost wakeups, two writers on a half-duplex connection, ABA on the
  CAS in `startWriting` (which keeps its old `state` after a success).
* Values read on one thread and used later: `_connected` read in `sendRequest`
  and asserted in `startWriting`; `asyncWrite` run by an application thread
  after a restart closed the socket.
* Partial failure: shutdown must fail each in-flight request exactly once,
  whether it sits in the store, in `_inFlight`, or in the write queue.
* Liveness: every accepted request must eventually be answered, across
  reconnects; failures that do not reconnect strand the queue.

### Properties that make each component correct

* Loop state + write queue: the queue count equals the pushed-and-counted
  items; at most one write or read outstanding (HTTP half-duplex); no I/O on a
  disconnected socket; no lost wakeup.
* Message store + shutdown: an item is in the store only while its callback
  has not fired; every callback fires at most once and, for accepted requests,
  eventually.
* HTTP serialisation: the request line carries the path and the encoded
  query; Content-Length iff the verb is not GET.
* Synchronous facade: returns iff the callback fired; never waits forever when
  the request is answered.

## 2. Modules

### `HttpConnection.tla` (built)

Models `AsioConnection<http::RequestItem>` with the `HttpConnection`
overrides. Variables correspond to members: `loopState` (`_loopState`, as a
record of the two flags and the count), `writeQueue`, `connected`, `ssl`
(the configuration), `store` (`_messageStore`, as the set of ids), `inFlight`,
`partial` (the parser has consumed part of the response), `nextId` (the static
`ticketId`), `owner[id]` (the thread whose `sendRequest` took ticket `id`),
and per application thread `pc` and `ret` (its local `state`).
`pending` is the set of started asynchronous operations whose handler has not
run; `calls[id]` records the error codes each callback was invoked with.

Application-thread actions are split at the atomics of `sendRequest`:
`SendRequest` (the `ticketId` fetch_add and `createRequestItem`),
`QueueRequestPush` (`_writeQueue.push`, or the `length_error` on a full queue),
`QueueRequestInc` (`fetch_add`), `CheckConnected` (the `_connected` test),
`StartWriting` (assert and load) and `StartWritingCas` (one turn of the CAS
loop, calling `AsyncWrite` on success). I/O-thread actions are one per handler
and outcome: `ResolveFailed/Succeeded`, `ConnectFailed/Succeeded`,
`HandshakeFailed/Succeeded`, `WriteFailed/Succeeded`, `ReadFailed`,
`ReadProtocolError`, `ReadPartial`, `ReadComplete` (with `CompletionStep`, the
CAS loop that stops the loops or writes the next item). `AsyncWrite`,
`AsyncReadSome`, `ShutdownConnection` (the HTTP override wrapping
`AsioShutdownConnection`), `RestartConnection`, `StopIOLoops`,
`FinishInitialization`, `FetchBuffers` (the store add of `fetchBuffers`) and
`StartConnect` are operators used inside these actions, so a handler
and everything it calls is one step. The message store's `cancelAll` is
modelled from the spec (its source is not in the repository). Spec 4.3 says
it hands each item's request to the item's callback. Every invocation in the
code moves `_request` the same way, so an item holds its request exactly
while its callback has not run (`RequestPresent`). `_inFlight` is in the
store until its response is complete. So when a read or protocol error shuts
the connection down with a response awaited, the HTTP override reads
`_inFlight->_request` at HttpConnection.cpp:222 after `cancelAll` has moved
it out. `ShutdownConnection` models that null dereference as the process
dying (`crashed`), before the second invocation at line 223. A crashed
process takes no more steps (`Crashed`), and no fairness applies to it.
`Quiescent` is `io_context::run()` returning once nothing is pending.

Abstractions: a request is its id; payloads, headers and the parser's input
are gone, a read is one of partial (at most one per response), complete,
socket error, or protocol error (upgrade / bytes not parsed); error messages
and `onFailure` (no library state) are left out; the default error of
`shutdownConnection()` is taken to be `Canceled`. Calls inside the I/O thread's
own CAS loops (`startWriting` from `finishInitialization`, the completion loop)
are one step: only fetch_adds of application threads can interleave with them,
and a failed CAS just retries. `HttpConnection::shutdownConnection` is taken
to be the virtual override called by `restartConnection` (its comment says
"always call superclass"). The model follows the debug build (asserts run).

### `HttpMessages.tla` (built)

Models one exchange's messages. `CreateRequestHeader` is
`createRequestItem`'s serialisation: a header is a sequence of tokens, user
data stay model values, and `urlEncode`/`encodeBase64` are injective tags
(`UrlEncode`, `Base64`), so two headers are equal iff the code's strings are.
User meta headers are copied verbatim and are left out. The response side
keeps the parser callbacks' control exactly: `OnHeaderField`,
`OnHeaderValue`, `OnHeadersComplete`, `OnBody`, `OnMessageComplete`, with
variables named after the `RequestItem` members (`lastHeaderField`,
`lastHeaderValue`, `last_header_was_a_value`, `responseBuffer`,
`message_complete`) and `meta` for `_response->header.meta`, whose `emplace`
keeps an existing key. Names, values and the body are short character
sequences, and the initial states enumerate every way TCP can cut them into
callbacks (`Splits`, `HeaderCallbacks`, recursive). A moved-from string is
taken to be empty (libstdc++); it is always reassigned before it is read.
`SpecRequestHeader` and `SentMeta` are the references from spec 4.4 and from
the response the server sent.

### `RequestChannel.tla` and the refinement (built)

`RequestChannel` is what a connection promises, with no queues or atomics:
each request is `new`, then `rejected` or `waiting`; a waiting request goes on
the `wire` only while no other is there (`Transmit`); the request on the wire
is answered exactly once (`Answer`, which may move the next waiting request
onto the wire in the same step, as `asyncReadCallback`'s completion loop
does). `HttpConnection` instantiates it with the refinement mapping
`ChannelStatus` (rejected by `queueRequest`; answered once `calls[id]` is
non-empty; on the wire while in `_messageStore`; waiting once pushed) and
`answers <- calls`; `ChannelRefinement == Channel!Spec` is checked as a
property. Read and protocol errors are left out of the refinement run,
because they end in the null dereference of the `http_null_request` run.

### `SyncFacade.tla` (built)

Composes `Connection::sendRequest(request)` (src/src/connection.cpp) with
`HttpConnection`. Threads in `SyncThreads` call the blocking form:
`SyncSendRequest` is `wg.add()` plus the asynchronous `SendRequest` step, and
remembers the ticket as `mine[t]`; the asynchronous remainder of
`sendRequest` is `HttpConnection`'s thread actions; `SyncWait` is `wg.wait()`
returning once the asynchronous call has returned and the WaitGroup counter
is zero. `SyncQueueRequest` is the push; when the queue is full, the
exception leaves the blocking call before `wg.wait()`. The WaitGroup is not in the repository: its counter is modelled from
spec 4.7 as `added[t]` less the number of invocations of the request's
callback (each runs `WaitGroupDone`). A full queue throws out of the blocking
call before it waits. Other threads use the asynchronous form.

### `ConnectionLifetime.tla` (built)

Adds `~AsioConnection()` to `HttpConnection`. Every handler captures
`shared_from_this()` and callers hold the handle, so `Destroy` is enabled
only when nothing is pending and no thread is inside `sendRequest`. It runs
the base `shutdownConnection` (in a destructor the virtual call is not
dispatched to `HttpConnection`): `_connected` false, loops stopped, the store
cancelled; `_writeQueue` is left alone. After it, nothing happens.

### `CallbackReentrancy.tla` (built)

Extends `SyncFacade` with a user callback that calls the blocking
`Connection::sendRequest`. Callbacks run on the I/O thread inside the handler
that invokes them (`_inFlight->_callback.invoke`, HttpConnection.cpp:366), so
the I/O thread appears as a caller, `IOThread`, that steps only while
`inCallback` holds (`CallbackStep`: wg.add, the asynchronous `sendRequest`,
`wg.wait()`). `ReactorDoes(A)` is a handler, allowed only while no callback
holds the thread, which enters the callback when it invokes the callback of a
request of `ReentrantOwners` (`Reenters`). In the code the callback runs
before the completion CAS (HttpConnection.cpp:374-387), with the loop flags
still set, so the nested request is only queued. The model takes that CAS in
the handler's step, before the callback, so it may also start the nested
request's write. Either way the request can only be answered by a handler,
and no handler runs while the callback blocks, so the outcome is the same. The fairness is the connection's own, restricted to the
steps the I/O thread is free to take.

### Further work

The VST driver could only be modelled from spec 4.5, because its source is
not in the repository. Larger instances exceed the time a run may take: the
refinement run with three threads (`t3` added) passes, with 7,846,806
distinct states in 4.5 minutes on two workers. It was checked once and is not
a run.

The VST driver and the message store's source are not in the repository; the
VST driver stays unmodelled unless a later sitting models it from the spec.

## 3. Runs

The `http_*` runs of `HttpConnection` use `MC_HttpConnection.tla` (threads
`t1`, `t2` as model values; thread symmetry in the safety runs, none under
liveness or refinement); `http_parse` and `http_query_params` use
`MC_HttpMessages.tla`; `sync_liveness` `MC_SyncFacade.tla` (`t1` blocking,
`t2` asynchronous), `callback_blocking` `MC_CallbackReentrancy.tla` and `destroy_drops_queue` `MC_ConnectionLifetime.tla`.

| Run | cfg | Expect | Checks | What it shows |
|---|---|---|---|---|
| http_safety | `MC_HttpConnection_safety.cfg` | pass | TypeOK, HalfDuplex, IOOnlyWhenConnected, QueueCountMatchesQueue, RequestAccounted, WireOrderPerThread | all six failure kinds, 2 per behaviour, 4 requests, queue of 2, both SSL settings: the half-duplex discipline survives every interleaving of the CAS loops (incl. the ABA), a thread that wins the CAS after a restart stops instead of writing, the count equals the counted queue, every request is queued, stored with I/O pending, or answered. Tickets and pushes of the two threads interleave, yet no thread's request is written while an earlier one of its own is still queued (spec 5) |
| http_liveness | `..._liveness.cfg` | pass | RequestEventuallyAnswered | with write errors, each of which reconnects, every accepted request is answered: no wakeup is lost between the fetch_add and the completion CAS. Read and protocol errors end in the null dereference, and connect and handshake failures do not reconnect (`http_connect_failure`) |
| http_null_request | `..._null_request.cfg` | violation | NoNullRequestDereference | one socket error while a response is awaited: `restartConnection` runs the HTTP `shutdownConnection`. Its base part's `cancelAll` hands the in-flight request to the callback, then line 222 reads `_inFlight->_request->messageID` through the null pointer. A protocol error (line 351) takes the same path |
| http_connect_failure | `..._connect_failure.cfg` | violation | RequestEventuallyAnswered | a failed connect never reconnects; queued requests are never answered, contrary to spec 8 scenario 3; a blocking caller of such a request waits in `wg.wait()` forever |
| http_parse | `MC_HttpMessages_parse.cfg` | pass | ResponseAsSent | two headers (name of 2 characters, values of 2) and a 3-character body, every fragmentation, no parameters: the flip-flop rebuilds exactly the sent headers and body |
| http_query_params | `MC_HttpMessages_query.cfg` | violation | RequestHeaderAsSpecified | with a query parameter the request line has no target: the path and query go into a local string that is never appended (HttpConnection.cpp:155-162) |
| http_refinement | `..._refinement.cfg` | pass | ChannelRefinement | resolve/connect/handshake/write failures (2), 3 requests: every step of the connection is a RequestChannel step: one request on the wire at a time, answered only after it was written, exactly once; so no callback fires twice under these failures (a second invocation is no channel step) |
| sync_liveness | `MC_SyncFacade_liveness.cfg` | pass | SyncRequestReturns | a blocking caller next to an asynchronous one, one write error: the blocking call returns once accepted (the facade's WaitGroup and exception handling) |
| callback_blocking | `MC_CallbackReentrancy_blocking.cfg` | violation | SyncRequestReturns | no faults, two requests: t1's callback calls the blocking `sendRequest` on the I/O thread. The callback runs before the completion CAS clears the loop flags, so its request is only queued, and the thread that would write it is blocked in `wg.wait()`, so the call never returns and the connection stops (spec 4.7 puts no restriction on where the blocking form may be called) |
| destroy_drops_queue | `MC_ConnectionLifetime_destroy.cfg` | violation | NoRequestOutlivesConnection | after a failed resolve the destructor runs with a request in `_writeQueue`, whose callback never fires (spec 8, scenario 4) |
| store_owner | `..._store_owner.cfg` | violation | StoreOnlyChangedByReactor | an application thread that wins the `startWriting` CAS runs `asyncWrite`, whose `fetchBuffers` adds to `_messageStore`. Spec 5 and the comment on `fetchBuffers` say only the I/O thread does this |
| http_assert_connected | `..._assert_connected.cfg` | violation | StartWritingWhileConnected | `assert(_connected)` in `startWriting` fails when a write error restarts the connection between sendRequest's check and the assert |

Bounds. Two threads are the fewest that exhibit the CAS races (one thread
inside `startWriting` while another's fetch_add changes the word); three or
four requests with a queue of two let the queue fill while the connection is
still being established (exercising the capacity exception) and leave one
request queued while another is on the wire. Two failures allow a failure
during the reconnect that a first failure started.

For `HttpMessages`, two-character names and values are the shortest that can
be split, two headers the fewest for which a name follows a value (the flush
branch of `on_header_field`), and a three-character body splits three ways.

Fairness. All application-thread steps after the ticket are weakly fair (the OS
schedules threads); the I/O thread's successful handlers are weakly fair (it
runs every ready handler, and a live server answers). `SendRequest` is not
fair (the user may stop submitting) and failures are not fair (they may never
happen), bounded by `MaxFaults`. After a crash no step is fair. A blocking caller's return from `wg.wait()`
is weakly fair (the WaitGroup wakes it once the count is zero).

Each property of a passing run has a mutant in `PROJECT.json` (e.g.
`stopIOLoops` resetting the whole word, the completion loop clearing the flags
before writing, `asyncWrite` without its `_connected` check, a write error that
leaves the item in the store) that TLC finds violating it.

## 4. Not modelled

* VST driver, message store source, URL parsing: not in the repository.
* JWT authentication (`assert(false)`), repeated response header names (the
  container type of `header.meta` is not in the repository), user meta headers.
* Byte-level parsing, encoding, logging, `onFailure`'s message text.
* What a process does after the null dereference of HttpConnection.cpp:222:
  it is modelled as dying there, the outcome of reading through a null
  pointer on the platforms fuerte targets.
* Timeouts: the code has none (`TODO wait for connect timeout`). A peer that never answers
  would need an unfair handler; the model's fairness lets every started
  operation complete.
* A second callback after a blocking caller returned (connection.cpp:41):
  what `done()` does below zero is in `waitgroup.h`, not in the repository.
* Release-build behaviour of `assert(_writeQueue.pop(ptr))` (pop compiled
  out, uninitialised pointer): undefined, listed as a hazard.
* LoopProvider, node binding, fuerte-get, tests: legacy, declarations, CLI.
