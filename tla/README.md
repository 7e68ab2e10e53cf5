# A TLA+ model of Boost.Http.Io

This directory holds TLA+ specifications of `http_io`, the library of composed
Asio operations that read and write HTTP/1 messages, and of the example server
built on it; the TLC configurations that check them; and TLAPS proofs.

Paths below are relative to the repository.

## The system

| Component | State | Operations |
|---|---|---|
| read operations, `include/boost/http_io/impl/read.hpp` | per operation: the resumption point, `total_bytes_`, `some_`; shared: the parser, the stream | `async_read_header`, `async_read_some`, `async_read`; the coroutines `read_header_op`, `read_body_op` |
| write operations, `include/boost/http_io/impl/write.hpp` | per operation: the resumption point, `n_`; shared: the serializer, the stream | `async_write_some`, `async_write`; `write_some_op`, `write_op`. The relay operations are compiled out. |
| server, `example/server/server.cpp` | `is_shutting_down_`, `is_stopped_`, the waits on signals and on the timer, the services | `run`, `stop`, `on_signal`, `on_timer` |
| acceptor, `example/server/acceptor.hpp` | the listening socket, the workers | `run`, `stop`, `is_shutting_down` |
| worker, `example/server/main.cpp` | the socket, the parser, the serializer, the response, the one outstanding operation | `run`, `stop`, `do_accept`, `do_read`, `on_accept`, `on_read_header`, `on_read_body`, `on_write`, `fail` |
| request handling, `example/server/main.cpp` | none | `handle_request`, `make_error_response`, `service_unavailable`, `path_cat`, `mime_type`, `get_extension` |
| `fixed_array`, `example/server/fixed_array.hpp` | elements, count | construction, destruction |
| client, `example/client/flex_await/main.cpp` | stream, parser, the redirect's URL, the output | `connect`, `write_get_request`, `request`, `any_stream` |
| external | parser and serializer of `http_proto`; Asio | used through their interfaces |

How they interact. The server owns services, the acceptor is one; the acceptor
owns the workers, and all of them share one `io_context` that one thread runs.
A worker accepts a connection, then reads a header, reads the body, writes the
response, and starts over, each call's handler making the next call. The calls
are the library's operations. These run their own loop of `async_read_some` or
`async_write_some` on the socket, and share the parser or the serializer with
their caller. `stop()` runs down the same ownership and cancels.
The client is one coroutine over the same operations, with `co_await` in place
of handlers.

What is hard.

* Suspension. Each operation is a coroutine that gives up control at every
  read or write. The peer, the stream, a cancelling owner and other handlers
  act in between, and the bytes of a transfer are accounted for only when the
  handler is dispatched.
* Errors that carry data. `eof` is an input to the parser, an error may come
  with bytes, `need_more_input` may come with a header.
* Retries. The owner may start an operation again after it was cancelled or
  after the body source ran dry.
* Races at shutdown. Signals, the timer, cancelled waits and completed
  operations are queued in any order, and `cancel()` does not reach what is
  queued.
* Reuse. A worker keeps its parser, serializer and response from one connection
  to the next, in whatever state the last one left them. The client keeps views
  of a response while it asks for the next one.
* Construction under exceptions. The workers are built from an acceptor that is
  itself being built.

What makes each component correct: no byte is lost, repeated or unreported; a
handler is told the truth; every operation ends; no call throws out of a
handler; workers are not lost; a shutdown is graceful and ends; every request gets its
response, whole and on its own connection; the client prints a body once, from
the response the redirects lead to; no object is used before or after its life.

## Modules

| Module | Models | Used by |
|---|---|---|
| `HttpParser` | external: the `http_proto` parser as the code uses it | `ReadOps` |
| `HttpSerializer` | external: the `http_proto` serializer as the code uses it | `WriteOps` |
| `Reader` | abstract: what `read.hpp` promises | `ReadOps` |
| `Writer` | abstract: what `write.hpp` promises | `WriteOps` |
| `Service` | abstract: what the server promises to whoever signals it | `Server` |
| `Fetch` | abstract: what the client promises to its user | `Client` |
| `ReadOps` | `impl/read.hpp` | `MCReadOps`, `Connection`, `ReadOpsProofs` |
| `WriteOps` | `impl/write.hpp` | `Connection`, `WriteOpsProofs` |
| `Server` | `server.cpp`, `acceptor.hpp`, the workers of `main.cpp` | `MCServer`, `Connection`, `ServerProofs` |
| `Connection` | one worker composed with `ReadOps`, `WriteOps` and its peers | `MCConnection`, `ConnectionProofs` |
| `Client` | `client/flex_await/main.cpp` | `MCClient`, `ClientProofs` |
| `Lifetime` | `main()`, `server.hpp`, `acceptor.hpp`, `fixed_array.hpp`: building and destruction | `LifetimeProofs` |
| `MCReadOps`, `MCServer`, `MCConnection`, `MCClient` | constants for TLC | |
| `ReadOpsProofs`, `ReaderProofs`, `WriteOpsProofs`, `WriterProofs`, `ServerProofs`, `ConnectionProofs`, `ClientProofs`, `LifetimeProofs` | theorems | |

Refinements: `ReadOps` implements `Reader`, `WriteOps` implements `Writer`,
`Server` implements `Service`, `Client` implements `Fetch`, and `Connection`
implements `Server` with one worker (all checked and proved).

Definitions named in a comment as a *variant* are the same piece of code with a
plausible mistake. No specification uses them: putting one in the place of the
definition below it must break a property, which shows that the property looks
at that piece of code.

### ReadOps

One action is one run of the coroutine between two yields, or one move of the
environment.

* `op` is the coroutine: `kind` says which (`"some"` and `"body"` are
  `read_body_op` with and without `some_`), `pc` is the yield it is suspended
  at (`"post"` or `"read"`), `total` is `total_bytes_`.
* `cb` is a completion the executor has queued. `StreamDelivers`, `StreamEnds`,
  `StreamFails` and `OwnerCancels` queue one; `ReadHeaderOp`, `ReadBodyOp`,
  `ReadFailed`, `PostedHeader` and `PostedBody` dispatch it.
* `AsyncReadHeader`, `AsyncReadSome` and `AsyncRead` are the initiating
  functions, up to the first yield, with the `logic_error` of the last two.
* `pr` is the parser. Bytes are counted. A message is a header size, a body
  size, and a kind: framed by length, framed by the end of the connection, or
  malformed in its header or body. `pr.buf` may hold bytes of the next message.
* `msgs`, `sent` and `ending` are the peer; `taken` is what was read;
  `reported` sums what handlers were told.

The caller is any program that runs one operation at a time and calls
`start()` when the parser allows it. It may cancel at any time and call again
in any order. A stream's `eof` comes without bytes, which the code asserts;
another error may come with bytes.

`Reader` is the same seen by the caller: a stage of the message, the operation
that runs, the bytes taken and told of. No queue, no parser buffer, no `eof` or
`need_more_input` exists there, an operation returns in a later step than it is
called in, `async_read_some` takes bytes once, and an error of the stream leaves
the message where it was. The refinement mapping (`Promised` in `ReadOps`) shows
the stage the last operation left while the next one runs, and counts the bytes
of a queued completion as taken.

Between the abstract promise and liveness stand two properties of the loops.
`WaitsForMissing`: an operation waits for the stream only while the parser lacks
what it was called for. Two cases are excepted. The first read of a header comes
before anything is parsed, which is the violation `read_pipelined` shows, and bytes
that came with an error of the stream are committed but not parsed.
`RoundsProgress`: a dispatch that makes the operation read again took bytes.

### WriteOps

`write_op` calls `async_write_some`, so `write_some_op` runs with `write_op` as
its handler. The dispatch of a transfer consumes (`Consumed`), completes
`write_some_op`, adds to `n_` and tests (`GoesOn`), and may prepare and start
the next write (`Suspend`): one action, `Written`. `Posted` is the dispatch of
a failed `prepare()`. Bytes are numbered along the connection and `wire` is the
sequence of numbers the peer was given, so that a gap or a repetition shows.
The body source produces bytes, or breaks, between operations. Calls on a
serializer that is done are left out: `prepare()` may not be called then.
`async_write_some` passes `do_post` only at initiation, and `prepare()` is
called only there, so the branch for `do_post == false` is never taken.

`Writer` is the wire and the caller's account of it: an operation sends the next
bytes, and whatever it returns, `bytes_transferred` is what was sent since the
last return. An error of the source comes only between two writes.
`RoundsProgress` says that each round of `write_op`'s loop sends something.

### Server

`sig` and `timer` are the server's two waits, `wk[w].io` is the wait of the one
operation worker `w` has outstanding. A wait is `"waiting"` until the
environment or a cancel ends it. From then its handler is queued, and a cancel
has no effect. The handlers of one thread are atomic, so each is an action:
`OnSignal`, `OnTimer`, `OnAccept`, `OnReadHeader`, `OnReadBody`, `OnWrite`.
`OperationGoesOn` is the dispatch of a completion inside an operation of the
library that makes it wait again. `wk[w].parser` is the stage the parser was
left in, `wk[w].res` the response. `Throws` is a `logic_error` that leaves
`ioc_.run()`. `RunReturns` is the return of `ioc_.run()` when nothing is
outstanding. `raced` and `late` are history.

`Service` is the server without waits, handlers and the timer. It goes through the
phases serving, draining, stopped and returned, one by one; a stop cuts some of
the staff off, those leave and nothing else, and it returns when nobody is left. Each
connection gets one response after the shutdown. `Phase` in `Server` reads the
phase off the flags; the staff are the workers with an operation outstanding, cut
are those whose wait was cancelled. That a stop is carried out once is part of it.

`handle_request` and `make_error_response` are the set of responses they may
choose, with the `keep_alive` of the request. Both kinds of error page name the host
of the request, and use the result of `parse_authority` although it was tested
(`main.cpp:170`, `:297`) and may hold an error (`:197`, `:319`). What follows from
that is undefined: `HostUnparsed` leaves `running = "undefined"`, no handler is
run afterwards, and the properties promise nothing more. `ShutdownEnds`,
`StopReturns` and `RequestAnswered` say so, and `Service` has the step `ErrorPage`.

### Connection

`Server` keeps of a worker's operations that they wait on the socket any number
of times. `Connection` puts the real ones in: it instantiates `ReadOps` and
`WriteOps`, drops their free callers, and drives them with the worker's handlers.

* `ReadDispatched` and `WriteDispatched` run a coroutine. One that ends leaves
  its result in `rresult` or `wresult`, and until the worker's handler
  (`OnReadHeader`, `OnReadBody`, `OnWrite`) has run nothing else of the server
  does: `InHandler` and `Free`. The two steps are one call in the code.
* `DoAccept` gives the worker a new peer, with messages of its own, and resets
  the parser and nothing else: `res_` and `sr_` stay. `Started` is
  `serializer::start()`, which drops what was left of a response; that is the
  contract `do_accept` relies on, and the repository does not show it. That the
  rest of a broken response does not reach the next peer is therefore assumed here;
  what `ResponsesAreWhole` shows is that a worker never writes without a new `start()`.
* A response is of known size, from memory or from a file that may turn out
  shorter than it was when `size()` was taken.
* The peer may send several requests at once, end, or break the connection; the
  server may begin its shutdown and stop at any time between handlers.

`S == INSTANCE Server WITH ...` is the refinement: one worker, no signals or
timer, and `WorkersSpec`, the part of `Server` without them. Between the two
steps of one call the mapping still shows the wait that ended, which `resumed`
remembers.

### Client

A step is what `request()` does between two `co_await`s; `pc` names the operation
awaited. `hop` is the URL whose parts are in use, `view` says what the views
`service` and `target` refer to, `asked` is the URL of the last request. The
parser is two marks in the body: what was consumed and what is buffered.
`printed` is the output, each byte with its page and place. `Pages` are URLs and
`web` is what the servers answer: any map to final responses (framed by size, or
by the end of the connection; a chunked body behaves like the latter), redirects,
and redirects whose Location is missing or is no absolute URI. Any operation that
is awaited may fail, which is an exception unless the code takes the error as a
value. `any_stream::async_shutdown` is in `ShutdownResults`.

`LedTo(p)` is what the redirects from `p` lead to, the least set that holds `p`
and the Location of each redirect in it. `Fetch` is the client without
connections, parser and suspensions: redirects are followed while nothing is
printed, then the next bytes of one page are printed, and only a whole page is a
success. Its page is `hop`.

### Lifetime

`alive` is the stack of objects that `main()`, the server, and the acceptor own,
in the order of their declarations. `Throw` may come at any point. The array of
workers is on the stack from the end of the delegated constructor on (`BeginArray`),
before it has a block, because its destructor runs from then on; `left` counts
its live elements, `n_` and `t_` are its members.

## Runs

| Run | Question | Bounds |
|---|---|---|
| `read_safety` | Do bytes, codes and parser stages agree in every interleaving, does an operation wait only for what it lacks and get further in each round, and is it a `Reader`? | all sequences of one or two messages with headers of 1 or 2 bytes and bodies of 0 or 2, of all four kinds; 3 bytes a read; 6 bytes |
| `read_live` | Is what is on the wire delivered while an operation waits for it? | headers of 2, bodies of 0 or 1; 4 bytes a read; 5 bytes |
| `read_end` | Does every operation end when the peer leaves? | as `read_live` |
| `read_pipelined` | Is a complete header in the parser's buffer delivered? **No.** | as `read_live` |
| `write` | Is everything sent once, in order, and reported, does each round of the loop send something, is it a `Writer`, and does every operation end? | messages of 1, 2 and 4 bytes; 3 bytes a write; 6 bytes |
| `server_safety` | Are workers kept, calls legal, shutdown and stop orderly, and is it a `Service`? | two workers, three signals |
| `server_live` | Does a shutdown end, and a clean stop make `run()` return? | two workers, three signals |
| `server_stop` | Does every stop make `run()` return? **No.** | two workers, three signals |
| `connection` | Does anything leak from connection to connection, does the worker wait for a request it has, is every request answered whole, and is it a worker of `Server`? | one or two requests a connection with a header of 1 byte and a body of 0 or 1, well formed or not; 3 bytes; 2 a read; responses of 2 bytes, 2 a write; any number of connections |
| `client` | Is the right body printed once, are views alive, is it a `Fetch`, does it end? | every web of three pages, one of them https; bodies of 0 and 2 bytes |
| `client_location` | Does the client always end in a response or an error? **No.** | as `client` |
| `lifetime` | Is every object alive while it is used, and everything undone? | up to six workers |

Why the bounds are enough. Two messages give every boundary: a read can end
inside a header, at its end, inside a body, at its end, or in the next message,
and can span all of two messages. Three bytes a read make partial and spanning
reads; a message of 4 bytes and 3 a write make `write_op` loop at least twice.
Two workers let one be queued while the other waits when `stop()` runs. Three
signals are one to shut down, one to stop and one too many. In `connection`,
two bytes a read and a request of one or two bytes give requests that come in
pieces, alone, and with the next one; the state space is closed, so the number
of connections is not bounded. Three pages give chains, a page that redirects to
itself, circles with and without the start, and a page that nobody reaches.
All unbounded counters are bounded by these constants alone.

Deadlock is not checked: a connection whose peer has left and whose messages are
read, a serializer out of bytes, a server whose `run()` has returned, and a
`main()` that is left all stop.

### What the three violations show

`read_pipelined`. `read_header_op` reads from the stream before it parses. On a
kept-alive connection the next request may have come with the last bytes of the
previous one. After `start()` it is in the parser's buffer, and
`async_read_header` waits for a further byte. A client that waits for its
response does not send one. `read_live` shows the complement: a header whose
last byte is still on the wire is delivered.

`server_stop`. `stop()` cancels what is outstanding. A worker whose completion
is queued at that moment is not cancelled, and its handler starts the next
operation. Nothing cancels that one: the signal is no longer awaited, and
`is_stopped_` turns later calls away. The server goes on serving and `run()`
does not return: the counterexample ends with the server running, no error page in
it. `server_live` shows the complement: if no completion was queued, `run()` returns.

`client_location`. The URL on the command line is parsed, tested with
`has_error()`, and then used (`client/flex_await/main.cpp:312-322`). The Location
of a redirect is parsed and used without the test (`:254-258`). With a Location
that is a relative reference the client ends neither with a response nor with an
exception.

### Fairness

* The executor runs each queued handler (weak fairness of the dispatch
  actions): `io_context` serves its queue in order.
* The operating system reports a readable socket, an end, or an error
  (`Stream` in `ReadOps`), and the clock runs (`TimerExpires`).
* `read_end` adds that the peer eventually leaves. `write` assumes that it
  reads or breaks the connection, and so does `connection`. The server runs assume that a peer eventually
  acts or breaks. Where the code sets no timeouts nothing else is given.
* `client` assumes that each awaited operation ends, for it has no timeout of its
  own.
* Nothing is assumed of callers, signals, new connections, or, in
  `read_live`, `read_pipelined` and `connection`, of when a peer sends.

## Proofs

For all values of the constants: any set of layouts, any transfer sizes, any
number of bytes, any set of workers. The assumptions are those stated with the
constants, and TLC evaluates them.

* `ReadOpsProofs`: `ReadInvariant` proves an inductive invariant. It adds to the
  checked invariants the part `Control`: a posted operation still finds what it
  tested when it was initiated, a running one has told its caller nothing, and a
  parser in a body has a message. The argument goes through `ParseFacts`, what
  one call of `parse()` may do, and `FedFacts`, what the parser is after
  `commit()`. The theorems on bytes, codes, stages and success follow.
  `WaitsForMissing` (`WaitsAreForMissing`) needs in addition that `parse()` leaves
  nothing it could take: `ParseTakesAll` shows it of one call, `TransfersStep` and
  `ParsingStep` carry it over the steps of the stream and of the coroutine.
  `LoopsProgress` is the action property `RoundsProgress`: the end of the stream
  brings no bytes, and the parser told of it never asks for more. `BytesReported`
  and `FailureIsClassified` are stated here and only proved: a `Reader` has them, so
  the run checks them with `ImplementsReader`.
* `ReaderProofs`: `ReadOpsImplementReader`, for each action of `ReadOps` the step
  or the stutter of `Reader` it maps to, under the invariant.
* `WriteOpsProofs`: `WriteInvariant` adds `Position`, that the peer was given
  what was consumed plus what a queued completion will consume, and `Holding`,
  that a suspended operation holds the buffers that come next. With these
  `WireInOrder` is inductive. `LoopProgresses` is `RoundsProgress`. `BytesReported`
  and `NeverPrepareDone` are stated here and only proved; the run checks
  `ImplementsWriter`, which has the first.
* `WriterProofs`: `WriteOpsImplementWriter`, in the same way.
* `ServerProofs`: `ServerInvariant` has a part for the flags and one for each
  worker. Its core is that a cancelled wait exists only in a stopped server, so
  that workers exit, and `on_signal` may ignore its error code, only there.
  `GraceIsRespected` and `StopEndsWorkers` are the safety that the two liveness
  properties rest on: the grace period runs from the shutdown to the stop, and a stop
  that finds no completion queued leaves nothing behind that waits.
  `ServerImplementsService` shows for each handler the step of `Service` it is, or
  the stutter.
* `ConnectionProofs`: `ConnectionInvariant` instantiates the proofs of `ReadOps`
  and `WriteOps` on the connection's variables, so that the steps of the
  operations are not proved again. The invariant of `ReadOps` holds throughout:
  a reset parser on a new connection is one of its initial states. The one of
  `WriteOps` holds only while the worker writes, as `sr_` keeps what a broken
  response left; `Writing` and `Counting` say what holds in between, that the
  wire ends where the last whole response did. `ResponsesAreWhole`,
  `BytesStayOnTheirConnection` and that no handler throws follow.
  `RequestsAreTaken` carries `WaitsForMissing` over to the worker, whose resets and
  initiations come between the steps of the operations. `Undefined` in the invariant
  is the state an undefined error page leaves: its handler has not returned, so no
  operation runs, and only the peer goes on.
  `ConnectionImplementsWorker` is the refinement of `Server`: `Told` adds that
  the result a handler is given agrees with the wait that was resumed, and
  `K` is the worker as `Server` sees it.
* `ClientProofs`: `ClientInvariant` says that at each suspension all that was
  buffered is printed, that nothing is before the header of a final response,
  and that the loop ends only at the end of the body. `BodyGoesOn` is the lemma
  on what a round of the loop appends. Its part `Way` says that the page in use is
  one the redirects lead to; that `LedTo` is closed under redirects is a lemma on the
  least set, so no recursion is needed. `SuccessPrintsAll` is the whole of
  `SuccessIsWhole`. `OnlyThePageLedToIsPrinted` says more: from the first byte printed,
  the page asked is the only page led to that does not redirect, and the output is its
  beginning; `OneEnd` is the lemma that there is no second such page.
  `ClientImplementsFetch` is the refinement.
* `LifetimeProofs`: `LifetimeInvariant` says that the live objects are a prefix of
  the order of declaration (`Stacked`), and what the array owns at each stage of
  building and leaving. `AliveWhileUsed` follows from the prefix alone.

Only model-checked: the liveness properties, which the prover cannot reach. Their
safety cores are proved: `WaitsForMissing` and `RoundsProgress` of
`HeaderDeliveredOnArrival`, `BodyDelivered` and both `OperationEnds`,
`GraceRespected` and `StopIsClean` of `ShutdownEnds` and `CleanStopReturns`, and
`WaitsForRequest` and `ResponsesAreWhole` of `RequestAnswered`.

## Not modelled

* The relay operations (`#if 0`), `file_handler` (does nothing), the tests and the
  sandbox (empty or compiled out), configuration headers.
* Paths, MIME types, and the text of responses: `path_cat`, `mime_type` and
  `get_extension` compute on strings that nothing else depends on.
  What an error page for a Host that does not parse does to the program.
* The client's forwarding `async_read_some` and `async_write_some` of
  `any_stream`, and TLS itself. That an https URL with a port is connected
  without TLS (`client/flex_await/main.cpp:166`) is visible in the code but held
  against nothing in the repository.
* `fixed_array` gives its block back with the number of its elements. When an
  element's constructor threw that is less than was allocated;
  `ArrayReleased` asks for equality only when the array is complete.
* Buffer sizes inside the parser and the serializer, Asio's memory and executors.

## Plan

1. Done: the read and write operations, what they promise, and the server; the
   connection, which composes them; the client and the server's objects. The
   safety properties, the action properties and all five refinements are proved.
2. Open: several workers with their real operations in one server, which needs
   `ConnectionImplementsWorker` for each of them and the signals around them.
