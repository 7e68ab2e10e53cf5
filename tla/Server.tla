-------------------------------- MODULE Server --------------------------------
(***************************************************************************)
(* The example server: server.cpp, acceptor.hpp and the worker of main.cpp.*)
(*                                                                         *)
(* One thread runs the io_context, so a handler is one step.  Between the  *)
(* handlers, in any order, connections come, peers answer or fail, signals *)
(* are raised and the timer expires: each of these queues the completion   *)
(* of the wait it ends, and cancel() does the same with operation_aborted, *)
(* but only to a wait that has not ended already.                          *)
(*                                                                         *)
(* The reads and writes of a worker are the composed operations of ReadOps *)
(* and WriteOps; of those only the shape is kept: such an operation may    *)
(* wait on its socket any number of times before it completes.             *)
(***************************************************************************)
EXTENDS Naturals

CONSTANTS
    Workers,        \* the num_workers workers of the acceptor
    MaxSignals      \* bound: the SIGINTs and SIGTERMs the process is sent

ASSUME MaxSignalsAssumption == MaxSignals \in Nat

VARIABLES
    running,            \* ioc_.run(): "running", "returned", "threw" or "undefined"
    is_shutting_down,
    is_stopped,
    sig,                \* the wait on sigs_
    pending,            \* signals raised while nothing waited for them
    signals,            \* signals raised in all
    timer,              \* the wait on timer_
    wk,                 \* the workers
    raced               \* history: completions were queued when stop() cancelled

vars == <<running, is_shutting_down, is_stopped, sig, pending, signals, timer, wk, raced>>
serverVars == <<is_shutting_down, is_stopped, sig, pending, signals, timer, raced>>

\* An asynchronous wait: none, outstanding, or ended with its handler queued
Waits == {"none", "waiting", "ok", "aborted"}

Cancelled(wait) == IF wait = "waiting" THEN "aborted" ELSE wait

(***************************************************************************)
(* op     : the operation whose handler the worker waits for;              *)
(* io     : its wait, which may also fail or have been posted;             *)
(* parser : how far pr_ is, as in HttpParser;                              *)
(* res    : res_, the last response;                                       *)
(* late   : history, the responses of this connection that were begun      *)
(*          after is_shutting_down was set.                                *)
(***************************************************************************)
Responses == [status : {"none", "served", "unavailable"}, keep_alive : BOOLEAN]

Worker == [op : {"none", "accept", "read_header", "read_body", "write"},
           io : Waits \cup {"error", "posted"},
           parser : {"reset", "header", "body", "complete", "failed"},
           res : Responses,
           late : Nat]

\* do_accept() on a worker with no connection yet
NewWorker == [op |-> "accept", io |-> "waiting", parser |-> "reset",
              res |-> [status |-> "none", keep_alive |-> FALSE], late |-> 0]

\* server::run() up to ioc_.run()
Init ==
    /\ running = "running"
    /\ is_shutting_down = FALSE /\ is_stopped = FALSE
    /\ sig = "waiting" /\ pending = 0 /\ signals = 0
    /\ timer = "none"
    /\ wk = [w \in Workers |-> NewWorker]
    /\ raced = FALSE

--------------------------------------------------------------------------------
(* What ends a wait. *)

RaiseSignal ==
    /\ running = "running" /\ signals < MaxSignals
    /\ signals' = signals + 1
    /\ IF sig = "waiting" THEN sig' = "ok" /\ UNCHANGED pending
                          ELSE pending' = pending + 1 /\ UNCHANGED sig
    /\ UNCHANGED <<running, is_shutting_down, is_stopped, timer, wk, raced>>

TimerExpires ==
    /\ running = "running" /\ timer = "waiting"
    /\ timer' = "ok"
    /\ UNCHANGED <<running, is_shutting_down, is_stopped, sig, pending, signals, wk, raced>>

WaitEnds(w, how) ==
    /\ running = "running" /\ wk[w].io = "waiting"
    /\ wk' = [wk EXCEPT ![w].io = how]
    /\ UNCHANGED <<running, serverVars>>

ClientConnects(w) == wk[w].op = "accept" /\ WaitEnds(w, "ok")

AcceptFails(w) == wk[w].op = "accept" /\ WaitEnds(w, "error")

\* The socket is readable, at its end, or writable
PeerActs(w) == wk[w].op # "accept" /\ WaitEnds(w, "ok")

PeerBreaks(w) == wk[w].op # "accept" /\ WaitEnds(w, "error")

--------------------------------------------------------------------------------
(* server::stop(), on_signal() and on_timer(). *)

\* acceptor::stop() cancels the accepts, worker::stop() the reads and writes
AcceptCancelled(k) == IF k.op = "accept" THEN [k EXCEPT !.io = Cancelled(k.io)] ELSE k

SocketCancelled(k) == IF k.op = "accept" THEN k ELSE [k EXCEPT !.io = Cancelled(k.io)]

\* Variant: only the workers' own sockets are cancelled
ServiceStopOfSockets == wk' = [w \in Workers |-> SocketCancelled(wk[w])]

ServiceStop == wk' = [w \in Workers |-> SocketCancelled(AcceptCancelled(wk[w]))]

\* Variant: is_stopped_ is not tested
StopAgain(s, t) ==
    /\ is_stopped' = TRUE
    /\ sig' = Cancelled(s) /\ timer' = Cancelled(t)
    /\ ServiceStop
    /\ raced' = \E w \in Workers : wk[w].io \in {"ok", "error", "posted"}

\* stop(), called by a handler that leaves the waits s and t
Stop(s, t) ==
    IF is_stopped
    THEN sig' = s /\ timer' = t /\ UNCHANGED <<is_stopped, wk, raced>>
    ELSE /\ is_stopped' = TRUE
         /\ sig' = Cancelled(s) /\ timer' = Cancelled(t)
         /\ ServiceStop
         /\ raced' = \E w \in Workers : wk[w].io \in {"ok", "error", "posted"}

\* sigs_.async_wait() ends at once when a signal is pending
WaitForSignal ==
    IF pending > 0 THEN sig' = "ok" /\ pending' = pending - 1
                   ELSE sig' = "waiting" /\ UNCHANGED pending

\* Variant: the timer is not started
BeginShutdownUntimed ==
    /\ is_shutting_down' = TRUE
    /\ WaitForSignal
    /\ UNCHANGED <<is_stopped, timer, wk, raced>>

BeginShutdown ==
    /\ is_shutting_down' = TRUE
    /\ WaitForSignal
    /\ timer' = "waiting"
    /\ UNCHANGED <<is_stopped, wk, raced>>

\* Variants: the signal is awaited again in any case; the first signal stops
OnSignalRearming ==
    /\ running = "running" /\ sig \in {"ok", "aborted"}
    /\ IF is_shutting_down
       THEN /\ is_shutting_down' = TRUE /\ WaitForSignal
            /\ is_stopped' = TRUE /\ timer' = Cancelled(timer)
            /\ ServiceStop /\ UNCHANGED raced
       ELSE BeginShutdown
    /\ UNCHANGED <<running, signals>>

OnSignalStopping ==
    /\ running = "running" /\ sig \in {"ok", "aborted"}
    /\ is_shutting_down' = TRUE
    /\ Stop("none", timer) /\ UNCHANGED <<running, signals, pending>>

\* on_signal() does not look at ec: a cancelled wait ends here too
OnSignal ==
    /\ running = "running" /\ sig \in {"ok", "aborted"}
    /\ IF is_shutting_down
       THEN Stop("none", timer) /\ UNCHANGED <<is_shutting_down, pending>>
       ELSE BeginShutdown
    /\ UNCHANGED <<running, signals>>

OnTimer ==
    /\ running = "running" /\ timer \in {"ok", "aborted"}
    /\ IF timer = "ok"
       THEN Stop(sig, "none")
       ELSE timer' = "none" /\ UNCHANGED <<sig, is_stopped, wk, raced>>
    /\ UNCHANGED <<running, is_shutting_down, pending, signals>>

--------------------------------------------------------------------------------
(* The worker's calls.  Each is made at the end of a handler, by a worker  *)
(* whose state has become k.                                               *)

Becomes(w, k) == wk' = [wk EXCEPT ![w] = k] /\ UNCHANGED <<running, serverVars>>

\* The worker k, its connection the same, waiting for the completion of op
Doing(k, op, io, parser) ==
    [op |-> op, io |-> io, parser |-> parser, res |-> k.res, late |-> k.late]

\* std::logic_error leaves ioc_.run() and ends main()
Throws == running' = "threw" /\ UNCHANGED <<wk, serverVars>>

\* Variant: the operation stays the worker's
ExitDoing(w) == Becomes(w, Doing(wk[w], wk[w].op, "none", wk[w].parser))

\* The handler returns, and the worker waits for nothing more
Exit(w) == Becomes(w, Doing(wk[w], "none", "none", wk[w].parser))

\* Variant: pr_.reset() is forgotten
DoAcceptUnreset(w, k) ==
    Becomes(w, [Doing(k, "accept", "waiting", k.parser) EXCEPT !.late = 0])

\* close() and pr_.reset(), then async_accept(); res_ and sr_ stay as they are
DoAccept(w, k) ==
    Becomes(w, [op |-> "accept", io |-> "waiting", parser |-> "reset",
                res |-> k.res, late |-> 0])

\* pr_.start(), async_read_header()
DoRead(w, k) ==
    IF k.parser \in {"reset", "complete"}
    THEN Becomes(w, Doing(k, "read_header", "waiting", "header"))
    ELSE Throws

\* async_read() posts when the message is complete already
AsyncRead(w, k) ==
    IF k.parser = "complete" THEN Becomes(w, Doing(k, "read_body", "posted", "complete"))
    ELSE IF k.parser = "body" THEN Becomes(w, Doing(k, "read_body", "waiting", "body"))
    ELSE Throws

HandleRequest == {[status |-> "served", keep_alive |-> keep] : keep \in BOOLEAN}

\* Variant: set_keep_alive(req.keep_alive()), as in handle_request
ServiceUnavailableKeeping ==
    {[status |-> "unavailable", keep_alive |-> keep] : keep \in BOOLEAN}

ServiceUnavailable == {[status |-> "unavailable", keep_alive |-> FALSE]}

\* Both kinds of error page use the Host as parsed, also when that failed (main.cpp:197, 319)
HostUnparsed == running' = "undefined" /\ UNCHANGED <<wk, serverVars>>

\* The response is chosen and async_write() waits, or prepare() failed and it posts
Respond(w, k) ==
    \E res \in (IF is_shutting_down THEN ServiceUnavailable ELSE HandleRequest) :
    \E io \in {"waiting", "error"} :
        Becomes(w, [op |-> "write", io |-> io, parser |-> k.parser, res |-> res,
                    late |-> IF is_shutting_down THEN k.late + 1 ELSE k.late])

--------------------------------------------------------------------------------
(* The worker's handlers. *)

Resumed(w, op) ==
    /\ running = "running"
    /\ wk[w].op = op /\ wk[w].io \notin {"none", "waiting"}

\* The composed operation goes on: it waits again, or prepare() fails
OperationGoesOn(w) ==
    /\ running = "running"
    /\ wk[w].op \in {"read_header", "read_body", "write"} /\ wk[w].io = "ok"
    /\ \E io \in (IF wk[w].op = "write" THEN {"waiting", "error"} ELSE {"waiting"}) :
         Becomes(w, [wk[w] EXCEPT !.io = io])

\* Variant: any failure ends the worker
FailAlways(w, k) == Exit(w)

\* A handler was called with an error: only operation_aborted ends the worker
Fail(w, k) == IF wk[w].io = "aborted" THEN Exit(w) ELSE DoAccept(w, k)

OnAccept(w) ==
    /\ Resumed(w, "accept")
    /\ IF wk[w].io = "ok" THEN DoRead(w, wk[w]) ELSE Fail(w, wk[w])

OnReadHeader(w) ==
    /\ Resumed(w, "read_header")
    /\ \/ wk[w].io = "ok" /\ \E stage \in {"body", "complete"} :
                                AsyncRead(w, [wk[w] EXCEPT !.parser = stage])
       \/ wk[w].io = "ok" /\ Fail(w, [wk[w] EXCEPT !.parser = "failed"])
       \/ wk[w].io # "ok" /\ Fail(w, wk[w])

OnReadBody(w) ==
    /\ Resumed(w, "read_body")
    /\ \/ wk[w].io \in {"ok", "posted"} /\ Respond(w, [wk[w] EXCEPT !.parser = "complete"])
       \/ wk[w].io \in {"ok", "posted"} /\ HostUnparsed
       \/ wk[w].io = "ok" /\ Fail(w, [wk[w] EXCEPT !.parser = "failed"])
       \/ wk[w].io \notin {"ok", "posted"} /\ Fail(w, wk[w])

OnWrite(w) ==
    /\ Resumed(w, "write")
    /\ IF wk[w].io # "ok" THEN Fail(w, wk[w])
       ELSE IF wk[w].res.keep_alive THEN DoRead(w, wk[w]) ELSE DoAccept(w, wk[w])

\* ioc_.run() returns when nothing is outstanding
RunReturns ==
    /\ running = "running"
    /\ sig = "none" /\ timer = "none" /\ \A w \in Workers : wk[w].op = "none"
    /\ running' = "returned"
    /\ UNCHANGED <<wk, serverVars>>

--------------------------------------------------------------------------------

Handler(w) == OnAccept(w) \/ OnReadHeader(w) \/ OnReadBody(w) \/ OnWrite(w)
Environment(w) == ClientConnects(w) \/ AcceptFails(w) \/ PeerActs(w) \/ PeerBreaks(w)

Next ==
    \/ RaiseSignal \/ TimerExpires \/ OnSignal \/ OnTimer \/ RunReturns
    \/ \E w \in Workers : Environment(w) \/ OperationGoesOn(w) \/ Handler(w)

Spec == Init /\ [][Next]_vars

(***************************************************************************)
(* The workers by themselves, in a server that may cancel what they wait   *)
(* for at any time: what Connection, where the operations are those of     *)
(* ReadOps and WriteOps, is shown to implement.                            *)
(***************************************************************************)
WorkersNext ==
    \/ \E w \in Workers : Environment(w) \/ OperationGoesOn(w) \/ Handler(w)
    \/ ServiceStop /\ UNCHANGED running

WorkersSpec ==
    /\ running = "running" /\ wk = [w \in Workers |-> NewWorker]
    /\ [][WorkersNext]_<<running, wk>>

(***************************************************************************)
(* The io_context runs every queued handler, the clock runs, and a peer    *)
(* eventually acts on a connection or breaks it.  Nobody is obliged to     *)
(* connect, and no signal has to come.                                     *)
(***************************************************************************)
Fairness ==
    /\ WF_vars(TimerExpires) /\ WF_vars(OnSignal) /\ WF_vars(OnTimer) /\ WF_vars(RunReturns)
    /\ \A w \in Workers : /\ WF_vars(OperationGoesOn(w) \/ Handler(w))
                          /\ WF_vars(PeerActs(w) \/ PeerBreaks(w))

FairSpec == Spec /\ Fairness

--------------------------------------------------------------------------------
(* Properties. *)

TypeOK ==
    /\ running \in {"running", "returned", "threw", "undefined"}
    /\ is_shutting_down \in BOOLEAN /\ is_stopped \in BOOLEAN /\ raced \in BOOLEAN
    /\ sig \in Waits /\ timer \in Waits
    /\ pending \in Nat /\ signals \in Nat /\ pending <= signals
    /\ wk \in [Workers -> Worker]
    /\ \A w \in Workers : wk[w].op = "none" <=> wk[w].io = "none"

(***************************************************************************)
(* No worker is lost before the server is stopped: whatever fails on a     *)
(* connection, in accept, read or write, its worker serves the next one.   *)
(***************************************************************************)
NoWorkerLost == ~is_stopped => \A w \in Workers : wk[w].op # "none"

(***************************************************************************)
(* No call of the parser throws out of a handler: start() finds it reset   *)
(* or complete whatever the worker's last connection left behind, and      *)
(* async_read() finds a header.                                            *)
(***************************************************************************)
NeverThrows == running # "threw"

(***************************************************************************)
(* A connection outlives the shutdown by one response: whether its request *)
(* was being read or a keep-alive response being written when the signal   *)
(* came, the worker begins at most one response on it afterwards           *)
(* (server.cpp:75).                                                        *)
(***************************************************************************)
ShutdownDrains == \A w \in Workers : wk[w].late <= 1

\* In whatever order the signals, the timer and the cancelled waits reach it
NothingRearmed == is_stopped => sig # "waiting" /\ timer # "waiting"

\* Each worker has left, or has only the handler to run that makes it leave
WorkersCancelled == is_stopped /\ ~raced => \A w \in Workers : wk[w].io \in {"none", "aborted"}

(***************************************************************************)
(* A stopped server waits for no signal and no timer, and a stop that      *)
(* finds no completion queued is the end of every worker: none starts      *)
(* anything afterwards that would have to end by itself (server.cpp:62,    *)
(* main.cpp:424).  Nothing is left that keeps ioc_.run() from returning.   *)
(***************************************************************************)
StopIsClean == NothingRearmed /\ WorkersCancelled

\* The grace period runs, or its end is queued
ShutdownTimed == is_shutting_down /\ ~is_stopped => timer \in {"waiting", "ok"}

(***************************************************************************)
(* From the first signal to the stop the server has the grace period       *)
(* running: no handler in between, and no cancelled wait, takes the timer  *)
(* away (server.cpp:82-84, 98).  Connections are cut off only by its end   *)
(* or by a second signal, never by the first one or by a cancelled wait.   *)
(***************************************************************************)
GraceRespected ==
    /\ []ShutdownTimed
    /\ [][is_stopped' # is_stopped => is_shutting_down /\ (timer = "ok" \/ sig = "ok")]_vars

(***************************************************************************)
(* The server implements Service: whatever the order in which signals, the *)
(* timer, cancelled waits and completions reach it, it goes through its    *)
(* phases one by one, cancels once, and loses no worker but those that it  *)
(* cancelled; these start nothing more, ioc_.run() does not return before  *)
(* them, and the error page of a worker that was not cancelled is all that *)
(* leaves it undefined.                                                    *)
(***************************************************************************)
Phase ==
    IF running # "running" THEN running
    ELSE IF is_stopped THEN "stopped"
    ELSE IF is_shutting_down THEN "draining" ELSE "serving"

Promised == INSTANCE Service WITH
                phase <- Phase,
                staff <- {w \in Workers : wk[w].op # "none"},
                cut <- {w \in Workers : wk[w].io = "aborted"},
                late <- [w \in Workers |-> wk[w].late]

ImplementsService == Promised!Spec

(***************************************************************************)
(* A shutdown once begun ends in a stop, even if no further signal comes   *)
(* and the peers keep their connections busy; unless an error page has     *)
(* left the program in an undefined state before.                          *)
(***************************************************************************)
ShutdownEnds == is_shutting_down ~> (is_stopped \/ running = "undefined")

(***************************************************************************)
(* When stop() finds no completion queued, all waits are cancelled, all    *)
(* workers exit and ioc_.run() returns.                                    *)
(***************************************************************************)
CleanStopReturns == (is_stopped /\ ~raced) ~> (running = "returned")

(***************************************************************************)
(* server.cpp:88, "force a stop": once stop() has been called, ioc_.run()  *)
(* does not go on for ever.                                                *)
(***************************************************************************)
StopReturns == is_stopped ~> (running # "running")
================================================================================
