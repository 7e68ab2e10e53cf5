------------------------------- MODULE Connection -------------------------------
(***************************************************************************)
(* A worker of the example server (example/server/main.cpp) with the       *)
(* operations it runs on its connections: its handlers over the coroutines *)
(* of ReadOps and WriteOps, the parser and the serializer it keeps from    *)
(* one connection to the next, and the peers.                              *)
(*                                                                         *)
(* A coroutine that ends calls the worker's handler before it returns to   *)
(* the io_context.  From the step that delivers a result to the step of    *)
(* the handler nothing else runs on the server's thread (InHandler); only  *)
(* the peer goes on.                                                       *)
(***************************************************************************)
EXTENDS Naturals, Sequences

CONSTANTS
    Layouts, MaxRead,   \* as in ReadOps
    MaxBytes,           \* bound: the bytes a peer sends on one connection
    Sizes, MaxWrite     \* the sizes of the responses, and as in WriteOps

VARIABLES
    msgs, sent, taken, ending, pr, rop, rcb, rresult, rreported,   \* ReadOps
    sr, wire, wop, window, wcb, wresult, wreported,                \* WriteOps
    running, is_shutting_down, is_stopped,                         \* as in Server
    pc,         \* the operation whose handler the worker waits for
    accept,     \* the wait of async_accept
    res,        \* res_, the last response
    answered,   \* history: the responses begun on this connection
    late,       \* history: those of them begun after the shutdown
    resumed     \* history: what the handler that runs was resumed with

R == INSTANCE ReadOps WITH op <- rop, cb <- rcb, result <- rresult, reported <- rreported
W == INSTANCE WriteOps WITH op <- wop, cb <- wcb, result <- wresult, reported <- wreported

ASSUME LayoutsAssumption == Layouts \subseteq Seq(R!Message)
ASSUME MaxReadAssumption == MaxRead \in Nat \ {0}
ASSUME MaxBytesAssumption == MaxBytes \in Nat
ASSUME SizesAssumption == Sizes \subseteq Nat \ {0}
ASSUME MaxWriteAssumption == MaxWrite \in Nat \ {0}

peer == <<msgs, sent, taken, ending>>
reading == <<pr, rop, rcb, rresult, rreported>>
writing == <<sr, wire, wop, window, wcb, wresult, wreported>>
flags == <<is_shutting_down, is_stopped>>
worker == <<running, pc, accept, res, answered, late, resumed>>
vars == <<peer, reading, writing, flags, worker>>

NotResumed == [io |-> "none", stage |-> "none"]

InHandler == rresult # R!NoResult \/ wresult # W!NoResult

\* The io_context is free to run a handler
Free == running = "running" /\ ~InHandler

Init ==
    /\ R!Init /\ W!Init
    /\ running = "running" /\ is_shutting_down = FALSE /\ is_stopped = FALSE
    /\ pc = "accept" /\ accept = "waiting"
    /\ res = [status |-> "none", keep_alive |-> FALSE]
    /\ answered = 0 /\ late = 0 /\ resumed = NotResumed

--------------------------------------------------------------------------------
(* The peers, and the sockets. *)

AcceptEnds(how) ==
    /\ running = "running" /\ accept = "waiting"
    /\ accept' = how
    /\ UNCHANGED <<peer, reading, writing, flags, running, pc, res, answered, late, resumed>>

ClientConnects == AcceptEnds("ok")

AcceptFails == AcceptEnds("error")

Connected == accept = "ok" \/ pc \in {"read_header", "read_body", "write"}

PeerSends == Connected /\ R!PeerSends /\ UNCHANGED <<writing, flags, worker>>

PeerEnds == Connected /\ R!PeerEnds /\ UNCHANGED <<writing, flags, worker>>

ReadEnds == R!Stream /\ UNCHANGED <<writing, flags, worker>>

\* A write fails only when the peer has left, and never succeeds on a broken connection
WriteEnds ==
    /\ \/ ending # "error" /\ W!StreamWrites
       \/ ending # "open" /\ W!StreamFails
    /\ UNCHANGED <<peer, reading, flags, worker>>

--------------------------------------------------------------------------------
(* The coroutines, dispatched.  What they were resumed with is recorded    *)
(* for the refinement of Server.                                           *)

WaitOf(op, cb) ==
    IF cb.ec = "none" THEN "waiting"
    ELSE IF cb.ec = "operation_aborted" THEN "aborted"
    ELSE IF op.pc = "post" /\ cb.ec = "ok" THEN "posted"
    ELSE IF cb.ec \in {"ok", "eof"} THEN "ok" ELSE "error"

Dispatched(op, cb, told) ==
    resumed' = IF told THEN [io |-> WaitOf(op, cb), stage |-> pr.st] ELSE resumed

ReadDispatched ==
    /\ Free /\ R!Dispatch
    /\ Dispatched(rop, rcb, rresult' # R!NoResult)
    /\ UNCHANGED <<writing, flags, running, pc, accept, res, answered, late>>

WriteDispatched ==
    /\ Free /\ W!Dispatch
    /\ Dispatched(wop, wcb, wresult' # W!NoResult)
    /\ UNCHANGED <<peer, reading, flags, running, pc, accept, res, answered, late>>

--------------------------------------------------------------------------------
(* The worker's calls, each made at the end of a handler, whose results    *)
(* are then gone.                                                          *)

HandlerReturns ==
    rresult' = R!NoResult /\ wresult' = W!NoResult /\ resumed' = NotResumed

Exit ==
    /\ pc' = "none" /\ accept' = "none"
    /\ HandlerReturns
    /\ UNCHANGED <<peer, pr, rop, rcb, rreported, sr, wire, wop, window, wcb, wreported,
                   running, res, answered, late>>

Throws ==
    /\ running' = "threw"
    /\ UNCHANGED <<peer, reading, writing, pc, accept, res, answered, late, resumed>>

\* Whoever connects next sends messages of its own
NewConnection ==
    /\ pc' = "accept" /\ accept' = "waiting"
    /\ msgs' \in Layouts /\ sent' = 0 /\ taken' = 0 /\ ending' = "open" /\ rreported' = 0
    /\ wire' = <<>> /\ wreported' = 0
    /\ answered' = 0 /\ late' = 0
    /\ HandlerReturns
    /\ UNCHANGED <<rop, rcb, sr, wop, window, wcb, running, res>>

\* Variant: only a parser that failed is reset
DoAcceptKeeping == NewConnection /\ pr' = IF pr.st = "failed" THEN R!ResetParser ELSE pr

\* close(), pr_.reset() and async_accept(): sr_ stays as the last write left it
DoAccept == NewConnection /\ pr' = R!ResetParser

\* pr_.start() and async_read_header()
DoRead ==
    IF ~R!CanStart(pr) THEN Throws
    ELSE /\ pr' = R!StartMessage(pr)
         /\ R!ReadSome("header", 0)
         /\ pc' = "read_header" /\ accept' = "none"
         /\ HandlerReturns
         /\ UNCHANGED <<peer, rreported, sr, wire, wop, window, wcb, wreported,
                        running, res, answered, late>>

AsyncRead ==
    IF ~R!GotHeader(pr) THEN Throws
    ELSE /\ R!InitiateBody("body")
         /\ pc' = "read_body" /\ wresult' = W!NoResult /\ resumed' = NotResumed
         /\ UNCHANGED <<sr, wire, wop, window, wcb, wreported,
                        running, accept, res, answered, late>>

HandleRequest == {[status |-> "served", keep_alive |-> keep] : keep \in BOOLEAN}

ServiceUnavailable == {[status |-> "unavailable", keep_alive |-> FALSE]}

\* The error page for a Host that is no authority, as in Server
HostUnparsed ==
    /\ running' = "undefined"
    /\ UNCHANGED <<peer, reading, writing, pc, accept, res, answered, late, resumed>>

(***************************************************************************)
(* sr_.start() of a body in memory, or of a file that turns out shorter    *)
(* than its size() was.  What is left of a response that was broken off is *)
(* dropped: bytes are numbered from where this connection's wire is.       *)
(***************************************************************************)
Started ==
    LET fresh == [sr EXCEPT !.out = Len(wire)] IN
    {W!StartSerializer(fresh, n, n) : n \in Sizes}
        \cup {W!Break(W!StartSerializer(fresh, n, r)) : n \in Sizes, r \in {0, 1}}

Respond ==
    /\ res' \in (IF is_shutting_down THEN ServiceUnavailable ELSE HandleRequest)
    /\ \E s \in {x \in Started : x.ready <= x.end} :
         sr' = s /\ W!Suspend("write", 0, s)
    /\ pc' = "write"
    /\ answered' = answered + 1
    /\ late' = IF is_shutting_down THEN late + 1 ELSE late
    /\ HandlerReturns
    /\ UNCHANGED <<peer, pr, rop, rcb, rreported, wire, wreported, running, accept>>

--------------------------------------------------------------------------------
(* The worker's handlers. *)

\* Variant: a cancelled operation is handled like any other failure
FailRestarting(ec) == DoAccept

Fail(ec) == IF ec = "operation_aborted" THEN Exit ELSE DoAccept

OnAccept ==
    /\ Free /\ pc = "accept" /\ accept # "waiting"
    /\ IF accept = "ok" THEN DoRead
       ELSE Fail(IF accept = "aborted" THEN "operation_aborted" ELSE "net_error")
    /\ UNCHANGED flags

OnReadHeader ==
    /\ running = "running" /\ pc = "read_header" /\ InHandler
    /\ IF rresult.ec = "ok" THEN AsyncRead ELSE Fail(rresult.ec)
    /\ UNCHANGED flags

OnReadBody ==
    /\ running = "running" /\ pc = "read_body" /\ InHandler
    /\ IF rresult.ec = "ok" THEN Respond \/ HostUnparsed ELSE Fail(rresult.ec)
    /\ UNCHANGED flags

\* Variant: whether to keep the connection is asked before the error
OnWriteKeepingAlive ==
    /\ running = "running" /\ pc = "write" /\ InHandler
    /\ IF res.keep_alive THEN DoRead
       ELSE IF wresult.ec # "ok" THEN Fail(wresult.ec) ELSE DoAccept
    /\ UNCHANGED flags

OnWrite ==
    /\ running = "running" /\ pc = "write" /\ InHandler
    /\ IF wresult.ec # "ok" THEN Fail(wresult.ec)
       ELSE IF res.keep_alive THEN DoRead ELSE DoAccept
    /\ UNCHANGED flags

--------------------------------------------------------------------------------
(* The server around the worker. *)

ServerShutsDown ==
    /\ Free /\ ~is_shutting_down
    /\ is_shutting_down' = TRUE
    /\ UNCHANGED <<peer, reading, writing, worker, is_stopped>>

\* cancel() finds only what still waits
AcceptCancelled ==
    /\ accept' = IF accept = "waiting" THEN "aborted" ELSE accept
    /\ UNCHANGED <<peer, reading, writing>>

ReadCancelled == R!OwnerCancels /\ UNCHANGED <<writing, accept>>

WriteCancelled == W!OwnerCancels /\ UNCHANGED <<peer, reading, accept>>

ServerStops ==
    /\ Free /\ is_shutting_down /\ ~is_stopped
    /\ is_stopped' = TRUE
    /\ IF R!Waiting THEN ReadCancelled
       ELSE IF W!Waiting THEN WriteCancelled ELSE AcceptCancelled
    /\ UNCHANGED <<is_shutting_down, running, pc, res, answered, late, resumed>>

--------------------------------------------------------------------------------

Peer == ClientConnects \/ AcceptFails \/ PeerSends \/ PeerEnds
Handler == OnAccept \/ OnReadHeader \/ OnReadBody \/ OnWrite
Server == ServerShutsDown \/ ServerStops

Next ==
    \/ Peer \/ ReadEnds \/ WriteEnds
    \/ ReadDispatched \/ WriteDispatched \/ Handler
    \/ Server

Spec == Init /\ [][Next]_vars

(***************************************************************************)
(* The io_context runs every queued handler, a readable socket is read,    *)
(* and a peer that was sent a response reads it or leaves.                 *)
(***************************************************************************)
FairSpec ==
    /\ Spec
    /\ WF_vars(ReadEnds) /\ WF_vars(WriteEnds)
    /\ WF_vars(ReadDispatched \/ WriteDispatched \/ Handler)

--------------------------------------------------------------------------------
(* Properties. *)

TypeOK ==
    /\ msgs \in Layouts
    /\ pr \in R!Parser /\ sr \in W!Serializer
    /\ running \in {"running", "threw", "undefined"}
    /\ pc \in {"none", "accept", "read_header", "read_body", "write"}
    /\ accept \in {"none", "waiting", "ok", "error", "aborted"}
    /\ pc = "accept" <=> accept # "none"
    /\ rop # R!NoOp => pc = (IF rop.kind = "header" THEN "read_header" ELSE "read_body")
    /\ wop # W!NoOp => pc = "write"
    /\ answered \in Nat /\ late \in 0..answered

(***************************************************************************)
(* A parser that serves connection after connection hands each of them     *)
(* its own bytes: whatever state the last one was abandoned in, what is    *)
(* parsed, buffered or queued are the bytes taken from this one.           *)
(***************************************************************************)
BytesStayOnTheirConnection == R!BytesConserved

(***************************************************************************)
(* The worker never waits on the socket for a request that pr_ holds: what *)
(* comes with the header is parsed with it, and what comes with the end of *)
(* a message stays for the next, on this connection only.  The start of a  *)
(* header is the exception, see ReadOps (main.cpp:436-462).                *)
(***************************************************************************)
WaitsForRequest == R!WaitsForMissing

(***************************************************************************)
(* The peer gets one whole response after each request, before the next    *)
(* request is read: a write that failed or was cut short ends the          *)
(* connection, and nothing of it reaches the next peer, although neither   *)
(* res_ nor sr_ is reset between connections (main.cpp:408).               *)
(***************************************************************************)
ResponsesAreWhole ==
    /\ W!WireInOrder
    /\ pc = "write" => answered = pr.msg /\ R!IsComplete(pr)
    /\ pc \in {"read_header", "read_body"} =>
         /\ answered + 1 = pr.msg
         /\ Len(wire) = IF answered = 0 THEN 0 ELSE sr.end

(***************************************************************************)
(* A request that is wholly on the wire, and not wholly with the server    *)
(* already, is answered, or its connection is given up: the worker goes on *)
(* to the next request, or to the next connection; unless its error page   *)
(* left the program in an undefined state.                                 *)
(***************************************************************************)
EndOf(k) == IF k = 1 THEN msgs[1].hdr + msgs[1].body
            ELSE msgs[1].hdr + msgs[1].body + msgs[2].hdr + msgs[2].body

RequestComing(k) ==
    /\ pc \in {"read_header", "read_body"} /\ pr.msg = k
    /\ k <= Len(msgs) /\ msgs[k].kind # "until_eof"
    /\ taken < EndOf(k) /\ EndOf(k) <= sent

RequestAnswered ==
    \A k \in 1..2 : RequestComing(k) ~>
        (pr.msg = k + 1 \/ pc \in {"accept", "none"} \/ running = "undefined")

(***************************************************************************)
(* The worker with its real operations is a worker of Server, where only   *)
(* their shape is kept.  Until the handler has run, the wait it was        *)
(* resumed with is the one that ended.                                     *)
(***************************************************************************)
Io ==
    IF InHandler THEN resumed.io
    ELSE IF pc = "none" THEN "none"
    ELSE IF pc = "accept" THEN accept
    ELSE IF pc = "write" THEN WaitOf(wop, wcb)
    ELSE WaitOf(rop, rcb)

Stage == IF InHandler THEN resumed.stage ELSE pr.st

S == INSTANCE Server WITH
        Workers <- {"w"}, MaxSignals <- 0,
        sig <- "none", pending <- 0, signals <- 0, timer <- "none", raced <- FALSE,
        wk <- [w \in {"w"} |-> [op |-> pc, io |-> Io, parser |-> Stage,
                                 res |-> res, late |-> late]]

ImplementsWorker == S!WorkersSpec
================================================================================
