-------------------------------- MODULE ReadOps --------------------------------
(***************************************************************************)
(* include/boost/http_io/impl/read.hpp: async_read_header, async_read_some *)
(* and async_read, composed operations over an asio stream and a parser.   *)
(*                                                                         *)
(* An operation is a stackless coroutine.  It runs from one yield to the   *)
(* next without interruption: initiating it is one step, and so is every   *)
(* dispatch of its completion handler by the executor.  Between the two    *)
(* the peer sends, ends or breaks the connection, the stream completes the *)
(* read it was asked for, and the owner may cancel.  The caller is any     *)
(* program that keeps to the documented order of calls, and runs one       *)
(* operation at a time.                                                    *)
(***************************************************************************)
EXTENDS HttpParser

CONSTANTS
    Layouts,    \* the message sequences a peer may send
    MaxRead,    \* the most bytes one async_read_some transfers
    MaxBytes    \* bound: the bytes a peer sends on the connection

ASSUME LayoutsAssumption == Layouts \subseteq Seq(Message)
ASSUME MaxReadAssumption == MaxRead \in Nat \ {0}
ASSUME MaxBytesAssumption == MaxBytes \in Nat

VARIABLES
    msgs,       \* the messages of this connection, fixed by the peer
    sent,       \* bytes the peer has put on the wire
    taken,      \* bytes async_read_some has taken off it
    ending,     \* how the peer left the connection: "open", "eof", "error"
    pr,         \* the parser
    op,         \* the running read_header_op or read_body_op
    cb,         \* its completion, queued on the executor and not yet dispatched
    result,     \* what the last operation passed to the caller's handler
    reported    \* history: the sum of bytes_transferred over all handlers

vars == <<msgs, sent, taken, ending, pr, op, cb, result, reported>>
peerVars == <<msgs, sent, ending>>

OpKinds == {"header", "some", "body"}
StreamErrors == {"net_error", "operation_aborted"}
ParseErrors == {"end_of_stream", "incomplete", "bad_message"}
StreamCodes == {"ok", "eof"} \cup StreamErrors
ErrorCodes == {"need_more_input", "logic_error"} \cup StreamCodes \cup ParseErrors

NoOp == [kind |-> "none", pc |-> "idle", total |-> 0]
NoCompletion == [ec |-> "none", n |-> 0]
NoResult == [kind |-> "none", ec |-> "none", n |-> 0]

Idle == op.pc = "idle"
Waiting == op.pc = "read" /\ cb = NoCompletion
Dispatchable(pc) == op.pc = pc /\ cb # NoCompletion
Available == sent - taken

Init ==
    /\ msgs \in Layouts
    /\ sent = 0 /\ taken = 0 /\ ending = "open"
    /\ pr = ResetParser
    /\ op = NoOp /\ cb = NoCompletion
    /\ result = NoResult /\ reported = 0

--------------------------------------------------------------------------------
(* The peer and the stream. *)

PeerSends ==
    /\ ending = "open"
    /\ \E n \in 1..(MaxBytes - sent) : sent' = sent + n
    /\ UNCHANGED <<msgs, taken, ending, pr, op, cb, result, reported>>

PeerEnds ==
    /\ ending = "open"
    /\ ending' \in {"eof", "error"}
    /\ UNCHANGED <<msgs, sent, taken, pr, op, cb, result, reported>>

Completes(ec, n) ==
    /\ Waiting
    /\ cb' = [ec |-> ec, n |-> n]
    /\ taken' = taken + n
    /\ UNCHANGED <<peerVars, pr, op, result, reported>>

Transferable == {n \in 1..MaxRead : n <= Available}

StreamDelivers == ending # "error" /\ \E n \in Transferable : Completes("ok", n)

StreamEnds == ending = "eof" /\ Available = 0 /\ Completes("eof", 0)

\* A generic stream may report bytes along with an error
StreamFails == ending = "error" /\ \E n \in Transferable \cup {0} : Completes("net_error", n)

\* The owner's stream.cancel(): too late for a completion already queued
OwnerCancels == Completes("operation_aborted", 0)

--------------------------------------------------------------------------------
(* Initiation. *)

BeginMessage ==
    /\ Idle /\ CanStart(pr) /\ pr.msg <= Len(msgs)
    /\ pr' = StartMessage(pr)
    /\ result' = NoResult
    /\ UNCHANGED <<peerVars, taken, op, cb, reported>>

\* Nothing to wait for: post, so that the handler is not invoked from here
Post(kind) ==
    /\ op' = [kind |-> kind, pc |-> "post", total |-> 0]
    /\ cb' = [ec |-> "ok", n |-> 0]

ReadSome(kind, total) ==
    /\ op' = [kind |-> kind, pc |-> "read", total |-> total]
    /\ cb' = NoCompletion

\* Variant: the handler is invoked from the initiating function
AsyncReadHeaderImmediate ==
    /\ Idle /\ (CanRead(pr) \/ IsComplete(pr))
    /\ IF GotHeader(pr)
       THEN result' = [kind |-> "header", ec |-> "ok", n |-> 0] /\ UNCHANGED <<op, cb>>
       ELSE result' = NoResult /\ ReadSome("header", 0)
    /\ UNCHANGED <<peerVars, taken, pr, reported>>

AsyncReadHeader ==
    /\ Idle /\ (CanRead(pr) \/ IsComplete(pr))
    /\ IF GotHeader(pr) THEN Post("header") ELSE ReadSome("header", 0)
    /\ result' = NoResult
    /\ UNCHANGED <<peerVars, taken, pr, reported>>

ThrowLogicError(kind) ==
    /\ result' = [kind |-> kind, ec |-> "logic_error", n |-> 0]
    /\ UNCHANGED <<peerVars, taken, pr, op, cb, reported>>

\* Variant: no test for a message that is already complete
InitiateBodyAlways(kind) ==
    /\ ReadSome(kind, 0)
    /\ result' = NoResult
    /\ UNCHANGED <<peerVars, taken, pr, reported>>

InitiateBody(kind) ==
    /\ IF IsComplete(pr) THEN Post(kind) ELSE ReadSome(kind, 0)
    /\ result' = NoResult
    /\ UNCHANGED <<peerVars, taken, pr, reported>>

AsyncReadBody(kind) ==
    /\ Idle /\ (CanRead(pr) \/ IsComplete(pr))
    /\ IF GotHeader(pr) THEN InitiateBody(kind) ELSE ThrowLogicError(kind)

AsyncReadSome == AsyncReadBody("some")

AsyncRead == AsyncReadBody("body")

--------------------------------------------------------------------------------
(* The coroutines, resumed with (ec, bytes_transferred). *)

\* Variant: the finished coroutine keeps its kind
CompleteKeepingKind(ec, total) ==
    /\ op' = [op EXCEPT !.pc = "idle"]
    /\ cb' = NoCompletion
    /\ result' = [kind |-> op.kind, ec |-> ec, n |-> total]
    /\ reported' = reported + total

Complete(ec, total) ==
    /\ op' = NoOp
    /\ cb' = NoCompletion
    /\ result' = [kind |-> op.kind, ec |-> ec, n |-> total]
    /\ reported' = reported + total

Total == op.total + cb.n

\* Variants: commit() only after the error test; commit_eof() forgotten
FedOnSuccess == IF cb.ec = "ok" THEN Commit(pr, cb.n)
                ELSE IF cb.ec = "eof" THEN CommitEof(pr) ELSE pr

FedWithoutEof == Commit(pr, cb.n)

Fed == LET received == Commit(pr, cb.n)
       IN  IF cb.ec = "eof" THEN CommitEof(received) ELSE received

\* Variant: parse() before commit()
ParsedBeforeCommit ==
    LET r == Parse(msgs, pr) IN [r EXCEPT !.pr = Commit(r.pr, cb.n)]

Parsed == Parse(msgs, Fed)

\* Both loops leave on a stream error before they parse
ReadFailed ==
    /\ Dispatchable("read") /\ cb.ec \in StreamErrors
    /\ pr' = Fed
    /\ Complete(cb.ec, Total)
    /\ UNCHANGED <<peerVars, taken>>

Resumed(kinds) ==
    /\ Dispatchable("read") /\ op.kind \in kinds /\ cb.ec \notin StreamErrors
    /\ pr' = Parsed.pr
    /\ UNCHANGED <<peerVars, taken>>

Continue ==
    /\ ReadSome(op.kind, Total)
    /\ UNCHANGED <<result, reported>>

\* Variants: got_header() not tested; is_complete() tested instead
HeaderOutcomeUntested == IF Parsed.ec = "need_more_input" THEN "ok" ELSE Parsed.ec

HeaderOutcomeOfMessage == Parsed.ec

\* The error code read_header_op's loop leaves with, "need_more_input" to go on
HeaderOutcome == IF GotHeader(Parsed.pr) /\ Parsed.ec = "need_more_input"
                 THEN "ok" ELSE Parsed.ec

ReadHeaderOp ==
    /\ Resumed({"header"})
    /\ IF HeaderOutcome = "need_more_input" THEN Continue ELSE Complete(HeaderOutcome, Total)

\* The same for read_body_op: some_ turns "need_more_input" into success
BodyOutcome == IF op.kind = "some" /\ Parsed.ec = "need_more_input"
               THEN "ok" ELSE Parsed.ec

ReadBodyOp ==
    /\ Resumed({"some", "body"})
    /\ IF BodyOutcome = "need_more_input" THEN Continue ELSE Complete(BodyOutcome, Total)

PostedHeader ==
    /\ Dispatchable("post") /\ op.kind = "header"
    /\ Complete(cb.ec, op.total)
    /\ UNCHANGED <<peerVars, taken, pr>>

PostedBody ==
    /\ Dispatchable("post") /\ op.kind # "header"
    /\ pr' = Parse(msgs, pr).pr
    /\ Complete(Parse(msgs, pr).ec, op.total)
    /\ UNCHANGED <<peerVars, taken>>

--------------------------------------------------------------------------------

Caller == BeginMessage \/ AsyncReadHeader \/ AsyncReadSome \/ AsyncRead
Stream == StreamDelivers \/ StreamEnds \/ StreamFails
Dispatch == ReadFailed \/ ReadHeaderOp \/ ReadBodyOp \/ PostedHeader \/ PostedBody

Next == PeerSends \/ PeerEnds \/ Caller \/ Stream \/ OwnerCancels \/ Dispatch

Spec == Init /\ [][Next]_vars

(***************************************************************************)
(* The executor runs every queued handler and the operating system reports *)
(* every readable socket.  The peer and the caller owe nothing.            *)
(***************************************************************************)
Fairness == WF_vars(Stream) /\ WF_vars(Dispatch)

FairSpec == Spec /\ Fairness

\* As FairSpec, and no peer keeps the connection open forever
LeavingPeerSpec == FairSpec /\ WF_vars(PeerEnds)

--------------------------------------------------------------------------------
(* Properties. *)

TypeOK ==
    /\ msgs \in Layouts
    /\ sent \in Nat /\ taken \in Nat
    /\ ending \in {"open", "eof", "error"}
    /\ pr \in Parser
    /\ op \in {NoOp} \cup [kind : OpKinds, pc : {"read", "post"}, total : Nat]
    /\ cb \in {NoCompletion} \cup [ec : StreamCodes, n : Nat]
    /\ result \in {NoResult} \cup [kind : OpKinds, ec : ErrorCodes, n : Nat]
    /\ reported \in Nat

(***************************************************************************)
(* Every byte taken off the stream is in the parser, or in a completion    *)
(* that will hand it over: no suspension, stream error, end of file, retry *)
(* or message boundary loses one or commits one twice.                     *)
(***************************************************************************)
BytesConserved == pr.used + pr.buf + cb.n = taken

(***************************************************************************)
(* A handler that is told of success finds what it asked for:              *)
(* async_read_header leaves a parser with a header, so that the async_read *)
(* the caller starts from it does not throw; async_read leaves a complete  *)
(* message (BOOST_ASSERT at read.hpp:189).                                 *)
(***************************************************************************)
SuccessDelivers ==
    /\ result.kind = "header" /\ result.ec = "ok" => GotHeader(pr)
    /\ result.kind = "body" /\ result.ec = "ok" => IsComplete(pr)

(***************************************************************************)
(* prepare(), commit() and parse() are called only while the parser takes  *)
(* input: whenever an operation is suspended on the stream, the parser is  *)
(* in the stage that operation reads.  A parser asked in any other stage   *)
(* throws out of a completion handler.                                     *)
(***************************************************************************)
SuspendedInStage ==
    op.pc = "read" => pr.st = (IF op.kind = "header" THEN "header" ELSE "body")

(***************************************************************************)
(* An operation waits for the stream only while the parser lacks what it   *)
(* was called for: a body, and a header once the operation has read, is    *)
(* parsed as soon as its last byte is in, in whatever pieces it comes and  *)
(* after whatever was cancelled.  Bytes that came with an error stay       *)
(* unparsed, and a header may be there before the first read (read.hpp:72).*)
(***************************************************************************)
Lacking ==
    IF op.kind = "header" THEN op.total > 0 => ~HeaderBuffered(msgs, pr)
    ELSE msgs[pr.msg].kind = "until_eof" \/ pr.buf < msgs[pr.msg].body

WaitsForMissing == op.pc = "read" /\ ending # "error" => Lacking

(***************************************************************************)
(* Each round of the loops takes bytes: the executor is never kept busy by *)
(* an operation that reads again after it got nothing.  The end of the     *)
(* stream, above all, ends the operation that meets it, whatever it still  *)
(* lacks; had the parser not been told of it, or had the error not been    *)
(* cleared, the loops would read forever.                                  *)
(***************************************************************************)
RoundsProgress == [][Dispatch /\ op'.pc = "read" => op'.total > op.total]_vars

(***************************************************************************)
(* The operations implement Reader, what read.hpp promises to a caller who *)
(* sees neither the coroutines nor the parser's buffer: no handler runs    *)
(* inside the initiating function (test/read.cpp:56), async_read_some      *)
(* takes from the stream once, the message moves only when an operation    *)
(* returns, and no handler is told of eof or need_more_input.              *)
(***************************************************************************)
Promised == INSTANCE Reader WITH stage <- pr.st, kind <- op.kind, taken <- taken,
                                 told <- reported, answer <- result

ImplementsReader == Promised!Spec

(***************************************************************************)
(* When the rest of a header arrives while async_read_header is suspended, *)
(* the operation completes, even if the peer then falls silent.            *)
(***************************************************************************)
HeaderComing ==
    /\ op.kind = "header" /\ op.pc = "read"
    /\ Available > 0
    /\ pr.msg \in 1..Len(msgs) /\ pr.buf + Available >= msgs[pr.msg].hdr
HeaderDeliveredOnArrival == HeaderComing ~> Idle

(***************************************************************************)
(* When a sized body is on the wire, async_read completes without the peer *)
(* closing the connection or sending more.                                 *)
(***************************************************************************)
BodyComing ==
    /\ op.kind = "body" /\ op.pc = "read"
    /\ msgs[pr.msg].kind # "until_eof"
    /\ pr.buf + Available >= msgs[pr.msg].body
BodyDelivered == BodyComing ~> Idle

(***************************************************************************)
(* When the peer eventually leaves, every operation comes to an end.       *)
(***************************************************************************)
OperationEnds == ~Idle ~> Idle

(***************************************************************************)
(* read.hpp:24, "Read a complete header from the stream": once the stream  *)
(* has delivered a complete header, async_read_header completes.           *)
(***************************************************************************)
HeaderComplete ==
    /\ op.kind = "header" /\ op.pc = "read"
    /\ HeaderBuffered(msgs, pr)
BufferedHeaderDelivered == HeaderComplete ~> Idle
================================================================================
