------------------------------- MODULE WriteOps -------------------------------
(***************************************************************************)
(* include/boost/http_io/impl/write.hpp: async_write_some and async_write, *)
(* composed operations over a serializer and an asio stream.               *)
(*                                                                         *)
(* async_write runs one async_write_some after another: write_some_op's    *)
(* handler is the suspended write_op, and the completion of the one, the   *)
(* test of the other and the initiation of the next async_write_some are   *)
(* all one dispatch.  The stream takes as many bytes as it likes of those  *)
(* prepared, and may report bytes along with an error.                     *)
(***************************************************************************)
EXTENDS HttpSerializer, Sequences

CONSTANTS
    Sizes,      \* the sizes a message may have
    MaxWrite,   \* the most bytes one async_write_some of the stream transfers
    MaxBytes    \* bound: the bytes of all messages of the connection

ASSUME SizesAssumption == Sizes \subseteq Nat \ {0}
ASSUME MaxWriteAssumption == MaxWrite \in Nat \ {0}
ASSUME MaxBytesAssumption == MaxBytes \in Nat

VARIABLES
    sr,         \* the serializer
    wire,       \* history: the numbers of the bytes given to the peer, in order
    op,         \* the running operation: write_some_op, alone or under write_op
    window,     \* the buffers it prepared and gave to the stream
    cb,         \* a completion, queued on the executor and not yet dispatched
    result,     \* what the last operation passed to the caller's handler
    reported    \* history: the sum of bytes_transferred over all handlers

vars == <<sr, wire, op, window, cb, result, reported>>

StreamErrors == {"net_error", "operation_aborted"}
ErrorCodes == {"ok"} \cup StreamErrors \cup PrepareErrors

NoOp == [kind |-> "none", pc |-> "idle", total |-> 0]
NoWindow == [from |-> 0, len |-> 0]
NoCompletion == [ec |-> "none", n |-> 0]
NoResult == [kind |-> "none", ec |-> "none", n |-> 0]

Idle == op.pc = "idle"
Waiting == op.pc = "write" /\ cb = NoCompletion
Dispatchable(pc) == op.pc = pc /\ cb # NoCompletion

Init ==
    /\ sr = ResetSerializer
    /\ wire = <<>>
    /\ op = NoOp /\ window = NoWindow /\ cb = NoCompletion
    /\ result = NoResult /\ reported = 0

--------------------------------------------------------------------------------
(* The caller and its body source, between operations. *)

BeginMessage ==
    /\ Idle /\ IsDone(sr)
    /\ \E n \in Sizes : \E r \in 0..n :
         /\ sr.out + n <= MaxBytes
         /\ sr' = StartSerializer(sr, n, r)
    /\ result' = NoResult
    /\ UNCHANGED <<wire, op, window, cb, reported>>

SourceProduces ==
    /\ Idle /\ sr.source = "good"
    /\ \E r \in 1..(sr.end - sr.ready) : sr' = Produce(sr, r)
    /\ UNCHANGED <<wire, op, window, cb, result, reported>>

SourceBreaks ==
    /\ Idle /\ sr.source = "good" /\ sr.ready < sr.end
    /\ sr' = Break(sr)
    /\ UNCHANGED <<wire, op, window, cb, result, reported>>

--------------------------------------------------------------------------------
(* write_some_op up to its yield, for the operation kind, n_ being total. *)

Suspend(kind, total, s) ==
    LET rv == Prepare(s) IN
    IF rv.ec = "ok"
    THEN /\ op' = [kind |-> kind, pc |-> "write", total |-> total]
         /\ window' = [from |-> rv.from, len |-> rv.len]
         /\ cb' = NoCompletion
    ELSE \* post, so that the handler is not invoked from the initiating function
         /\ op' = [kind |-> kind, pc |-> "post", total |-> total]
         /\ window' = NoWindow
         /\ cb' = [ec |-> rv.ec, n |-> 0]

\* Variant: do_post is false when the operation is initiated
InitiateImmediate(kind) ==
    /\ Idle /\ ~IsDone(sr)
    /\ IF Prepare(sr).ec = "ok"
       THEN Suspend(kind, 0, sr) /\ result' = NoResult
       ELSE /\ result' = [kind |-> kind, ec |-> Prepare(sr).ec, n |-> 0]
            /\ UNCHANGED <<op, window, cb>>
    /\ UNCHANGED <<sr, wire, reported>>

Initiate(kind) ==
    /\ Idle /\ ~IsDone(sr)
    /\ Suspend(kind, 0, sr)
    /\ result' = NoResult
    /\ UNCHANGED <<sr, wire, reported>>

AsyncWriteSome == Initiate("some")

AsyncWrite == Initiate("write")

--------------------------------------------------------------------------------
(* The stream. *)

Completes(ec, n) ==
    /\ Waiting
    /\ cb' = [ec |-> ec, n |-> n]
    /\ wire' = wire \o [k \in 1..n |-> window.from + k]
    /\ UNCHANGED <<sr, op, window, result, reported>>

Transferable == {n \in 1..MaxWrite : n <= window.len}

StreamWrites == \E n \in Transferable : Completes("ok", n)

StreamFails == \E n \in Transferable \cup {0} : Completes("net_error", n)

\* stream.cancel() finds part of the buffers already with the peer
OwnerCancels == \E n \in Transferable \cup {0} : Completes("operation_aborted", n)

--------------------------------------------------------------------------------
(* The coroutines, resumed with (ec, bytes_transferred). *)

Complete(ec, total) ==
    /\ op' = NoOp /\ window' = NoWindow /\ cb' = NoCompletion
    /\ result' = [kind |-> op.kind, ec |-> ec, n |-> total]
    /\ reported' = reported + total

Total == op.total + cb.n

\* Variants: consume() on success only; consume() of n_
ConsumedOnSuccess == IF cb.ec = "ok" THEN ConsumeOut(sr, cb.n) ELSE sr

ConsumedTotal == ConsumeOut(sr, Total)

Consumed == ConsumeOut(sr, cb.n)

\* Variants: the loop goes on after a failure; it ends when the bytes that are
\* there are written
LoopIgnoringErrors(ec, s) == op.kind = "write" /\ ~IsDone(s)

LoopWhileReady(ec, s) == op.kind = "write" /\ ec = "ok" /\ s.out < s.ready

\* write_op's loop; write_some_op alone has none
GoesOn(ec, s) == op.kind = "write" /\ ec = "ok" /\ ~IsDone(s)

ResumeOp(s) ==
    /\ sr' = s
    /\ IF GoesOn(cb.ec, s)
       THEN Suspend(op.kind, Total, s) /\ UNCHANGED <<result, reported>>
       ELSE Complete(cb.ec, Total)
    /\ UNCHANGED wire

Written == Dispatchable("write") /\ ResumeOp(Consumed)

Posted == Dispatchable("post") /\ ResumeOp(sr)

--------------------------------------------------------------------------------

Caller == BeginMessage \/ AsyncWriteSome \/ AsyncWrite
Source == SourceProduces \/ SourceBreaks
Stream == StreamWrites \/ StreamFails
Dispatch == Written \/ Posted

Next == Caller \/ Source \/ Stream \/ OwnerCancels \/ Dispatch

Spec == Init /\ [][Next]_vars

(***************************************************************************)
(* The executor runs every queued handler, and the peer reads: the stream  *)
(* takes bytes or fails.  The caller and its source owe nothing.           *)
(***************************************************************************)
FairSpec == Spec /\ WF_vars(Stream) /\ WF_vars(Dispatch)

--------------------------------------------------------------------------------
(* Properties. *)

TypeOK ==
    /\ sr \in Serializer /\ sr.out <= sr.ready /\ sr.ready <= sr.end
    /\ wire \in Seq(Nat)
    /\ op \in {NoOp} \cup [kind : {"some", "write"}, pc : {"write", "post"}, total : Nat]
    /\ window \in [from : Nat, len : Nat]
    /\ cb \in {NoCompletion} \cup [ec : ErrorCodes, n : Nat]
    /\ result \in {NoResult} \cup [kind : {"some", "write"}, ec : ErrorCodes, n : Nat]
    /\ reported \in Nat

(***************************************************************************)
(* The peer receives every byte once and in order.  Partial writes,        *)
(* errors that come with bytes, cancellation, a source that runs dry and   *)
(* a caller that tries again neither skip a byte nor send one twice.       *)
(***************************************************************************)
WireInOrder == \A i \in 1..Len(wire) : wire[i] = i

(***************************************************************************)
(* async_write reports success only when the peer was given the whole      *)
(* message.                                                                *)
(***************************************************************************)
SuccessIsWhole ==
    result.kind = "write" /\ result.ec = "ok" => Len(wire) = sr.end

(***************************************************************************)
(* Each round of write_op's loop gives the peer bytes: it does not call    *)
(* prepare() again, nor wait again, after a transfer or an error that left *)
(* the serializer where it was, which would keep the executor busy.        *)
(***************************************************************************)
RoundsProgress == [][Dispatch /\ op'.pc # "idle" => sr'.out > sr.out]_vars

(***************************************************************************)
(* The operations implement Writer, what write.hpp promises to a caller    *)
(* and a peer who see neither the coroutines nor the buffers: no handler   *)
(* runs inside the initiating function, even when prepare() fails at once  *)
(* (write.hpp:68, do_post), async_write_some writes once, and an operation *)
(* that ends with an error, of the stream or of the source, has told of    *)
(* all it sent, so that the next one goes on from there.                   *)
(***************************************************************************)
Promised == INSTANCE Writer WITH wire <- wire, end <- sr.end, kind <- op.kind,
                                 told <- reported, answer <- result

ImplementsWriter == Promised!Spec

(***************************************************************************)
(* Every operation comes to an end, as long as the peer reads.             *)
(***************************************************************************)
OperationEnds == ~Idle ~> Idle
================================================================================
