------------------------------ MODULE WriterProofs ------------------------------
(***************************************************************************)
(* The write operations implement Writer, for every set of message sizes,  *)
(* every transfer size and every number of bytes.                          *)
(***************************************************************************)
EXTENDS WriteOpsProofs

(***************************************************************************)
(* What Writer needs beyond IInv: async_write_some has sent nothing before *)
(* the one write it waits for, a write that succeeds sends something, and  *)
(* the source's errors come only where nothing was written.                *)
(***************************************************************************)
SendsOnce ==
    /\ op.kind = "some" => op.total = 0
    /\ cb.ec = "ok" => cb.n > 0
    /\ cb.ec \in PrepareErrors => op.pc = "post"

\* Preparing buffers queues no success, and adds nothing to the total.
LEMMA SuspendSendsOnce ==
    ASSUME NEW kind, NEW total, NEW s, Suspend(kind, total, s),
           kind = "some" => total = 0
    PROVE  SendsOnce'
BY DEF SendsOnce, Suspend, Prepare, NothingPrepared, NoCompletion, PrepareErrors

\* No step of the write operations makes async_write_some write twice.
LEMMA SendingOnce == Spec => []SendsOnce
<1>1. Init => SendsOnce
  BY DEF Init, SendsOnce, NoOp, NoCompletion, PrepareErrors
<1>2. SendsOnce /\ [Next]_vars => SendsOnce'
  <2> SUFFICES ASSUME SendsOnce, [Next]_vars PROVE SendsOnce'
    OBVIOUS
  <2>1. CASE UNCHANGED <<op, cb>>
    BY <2>1 DEF SendsOnce
  <2>2. CASE AsyncWriteSome \/ AsyncWrite
    BY <2>2, SuspendSendsOnce DEF AsyncWriteSome, AsyncWrite, Initiate
  <2>3. CASE Stream \/ OwnerCancels
    <3>1. PICK ec \in StreamErrors \cup {"ok"}, n \in Transferable \cup {0} :
               Completes(ec, n) /\ (ec = "ok" => n \in Transferable)
      BY <2>3 DEF Stream, StreamWrites, StreamFails, OwnerCancels, StreamErrors
    <3>2. ec = "ok" => n > 0
      BY <3>1, MaxWriteAssumption DEF Transferable
    <3> QED
      BY <3>1, <3>2 DEF Completes, Waiting, SendsOnce, StreamErrors, PrepareErrors
  <2>4. CASE Dispatch
    <3>1. PICK s : ResumeOp(s)
      BY <2>4 DEF Dispatch, Written, Posted
    <3>2. CASE GoesOn(cb.ec, s)
      BY <3>1, <3>2, SuspendSendsOnce DEF ResumeOp, GoesOn
    <3>3. CASE ~GoesOn(cb.ec, s)
      BY <3>1, <3>3 DEF ResumeOp, Complete, SendsOnce, NoOp, NoCompletion, PrepareErrors
    <3> QED
      BY <3>2, <3>3
  <2> QED
    BY <2>1, <2>2, <2>3, <2>4
       DEF Next, vars, Caller, BeginMessage, Source, SourceProduces, SourceBreaks
<1> QED
  BY <1>1, <1>2, PTL DEF Spec

--------------------------------------------------------------------------------
(* Each step of the operations is a step of Writer, or changes nothing     *)
(* that its caller or the peer sees.                                       *)

Seen == <<wire, sr.end, op.kind, reported, result>>

\* What the owner and the body source do between operations, and what the caller calls.
LEMMA OwnerRefines ==
    ASSUME IInv, Caller \/ Source
    PROVE  Promised!Next \/ UNCHANGED Seen
<1>1. op = NoOp /\ op.kind = "none" /\ Len(wire) = sr.out
  <2>1. op = NoOp
    BY StateFacts DEF Caller, BeginMessage, AsyncWriteSome, AsyncWrite, Initiate,
                      Source, SourceProduces, SourceBreaks
  <2> QED
    BY <2>1, StateFacts DEF IInv, Control, Position, NoOp, NoCompletion
<1>2. CASE BeginMessage
  <2>1. PICK n \in Sizes : \E r \in 0..n : sr' = StartSerializer(sr, n, r)
    BY <1>2 DEF BeginMessage
  <2>2. n \in Nat /\ n > 0 /\ sr'.end = sr.out + n /\ sr.out = sr.end
    BY <1>2, <2>1, SizesAssumption DEF BeginMessage, StartSerializer, IsDone
  <2>3. sr'.end \in Nat /\ sr'.end > sr.end
    BY <2>2, StateFacts
  <2>4. Promised!StartMessage
    BY <1>1, <1>2, <2>2, <2>3 DEF BeginMessage, NoResult, Promised!StartMessage, Promised!NoAnswer
  <2> QED
    BY <2>4 DEF Promised!Next
<1>3. ASSUME NEW k \in {"some", "write"}, Initiate(k)
      PROVE  Promised!Next
  <2>1. Len(wire) < sr.end
    BY <1>1, <1>3, StateFacts DEF Initiate, IsDone
  <2>2. /\ op'.kind = k /\ sr' = sr /\ result' = Promised!NoAnswer
        /\ UNCHANGED <<wire, reported>>
    BY <1>3 DEF Initiate, Suspend, NoResult, Promised!NoAnswer
  <2>3. Promised!Call(k)
    BY <1>1, <2>1, <2>2 DEF Promised!Call
  <2> QED
    BY <2>3 DEF Promised!Next, Promised!Kinds
<1>4. CASE Source
  <2>1. sr'.end = sr.end /\ UNCHANGED <<wire, op, reported, result>>
    BY <1>4, StateFacts DEF Source, SourceProduces, SourceBreaks, Produce, Break, Serializer
  <2> QED
    BY <2>1 DEF Seen
<1> QED
  BY <1>2, <1>3, <1>4 DEF Caller, AsyncWriteSome, AsyncWrite

\* The stream gives the peer the next bytes of the message, or none.
LEMMA StreamRefines ==
    ASSUME IInv, SendsOnce, Stream \/ OwnerCancels
    PROVE  Promised!Next \/ UNCHANGED Seen
<1>1. PICK ec \in ErrorCodes, n \in Transferable \cup {0} : Completes(ec, n)
  BY DEF Stream, StreamWrites, StreamFails, OwnerCancels, ErrorCodes, StreamErrors
<1>2. n \in Nat /\ n <= window.len
  BY MaxWriteAssumption, StateFacts DEF Transferable
<1>3. /\ op.pc = "write" /\ cb.n = 0
      /\ wire' = wire \o [k \in 1..n |-> window.from + k]
      /\ UNCHANGED <<sr, op, result, reported>>
  BY <1>1 DEF Completes, Waiting, NoCompletion
<1>4. /\ op.kind \in {"some", "write"}
      /\ window.from = Len(wire) /\ n <= sr.end - Len(wire)
      /\ op.kind = "some" => Len(wire) = reported
  BY <1>2, <1>3, StateFacts DEF Idle, SendsOnce, IInv, Position, Holding, BytesReported
<1>5. CASE n = 0
  <2>1. [k \in 1..n |-> window.from + k] = <<>>
    BY <1>5
  <2>2. wire' = wire
    BY <1>3, <2>1, StateFacts, ConcatEmptySeq
  <2> QED
    BY <1>3, <2>2 DEF Seen
<1>6. CASE n > 0
  <2>1. n \in 1..(sr.end - Len(wire))
    BY <1>2, <1>4, <1>6, StateFacts
  <2>2. wire' = wire \o [k \in 1..n |-> Len(wire) + k]
    BY <1>3, <1>4
  <2>3. Promised!SendBytes(n)
    BY <1>3, <1>4, <2>2 DEF Promised!SendBytes, Promised!Kinds
  <2> QED
    BY <2>1, <2>3 DEF Promised!Next
<1> QED
  BY <1>2, <1>5, <1>6

\* A dispatched coroutine returns to its caller, or goes on unseen.
LEMMA DispatchRefines ==
    ASSUME IInv, SendsOnce, Dispatch
    PROVE  Promised!Next \/ UNCHANGED Seen
<1>1. /\ op # NoOp /\ op.kind \in {"some", "write"} /\ cb.ec \in ErrorCodes
      /\ reported + Total = Len(wire) /\ Total \in Nat
  BY StateFacts DEF Dispatch, Written, Posted, Dispatchable, NoOp, Idle, Total, IInv, BytesReported
<1>2. PICK s \in Serializer : /\ ResumeOp(s) /\ s.end = sr.end /\ s.out = Len(wire)
  <2>1. CASE Written
    <3>1. Consumed \in Serializer /\ Consumed.end = sr.end /\ Consumed.out = Len(wire)
      BY StateFacts DEF Consumed, ConsumeOut, Serializer, IInv, Position
    <3>2. ResumeOp(Consumed)
      BY <2>1 DEF Written
    <3> QED
      BY <3>1, <3>2, Zenon
  <2>2. CASE Posted
    BY <2>2, StateFacts DEF Posted, Dispatchable, IInv, Control, Position
  <2> QED
    BY <2>1, <2>2 DEF Dispatch
<1>3. CASE GoesOn(cb.ec, s)
  BY <1>2, <1>3 DEF ResumeOp, Suspend, Seen, GoesOn
<1>4. CASE ~GoesOn(cb.ec, s)
  <2>1. /\ op'.kind = "none" /\ reported' = Len(wire)
        /\ sr'.end = sr.end /\ UNCHANGED wire
        /\ result' = [kind |-> op.kind, ec |-> cb.ec, n |-> Total]
    BY <1>1, <1>2, <1>4 DEF ResumeOp, Complete, NoOp
  <2>2. Total = Len(wire) - reported
    BY <1>1, StateFacts
  <2>3. cb.ec = "ok" => IF op.kind = "write" THEN Len(wire) = sr.end ELSE reported < Len(wire)
    <3>1. cb.ec = "ok" /\ op.kind = "write" => Len(wire) = sr.end
      BY <1>2, <1>4 DEF GoesOn, IsDone
    <3>2. cb.ec = "ok" => reported < Len(wire)
      BY <1>1, StateFacts DEF SendsOnce, Total
    <3> QED
      BY <3>1, <3>2
  <2>4. cb.ec \in PrepareErrors =>
          Len(wire) < sr.end /\ (op.kind = "some" => Len(wire) = reported)
    <3> SUFFICES ASSUME cb.ec \in PrepareErrors
                 PROVE  Len(wire) < sr.end /\ (op.kind = "some" => Len(wire) = reported)
      OBVIOUS
    <3>1. cb.n = 0
      BY DEF SendsOnce, IInv, Control
    <3>2. sr.out # sr.end
      BY <1>1, StateFacts DEF IInv, NeverPrepareDone, IsDone
    <3> QED
      BY <1>1, <3>1, <3>2, StateFacts DEF IInv, Position, SendsOnce, Total
  <2>5. Promised!Return(cb.ec)
    BY <1>1, <2>1, <2>2, <2>3, <2>4
       DEF Promised!Return, Promised!Kinds, Promised!SourceErrors, PrepareErrors
  <2> QED
    BY <1>1, <2>5 DEF Promised!Next, Promised!StreamErrors, Promised!SourceErrors,
                      ErrorCodes, StreamErrors, PrepareErrors
<1> QED
  BY <1>3, <1>4

(***************************************************************************)
(* The operations implement what write.hpp promises.                       *)
(***************************************************************************)
THEOREM WriteOpsImplementWriter == Spec => ImplementsWriter
<1>1. Init => Promised!Init
  BY DEF Init, ResetSerializer, NoOp, NoResult, Promised!Init, Promised!NoAnswer
<1>2. IInv /\ SendsOnce /\ [Next]_vars => [Promised!Next]_(Promised!vars)
  <2> SUFFICES ASSUME IInv, SendsOnce, [Next]_vars
               PROVE  Promised!Next \/ UNCHANGED Seen
    BY DEF Promised!vars, Seen
  <2>1. CASE UNCHANGED vars
    BY <2>1 DEF vars, Seen
  <2> QED
    BY <2>1, OwnerRefines, StreamRefines, DispatchRefines DEF Next
<1> QED
  BY <1>1, <1>2, WriteInvariant, SendingOnce, PTL
     DEF Spec, ImplementsWriter, Promised!Spec
================================================================================
