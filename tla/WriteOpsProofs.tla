---------------------------- MODULE WriteOpsProofs ----------------------------
(***************************************************************************)
(* Theorems about the write operations, for every set of message sizes,    *)
(* every transfer size and every number of bytes.                          *)
(***************************************************************************)
EXTENDS WriteOps, SequenceTheorems, TLAPS

(***************************************************************************)
(* The inductive invariant.  What was given to the peer is what was        *)
(* consumed and what a queued completion will have consumed; a suspended   *)
(* operation holds exactly the buffers that follow.                        *)
(***************************************************************************)
Position == Len(wire) = sr.out + cb.n

Holding ==
    op.pc = "write" => /\ window.from = sr.out
                       /\ window.len <= sr.ready - sr.out
                       /\ cb.n <= window.len

Control ==
    /\ op = NoOp => cb = NoCompletion
    /\ op.pc = "post" => cb.n = 0 /\ cb.ec \in PrepareErrors
    /\ op # NoOp => result = NoResult

(***************************************************************************)
(* The bytes_transferred of all completed operations, the running n_ and   *)
(* a queued transfer add up to what the peer was given.                    *)
(***************************************************************************)
BytesReported == reported + op.total + cb.n = Len(wire)

(***************************************************************************)
(* prepare() is called only while the message has bytes left: no operation *)
(* is ever suspended over a serializer that is done, which would have      *)
(* thrown out of a completion handler.                                     *)
(***************************************************************************)
NeverPrepareDone == ~Idle => ~IsDone(sr)

IInv ==
    /\ TypeOK /\ Control /\ Position /\ Holding
    /\ WireInOrder /\ BytesReported /\ SuccessIsWhole /\ NeverPrepareDone

\* The initial states satisfy the inductive invariant.
LEMMA IInvInit == Init => IInv
BY DEF Init, IInv, TypeOK, Control, Position, Holding, WireInOrder, BytesReported,
       SuccessIsWhole, NeverPrepareDone, ResetSerializer, Serializer, NoOp, NoWindow,
       NoCompletion, NoResult, Idle, IsDone

\* The parts of the type invariant that the step lemmas use, with the ranges of the counters.
LEMMA StateFacts ==
    ASSUME IInv
    PROVE  /\ sr \in Serializer /\ sr.out \in Nat /\ sr.ready \in Nat /\ sr.end \in Nat
           /\ sr.out <= sr.ready /\ sr.ready <= sr.end
           /\ wire \in Seq(Nat) /\ Len(wire) \in Nat /\ reported \in Nat
           /\ window.from \in Nat /\ window.len \in Nat
           /\ cb.n \in Nat /\ op.total \in Nat
           /\ Idle <=> op = NoOp
           /\ ~Idle => op \in [kind : {"some", "write"}, pc : {"write", "post"}, total : Nat]
           /\ cb # NoCompletion => cb.ec \in ErrorCodes
BY DEF IInv, TypeOK, Serializer, Idle, NoOp, NoCompletion

--------------------------------------------------------------------------------
(* Bytes move from the prepared buffers to the wire. *)

\* The stream completing its pending write keeps the inductive invariant.
LEMMA CompletesStep ==
    ASSUME IInv, NEW ec \in ErrorCodes, NEW n \in Nat, n <= window.len,
           Completes(ec, n)
    PROVE  IInv'
<1>1. /\ op.pc = "write" /\ cb = NoCompletion
      /\ cb' = [ec |-> ec, n |-> n]
      /\ wire' = wire \o [k \in 1..n |-> window.from + k]
      /\ UNCHANGED <<sr, op, window, result, reported>>
  BY DEF Completes, Waiting
<1>2. /\ op # NoOp /\ cb.n = 0 /\ cb'.n = n
      /\ window.from = sr.out /\ Len(wire) = sr.out
  BY <1>1, StateFacts DEF NoOp, NoCompletion, IInv, Holding, Position
<1> DEFINE chunk == [k \in 1..n |-> window.from + k]
<1>3. chunk \in Seq(Nat) /\ Len(chunk) = n
  BY StateFacts
<1>4. /\ wire' \in Seq(Nat) /\ Len(wire') = Len(wire) + n
      /\ \A i \in 1..(Len(wire) + n) :
            wire'[i] = IF i <= Len(wire) THEN wire[i] ELSE chunk[i - Len(wire)]
  <2> HIDE DEF chunk
  <2>1. wire' = wire \o chunk
    BY <1>1 DEF chunk
  <2>2. wire \in Seq(Nat)
    BY StateFacts
  <2>3. /\ wire \o chunk \in Seq(Nat)
        /\ Len(wire \o chunk) = Len(wire) + Len(chunk)
        /\ \A i \in 1..(Len(wire) + Len(chunk)) :
             (wire \o chunk)[i] = IF i <= Len(wire) THEN wire[i] ELSE chunk[i - Len(wire)]
    BY <1>3, <2>2, ConcatProperties, Zenon
  <2> QED
    BY <1>3, <2>1, <2>3, Zenon
<1>5. TypeOK'
  BY <1>1, <1>4 DEF IInv, TypeOK
<1>6. Control'
  BY <1>1, <1>2 DEF IInv, Control
<1>7. Position' /\ Holding'
  BY <1>1, <1>2, <1>4, StateFacts DEF IInv, Position, Holding
<1>8. WireInOrder'
  <2> SUFFICES ASSUME NEW i \in 1..Len(wire') PROVE wire'[i] = i
    BY DEF WireInOrder
  <2>0. /\ i \in Nat /\ 1 <= i /\ i <= Len(wire) + n /\ Len(wire) \in Nat
        /\ wire'[i] = IF i <= Len(wire) THEN wire[i] ELSE chunk[i - Len(wire)]
    <3> HIDE DEF chunk
    <3> QED
      BY <1>4, StateFacts
  <2>1. CASE i <= Len(wire)
    <3>1. i \in 1..Len(wire)
      BY <2>0, <2>1
    <3> QED
      BY <2>0, <2>1, <3>1 DEF IInv, WireInOrder
  <2>2. CASE i > Len(wire)
    <3>1. i - Len(wire) \in 1..n /\ wire'[i] = chunk[i - Len(wire)]
      BY <2>0, <2>2
    <3>2. chunk[i - Len(wire)] = window.from + (i - Len(wire))
      BY <3>1
    <3> HIDE DEF chunk
    <3> QED
      BY <1>2, <2>0, <3>1, <3>2, StateFacts
  <2> QED
    BY <2>0, <2>1, <2>2
<1>9. BytesReported'
  BY <1>1, <1>2, <1>4, StateFacts DEF IInv, BytesReported
<1>10. SuccessIsWhole' /\ NeverPrepareDone'
  BY <1>1, <1>2 DEF IInv, Control, SuccessIsWhole, NeverPrepareDone, NoResult, Idle, IsDone
<1> QED
  BY <1>5, <1>6, <1>7, <1>8, <1>9, <1>10 DEF IInv

\* Every step of the stream keeps the inductive invariant.
LEMMA StreamStep ==
    ASSUME IInv, Stream \/ OwnerCancels
    PROVE  IInv'
<1>1. \A n \in Transferable \cup {0} : n \in Nat /\ n <= window.len
  BY MaxWriteAssumption, StateFacts DEF Transferable
<1>2. PICK ec \in ErrorCodes, n \in Transferable \cup {0} : Completes(ec, n)
  BY DEF Stream, StreamWrites, StreamFails, OwnerCancels, ErrorCodes, StreamErrors
<1> QED
  BY <1>1, <1>2, CompletesStep

--------------------------------------------------------------------------------
(* Preparing buffers, when an operation is initiated and when it loops. *)

\* Suspending the operation over a message that is not done keeps the inductive invariant.
LEMMA SuspendStep ==
    ASSUME IInv, NEW kind \in {"some", "write"}, NEW total \in Nat, NEW s \in Serializer,
           s.out <= s.ready, s.ready <= s.end, ~IsDone(s),
           sr' = s, s.out = Len(wire),
           Suspend(kind, total, s), reported + total = Len(wire),
           result' = NoResult, UNCHANGED <<wire, reported>>
    PROVE  IInv'
<1>1. s.out \in Nat /\ s.ready \in Nat /\ s.end \in Nat
  BY DEF Serializer
<1>2. /\ op' \in [kind : {"some", "write"}, pc : {"write", "post"}, total : Nat]
      /\ op' # NoOp /\ op'.total = total
      /\ cb' \in {NoCompletion} \cup [ec : ErrorCodes, n : Nat] /\ cb'.n = 0
      /\ window' \in [from : Nat, len : Nat]
      /\ op'.pc = "write" => /\ window'.from = s.out
                             /\ window'.len = s.ready - s.out
      /\ op'.pc = "post" => cb'.ec \in PrepareErrors
  BY <1>1 DEF Suspend, Prepare, NothingPrepared, NoOp, NoWindow, NoCompletion,
              ErrorCodes, PrepareErrors
<1>3. TypeOK'
  BY <1>2 DEF IInv, TypeOK
<1>4. Control' /\ Position' /\ Holding'
  BY <1>1, <1>2 DEF Control, Position, Holding
<1>5. WireInOrder' /\ BytesReported'
  BY <1>2, StateFacts DEF IInv, WireInOrder, BytesReported
<1>6. SuccessIsWhole' /\ NeverPrepareDone'
  BY DEF SuccessIsWhole, NeverPrepareDone, NoResult, IsDone
<1> QED
  BY <1>3, <1>4, <1>5, <1>6 DEF IInv

\* Every step of the caller keeps the inductive invariant.
LEMMA CallerStep ==
    ASSUME IInv, Caller
    PROVE  IInv'
<1>1. op = NoOp /\ cb = NoCompletion /\ Len(wire) = sr.out /\ reported = Len(wire)
  <2>1. op = NoOp
    BY StateFacts DEF Caller, BeginMessage, AsyncWriteSome, AsyncWrite, Initiate
  <2> QED
    BY <2>1, StateFacts DEF IInv, Control, Position, BytesReported, NoOp, NoCompletion
<1>2. CASE BeginMessage
  <2>1. PICK n \in Sizes : \E r \in 0..n : sr' = StartSerializer(sr, n, r)
    BY <1>2 DEF BeginMessage
  <2>2. PICK r \in 0..n : sr' = StartSerializer(sr, n, r)
    BY <2>1
  <2>3. n \in Nat /\ r \in Nat /\ r <= n
    BY SizesAssumption
  <2>4. /\ sr' \in Serializer /\ sr'.out = sr.out
        /\ sr'.out <= sr'.ready /\ sr'.ready <= sr'.end
    BY <2>2, <2>3, StateFacts DEF StartSerializer, Serializer
  <2>5. UNCHANGED <<wire, op, window, cb, reported>> /\ result' = NoResult
    BY <1>2 DEF BeginMessage
  <2> QED
    BY <1>1, <2>4, <2>5
       DEF IInv, TypeOK, Control, Position, Holding, WireInOrder, BytesReported,
           SuccessIsWhole, NeverPrepareDone, Idle, NoOp, NoResult
<1>3. ASSUME NEW kind \in {"some", "write"}, Initiate(kind)
      PROVE  IInv'
  <2>1. Suspend(kind, 0, sr) /\ ~IsDone(sr) /\ result' = NoResult
        /\ UNCHANGED <<sr, wire, reported>>
    BY <1>3 DEF Initiate
  <2> QED
    BY <1>1, <2>1, StateFacts, SuspendStep
<1> QED
  BY <1>2, <1>3 DEF Caller, AsyncWriteSome, AsyncWrite

\* The body source producing bytes, or breaking, keeps the inductive invariant.
LEMMA SourceStep ==
    ASSUME IInv, Source
    PROVE  IInv'
<1>1. /\ op = NoOp
      /\ UNCHANGED <<wire, op, window, cb, result, reported>>
  BY StateFacts DEF Source, SourceProduces, SourceBreaks
<1>2. /\ sr' \in Serializer /\ sr'.out = sr.out /\ sr'.end = sr.end
      /\ sr'.out <= sr'.ready /\ sr'.ready <= sr'.end
  <2>1. CASE SourceProduces
    <3>1. PICK r \in 1..(sr.end - sr.ready) : sr' = Produce(sr, r)
      BY <2>1 DEF SourceProduces
    <3>2. sr.ready + r \in Nat /\ sr.out <= sr.ready + r /\ sr.ready + r <= sr.end
      BY StateFacts
    <3>3. /\ sr' \in Serializer /\ sr'.ready = sr.ready + r
          /\ sr'.out = sr.out /\ sr'.end = sr.end
      BY <3>1, <3>2, StateFacts DEF Produce, Serializer
    <3> QED
      BY <3>2, <3>3
  <2>2. CASE SourceBreaks
    BY <2>2, StateFacts DEF SourceBreaks, Break, Serializer
  <2> QED
    BY <1>1, <2>1, <2>2 DEF Source
<1> QED
  BY <1>1, <1>2
     DEF IInv, TypeOK, Control, Position, Holding, WireInOrder, BytesReported,
         SuccessIsWhole, NeverPrepareDone, Idle, NoOp

--------------------------------------------------------------------------------
(* The coroutines. *)

\* Resuming the operation with the result of a write keeps the inductive invariant.
LEMMA ResumeStep ==
    ASSUME IInv, op # NoOp, NEW s \in Serializer,
           s.out <= s.ready, s.ready <= s.end, s.end = sr.end,
           s.out = Len(wire), cb.ec \in ErrorCodes,
           ResumeOp(s)
    PROVE  IInv'
<1>1. /\ Total = op.total + cb.n /\ Total \in Nat /\ op.kind \in {"some", "write"}
      /\ reported + Total = Len(wire) /\ result = NoResult
  BY StateFacts DEF Total, IInv, BytesReported, Control
<1>2. CASE GoesOn(cb.ec, s)
  BY <1>1, <1>2, SuspendStep DEF ResumeOp, GoesOn
<1>3. CASE ~GoesOn(cb.ec, s)
  <2>1. /\ sr' = s /\ UNCHANGED wire
        /\ op' = NoOp /\ window' = NoWindow /\ cb' = NoCompletion
        /\ result' = [kind |-> op.kind, ec |-> cb.ec, n |-> Total]
        /\ reported' = reported + Total
    BY <1>3 DEF ResumeOp, Complete
  <2>2. TypeOK'
    BY <1>1, <2>1, StateFacts DEF IInv, TypeOK, NoWindow
  <2>3. Control' /\ Holding'
    BY <2>1 DEF Control, Holding, NoOp
  <2>4. Position' /\ WireInOrder' /\ BytesReported'
    BY <1>1, <2>1, StateFacts
       DEF IInv, Position, WireInOrder, BytesReported, NoOp, NoCompletion, Serializer
  <2>5. SuccessIsWhole' /\ NeverPrepareDone'
    BY <1>3, <2>1 DEF SuccessIsWhole, NeverPrepareDone, GoesOn, IsDone, Idle, NoOp
  <2> QED
    BY <2>2, <2>3, <2>4, <2>5 DEF IInv
<1> QED
  BY <1>2, <1>3

\* Every handler the execution context runs keeps the inductive invariant.
LEMMA DispatchStep ==
    ASSUME IInv, Dispatch
    PROVE  IInv'
<1>1. op # NoOp /\ cb.ec \in ErrorCodes
  BY StateFacts DEF Dispatch, Written, Posted, Dispatchable, NoOp
<1>2. CASE Written
  <2>1. cb.n <= sr.ready - sr.out /\ Len(wire) = sr.out + cb.n
    BY <1>2, StateFacts DEF Written, Dispatchable, IInv, Holding, Position
  <2>2. /\ Consumed \in Serializer /\ Consumed.out = sr.out + cb.n
        /\ Consumed.ready = sr.ready /\ Consumed.end = sr.end
    BY StateFacts DEF Consumed, ConsumeOut, Serializer
  <2>3. Consumed.out <= Consumed.ready /\ Consumed.ready <= Consumed.end
    BY <2>1, <2>2, StateFacts
  <2> HIDE DEF Consumed
  <2> QED
    BY <1>1, <1>2, <2>1, <2>2, <2>3, ResumeStep DEF Written
<1>3. CASE Posted
  <2>1. Len(wire) = sr.out
    BY <1>3, StateFacts DEF Posted, Dispatchable, IInv, Control, Position
  <2> QED
    BY <1>1, <1>3, <2>1, StateFacts, ResumeStep DEF Posted
<1> QED
  BY <1>2, <1>3 DEF Dispatch

\* A stuttering step keeps the inductive invariant.
LEMMA StutterStep ==
    ASSUME IInv, UNCHANGED vars
    PROVE  IInv'
BY DEF vars, IInv, TypeOK, Control, Position, Holding, WireInOrder, BytesReported,
       SuccessIsWhole, NeverPrepareDone, Idle, IsDone

--------------------------------------------------------------------------------
(***************************************************************************)
(* The serializer, the stream and the operations stay consistent: IInv is  *)
(* an invariant of the write operations.                                   *)
(***************************************************************************)
THEOREM WriteInvariant == Spec => []IInv
<1>1. Init => IInv
  BY IInvInit
<1>2. IInv /\ [Next]_vars => IInv'
  BY CallerStep, SourceStep, StreamStep, DispatchStep, StutterStep DEF Next
<1> QED
  BY <1>1, <1>2, PTL DEF Spec

(***************************************************************************)
(* Every variable of the write operations keeps its type.                  *)
(***************************************************************************)
THEOREM WriteTypes == Spec => []TypeOK
<1>1. IInv => TypeOK
  BY DEF IInv
<1> QED
  BY <1>1, WriteInvariant, PTL

(***************************************************************************)
(* Every byte is sent once and in order, over partial writes, failures and *)
(* retries: consume() is told what the stream took, whatever the error     *)
(* (write.hpp:95).                                                         *)
(***************************************************************************)
THEOREM WireIsInOrder == Spec => []WireInOrder
<1>1. IInv => WireInOrder
  BY DEF IInv
<1> QED
  BY <1>1, WriteInvariant, PTL

(***************************************************************************)
(* The handlers are told of every byte once (write.hpp:98, 142).           *)
(***************************************************************************)
THEOREM BytesAreReported == Spec => []BytesReported
<1>1. IInv => BytesReported
  BY DEF IInv
<1> QED
  BY <1>1, WriteInvariant, PTL

(***************************************************************************)
(* async_write succeeds only with the whole message sent (write.hpp:146).  *)
(***************************************************************************)
THEOREM SuccessSendsAll == Spec => []SuccessIsWhole
<1>1. IInv => SuccessIsWhole
  BY DEF IInv
<1> QED
  BY <1>1, WriteInvariant, PTL

(***************************************************************************)
(* prepare() is never called on a serializer that is done.                 *)
(***************************************************************************)
THEOREM PreparesOnlyUnfinished == Spec => []NeverPrepareDone
<1>1. IInv => NeverPrepareDone
  BY DEF IInv
<1> QED
  BY <1>1, WriteInvariant, PTL

--------------------------------------------------------------------------------
(* The loop of write_op comes to an end. *)

\* A transfer without an error has moved bytes
Transfers == op.pc = "write" /\ cb.ec = "ok" => cb.n > 0

\* Suspending an operation queues no transfer.
LEMMA SuspendQueues ==
    ASSUME NEW kind, NEW total, NEW s, Suspend(kind, total, s)
    PROVE  Transfers'
BY DEF Suspend, Transfers, NoCompletion

\* Every step keeps Transfers, as the stream is asked for at least one byte.
LEMMA TransfersStep ==
    ASSUME IInv, Transfers, [Next]_vars
    PROVE  Transfers'
<1>1. CASE BeginMessage \/ Source \/ UNCHANGED vars
  BY <1>1 DEF BeginMessage, Source, SourceProduces, SourceBreaks, vars, Transfers
<1>2. CASE AsyncWriteSome \/ AsyncWrite
  BY <1>2, SuspendQueues DEF AsyncWriteSome, AsyncWrite, Initiate
<1>3. CASE StreamWrites
  <2>1. PICK n \in Transferable : Completes("ok", n)
    BY <1>3 DEF StreamWrites
  <2>2. n > 0 /\ cb'.n = n
    BY <2>1, MaxWriteAssumption DEF Transferable, Completes
  <2> QED
    BY <2>2 DEF Transfers
<1>4. CASE StreamFails \/ OwnerCancels
  BY <1>4 DEF StreamFails, OwnerCancels, Completes, Transfers
<1>5. CASE Dispatch
  <2>1. PICK s : ResumeOp(s)
    BY <1>5 DEF Dispatch, Written, Posted
  <2>2. CASE GoesOn(cb.ec, s)
    BY <2>1, <2>2, SuspendQueues DEF ResumeOp
  <2>3. CASE ~GoesOn(cb.ec, s)
    BY <2>1, <2>3 DEF ResumeOp, Complete, NoOp, Transfers
  <2> QED
    BY <2>2, <2>3
<1> QED
  BY <1>1, <1>2, <1>3, <1>4, <1>5 DEF Next, Caller, Stream

(***************************************************************************)
(* write_op goes round its loop only after a write that gave the peer      *)
(* bytes (write.hpp:128-147), so that an operation on a message of n bytes *)
(* is over after n writes at the most.                                     *)
(***************************************************************************)
THEOREM LoopProgresses == Spec => RoundsProgress
<1>1. Init => Transfers
  BY DEF Init, NoOp, Transfers
<1>2. IInv /\ Transfers /\ [Next]_vars => [Dispatch /\ op'.pc # "idle" => sr'.out > sr.out]_vars
  <2> SUFFICES ASSUME IInv, Transfers, Dispatch, op'.pc # "idle" PROVE sr'.out > sr.out
    OBVIOUS
  <2>1. \A s : ResumeOp(s) => GoesOn(cb.ec, s) /\ sr' = s
    BY DEF ResumeOp, Complete, NoOp
  <2>2. cb.ec = "ok"
    BY <2>1 DEF Dispatch, Written, Posted, GoesOn
  <2>3. Written
    BY <2>2 DEF Dispatch, Posted, Dispatchable, IInv, Control, PrepareErrors
  <2>4. cb.n > 0 /\ sr' = Consumed
    BY <2>1, <2>2, <2>3 DEF Written, Dispatchable, Transfers
  <2>5. Consumed.out = sr.out + cb.n
    BY StateFacts DEF Consumed, ConsumeOut, Serializer
  <2> QED
    BY <2>4, <2>5, StateFacts
<1> QED
  BY <1>1, <1>2, TransfersStep, WriteInvariant, PTL DEF Spec, RoundsProgress
================================================================================
