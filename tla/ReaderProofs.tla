------------------------------ MODULE ReaderProofs ------------------------------
(***************************************************************************)
(* The read operations implement Reader, for every set of layouts, every   *)
(* transfer size and every number of bytes.                                *)
(***************************************************************************)
EXTENDS ReadOpsProofs

\* async_read_some has transferred nothing before the one read it waits for
SomeIsFresh == op.kind = "some" => op.total = 0

\* A read of async_read_some is never followed by another one.
LEMMA SomeStaysFresh == Spec => []SomeIsFresh
<1>1. Init => SomeIsFresh
  BY DEF Init, SomeIsFresh, NoOp
<1>2. SomeIsFresh /\ [Next]_vars => SomeIsFresh'
  <2> SUFFICES ASSUME SomeIsFresh, [Next]_vars PROVE SomeIsFresh'
    OBVIOUS
  <2>1. CASE UNCHANGED op
    BY <2>1 DEF SomeIsFresh
  <2>2. CASE Caller
    BY <2>2 DEF SomeIsFresh, Caller, BeginMessage, AsyncReadHeader, AsyncReadSome, AsyncRead,
                AsyncReadBody, InitiateBody, ThrowLogicError, Post, ReadSome
  <2>3. CASE Dispatch
    BY <2>3 DEF SomeIsFresh, Dispatch, ReadFailed, ReadHeaderOp, ReadBodyOp, Resumed, PostedHeader,
                PostedBody, BodyOutcome, Complete, Continue, ReadSome, NoOp
  <2> QED
    BY <2>1, <2>2, <2>3
       DEF Next, vars, PeerSends, PeerEnds, Stream, StreamDelivers, StreamEnds, StreamFails,
           OwnerCancels, Completes
<1> QED
  BY <1>1, <1>2, PTL DEF Spec

--------------------------------------------------------------------------------
(* Each step of the operations is a step of Reader, or changes nothing its *)
(* caller sees.                                                            *)

Seen == <<pr.st, op.kind, taken, reported, result>>

\* The peer is invisible, and the stream completing a read takes bytes, or none.
LEMMA StreamRefines ==
    ASSUME IInv, SomeIsFresh, PeerSends \/ PeerEnds \/ Stream \/ OwnerCancels
    PROVE  Promised!TakeBytes \/ UNCHANGED Seen
<1>1. CASE PeerSends \/ PeerEnds
  BY <1>1 DEF PeerSends, PeerEnds, Seen
<1>2. CASE Stream \/ OwnerCancels
  <2>1. Transferable \subseteq Nat
    BY MaxReadAssumption DEF Transferable
  <2>2. PICK ec \in StreamCodes, n \in Nat : Completes(ec, n)
    BY <1>2, <2>1 DEF Stream, StreamDelivers, StreamEnds, StreamFails, OwnerCancels,
                      StreamCodes, StreamErrors
  <2>3. /\ op.pc = "read" /\ cb.n = 0 /\ taken' = taken + n
        /\ UNCHANGED <<pr, op, result, reported>>
    BY <2>2 DEF Completes, Waiting, NoCompletion
  <2>4. /\ op.kind \in OpKinds
        /\ pr.st = (IF op.kind = "header" THEN "header" ELSE "body")
    BY <2>3, StateFacts DEF Idle, IInv, SuspendedInStage
  <2>5. op.kind = "some" => taken = reported
    BY <2>3, StateFacts DEF SomeIsFresh, IInv, Bytes, BytesReported
  <2>6. CASE n = 0
    BY <2>3, <2>6, StateFacts DEF Seen
  <2>7. CASE n > 0
    <3>1. taken' \in Nat /\ taken' > taken
      BY <2>3, <2>7, StateFacts
    <3> QED
      BY <2>3, <2>4, <2>5, <3>1 DEF Promised!TakeBytes, Promised!Kinds, OpKinds
  <2> QED
    BY <2>6, <2>7
<1> QED
  BY <1>1, <1>2

\* What the caller may call, it may call of Reader, and is told nothing in the call.
LEMMA CallerRefines ==
    ASSUME IInv, Caller
    PROVE  Promised!Next
<1>1. op.kind = "none"
  <2>1. op = NoOp
    BY StateFacts DEF Caller, BeginMessage, AsyncReadHeader, AsyncReadSome, AsyncRead, AsyncReadBody
  <2> QED
    BY <2>1 DEF NoOp
<1>2. CASE BeginMessage
  <2>1. Promised!StartMessage
    BY <1>1, <1>2 DEF BeginMessage, CanStart, StartMessage, peerVars, NoResult,
                      Promised!StartMessage, Promised!NoAnswer
  <2> QED
    BY <2>1 DEF Promised!Next
<1>3. CASE AsyncReadHeader
  <2>1. Promised!Call("header")
    BY <1>1, <1>3 DEF AsyncReadHeader, CanRead, IsComplete, Post, ReadSome, peerVars, NoResult,
                      Promised!Call, Promised!NoAnswer, Promised!HasHeader
  <2> QED
    BY <2>1 DEF Promised!Next, Promised!Kinds
<1>4. ASSUME NEW k \in {"some", "body"}, AsyncReadBody(k)
      PROVE  Promised!Next
  <2>1. CASE GotHeader(pr)
    <3>1. Promised!Call(k)
      BY <1>1, <1>4, <2>1
         DEF AsyncReadBody, InitiateBody, GotHeader, Post, ReadSome, peerVars, NoResult,
             Promised!Call, Promised!NoAnswer, Promised!HasHeader
    <3> QED
      BY <3>1 DEF Promised!Next, Promised!Kinds
  <2>2. CASE ~GotHeader(pr)
    <3>1. Promised!Refuse(k)
      BY <1>1, <1>4, <2>2
         DEF AsyncReadBody, ThrowLogicError, GotHeader, CanRead, IsComplete, peerVars,
             Promised!Refuse
    <3> QED
      BY <3>1 DEF Promised!Next, Promised!Kinds
  <2> QED
    BY <2>1, <2>2
<1> QED
  BY <1>2, <1>3, <1>4 DEF Caller, AsyncReadSome, AsyncRead

\* An operation that completes returns, with what Reader lets it return.
LEMMA CompleteRefines ==
    ASSUME IInv, op # NoOp, NEW ec, Complete(ec, Total), taken' = taken,
           \/ ec = "ok" /\ pr'.st \in Promised!Reached(op.kind, pr.st)
           \/ ec \in ParseErrors /\ pr'.st = "failed" /\ CanRead(pr)
           \/ ec \in StreamErrors /\ pr'.st = pr.st /\ CanRead(pr)
    PROVE  Promised!Next
<1>1. /\ op.kind \in OpKinds /\ op.total \in Nat /\ cb.n \in Nat
      /\ reported \in Nat /\ taken \in Nat
      /\ reported + op.total + cb.n = taken
  BY StateFacts DEF Idle, IInv, Bytes, BytesReported
<1>2. Total = taken - reported /\ reported + Total = taken
  BY <1>1 DEF Total
<1>3. /\ op'.kind = "none" /\ reported' = taken
      /\ result' = [kind |-> op.kind, ec |-> ec, n |-> taken - reported]
  BY <1>2 DEF Complete, NoOp
<1>4. Promised!Return(ec, pr'.st)
  BY <1>1, <1>3 DEF Promised!Return, Promised!Kinds, Promised!ParseErrors, Promised!StreamErrors,
                    OpKinds, ParseErrors, StreamErrors, CanRead
<1>5. /\ ec \in {"ok"} \cup Promised!ParseErrors \cup Promised!StreamErrors
      /\ pr'.st \in {"header", "body", "complete", "failed"}
  BY DEF Promised!ParseErrors, Promised!StreamErrors, ParseErrors, StreamErrors,
         Promised!Reached, CanRead
<1> QED
  BY <1>4, <1>5 DEF Promised!Next

\* A dispatched coroutine returns to its caller, or goes on unseen.
LEMMA DispatchRefines ==
    ASSUME IInv, Dispatch
    PROVE  Promised!Next \/ UNCHANGED Seen
<1>1. op # NoOp /\ op.kind \in OpKinds
  <2>1. op # NoOp
    BY DEF Dispatch, ReadFailed, ReadHeaderOp, ReadBodyOp, Resumed, PostedHeader, PostedBody,
           Dispatchable, NoOp
  <2> QED
    BY <2>1, StateFacts DEF Idle
<1>2. CASE ReadFailed
  <2>1. Complete(cb.ec, Total) /\ cb.ec \in StreamErrors /\ taken' = taken
        /\ pr'.st = pr.st /\ CanRead(pr)
    BY <1>2, FedFacts DEF ReadFailed, CanRead
  <2> QED
    BY <1>1, <2>1, CompleteRefines
<1>3. ASSUME Dispatchable("read"), pr' = Parsed.pr, taken' = taken,
             NEW ec \in {"ok"} \cup ParseErrors, Complete(ec, Total),
             \/ ec = Parsed.ec
             \/ /\ ec = "ok" /\ Parsed.ec = "need_more_input"
                /\ op.kind = "header" /\ GotHeader(Parsed.pr)
             \/ /\ ec = "ok" /\ Parsed.ec = "need_more_input"
                /\ op.kind = "some"
      PROVE  Promised!Next
  <2>1. CanRead(pr) /\ pr.st = (IF op.kind = "header" THEN "header" ELSE "body")
    BY <1>3, FedFacts DEF CanRead
  <2>2. ec \in ParseErrors => pr'.st = "failed"
    BY <1>3, ParsedFacts DEF ParseErrors
  <2>3. ec \notin ParseErrors => ec = "ok" /\ pr'.st \in Promised!Reached(op.kind, pr.st)
    BY <1>1, <1>3, <2>1, ParsedFacts
       DEF Promised!Reached, OpKinds, ParseErrors, ParseCodes, IsComplete, GotHeader
  <2> QED
    BY <1>1, <1>3, <2>1, <2>2, <2>3, CompleteRefines
<1>4. CASE ReadHeaderOp
  <2>1. Dispatchable("read") /\ pr' = Parsed.pr /\ op.kind = "header" /\ taken' = taken
    BY <1>4 DEF ReadHeaderOp, Resumed
  <2>2. CASE HeaderOutcome = "need_more_input"
    <3>1. pr'.st = pr.st /\ op'.kind = op.kind /\ UNCHANGED <<result, reported>>
      BY <1>4, <2>1, <2>2, ParsedFacts, FedFacts
         DEF ReadHeaderOp, Continue, ReadSome, HeaderOutcome, GotHeader
    <3> QED
      BY <2>1, <3>1 DEF Seen
  <2>3. CASE HeaderOutcome # "need_more_input"
    <3>1. Complete(HeaderOutcome, Total) /\ HeaderOutcome \in {"ok"} \cup ParseErrors
      BY <1>4, <2>1, <2>3, ParsedFacts DEF ReadHeaderOp, HeaderOutcome, ParseCodes
    <3>2. \/ HeaderOutcome = Parsed.ec
          \/ HeaderOutcome = "ok" /\ Parsed.ec = "need_more_input" /\ GotHeader(Parsed.pr)
      BY DEF HeaderOutcome
    <3> QED
      BY <1>3, <2>1, <3>1, <3>2
  <2> QED
    BY <2>2, <2>3
<1>5. CASE ReadBodyOp
  <2>1. Dispatchable("read") /\ pr' = Parsed.pr /\ op.kind # "header" /\ taken' = taken
    BY <1>5 DEF ReadBodyOp, Resumed
  <2>2. CASE BodyOutcome = "need_more_input"
    <3>1. pr'.st = pr.st /\ op'.kind = op.kind /\ UNCHANGED <<result, reported>>
      BY <1>5, <2>1, <2>2, ParsedFacts, FedFacts
         DEF ReadBodyOp, Continue, ReadSome, BodyOutcome
    <3> QED
      BY <2>1, <3>1 DEF Seen
  <2>3. CASE BodyOutcome # "need_more_input"
    <3>1. Complete(BodyOutcome, Total) /\ BodyOutcome \in {"ok"} \cup ParseErrors
      BY <1>5, <2>1, <2>3, ParsedFacts DEF ReadBodyOp, BodyOutcome, ParseCodes
    <3>2. \/ BodyOutcome = Parsed.ec
          \/ BodyOutcome = "ok" /\ Parsed.ec = "need_more_input" /\ op.kind = "some"
      BY DEF BodyOutcome
    <3> QED
      BY <1>3, <2>1, <3>1, <3>2
  <2> QED
    BY <2>2, <2>3
<1>6. CASE PostedHeader \/ PostedBody
  <2>1. /\ op.pc = "post" /\ op.total = 0 /\ Total = 0 /\ taken' = taken
        /\ IF op.kind = "header" THEN GotHeader(pr) ELSE IsComplete(pr)
    BY <1>6 DEF PostedHeader, PostedBody, Dispatchable, IInv, Control, Total
  <2>2. pr' = pr /\ Complete("ok", Total)
    BY <1>6, <2>1 DEF PostedHeader, PostedBody, Dispatchable, IInv, Control, Parse, IsComplete
  <2>3. pr'.st \in Promised!Reached(op.kind, pr.st)
    BY <1>1, <2>1, <2>2 DEF Promised!Reached, OpKinds, GotHeader, IsComplete
  <2> QED
    BY <1>1, <2>1, <2>2, <2>3, CompleteRefines
<1> QED
  BY <1>2, <1>4, <1>5, <1>6 DEF Dispatch

(***************************************************************************)
(* The operations implement what read.hpp promises: each handler is called *)
(* once, later than the call, with what Reader lets the operation return.  *)
(***************************************************************************)
THEOREM ReadOpsImplementReader == Spec => ImplementsReader
<1>1. Init => Promised!Init
  BY DEF Init, ResetParser, NoOp, NoResult, Promised!Init, Promised!NoAnswer
<1>2. IInv /\ SomeIsFresh /\ [Next]_vars => [Promised!Next]_(Promised!vars)
  <2> SUFFICES ASSUME IInv, SomeIsFresh, [Next]_vars
               PROVE  Promised!Next \/ UNCHANGED Seen
    BY DEF Promised!vars, Seen
  <2>1. CASE UNCHANGED vars
    BY <2>1 DEF vars, Seen
  <2>2. Promised!TakeBytes => Promised!Next
    BY DEF Promised!Next
  <2> QED
    BY <2>1, <2>2, StreamRefines, CallerRefines, DispatchRefines DEF Next
<1> QED
  BY <1>1, <1>2, ReadInvariant, SomeStaysFresh, PTL
     DEF Spec, ImplementsReader, Promised!Spec
================================================================================
