---------------------------- MODULE ConnectionProofs ----------------------------
(***************************************************************************)
(* Theorems about a worker and its connections, for every set of layouts,  *)
(* every size of a response, every transfer size and number of bytes.  The *)
(* steps of the operations are not proved again: their lemmas are          *)
(* instantiated with the connection's variables, RP for the read           *)
(* operations and WP for the write operations.                             *)
(***************************************************************************)
EXTENDS Connection, SequenceTheorems, TLAPS

RP == INSTANCE ReadOpsProofs
        WITH op <- rop, cb <- rcb, result <- rresult, reported <- rreported
WP == INSTANCE WriteOpsProofs
        WITH op <- wop, cb <- wcb, result <- wresult, reported <- wreported

\* The assumptions of the instantiated read operations.
LEMMA ReadAssumptions ==
    /\ Layouts \subseteq Seq(RP!Message)
    /\ MaxRead \in Nat \ {0} /\ MaxBytes \in Nat
BY LayoutsAssumption, MaxReadAssumption, MaxBytesAssumption
   DEF R!Message, RP!Message, R!MessageKinds, RP!MessageKinds

\* The assumptions of the instantiated write operations.
LEMMA WriteAssumptions ==
    Sizes \subseteq Nat \ {0} /\ MaxWrite \in Nat \ {0} /\ MaxBytes \in Nat
BY SizesAssumption, MaxWriteAssumption, MaxBytesAssumption

--------------------------------------------------------------------------------
(***************************************************************************)
(* The inductive invariant.  Whoever runs an operation waits for its       *)
(* result, a new connection finds a parser that was reset and nothing on   *)
(* its wire, and between two responses the wire ends where the last one    *)
(* did.  The invariant of the write operations holds only while the worker *)
(* writes: sr_ keeps what a broken response left, until the next start().  *)
(***************************************************************************)
Waits(kind) == IF kind = "header" THEN "read_header" ELSE "read_body"

Worker ==
    /\ pc \in {"none", "accept", "read_header", "read_body", "write"}
    /\ accept \in {"none", "waiting", "ok", "error", "aborted"}
    /\ pc = "accept" <=> accept # "none"
    /\ answered \in Nat /\ late \in 0..answered

Reading ==
    /\ RP!IInv
    /\ rop.kind # "some" /\ rresult.kind # "some"
    /\ rop # R!NoOp => pc = Waits(rop.kind)
    /\ rresult # R!NoResult => pc = Waits(rresult.kind)
    /\ pc = "accept" => R!CanStart(pr) /\ pr.msg = 0

NoWrite ==
    /\ wop = W!NoOp /\ wcb = W!NoCompletion /\ wresult = W!NoResult
    /\ window \in [from : Nat, len : Nat]
    /\ wreported = Len(wire)

Writing ==
    /\ sr \in W!Serializer
    /\ wire \in Seq(Nat) /\ W!WireInOrder
    /\ wop.kind # "some" /\ wresult.kind # "some"
    /\ IF pc = "write" THEN WP!IInv ELSE NoWrite

Counting ==
    /\ pc = "accept" => answered = 0 /\ wire = <<>>
    /\ pc = "write" => answered = pr.msg /\ answered # 0 /\ R!IsComplete(pr)
    /\ pc \in {"read_header", "read_body"} =>
         /\ answered + 1 = pr.msg
         /\ Len(wire) = IF answered = 0 THEN 0 ELSE sr.end

\* An error page that was undefined: its handler did not return
Undefined == running = "undefined" /\ pc = "read_body" /\ rresult # R!NoResult

CInv == (running = "running" \/ Undefined) /\ Worker /\ Reading /\ Writing /\ Counting

--------------------------------------------------------------------------------
(* What the invariants of the operations say, in the names of Connection. *)

\* The state of the read operations, from their own invariant.
LEMMA ReadFacts ==
    ASSUME RP!IInv
    PROVE  /\ msgs \in Layouts /\ ending \in {"open", "eof", "error"}
           /\ pr \in R!Parser /\ pr.msg \in Nat
           /\ rop = R!NoOp => rcb = R!NoCompletion
           /\ rop # R!NoOp => rresult = R!NoResult /\ rop.kind \in R!OpKinds
           /\ rresult.kind = "header" /\ rresult.ec = "ok" => R!GotHeader(pr)
           /\ rresult.kind = "body" /\ rresult.ec = "ok" => R!IsComplete(pr)
           /\ rresult # R!NoResult => rresult.kind \in R!OpKinds
           /\ R!BytesConserved
<1>1. RP!TypeOK /\ RP!Control /\ RP!SuccessDelivers /\ RP!BytesConserved
  BY DEF RP!IInv, RP!Outcome, RP!Bytes
<1>2. /\ msgs \in Layouts /\ ending \in {"open", "eof", "error"}
      /\ pr \in R!Parser /\ pr.msg \in Nat
  BY <1>1 DEF RP!TypeOK, RP!Parser, R!Parser, RP!ParserStages, R!ParserStages
<1>3. /\ rop # R!NoOp => rop.kind \in R!OpKinds
      /\ rresult # R!NoResult => rresult.kind \in R!OpKinds
  BY <1>1 DEF RP!TypeOK, RP!NoOp, R!NoOp, RP!NoResult, R!NoResult, RP!OpKinds, R!OpKinds
<1>4. /\ rop = R!NoOp => rcb = R!NoCompletion
      /\ rop # R!NoOp => rresult = R!NoResult
  BY <1>1 DEF RP!Control, RP!NoOp, R!NoOp, RP!NoCompletion, R!NoCompletion,
              RP!NoResult, R!NoResult
<1>5. /\ rresult.kind = "header" /\ rresult.ec = "ok" => R!GotHeader(pr)
      /\ rresult.kind = "body" /\ rresult.ec = "ok" => R!IsComplete(pr)
      /\ R!BytesConserved
  BY <1>1 DEF RP!SuccessDelivers, RP!GotHeader, R!GotHeader, RP!IsComplete, R!IsComplete,
              RP!BytesConserved, R!BytesConserved
<1> QED
  BY <1>2, <1>3, <1>4, <1>5

\* The state of the write operations, from their own invariant.
LEMMA WriteFacts ==
    ASSUME WP!IInv
    PROVE  /\ sr \in W!Serializer /\ wire \in Seq(Nat) /\ Len(wire) \in Nat
           /\ window \in [from : Nat, len : Nat]
           /\ W!WireInOrder
           /\ wop = W!NoOp => wcb = W!NoCompletion /\ wreported = Len(wire)
           /\ wop # W!NoOp => wresult = W!NoResult
           /\ wresult.kind = "write" /\ wresult.ec = "ok" => Len(wire) = sr.end
           /\ wresult # W!NoResult => wresult.kind \in {"some", "write"}
<1>1. WP!TypeOK /\ WP!Control /\ WP!SuccessIsWhole /\ WP!WireInOrder /\ WP!BytesReported
  BY DEF WP!IInv
<1>2. /\ sr \in W!Serializer /\ wire \in Seq(Nat) /\ Len(wire) \in Nat
      /\ window \in [from : Nat, len : Nat] /\ wreported \in Nat
  BY <1>1 DEF WP!TypeOK, WP!Serializer, W!Serializer
<1>3. W!WireInOrder
  BY <1>1 DEF WP!WireInOrder, W!WireInOrder
<1>4. /\ wop # W!NoOp => wresult = W!NoResult
      /\ wop = W!NoOp => wcb = W!NoCompletion
  BY <1>1 DEF WP!Control, WP!NoOp, W!NoOp, WP!NoCompletion, W!NoCompletion,
              WP!NoResult, W!NoResult
<1>5. ASSUME wop = W!NoOp PROVE wreported = Len(wire)
  <2>1. wop.total = 0 /\ wcb.n = 0
    BY <1>4, <1>5 DEF W!NoOp, W!NoCompletion
  <2> QED
    BY <1>1, <1>2, <2>1 DEF WP!BytesReported
<1>6. /\ wresult.kind = "write" /\ wresult.ec = "ok" => Len(wire) = sr.end
      /\ wresult # W!NoResult => wresult.kind \in {"some", "write"}
  BY <1>1 DEF WP!SuccessIsWhole, WP!TypeOK, WP!NoResult, W!NoResult
<1> QED
  BY <1>2, <1>3, <1>4, <1>5, <1>6

--------------------------------------------------------------------------------
(* The steps of the operations are those their lemmas are about. *)

\* The peer and the stream of the read operations.
LEMMA SameReadStream ==
    /\ R!PeerSends => RP!PeerSends
    /\ R!PeerEnds => RP!PeerEnds
    /\ R!Stream => RP!Stream
    /\ R!OwnerCancels => RP!OwnerCancels
<1>1. R!PeerSends => RP!PeerSends
  BY DEF R!PeerSends, RP!PeerSends
<1>2. R!PeerEnds => RP!PeerEnds
  BY DEF R!PeerEnds, RP!PeerEnds
<1>3. R!Stream => RP!Stream
  BY DEF R!Stream, RP!Stream, R!StreamDelivers, RP!StreamDelivers, R!StreamEnds,
         RP!StreamEnds, R!StreamFails, RP!StreamFails, R!Transferable, RP!Transferable,
         R!Completes, RP!Completes, R!Waiting, RP!Waiting, R!NoCompletion,
         RP!NoCompletion, R!peerVars, RP!peerVars, R!Available, RP!Available
<1>4. R!OwnerCancels => RP!OwnerCancels
  BY DEF R!OwnerCancels, RP!OwnerCancels, R!Completes, RP!Completes, R!Waiting, RP!Waiting,
         R!NoCompletion, RP!NoCompletion, R!peerVars, RP!peerVars
<1> QED
  BY <1>1, <1>2, <1>3, <1>4

\* The coroutines of the read operations.
LEMMA SameReadDispatch == R!Dispatch => RP!Dispatch
BY DEF R!Dispatch, RP!Dispatch, R!ReadFailed, RP!ReadFailed, R!ReadHeaderOp,
       RP!ReadHeaderOp, R!ReadBodyOp, RP!ReadBodyOp, R!PostedHeader, RP!PostedHeader,
       R!PostedBody, RP!PostedBody, R!Dispatchable, RP!Dispatchable, R!Resumed, RP!Resumed,
       R!Continue, RP!Continue, R!ReadSome, RP!ReadSome, R!Complete, RP!Complete,
       R!Total, RP!Total, R!Fed, RP!Fed, R!Parsed, RP!Parsed, R!HeaderOutcome,
       RP!HeaderOutcome, R!BodyOutcome, RP!BodyOutcome, R!NoOp, RP!NoOp,
       R!NoCompletion, RP!NoCompletion, R!StreamErrors, RP!StreamErrors,
       R!peerVars, RP!peerVars, R!Parse, RP!Parse, R!ParseHeader, RP!ParseHeader,
       R!ParseBody, RP!ParseBody, R!HeaderBuffered, RP!HeaderBuffered, R!Finished,
       RP!Finished, R!Malformed, RP!Malformed, R!NeedMore, RP!NeedMore, R!Consume,
       RP!Consume, R!Commit, RP!Commit, R!CommitEof, RP!CommitEof, R!GotHeader, RP!GotHeader

\* The stream of the write operations.
LEMMA SameWriteStream ==
    /\ W!StreamWrites \/ W!StreamFails => WP!Stream
    /\ W!OwnerCancels => WP!OwnerCancels
BY DEF W!StreamWrites, WP!StreamWrites, W!StreamFails, WP!StreamFails, WP!Stream,
       W!OwnerCancels, WP!OwnerCancels, W!Completes, WP!Completes, W!Waiting, WP!Waiting,
       W!NoCompletion, WP!NoCompletion, W!Transferable, WP!Transferable

\* The coroutines of the write operations.
LEMMA SameWriteDispatch == W!Dispatch => WP!Dispatch
BY DEF W!Dispatch, WP!Dispatch, W!Written, WP!Written, W!Posted, WP!Posted,
       W!Dispatchable, WP!Dispatchable, W!ResumeOp, WP!ResumeOp, W!GoesOn, WP!GoesOn,
       W!Suspend, WP!Suspend, W!Prepare, WP!Prepare, W!NothingPrepared,
       WP!NothingPrepared, W!Complete, WP!Complete, W!Total, WP!Total, W!Consumed,
       WP!Consumed, W!ConsumeOut, WP!ConsumeOut, W!IsDone, WP!IsDone, W!NoOp, WP!NoOp,
       W!NoWindow, WP!NoWindow, W!NoCompletion, WP!NoCompletion

--------------------------------------------------------------------------------
(* What a step of an operation leaves alone, and whose it is. *)

\* parse() stays within the current message.
LEMMA ParseKeepsMessage ==
    ASSUME NEW p \in R!Parser
    PROVE  R!Parse(msgs, p).pr.msg = p.msg
<1>1. \A q \in R!Parser : R!ParseBody(msgs, q).pr.msg = q.msg
  BY DEF R!ParseBody, R!Finished, R!Malformed, R!NeedMore, R!Consume, R!Parser
<1>2. CASE R!HeaderBuffered(msgs, p)
  <2>1. R!ParseBody(msgs, R!Consume(p, msgs[p.msg].hdr, "body")).pr.msg = p.msg
    BY DEF R!ParseBody, R!Finished, R!Malformed, R!NeedMore, R!Consume
  <2> QED
    BY <1>1, <1>2, <2>1 DEF R!Parse, R!ParseHeader, R!Malformed, R!Parser
<1>3. CASE ~R!HeaderBuffered(msgs, p)
  BY <1>1, <1>3 DEF R!Parse, R!ParseHeader, R!Malformed, R!NeedMore, R!Parser
<1> QED
  BY <1>2, <1>3

\* A resumed read operation goes on, or ends and tells the handler that waits for it.
LEMMA ReadDispatchShape ==
    ASSUME RP!IInv, R!Dispatch
    PROVE  /\ rop # R!NoOp /\ pr'.msg = pr.msg
           /\ \/ rop' = R!NoOp /\ rresult'.kind = rop.kind
              \/ rop'.kind = rop.kind /\ rresult' = rresult
<1>1. pr \in R!Parser /\ rcb.n \in Nat
  BY ReadFacts, ReadAssumptions DEF RP!IInv, RP!TypeOK, RP!NoCompletion
<1>2. R!Fed \in R!Parser /\ R!Fed.msg = pr.msg
  <2> DEFINE received == R!Commit(pr, rcb.n)
  <2>1. received \in R!Parser /\ received.msg = pr.msg
    BY <1>1 DEF R!Commit, R!Parser
  <2> HIDE DEF received
  <2>2. R!CommitEof(received) \in R!Parser /\ R!CommitEof(received).msg = pr.msg
    BY <2>1 DEF R!CommitEof, R!Parser
  <2>3. R!Fed = IF rcb.ec = "eof" THEN R!CommitEof(received) ELSE received
    BY DEF R!Fed, received
  <2> QED
    BY <2>1, <2>2, <2>3
<1>3. R!Parsed.pr.msg = pr.msg /\ R!Parse(msgs, pr).pr.msg = pr.msg
  BY <1>1, <1>2, ParseKeepsMessage DEF R!Parsed
<1>4. rop # R!NoOp
  BY DEF R!Dispatch, R!ReadFailed, R!ReadHeaderOp, R!ReadBodyOp, R!Resumed,
         R!PostedHeader, R!PostedBody, R!Dispatchable, R!NoOp
<1>5. pr' \in {R!Fed, R!Parsed.pr, pr, R!Parse(msgs, pr).pr}
  BY DEF R!Dispatch, R!ReadFailed, R!ReadHeaderOp, R!ReadBodyOp, R!Resumed,
         R!PostedHeader, R!PostedBody
<1>6. \/ rop' = R!NoOp /\ rresult'.kind = rop.kind
      \/ rop'.kind = rop.kind /\ rresult' = rresult
  BY DEF R!Dispatch, R!ReadFailed, R!ReadHeaderOp, R!ReadBodyOp, R!PostedHeader,
         R!PostedBody, R!Continue, R!ReadSome, R!Complete
<1> QED
  BY <1>2, <1>3, <1>4, <1>5, <1>6

\* The same for a resumed write operation.
LEMMA WriteDispatchShape ==
    ASSUME W!Dispatch
    PROVE  /\ wop # W!NoOp
           /\ \/ wop' = W!NoOp /\ wresult'.kind = wop.kind
              \/ wop'.kind = wop.kind /\ wresult' = wresult
BY DEF W!Dispatch, W!Written, W!Posted, W!Dispatchable, W!ResumeOp, W!Suspend,
       W!Complete, W!NoOp

--------------------------------------------------------------------------------
(***************************************************************************)
(* The steps of the operations.  One side moves, by a lemma of its own     *)
(* module, and the other stands still.                                     *)
(***************************************************************************)

\* Variables that only handlers change
Steady == <<running, pc, res, answered, late>>

\* What the write side says is not disturbed by the read side.
LEMMA WritingStays ==
    ASSUME Writing, UNCHANGED <<writing, pc>>
    PROVE  Writing'
<1>1. UNCHANGED <<sr, wire, wop, window, wcb, wresult, wreported, pc>>
  BY DEF writing
<1>2. pc = "write" => WP!IInv'
  BY <1>1, WP!StutterStep, WriteAssumptions DEF Writing, WP!vars
<1> QED
  BY <1>1, <1>2 DEF Writing, NoWrite, W!WireInOrder

\* What the read side says is not disturbed by the write side.
LEMMA ReadingStays ==
    ASSUME Reading, UNCHANGED <<peer, reading, pc>>
    PROVE  Reading'
<1>1. UNCHANGED <<msgs, sent, taken, ending, pr, rop, rcb, rresult, rreported, pc>>
  BY DEF peer, reading
<1>2. RP!IInv'
  BY <1>1, RP!StutterStep, ReadAssumptions DEF Reading, RP!vars
<1> QED
  BY <1>1, <1>2 DEF Reading

\* The peer and the stream do not end a read operation: a completion is queued.
LEMMA ReadStreamStep ==
    ASSUME CInv, R!PeerSends \/ R!PeerEnds \/ R!Stream \/ R!OwnerCancels,
           UNCHANGED <<writing, Steady>>, Worker'
    PROVE  CInv'
<1>1. UNCHANGED <<sr, wire, wop, window, wcb, wresult, wreported, running, pc, answered>>
  BY DEF writing, Steady
<1>2. UNCHANGED <<pr, rop, rresult>>
  BY DEF R!PeerSends, R!PeerEnds, R!Stream, R!OwnerCancels, R!StreamDelivers, R!StreamEnds,
         R!StreamFails, R!Completes
<1>3. RP!IInv'
  BY SameReadStream, RP!PeerStep, RP!StreamStep, ReadAssumptions DEF CInv, Reading
<1>4. Reading' /\ Counting'
  BY <1>1, <1>2, <1>3 DEF CInv, Reading, Counting
<1> QED
  BY <1>1, <1>2, <1>4, WritingStays DEF CInv, Undefined

\* A resumed read operation belongs to the handler the worker waits for.
LEMMA ReadDispatchStep ==
    ASSUME CInv, ReadDispatched
    PROVE  CInv'
<1>1. /\ R!Dispatch
      /\ UNCHANGED <<sr, wire, wop, window, wcb, wresult, wreported>>
      /\ running = "running" /\ UNCHANGED <<running, pc, accept, answered, late>>
  BY DEF ReadDispatched, Free, writing
<1>2. RP!IInv'
  BY <1>1, SameReadDispatch, RP!DispatchStep, ReadAssumptions DEF CInv, Reading
<1>3. /\ rop # R!NoOp /\ pr'.msg = pr.msg
      /\ \/ rop' = R!NoOp /\ rresult'.kind = rop.kind
         \/ rop'.kind = rop.kind /\ rresult' = rresult
  BY <1>1, ReadDispatchShape DEF CInv, Reading
<1>4. /\ rop.kind \in {"header", "body"} /\ pc = Waits(rop.kind) /\ rresult = R!NoResult
      /\ pc \in {"read_header", "read_body"}
  BY <1>3, ReadFacts DEF CInv, Reading, R!OpKinds, Waits
<1>5. Reading'
  BY <1>1, <1>2, <1>3, <1>4 DEF Reading, CInv, R!NoOp
<1>6. Counting'
  BY <1>1, <1>3, <1>4 DEF Counting, CInv
<1>7. Writing'
  BY <1>1, WritingStays DEF CInv, writing
<1> QED
  BY <1>1, <1>5, <1>6, <1>7 DEF CInv, Worker

\* A write in flight is the worker's only business.
LEMMA WriteStreamStep ==
    ASSUME CInv, W!StreamWrites \/ W!StreamFails \/ W!OwnerCancels,
           UNCHANGED <<peer, reading, Steady>>, Worker'
    PROVE  CInv'
<1>1. UNCHANGED <<running, pc, answered, pr, rresult>>
  BY DEF reading, Steady
<1>2. wop # W!NoOp /\ UNCHANGED <<wop, wresult>>
  BY DEF W!StreamWrites, W!StreamFails, W!OwnerCancels, W!Completes, W!Waiting, W!NoOp
<1>3. pc = "write" /\ WP!IInv
  BY <1>2 DEF CInv, Writing, NoWrite
<1>4. WP!IInv'
  BY <1>3, SameWriteStream, WP!StreamStep, WriteAssumptions
<1>5. /\ sr' \in W!Serializer /\ wire' \in Seq(Nat) /\ W!WireInOrder'
  BY <1>4 DEF WP!IInv, WP!TypeOK, WP!Serializer, W!Serializer, WP!WireInOrder, W!WireInOrder
<1>6. Writing'
  BY <1>1, <1>2, <1>3, <1>4, <1>5 DEF CInv, Writing
<1>7. Counting'
  BY <1>1, <1>3 DEF CInv, Counting
<1> QED
  BY <1>1, <1>6, <1>7, ReadingStays DEF CInv, Undefined

\* A resumed write operation belongs to OnWrite.
LEMMA WriteDispatchStep ==
    ASSUME CInv, WriteDispatched
    PROVE  CInv'
<1>1. /\ W!Dispatch
      /\ running = "running"
      /\ UNCHANGED <<peer, reading, running, pc, accept, answered, late>>
  BY DEF WriteDispatched, Free
<1>2. UNCHANGED <<pr, running, pc, accept, answered, late>>
  BY <1>1 DEF reading
<1>3. /\ wop # W!NoOp
      /\ \/ wop' = W!NoOp /\ wresult'.kind = wop.kind
         \/ wop'.kind = wop.kind /\ wresult' = wresult
  BY <1>1, WriteDispatchShape
<1>4. pc = "write" /\ WP!IInv
  BY <1>3 DEF CInv, Writing, NoWrite
<1>5. WP!IInv'
  BY <1>1, <1>4, SameWriteDispatch, WP!DispatchStep, WriteAssumptions
<1>6. /\ sr' \in W!Serializer /\ wire' \in Seq(Nat) /\ W!WireInOrder'
  BY <1>5 DEF WP!IInv, WP!TypeOK, WP!Serializer, W!Serializer, WP!WireInOrder, W!WireInOrder
<1>7. Writing'
  BY <1>2, <1>3, <1>4, <1>5, <1>6 DEF CInv, Writing, W!NoOp
<1>8. Counting'
  BY <1>2, <1>4 DEF CInv, Counting
<1>9. Reading'
  BY <1>1, ReadingStays DEF CInv
<1> QED
  BY <1>1, <1>2, <1>7, <1>8, <1>9 DEF CInv, Worker

--------------------------------------------------------------------------------
(***************************************************************************)
(* The worker's calls.  They are made when no operation runs, so that each *)
(* side starts from what it left: nothing, or a result that is now gone.   *)
(***************************************************************************)
Between == running = "running" /\ rop = R!NoOp /\ wop = W!NoOp

\* With no operation running, dropping the result keeps the read side's invariant.
LEMMA ReadResultGone ==
    ASSUME RP!IInv, rresult' = R!NoResult,
           UNCHANGED <<msgs, sent, taken, ending, pr, rop, rcb, rreported>>
    PROVE  RP!IInv'
<1>1. RP!TypeOK'
  BY DEF RP!IInv, RP!TypeOK, R!NoResult, RP!NoResult
<1>2. RP!Control' /\ RP!SuspendedInStage' /\ RP!Bytes'
  BY DEF RP!IInv, RP!Control, RP!SuspendedInStage, RP!Bytes, RP!BytesConserved,
         RP!BytesReported, R!NoResult, RP!NoResult
<1>3. RP!Outcome'
  BY DEF RP!Outcome, RP!SuccessDelivers, RP!FailureIsClassified, RP!InternalCodesHidden,
         R!NoResult, RP!ParseErrors, RP!StreamErrors
<1> QED
  BY <1>1, <1>2, <1>3 DEF RP!IInv

\* A new connection, with a parser that was reset, is an initial state of the read side.
LEMMA ReadRestarts ==
    ASSUME rop' = R!NoOp, rcb' = R!NoCompletion, rresult' = R!NoResult,
           msgs' \in Layouts, sent' = 0, taken' = 0, ending' = "open", rreported' = 0,
           pr' = R!ResetParser
    PROVE  RP!IInv'
<1>1. RP!TypeOK'
  BY DEF RP!TypeOK, R!ResetParser, RP!Parser, RP!ParserStages, R!NoOp, RP!NoOp,
         R!NoCompletion, RP!NoCompletion, R!NoResult, RP!NoResult
<1>2. RP!Control' /\ RP!SuspendedInStage'
  BY DEF RP!Control, RP!SuspendedInStage, R!ResetParser, R!NoOp, RP!NoOp,
         R!NoCompletion, RP!NoCompletion, R!NoResult, RP!NoResult
<1>3. RP!Bytes' /\ RP!Outcome'
  BY DEF RP!Bytes, RP!BytesConserved, RP!BytesReported, RP!Outcome, RP!SuccessDelivers,
         RP!FailureIsClassified, RP!InternalCodesHidden, R!ResetParser, R!NoOp,
         R!NoCompletion, R!NoResult, RP!ParseErrors, RP!StreamErrors
<1> QED
  BY <1>1, <1>2, <1>3 DEF RP!IInv

\* Starting a message and the read of its header, as DoRead does in one step.
LEMMA ReadStarts ==
    ASSUME RP!IInv, rop = R!NoOp, pr' = R!StartMessage(pr), R!ReadSome("header", 0),
           rresult' = R!NoResult, UNCHANGED <<msgs, sent, taken, ending, rreported>>
    PROVE  RP!IInv'
<1>1. /\ rop' = [kind |-> "header", pc |-> "read", total |-> 0]
      /\ rcb' = R!NoCompletion
  BY DEF R!ReadSome
<1>2. pr \in RP!Parser /\ rcb = R!NoCompletion
  BY ReadFacts DEF RP!IInv, RP!TypeOK
<1>3. pr' \in RP!Parser /\ pr'.st = "header" /\ pr'.buf = pr.buf /\ pr'.used = pr.used
  BY <1>2 DEF R!StartMessage, RP!Parser, RP!ParserStages
<1>4. RP!TypeOK'
  BY <1>1, <1>3 DEF RP!IInv, RP!TypeOK, RP!OpKinds, R!NoCompletion, RP!NoCompletion,
                    R!NoResult, RP!NoResult
<1>5. RP!Control' /\ RP!SuspendedInStage'
  BY <1>1, <1>3 DEF RP!Control, RP!SuspendedInStage, RP!NoOp, RP!NoResult, R!NoResult
<1>6. RP!Bytes'
  BY <1>1, <1>2, <1>3 DEF RP!IInv, RP!Bytes, RP!BytesConserved, RP!BytesReported,
                          R!NoOp, R!NoCompletion
<1>7. RP!Outcome'
  BY DEF RP!Outcome, RP!SuccessDelivers, RP!FailureIsClassified, RP!InternalCodesHidden,
         R!NoResult, RP!ParseErrors, RP!StreamErrors
<1> QED
  BY <1>4, <1>5, <1>6, <1>7 DEF RP!IInv

\* A response begun after a wire that ends anywhere: start() forgets the last message.
LEMMA WriteStarts ==
    ASSUME NoWrite, sr \in W!Serializer, wire \in Seq(Nat), W!WireInOrder,
           NEW s \in {x \in Started : x.ready <= x.end},
           sr' = s, W!Suspend("write", 0, s), wresult' = W!NoResult,
           UNCHANGED <<wire, wreported>>
    PROVE  WP!IInv' /\ sr' \in W!Serializer /\ wop'.kind = "write"
<1>1. Len(wire) \in Nat
  OBVIOUS
<1> DEFINE fresh == [sr EXCEPT !.out = Len(wire)]
<1>2. fresh.out = Len(wire)
  BY DEF W!Serializer
<1>3. PICK n \in Sizes, r \in Nat, source \in {"good", "broken"} :
        s = [out |-> Len(wire), ready |-> Len(wire) + r, end |-> Len(wire) + n,
             source |-> source]
  <2>1. PICK n \in Sizes, r \in Nat :
          \/ s = W!StartSerializer(fresh, n, r)
          \/ s = W!Break(W!StartSerializer(fresh, n, r))
    <3>1. Sizes \subseteq Nat
      BY SizesAssumption
    <3> QED
      BY <3>1 DEF Started
  <2>2. W!StartSerializer(fresh, n, r)
          = [out |-> Len(wire), ready |-> Len(wire) + r, end |-> Len(wire) + n, source |-> "good"]
    BY <1>2 DEF W!StartSerializer
  <2>3. W!Break(W!StartSerializer(fresh, n, r))
          = [out |-> Len(wire), ready |-> Len(wire) + r, end |-> Len(wire) + n, source |-> "broken"]
    <3>1. \A o, y, e \in Nat :
            W!Break([out |-> o, ready |-> y, end |-> e, source |-> "good"])
              = [out |-> o, ready |-> y, end |-> e, source |-> "broken"]
      BY DEF W!Break
    <3>2. Len(wire) + r \in Nat /\ Len(wire) + n \in Nat
      BY <1>1, SizesAssumption
    <3> QED
      BY <1>1, <2>2, <3>1, <3>2
  <2> QED
    BY <2>1, <2>2, <2>3
<1>4. /\ n \in Nat \ {0} /\ s.out = Len(wire) /\ s.ready \in Nat /\ s.end = Len(wire) + n
      /\ s.out <= s.ready /\ s.ready <= s.end /\ s.out # s.end
      /\ s \in W!Serializer
  BY <1>1, <1>3, SizesAssumption DEF W!Serializer
<1> HIDE DEF fresh
<1>5. /\ wop' \in [kind : {"some", "write"}, pc : {"write", "post"}, total : Nat]
      /\ wop'.kind = "write" /\ wop'.total = 0 /\ wop'.pc # "idle"
      /\ wcb' \in {W!NoCompletion} \cup [ec : WP!ErrorCodes, n : Nat] /\ wcb'.n = 0
      /\ window' \in [from : Nat, len : Nat]
      /\ wop'.pc = "write" => window'.from = s.out /\ window'.len = s.ready - s.out
      /\ wop'.pc = "post" => wcb'.ec \in WP!PrepareErrors
  BY <1>1, <1>4 DEF W!Suspend, W!Prepare, W!NothingPrepared, W!IsDone, W!NoWindow,
       W!NoCompletion, WP!ErrorCodes, WP!PrepareErrors
<1>6. WP!TypeOK'
  BY <1>1, <1>4, <1>5 DEF NoWrite, WP!TypeOK, WP!Serializer, W!Serializer, W!NoCompletion,
       WP!NoCompletion, W!NoResult, WP!NoResult
<1>7. WP!Control' /\ WP!Position' /\ WP!Holding'
  BY <1>1, <1>4, <1>5 DEF WP!Control, WP!Position, WP!Holding, WP!NoOp, W!NoResult, WP!NoResult
<1>8. WP!WireInOrder' /\ WP!BytesReported'
  BY <1>1, <1>5 DEF NoWrite, W!WireInOrder, WP!WireInOrder, WP!BytesReported
<1>9. WP!SuccessIsWhole' /\ WP!NeverPrepareDone'
  BY <1>4 DEF WP!SuccessIsWhole, WP!NeverPrepareDone, WP!IsDone, W!NoResult
<1> QED
  BY <1>4, <1>5, <1>6, <1>7, <1>8, <1>9 DEF WP!IInv

\* The write side between two writes, whatever the worker does.
LEMMA WriteAtRest ==
    ASSUME Writing, wop = W!NoOp
    PROVE  /\ wcb = W!NoCompletion /\ wreported = Len(wire)
           /\ window \in [from : Nat, len : Nat]
<1>1. CASE pc = "write"
  BY <1>1, WriteFacts DEF Writing
<1>2. CASE pc # "write"
  BY <1>2 DEF Writing, NoWrite
<1> QED
  BY <1>1, <1>2

\* The worker ends: nothing waits, and nothing is changed that a peer could see.
LEMMA ExitStep ==
    ASSUME CInv, Between, Exit
    PROVE  CInv'
<1>1. /\ pc' = "none" /\ accept' = "none"
      /\ rresult' = R!NoResult /\ wresult' = W!NoResult
      /\ UNCHANGED <<msgs, sent, taken, ending, pr, rop, rcb, rreported>>
      /\ running' = "running" /\ UNCHANGED <<sr, wire, wop, window, wcb, wreported, answered, late>>
  BY DEF Between, Exit, HandlerReturns, peer
<1>2. Reading'
  BY <1>1, ReadResultGone DEF CInv, Reading, Between, R!NoResult
<1>3. Writing'
  BY <1>1, WriteAtRest DEF CInv, Writing, NoWrite, Between, W!WireInOrder, W!NoResult
<1> QED
  BY <1>1, <1>2, <1>3 DEF CInv, Worker, Counting

\* A new connection starts with nothing of the last one but a stale serializer.
LEMMA DoAcceptStep ==
    ASSUME CInv, Between, DoAccept
    PROVE  CInv'
<1>1. /\ pc' = "accept" /\ accept' = "waiting" /\ answered' = 0 /\ late' = 0
      /\ rresult' = R!NoResult /\ wresult' = W!NoResult /\ pr' = R!ResetParser
      /\ msgs' \in Layouts /\ sent' = 0 /\ taken' = 0 /\ ending' = "open" /\ rreported' = 0
      /\ wire' = <<>> /\ wreported' = 0
      /\ running' = "running" /\ UNCHANGED <<rop, rcb, sr, wop, window, wcb>>
  BY DEF Between, DoAccept, NewConnection, HandlerReturns
<1>2. Reading'
  <2>1. RP!IInv'
    BY <1>1, ReadRestarts, ReadFacts DEF CInv, Reading, Between
  <2> QED
    BY <1>1, <2>1 DEF CInv, Reading, Between, R!NoResult, R!ResetParser, R!CanStart
<1>3. Writing'
  <2>1. wire' \in Seq(Nat) /\ Len(wire') = 0
    BY <1>1
  <2> QED
    BY <1>1, <2>1, WriteAtRest DEF CInv, Writing, NoWrite, Between, W!WireInOrder, W!NoResult
<1> QED
  BY <1>1, <1>2, <1>3 DEF CInv, Worker, Counting

\* The next request is read once the last response is whole, or there was none.
LEMMA DoReadStep ==
    ASSUME CInv, Between, DoRead, R!CanStart(pr), answered = pr.msg,
           Len(wire) = IF answered = 0 THEN 0 ELSE sr.end
    PROVE  CInv'
<1>1. /\ pr' = R!StartMessage(pr) /\ R!ReadSome("header", 0)
      /\ pc' = "read_header" /\ accept' = "none"
      /\ rresult' = R!NoResult /\ wresult' = W!NoResult
      /\ UNCHANGED <<msgs, sent, taken, ending, rreported>>
      /\ running' = "running" /\ UNCHANGED <<sr, wire, wop, window, wcb, wreported, answered, late>>
  BY DEF Between, DoRead, HandlerReturns, peer
<1>2. rop'.kind = "header" /\ pr'.msg = pr.msg + 1
  BY <1>1 DEF R!ReadSome, R!StartMessage
<1>3. Reading'
  BY <1>1, <1>2, ReadStarts DEF CInv, Reading, Between, R!NoResult, Waits
<1>4. Writing'
  BY <1>1, WriteAtRest DEF CInv, Writing, NoWrite, Between, W!WireInOrder, W!NoResult
<1> QED
  BY <1>1, <1>2, <1>3, <1>4 DEF CInv, Worker, Counting

\* The body is read after the header that was told of.
LEMMA AsyncReadStep ==
    ASSUME CInv, Between, AsyncRead, pc = "read_header", R!GotHeader(pr)
    PROVE  CInv'
<1>1. /\ R!InitiateBody("body") /\ pc' = "read_body" /\ wresult' = W!NoResult
      /\ running' = "running"
      /\ UNCHANGED <<sr, wire, wop, window, wcb, wreported, accept, answered, late>>
  BY DEF Between, AsyncRead
<1>2. /\ rresult' = R!NoResult /\ rop'.kind = "body"
      /\ UNCHANGED <<msgs, sent, ending, taken, pr, rreported>>
  BY <1>1 DEF R!InitiateBody, R!Post, R!ReadSome, R!peerVars
<1>3. RP!IInv'
  <2>1. CASE R!IsComplete(pr)
    BY <1>1, <1>2, <2>1, RP!InitiateStep, ReadAssumptions
       DEF CInv, Reading, Between, R!InitiateBody, R!Post, RP!Post, R!IsComplete,
           RP!IsComplete, R!NoOp, RP!NoOp, R!NoResult, RP!NoResult, RP!OpKinds
  <2>2. CASE ~R!IsComplete(pr)
    BY <1>1, <1>2, <2>2, RP!InitiateStep, ReadAssumptions
       DEF CInv, Reading, Between, R!InitiateBody, R!ReadSome, RP!ReadSome, R!IsComplete,
           R!GotHeader, R!NoOp, RP!NoOp, R!NoResult, RP!NoResult, R!NoCompletion,
           RP!NoCompletion, RP!OpKinds
  <2> QED
    BY <2>1, <2>2
<1>4. Reading'
  BY <1>1, <1>2, <1>3 DEF Reading, Waits, R!NoResult
<1>5. Writing'
  BY <1>1 DEF CInv, Writing, NoWrite, W!WireInOrder, W!NoResult
<1> QED
  BY <1>1, <1>2, <1>4, <1>5 DEF CInv, Worker, Counting

\* A response is begun for the request that was read to its end.
LEMMA RespondStep ==
    ASSUME CInv, Between, Respond, pc = "read_body", R!IsComplete(pr)
    PROVE  CInv'
<1>1. /\ pc' = "write" /\ answered' = answered + 1
      /\ late' = IF is_shutting_down THEN late + 1 ELSE late
      /\ rresult' = R!NoResult /\ wresult' = W!NoResult
      /\ UNCHANGED <<msgs, sent, taken, ending, pr, rop, rcb, rreported>>
      /\ running' = "running" /\ UNCHANGED <<wire, wreported, accept>>
  BY DEF Between, Respond, HandlerReturns, peer
<1>2. PICK s \in {x \in Started : x.ready <= x.end} : sr' = s /\ W!Suspend("write", 0, s)
  BY DEF Respond
<1>3. WP!IInv' /\ sr' \in W!Serializer /\ wop'.kind = "write"
  BY <1>1, <1>2, WriteStarts DEF CInv, Writing
<1>4. Reading'
  BY <1>1, ReadResultGone DEF CInv, Reading, Between, R!NoResult
<1>5. Writing'
  BY <1>1, <1>3 DEF CInv, Writing, W!WireInOrder, W!NoResult
<1>6. Worker' /\ Counting'
  BY <1>1 DEF CInv, Worker, Counting, R!IsComplete
<1> QED
  BY <1>1, <1>4, <1>5, <1>6 DEF CInv

\* An error page that is undefined is no more than that.
LEMMA UnparsedStep ==
    ASSUME CInv, HostUnparsed, pc = "read_body", rresult # R!NoResult
    PROVE  CInv'
<1>1. /\ UNCHANGED <<peer, reading, writing, pc, accept, answered, late>>
      /\ UNCHANGED <<pr, rresult, sr, wire>>
      /\ running' = "undefined"
  BY DEF HostUnparsed, reading, writing
<1> QED
  BY <1>1, ReadingStays, WritingStays DEF CInv, Undefined, Worker, Counting

\* Every handler finds no operation running, and its calls keep the invariant.
LEMMA HandlerStep ==
    ASSUME CInv, Handler
    PROVE  CInv'
<1>1. CASE OnAccept
  <2>1. /\ pc = "accept" /\ Between
        /\ R!CanStart(pr) /\ pr.msg = 0 /\ answered = 0 /\ Len(wire) = 0
    BY <1>1 DEF OnAccept, Free, CInv, Reading, Writing, NoWrite, Counting, Between, Waits
  <2> QED
    BY <1>1, <2>1, ExitStep, DoAcceptStep, DoReadStep DEF OnAccept, Fail
<1>2. CASE OnReadHeader
  <2>1. pc = "read_header" /\ rresult # R!NoResult /\ Between
    BY <1>2, ReadFacts DEF OnReadHeader, InHandler, CInv, Reading, Writing, NoWrite, Between
  <2>2. rresult.kind = "header"
    BY <2>1, ReadFacts DEF CInv, Reading, Waits
  <2>3. rresult.ec = "ok" => R!GotHeader(pr)
    BY <2>2, ReadFacts DEF CInv, Reading
  <2> QED
    BY <1>2, <2>1, <2>3, ExitStep, DoAcceptStep, AsyncReadStep DEF OnReadHeader, Fail
<1>3. CASE OnReadBody
  <2>1. pc = "read_body" /\ rresult # R!NoResult /\ Between
    BY <1>3, ReadFacts DEF OnReadBody, InHandler, CInv, Reading, Writing, NoWrite, Between
  <2>2. rresult.kind = "body"
    BY <2>1, ReadFacts DEF CInv, Reading, Waits, R!OpKinds
  <2>3. rresult.ec = "ok" => R!IsComplete(pr)
    BY <2>2, ReadFacts DEF CInv, Reading
  <2> QED
    BY <1>3, <2>1, <2>3, ExitStep, DoAcceptStep, RespondStep, UnparsedStep DEF OnReadBody, Fail
<1>4. CASE OnWrite
  <2>1. pc = "write" /\ wresult # W!NoResult /\ Between /\ WP!IInv
    BY <1>4, WriteFacts DEF OnWrite, InHandler, CInv, Reading, Writing, Between, Waits
  <2>2. wresult.kind = "write"
    BY <2>1, WriteFacts DEF CInv, Writing
  <2>3. wresult.ec = "ok" => Len(wire) = sr.end
    BY <2>1, <2>2, WriteFacts
  <2>4. R!CanStart(pr) /\ answered = pr.msg /\ answered # 0
    BY <2>1 DEF CInv, Counting, Reading, R!CanStart, R!IsComplete
  <2> QED
    BY <1>4, <2>1, <2>3, <2>4, ExitStep, DoAcceptStep, DoReadStep DEF OnWrite, Fail
<1> QED
  BY <1>1, <1>2, <1>3, <1>4 DEF Handler

\* Every step of the peer, of the operations and of the server keeps the invariant.
LEMMA StepKeepsInvariant ==
    ASSUME CInv, [Next]_vars
    PROVE  CInv'
<1>1. ASSUME NEW how \in {"ok", "error"}, AcceptEnds(how)
      PROVE  CInv'
  <2>1. /\ UNCHANGED <<peer, reading, writing, running, pc, answered, late, pr, sr, wire>>
        /\ running = "running" /\ pc = "accept" /\ accept' = how
    BY <1>1 DEF AcceptEnds, CInv, Worker, reading, writing
  <2> QED
    BY <2>1, ReadingStays, WritingStays DEF CInv, Worker, Counting
<1>2. CASE PeerSends \/ PeerEnds \/ ReadEnds
  BY <1>2, ReadStreamStep DEF PeerSends, PeerEnds, ReadEnds, worker, Steady, CInv, Worker
<1>3. CASE WriteEnds
  BY <1>3, WriteStreamStep DEF WriteEnds, worker, Steady, CInv, Worker
<1>4. CASE ReadDispatched \/ WriteDispatched
  BY <1>4, ReadDispatchStep, WriteDispatchStep
<1>5. CASE Handler
  BY <1>5, HandlerStep
<1>6. CASE ServerShutsDown
  <2>1. /\ UNCHANGED <<peer, reading, writing, running, pc, accept, answered, late, pr, sr, wire>>
        /\ running = "running"
    BY <1>6 DEF ServerShutsDown, Free, worker, reading, writing
  <2> QED
    BY <2>1, ReadingStays, WritingStays DEF CInv, Worker, Counting
<1>7. CASE ServerStops
  <2>1. UNCHANGED Steady /\ running' = "running" /\ UNCHANGED <<pc, answered, late>>
    BY <1>7 DEF ServerStops, Free, Steady
  <2>2. CASE ReadCancelled
    BY <2>1, <2>2, ReadStreamStep DEF ReadCancelled, CInv, Worker
  <2>3. CASE WriteCancelled
    BY <2>1, <2>3, WriteStreamStep DEF WriteCancelled, CInv, Worker
  <2>4. CASE AcceptCancelled
    <3>1. UNCHANGED <<peer, reading, writing, pr, sr, wire>>
      BY <2>4 DEF AcceptCancelled, reading, writing
    <3>2. Worker'
      BY <2>1, <2>4 DEF AcceptCancelled, CInv, Worker
    <3> QED
      BY <2>1, <3>1, <3>2, ReadingStays, WritingStays DEF CInv, Counting
  <2> QED
    BY <1>7, <2>2, <2>3, <2>4 DEF ServerStops
<1>8. CASE UNCHANGED vars
  <2>1. /\ UNCHANGED <<peer, reading, writing, running, pc, accept, answered, late>>
        /\ UNCHANGED <<pr, rresult, sr, wire>>
    BY <1>8 DEF vars, worker, reading, writing
  <2> QED
    BY <2>1, ReadingStays, WritingStays DEF CInv, Undefined, Worker, Counting
<1> QED
  BY <1>1, <1>2, <1>3, <1>4, <1>5, <1>6, <1>7, <1>8
     DEF Next, Peer, ClientConnects, AcceptFails, Server

\* A worker that waits for its first connection satisfies the invariant.
LEMMA CInvInit == Init => CInv
<1> SUFFICES ASSUME Init PROVE CInv
  OBVIOUS
<1>1. R!Init /\ W!Init
  BY DEF Init
<1>2. RP!IInv
  <2>1. RP!Init
    BY <1>1 DEF R!Init, RP!Init, R!ResetParser, RP!ResetParser, R!NoOp, RP!NoOp,
                R!NoCompletion, RP!NoCompletion, R!NoResult, RP!NoResult
  <2> QED
    BY <2>1, RP!IInvInit, ReadAssumptions
<1>3. Reading
  BY <1>1, <1>2 DEF Reading, R!Init, R!NoOp, R!NoResult, R!ResetParser, R!CanStart
<1>4. Writing
  <2>1. wire = <<>> /\ wire \in Seq(Nat) /\ Len(wire) = 0 /\ wreported = 0
    BY <1>1 DEF W!Init
  <2> QED
    BY <1>1, <2>1 DEF Init, Writing, NoWrite, W!Init, W!NoOp, W!NoResult, W!NoWindow,
                      W!ResetSerializer, W!Serializer, W!WireInOrder
<1> QED
  BY <1>1, <1>3, <1>4 DEF Init, CInv, Worker, Counting, W!Init

--------------------------------------------------------------------------------
(***************************************************************************)
(* CInv is an invariant of a worker and its connections: each operation    *)
(* finds the state it was proved for, on this connection and on every one  *)
(* that the parser and the serializer are handed on to.                    *)
(***************************************************************************)
THEOREM ConnectionInvariant == Spec => []CInv
<1>1. CInv /\ [Next]_vars => CInv'
  BY StepKeepsInvariant
<1> QED
  BY <1>1, CInvInit, PTL DEF Spec

(***************************************************************************)
(* Every variable of the connection keeps its type, and an operation runs  *)
(* only under the handler that waits for it.                               *)
(***************************************************************************)
THEOREM ConnectionTypes == Spec => []TypeOK
<1>1. CInv => TypeOK
  <2> SUFFICES ASSUME CInv PROVE TypeOK
    OBVIOUS
  <2>1. wop # W!NoOp => pc = "write"
    BY DEF CInv, Writing, NoWrite
  <2> QED
    BY <2>1, ReadFacts DEF CInv, Undefined, Worker, Reading, Writing, Waits, TypeOK
<1> QED
  BY <1>1, ConnectionInvariant, PTL

(***************************************************************************)
(* No handler of a worker throws: start() finds a parser that was reset or *)
(* whose message is complete, and async_read one that has a header         *)
(* (main.cpp:439, 461).                                                    *)
(***************************************************************************)
THEOREM HandlersNeverThrow == Spec => [](running # "threw")
<1>1. CInv => running # "threw"
  BY DEF CInv, Undefined
<1> QED
  BY <1>1, ConnectionInvariant, PTL

(***************************************************************************)
(* On every connection the parser holds exactly the bytes taken from it:   *)
(* pr_.reset() in do_accept leaves nothing of the connection before        *)
(* (main.cpp:412).                                                         *)
(***************************************************************************)
THEOREM BytesStay == Spec => []BytesStayOnTheirConnection
<1>1. CInv => BytesStayOnTheirConnection
  BY ReadFacts DEF CInv, Reading, BytesStayOnTheirConnection
<1> QED
  BY <1>1, ConnectionInvariant, PTL

(***************************************************************************)
(* A peer gets whole responses, one for each request, although sr_ keeps   *)
(* what a broken response left: every way into the next request goes       *)
(* through a write that succeeded or through do_accept (main.cpp:407-525). *)
(***************************************************************************)
THEOREM ResponsesStayWhole == Spec => []ResponsesAreWhole
<1>1. CInv => ResponsesAreWhole
  BY DEF CInv, Writing, Counting, ResponsesAreWhole
<1> QED
  BY <1>1, ConnectionInvariant, PTL
--------------------------------------------------------------------------------
(* What the worker waits for: the invariants of ReadOps from connection to connection. *)

Taking == RP!Transfers /\ RP!Parsing

\* The steps of the read operations, as their proofs have them.
LEMMA ReadStepTakes ==
    ASSUME RP!IInv, Taking,
           R!PeerSends \/ R!PeerEnds \/ R!Stream \/ R!OwnerCancels \/ R!Dispatch
    PROVE  Taking'
<1>1. RP!Next
  BY SameReadStream, SameReadDispatch DEF RP!Next
<1> QED
  BY <1>1, RP!TransfersStep, RP!ParsingStep, ReadAssumptions DEF Taking

\* Steps that leave the peer's messages, the parser and the read operation alone.
LEMMA OthersTake ==
    ASSUME Taking, UNCHANGED <<msgs, ending, pr, rop, rcb>>
    PROVE  Taking'
BY DEF Taking, RP!Transfers, RP!Parsing

\* The worker's calls: a reset parser, one at a header, and one that parsed what it has.
LEMMA CallTakes ==
    ASSUME RP!IInv, Taking, rop = R!NoOp, DoAccept \/ DoRead \/ AsyncRead
    PROVE  Taking'
<1>1. rcb = R!NoCompletion
  BY ReadFacts
<1>2. CASE DoAccept
  BY <1>1, <1>2 DEF DoAccept, NewConnection, R!ResetParser, R!NoOp, R!NoCompletion,
                    Taking, RP!Transfers, RP!Parsing, RP!BodyLacking
<1>3. CASE DoRead
  <2>1. CASE Throws
    BY <2>1, OthersTake DEF Throws, peer, reading
  <2>2. CASE ~Throws
    <3>1. /\ pr' = R!StartMessage(pr) /\ R!ReadSome("header", 0)
          /\ UNCHANGED <<msgs, ending>>
      BY <1>3, <2>2 DEF DoRead, peer
    <3>2. pr'.st = "header" /\ rop'.total = 0 /\ rcb' = R!NoCompletion
      BY <3>1 DEF R!StartMessage, R!ReadSome
    <3> QED
      BY <3>2 DEF R!NoCompletion, Taking, RP!Transfers, RP!Parsing, RP!BodyLacking
  <2> QED
    BY <2>1, <2>2
<1>4. CASE AsyncRead
  <2>1. CASE Throws
    BY <2>1, OthersTake DEF Throws, peer, reading
  <2>2. CASE ~Throws
    <3>1. R!Post("body") \/ R!ReadSome("body", 0)
      BY <1>4, <2>2 DEF AsyncRead, R!InitiateBody
    <3>2. UNCHANGED <<msgs, ending, pr>>
      BY <1>4, <2>2 DEF AsyncRead, R!InitiateBody, R!peerVars
    <3> QED
      BY <3>1, <3>2 DEF R!Post, R!ReadSome, R!NoCompletion, Taking, RP!Transfers, RP!Parsing
  <2> QED
    BY <2>1, <2>2
<1> QED
  BY <1>2, <1>3, <1>4

\* Every step of the worker and of its peers.
LEMMA StepTakes ==
    ASSUME CInv, Taking, [Next]_vars
    PROVE  Taking'
<1>1. RP!IInv
  BY DEF CInv, Reading
<1>2. CASE PeerSends \/ PeerEnds \/ ReadEnds \/ ReadDispatched \/ ReadCancelled
  BY <1>1, <1>2, ReadStepTakes DEF PeerSends, PeerEnds, ReadEnds, ReadDispatched, ReadCancelled
<1>3. CASE \/ ClientConnects \/ AcceptFails \/ WriteEnds \/ WriteDispatched
           \/ ServerShutsDown \/ WriteCancelled \/ AcceptCancelled \/ UNCHANGED vars
  BY <1>3, OthersTake DEF ClientConnects, AcceptFails, AcceptEnds, WriteEnds, WriteDispatched,
                          ServerShutsDown, WriteCancelled, AcceptCancelled, vars, peer, reading
<1>4. CASE Handler
  <2>1. rop = R!NoOp
    BY <1>1, <1>4, ReadFacts
       DEF Handler, OnAccept, OnReadHeader, OnReadBody, OnWrite, InHandler, CInv, Reading,
           Writing, NoWrite, Waits
  <2>2. CASE Exit \/ Respond \/ HostUnparsed
    BY <2>2, OthersTake DEF Exit, Respond, HostUnparsed, peer, reading
  <2>3. CASE DoAccept \/ DoRead \/ AsyncRead
    BY <1>1, <2>1, <2>3, CallTakes
  <2> QED
    BY <1>4, <2>2, <2>3 DEF Handler, OnAccept, OnReadHeader, OnReadBody, OnWrite, Fail
<1> QED
  BY <1>2, <1>3, <1>4 DEF Next, Peer, Server, ServerStops

(***************************************************************************)
(* A worker never waits for a request that it holds, on any connection and *)
(* for any request of it: the parser it starts from was reset or has no    *)
(* body to go on with (main.cpp:412, 436-462).                             *)
(***************************************************************************)
THEOREM RequestsAreTaken == Spec => []WaitsForRequest
<1>1. Init => Taking
  BY DEF Init, R!Init, R!ResetParser, R!NoOp, R!NoCompletion,
         Taking, RP!Transfers, RP!Parsing, RP!BodyLacking
<1>2. CInv /\ Taking => WaitsForRequest
  <2> SUFFICES ASSUME CInv, Taking PROVE R!WaitsForMissing
    BY DEF WaitsForRequest
  <2>1. RP!WaitsForMissing
    BY RP!ParsingWaits, ReadAssumptions DEF CInv, Reading, Taking
  <2> QED
    BY <2>1 DEF R!WaitsForMissing, RP!WaitsForMissing, R!Lacking, RP!Lacking,
                R!HeaderBuffered, RP!HeaderBuffered
<1>3. CInv /\ Taking /\ [Next]_vars => Taking'
  BY StepTakes
<1> QED
  BY <1>1, <1>2, <1>3, ConnectionInvariant, PTL DEF Spec

--------------------------------------------------------------------------------
(***************************************************************************)
(* The refinement of Server.  K is the worker as Server sees it; first,    *)
(* the steps of Server in terms of K.                                      *)
(***************************************************************************)
K == [op |-> pc, io |-> Io, parser |-> Stage, res |-> res, late |-> late]

Quiet == UNCHANGED <<running, is_shutting_down, is_stopped>>

\* The only worker, and a step that makes it k.
LEMMA Moves ==
    ASSUME NEW k, K' = k, Quiet
    PROVE  S!Becomes("w", k)
<1> DEFINE f == [w \in {"w"} |-> K]
<1>1. f' = [f EXCEPT !["w"] = k]
  BY DEF K
<1> QED
  BY <1>1 DEF S!Becomes, S!serverVars, Quiet, K, f

\* A wait ends.
LEMMA WaitEndsStep ==
    ASSUME running = "running", Io = "waiting", NEW how \in {"ok", "error"}, Quiet,
           K' = [op |-> pc, io |-> how, parser |-> Stage, res |-> res, late |-> late]
    PROVE  S!Environment("w")
<1> DEFINE f == [w \in {"w"} |-> K]
<1>1. f["w"].io = "waiting" /\ f["w"].op = pc
  BY DEF K
<1>2. f' = [f EXCEPT !["w"].io = how]
  BY DEF K
<1>3. S!WaitEnds("w", how)
  BY <1>1, <1>2 DEF S!WaitEnds, S!serverVars, Quiet, K, f
<1> QED
  BY <1>1, <1>3 DEF S!Environment, S!ClientConnects, S!AcceptFails, S!PeerActs, S!PeerBreaks, K, f

\* The composed operation waits again.
LEMMA GoesOnStep ==
    ASSUME running = "running", pc \in {"read_header", "read_body", "write"}, Io = "ok",
           NEW io \in (IF pc = "write" THEN {"waiting", "error"} ELSE {"waiting"}), Quiet,
           K' = [op |-> pc, io |-> io, parser |-> Stage, res |-> res, late |-> late]
    PROVE  S!OperationGoesOn("w")
<1> DEFINE f == [w \in {"w"} |-> K]
<1>1. f["w"].io = "ok" /\ f["w"].op = pc
  BY DEF K
<1>2. K' = [f["w"] EXCEPT !.io = io]
  BY DEF K
<1>3. S!Becomes("w", [f["w"] EXCEPT !.io = io])
  BY <1>2, Moves, Zenon
<1> QED
  BY <1>1, <1>3 DEF S!OperationGoesOn, K, f

\* The server cancels what the worker waits for.
LEMMA ServiceStopStep ==
    ASSUME UNCHANGED running,
           K' = [op |-> pc, io |-> IF Io = "waiting" THEN "aborted" ELSE Io,
                 parser |-> Stage, res |-> res, late |-> late]
    PROVE  S!ServiceStop
<1> DEFINE f == [w \in {"w"} |-> K]
           cancelled(k) == [k EXCEPT !.io = S!Cancelled(k.io)]
<1>1. cancelled(K) = K'
  BY DEF K, S!Cancelled
<1>2. S!SocketCancelled(S!AcceptCancelled(K)) = K'
  <2>1. CASE pc = "accept"
    BY <1>1, <2>1 DEF S!SocketCancelled, S!AcceptCancelled, S!Cancelled, K
  <2>2. CASE pc # "accept"
    BY <1>1, <2>2 DEF S!SocketCancelled, S!AcceptCancelled, S!Cancelled, K
  <2> QED
    BY <2>1, <2>2
<1>3. f' = [w \in {"w"} |-> S!SocketCancelled(S!AcceptCancelled(f[w]))]
  <2>1. f["w"] = K
    OBVIOUS
  <2> QED
    BY <1>2, <2>1
<1> QED
  BY <1>3 DEF S!ServiceStop, K, f

\* A cancelled operation ends the worker.
LEMMA ExitMoves ==
    ASSUME running = "running", pc \in {"accept", "read_header", "read_body", "write"},
           Io = "aborted", Quiet,
           K' = [op |-> "none", io |-> "none", parser |-> Stage, res |-> res, late |-> late]
    PROVE  S!Handler("w")
<1>1. S!Becomes("w", [op |-> "none", io |-> "none", parser |-> Stage, res |-> res, late |-> late])
  BY Moves, Zenon
<1>2. S!Exit("w")
  BY <1>1 DEF S!Exit, S!Doing
<1> QED
  BY <1>2 DEF S!Handler, S!OnAccept, S!OnReadHeader, S!OnReadBody, S!OnWrite, S!Resumed, S!Fail

\* Any other failure, and a response after which the connection is not kept, accept anew.
LEMMA DoAcceptMoves ==
    ASSUME running = "running", Quiet,
           \/ pc = "accept" /\ Io = "error"
           \/ pc = "read_header" /\ Io \in {"ok", "error"}
           \/ pc = "read_body" /\ Io \in {"ok", "error"}
           \/ pc = "write" /\ (Io = "error" \/ (Io = "ok" /\ ~res.keep_alive)),
           K' = [op |-> "accept", io |-> "waiting", parser |-> "reset", res |-> res, late |-> 0]
    PROVE  S!Handler("w")
<1> DEFINE f == [w \in {"w"} |-> K]
<1>1. f["w"].io = Io /\ f["w"].op = pc /\ f["w"].res = res
  BY DEF K
<1>2. [f["w"] EXCEPT !.parser = "failed"].res = res
  BY DEF K
<1>3. S!Becomes("w", [op |-> "accept", io |-> "waiting", parser |-> "reset",
                      res |-> res, late |-> 0])
  BY Moves, Zenon
<1>4. S!DoAccept("w", f["w"]) /\ S!DoAccept("w", [f["w"] EXCEPT !.parser = "failed"])
  BY <1>1, <1>2, <1>3 DEF S!DoAccept
<1>5. Io # "aborted" => S!Fail("w", f["w"]) /\ S!Fail("w", [f["w"] EXCEPT !.parser = "failed"])
  BY <1>1, <1>4 DEF S!Fail, K, f
<1>6. CASE pc = "accept" /\ Io = "error"
  BY <1>1, <1>5, <1>6 DEF S!Handler, S!OnAccept, S!Resumed, K, f
<1>7. CASE pc = "read_header" /\ Io \in {"ok", "error"}
  BY <1>1, <1>5, <1>7 DEF S!Handler, S!OnReadHeader, S!Resumed, K, f
<1>8. CASE pc = "read_body" /\ Io \in {"ok", "error"}
  BY <1>1, <1>5, <1>8 DEF S!Handler, S!OnReadBody, S!Resumed, K, f
<1>9. CASE pc = "write" /\ (Io = "error" \/ (Io = "ok" /\ ~res.keep_alive))
  BY <1>1, <1>4, <1>5, <1>9 DEF S!Handler, S!OnWrite, S!Resumed, K, f
<1> QED
  BY <1>6, <1>7, <1>8, <1>9, Zenon

\* The next request is awaited, on a new connection or on one that is kept.
LEMMA DoReadMoves ==
    ASSUME running = "running", Quiet, Io = "ok", Stage \in {"reset", "complete"},
           pc = "accept" \/ (pc = "write" /\ res.keep_alive),
           K' = [op |-> "read_header", io |-> "waiting", parser |-> "header",
                 res |-> res, late |-> late]
    PROVE  S!Handler("w")
<1> DEFINE f == [w \in {"w"} |-> K]
<1>1. /\ f["w"].io = Io /\ f["w"].op = pc /\ f["w"].res = res
      /\ f["w"].parser = Stage /\ f["w"].late = late
  BY DEF K
<1>2. S!Becomes("w", [op |-> "read_header", io |-> "waiting", parser |-> "header",
                      res |-> res, late |-> late])
  BY Moves, Zenon
<1>3. S!DoRead("w", f["w"])
  BY <1>1, <1>2 DEF S!DoRead, S!Doing
<1> QED
  BY <1>1, <1>3 DEF S!Handler, S!OnAccept, S!OnWrite, S!Resumed, K, f

\* The body is awaited, or was there with the header.
LEMMA AsyncReadMoves ==
    ASSUME running = "running", Quiet, pc = "read_header", Io = "ok",
           NEW stage \in {"body", "complete"},
           K' = [op |-> "read_body", io |-> IF stage = "complete" THEN "posted" ELSE "waiting",
                 parser |-> stage, res |-> res, late |-> late]
    PROVE  S!Handler("w")
<1> DEFINE f == [w \in {"w"} |-> K]
           k == [f["w"] EXCEPT !.parser = stage]
<1>1. f["w"].io = Io /\ f["w"].op = pc
  BY DEF K
<1>2. k.res = res /\ k.parser = stage /\ k.late = late
  BY DEF K
<1>3. S!Becomes("w", [op |-> "read_body",
                      io |-> IF stage = "complete" THEN "posted" ELSE "waiting",
                      parser |-> stage, res |-> res, late |-> late])
  BY Moves, Zenon
<1>4. S!AsyncRead("w", k)
  <2> HIDE DEF k
  <2>1. CASE stage = "complete"
    BY <1>2, <1>3, <2>1 DEF S!AsyncRead, S!Doing
  <2>2. CASE stage = "body"
    BY <1>2, <1>3, <2>2 DEF S!AsyncRead, S!Doing
  <2> QED
    BY <2>1, <2>2
<1> QED
  BY <1>1, <1>4 DEF S!Handler, S!OnReadHeader, S!Resumed, K, f, k

\* A response is begun.
LEMMA RespondMoves ==
    ASSUME running = "running", Quiet, pc = "read_body", Io \in {"ok", "posted"},
           NEW response \in (IF is_shutting_down THEN S!ServiceUnavailable ELSE S!HandleRequest),
           NEW io \in {"waiting", "error"},
           K' = [op |-> "write", io |-> io, parser |-> "complete", res |-> response,
                 late |-> IF is_shutting_down THEN late + 1 ELSE late]
    PROVE  S!Handler("w")
<1> DEFINE f == [w \in {"w"} |-> K]
           k == [f["w"] EXCEPT !.parser = "complete"]
<1>1. f["w"].io = Io /\ f["w"].op = pc
  BY DEF K
<1>2. k.parser = "complete" /\ k.late = late
  BY DEF K
<1>3. S!Becomes("w", [op |-> "write", io |-> io, parser |-> "complete", res |-> response,
                      late |-> IF is_shutting_down THEN late + 1 ELSE late])
  BY Moves, Zenon
<1>4. S!Respond("w", k)
  <2> HIDE DEF k
  <2> QED
    BY <1>2, <1>3 DEF S!Respond
<1> QED
  BY <1>1, <1>4 DEF S!Handler, S!OnReadBody, S!Resumed, K, f, k

(***************************************************************************)
(* What the refinement needs beyond CInv: the worker that waits for an     *)
(* operation has one, and what its handler is told agrees with the wait    *)
(* that was resumed.                                                       *)
(***************************************************************************)
Busy ==
    /\ pc \in {"read_header", "read_body"} => rop # R!NoOp \/ rresult # R!NoResult
    /\ pc = "write" => wop # W!NoOp \/ wresult # W!NoResult

ReadTold ==
    rresult # R!NoResult =>
      \/ rresult.ec = "ok" /\ (resumed.io = "ok" \/ (pc = "read_body" /\ resumed.io = "posted"))
      \/ rresult.ec = "operation_aborted" /\ resumed.io = "aborted" /\ resumed.stage = pr.st
      \/ rresult.ec = "net_error" /\ resumed.io = "error"
      \/ rresult.ec \notin {"ok", "operation_aborted", "net_error"} /\ resumed.io = "ok"

WriteTold ==
    wresult # W!NoResult =>
      /\ resumed.stage = pr.st
      /\ \/ wresult.ec = "ok" /\ resumed.io = "ok"
         \/ wresult.ec = "operation_aborted" /\ resumed.io = "aborted"
         \/ wresult.ec \notin {"ok", "operation_aborted"} /\ resumed.io = "error"

Told == Busy /\ ReadTold /\ WriteTold /\ (rop.kind = "header" => rop.pc = "read")

\* Whose turn it is when no handler runs.
LEMMA AbstractIo ==
    ASSUME CInv
    PROVE  /\ rop # R!NoOp => ~InHandler /\ Io = WaitOf(rop, rcb) /\ Stage = pr.st
           /\ wop # W!NoOp => ~InHandler /\ Io = WaitOf(wop, wcb) /\ Stage = pr.st
           /\ pc \in {"accept", "none"} => ~InHandler /\ Stage = pr.st
           /\ pc = "accept" => Io = accept
<1>1. rop # R!NoOp => pc \in {"read_header", "read_body"} /\ rresult = R!NoResult
                      /\ wresult = W!NoResult
  BY ReadFacts DEF CInv, Reading, Writing, NoWrite, Waits
<1>2. wop # W!NoOp => pc = "write" /\ rresult = R!NoResult /\ wresult = W!NoResult
  BY WriteFacts DEF CInv, Reading, Writing, NoWrite, Waits
<1>3. pc \in {"accept", "none"} => rresult = R!NoResult /\ wresult = W!NoResult
  BY DEF CInv, Reading, Writing, NoWrite, Waits
<1> QED
  BY <1>1, <1>2, <1>3 DEF InHandler, Io, Stage

\* What a resumed read operation does, as a handler sees it.
LEMMA ReadDispatchTells ==
    ASSUME CInv, Told, R!Dispatch
    PROVE  \/ /\ rop' # R!NoOp /\ rop'.pc = "read" /\ rop'.kind = rop.kind
              /\ rcb' = R!NoCompletion
              /\ rresult' = rresult /\ WaitOf(rop, rcb) = "ok" /\ pr'.st = pr.st
           \/ /\ rop' = R!NoOp /\ rresult'.kind = rop.kind
              /\ \/ /\ rresult'.ec = "ok"
                    /\ \/ WaitOf(rop, rcb) = "ok"
                       \/ rop.kind # "header" /\ WaitOf(rop, rcb) = "posted"
                 \/ /\ rresult'.ec = "operation_aborted"
                    /\ WaitOf(rop, rcb) = "aborted" /\ pr'.st = pr.st
                 \/ rresult'.ec = "net_error" /\ WaitOf(rop, rcb) = "error"
                 \/ /\ rresult'.ec \notin {"ok", "operation_aborted", "net_error"}
                    /\ WaitOf(rop, rcb) = "ok"
<1>1. RP!IInv /\ RP!Dispatch
  BY SameReadDispatch DEF CInv, Reading
<1>2. RP!IInv'
  BY <1>1, RP!DispatchStep, ReadAssumptions
<1>3. rop.kind # "some" /\ (rop.kind = "header" => rop.pc = "read")
  BY DEF CInv, Reading, Told
<1>4. rcb # RP!NoCompletion => rcb.ec \in RP!StreamCodes
  BY <1>1 DEF RP!IInv, RP!TypeOK
<1>5. ASSUME RP!Dispatchable("read"), rcb.ec \notin RP!StreamErrors
      PROVE  WaitOf(rop, rcb) = "ok"
  BY <1>4, <1>5 DEF RP!Dispatchable, RP!StreamCodes, RP!StreamErrors, WaitOf
<1>6. ASSUME RP!Continue, RP!Dispatchable("read")
      PROVE  /\ rop' # R!NoOp /\ rop'.pc = "read" /\ rop'.kind = rop.kind
             /\ rcb' = R!NoCompletion /\ rresult' = rresult /\ pr'.st = pr.st
  <2>1. /\ rop'.pc = "read" /\ rop'.kind = rop.kind /\ rop.pc = "read"
        /\ rcb' = R!NoCompletion /\ rresult' = rresult
    BY <1>6 DEF RP!Continue, RP!ReadSome, RP!NoCompletion, R!NoCompletion, RP!Dispatchable
  <2>2. pr'.st = pr.st
    BY <1>1, <1>2, <2>1 DEF RP!IInv, RP!SuspendedInStage
  <2> QED
    BY <2>1, <2>2 DEF R!NoOp
<1>7. \A ec, total : RP!Complete(ec, total) =>
        rop' = R!NoOp /\ rresult'.kind = rop.kind /\ rresult'.ec = ec
  BY DEF RP!Complete, RP!NoOp, R!NoOp
<1>8. CASE RP!ReadFailed
  <2>1. /\ RP!Dispatchable("read") /\ rcb.ec \in {"net_error", "operation_aborted"}
        /\ pr' = RP!Fed /\ rop' = R!NoOp /\ rresult'.kind = rop.kind /\ rresult'.ec = rcb.ec
    BY <1>7, <1>8 DEF RP!ReadFailed, RP!StreamErrors
  <2>2. pr'.st = pr.st
    BY <1>1, <2>1, RP!FedFacts, ReadAssumptions
  <2> QED
    BY <2>1, <2>2 DEF WaitOf
<1>9. RP!Dispatchable("read") => RP!Parsed.ec \in RP!ParseCodes
  BY <1>1, RP!ParsedFacts, ReadAssumptions
<1>10. CASE RP!ReadHeaderOp
  <2>1. RP!Dispatchable("read") /\ rcb.ec \notin RP!StreamErrors
    BY <1>10 DEF RP!ReadHeaderOp, RP!Resumed
  <2>2. RP!HeaderOutcome \in RP!ParseCodes
    BY <1>9, <2>1 DEF RP!HeaderOutcome, RP!ParseCodes
  <2>3. \/ RP!Continue
        \/ RP!Complete(RP!HeaderOutcome, RP!Total) /\ RP!HeaderOutcome # "need_more_input"
    BY <1>10 DEF RP!ReadHeaderOp
  <2> QED
    BY <1>5, <1>6, <1>7, <2>1, <2>2, <2>3 DEF RP!ParseCodes, RP!ParseErrors
<1>11. CASE RP!ReadBodyOp
  <2>1. RP!Dispatchable("read") /\ rcb.ec \notin RP!StreamErrors
    BY <1>11 DEF RP!ReadBodyOp, RP!Resumed
  <2>2. RP!BodyOutcome \in RP!ParseCodes
    BY <1>9, <2>1 DEF RP!BodyOutcome, RP!ParseCodes
  <2>3. \/ RP!Continue
        \/ RP!Complete(RP!BodyOutcome, RP!Total) /\ RP!BodyOutcome # "need_more_input"
    BY <1>11 DEF RP!ReadBodyOp
  <2> QED
    BY <1>5, <1>6, <1>7, <2>1, <2>2, <2>3 DEF RP!ParseCodes, RP!ParseErrors
<1>12. CASE RP!PostedBody
  <2>1. rop.pc = "post" /\ rop.kind # "header" /\ RP!Complete(RP!Parse(msgs, pr).ec, rop.total)
    BY <1>12 DEF RP!PostedBody, RP!Dispatchable
  <2>2. rcb = [ec |-> "ok", n |-> 0] /\ RP!IsComplete(pr)
    BY <1>1, <2>1 DEF RP!IInv, RP!Control
  <2>3. RP!Parse(msgs, pr).ec = "ok"
    BY <2>2 DEF RP!Parse, RP!IsComplete
  <2> QED
    BY <1>7, <2>1, <2>2, <2>3 DEF WaitOf
<1>13. ~RP!PostedHeader
  BY <1>3 DEF RP!PostedHeader, RP!Dispatchable
<1> QED
  BY <1>1, <1>8, <1>10, <1>11, <1>12, <1>13 DEF RP!Dispatch

\* What a resumed write operation does, as a handler sees it.
LEMMA WriteDispatchTells ==
    ASSUME WP!IInv, W!Dispatch
    PROVE  \/ /\ wop' # W!NoOp /\ wresult' = wresult
              /\ WaitOf(wop, wcb) = "ok" /\ WaitOf(wop', wcb') \in {"waiting", "error"}
           \/ /\ wop' = W!NoOp /\ wresult' # W!NoResult
              /\ \/ wresult'.ec = "ok" /\ WaitOf(wop, wcb) = "ok"
                 \/ wresult'.ec = "operation_aborted" /\ WaitOf(wop, wcb) = "aborted"
                 \/ /\ wresult'.ec \notin {"ok", "operation_aborted"}
                    /\ WaitOf(wop, wcb) = "error"
<1>1. wcb # W!NoCompletion /\ wcb.ec \in WP!ErrorCodes /\ wop.pc \in {"write", "post"}
      /\ wop # W!NoOp
  BY DEF WP!IInv, WP!TypeOK, W!Dispatch, W!Written, W!Posted, W!Dispatchable, W!NoOp,
         W!NoCompletion, WP!NoCompletion
<1>2. wop.pc = "post" => wcb.ec \in {"need_data", "source_error"}
  BY DEF WP!IInv, WP!Control, WP!PrepareErrors
<1>3. /\ wcb.ec = "ok" => WaitOf(wop, wcb) = "ok"
      /\ wcb.ec = "operation_aborted" => WaitOf(wop, wcb) = "aborted"
      /\ wcb.ec \notin {"ok", "operation_aborted"} => WaitOf(wop, wcb) = "error"
  BY <1>1, <1>2 DEF WaitOf, WP!ErrorCodes, WP!StreamErrors, WP!PrepareErrors
<1>4. PICK s : W!ResumeOp(s)
  BY DEF W!Dispatch, W!Written, W!Posted
<1>5. CASE W!GoesOn(wcb.ec, s)
  <2>1. W!Suspend(wop.kind, W!Total, s) /\ wresult' = wresult /\ wcb.ec = "ok"
    BY <1>4, <1>5 DEF W!ResumeOp, W!GoesOn
  <2>2. wop' # W!NoOp /\ WaitOf(wop', wcb') \in {"waiting", "error"}
    BY <2>1 DEF W!Suspend, W!Prepare, W!NothingPrepared, W!NoOp, W!NoCompletion, WaitOf
  <2> QED
    BY <1>3, <2>1, <2>2
<1>6. CASE ~W!GoesOn(wcb.ec, s)
  <2>1. W!Complete(wcb.ec, W!Total)
    BY <1>4, <1>6 DEF W!ResumeOp
  <2>2. wop' = W!NoOp /\ wresult'.ec = wcb.ec /\ wresult' # W!NoResult
    <3>1. wresult'.ec # "none"
      BY <1>1, <2>1 DEF W!Complete, WP!ErrorCodes, WP!StreamErrors, WP!PrepareErrors
    <3> QED
      BY <2>1, <3>1 DEF W!Complete, W!NoResult
  <2> QED
    BY <1>3, <2>2
<1> QED
  BY <1>5, <1>6

(***************************************************************************)
(* Each step of Connection is a step of one of Server's workers, or leaves *)
(* it as it is, and keeps what handlers are told in agreement.             *)
(***************************************************************************)
Simulates == UNCHANGED <<running, K>> \/ S!WorkersNext

\* A step of the worker, and a cancellation, are steps of Server's workers.
LEMMA WorkerSteps ==
    /\ S!Environment("w") \/ S!OperationGoesOn("w") \/ S!Handler("w") => Simulates
    /\ S!ServiceStop /\ UNCHANGED running => Simulates
BY DEF Simulates, S!WorkersNext

\* A step that changes neither the worker nor its operations.
LEMMA NothingMoves ==
    ASSUME CInv, Told,
           UNCHANGED <<running, pc, accept, res, late, resumed>>,
           UNCHANGED <<pr, rop, rcb, rresult, wop, wcb, wresult>>
    PROVE  Told' /\ Simulates
<1>1. UNCHANGED <<Io, Stage>>
  BY DEF Io, Stage, InHandler, WaitOf
<1> QED
  BY <1>1 DEF Told, Busy, ReadTold, WriteTold, Simulates, K

\* A completion for the read operation is queued.
LEMMA ReadCompletes ==
    ASSUME CInv, Told, NEW ec \in R!StreamCodes, NEW n, R!Completes(ec, n),
           UNCHANGED <<writing, running, pc, accept, res, answered, late, resumed>>
    PROVE  /\ Told' /\ UNCHANGED Stage /\ Io = "waiting"
           /\ Io' = (IF ec = "operation_aborted" THEN "aborted"
                     ELSE IF ec = "net_error" THEN "error" ELSE "ok")
<1>1. /\ rop.pc = "read" /\ rcb = R!NoCompletion /\ rcb' = [ec |-> ec, n |-> n]
      /\ rop # R!NoOp /\ UNCHANGED <<pr, rop, rresult>>
  BY DEF R!Completes, R!Waiting, R!NoOp
<1>2. UNCHANGED <<wop, wcb, wresult>>
  BY DEF writing
<1>3. Told' /\ UNCHANGED Stage
  BY <1>1, <1>2 DEF Told, Busy, ReadTold, WriteTold, Stage, InHandler
<1>4. ~InHandler /\ Io = WaitOf(rop, rcb) /\ pc \in {"read_header", "read_body"}
  BY <1>1, AbstractIo DEF CInv, Reading, Waits
<1>5. Io' = WaitOf(rop, rcb')
  BY <1>1, <1>2, <1>4 DEF Io, InHandler
<1> QED
  BY <1>1, <1>3, <1>4, <1>5 DEF WaitOf, R!NoCompletion, R!StreamCodes, R!StreamErrors

\* A completion for the write operation is queued.
LEMMA WriteCompletes ==
    ASSUME CInv, Told, NEW ec \in {"ok", "net_error", "operation_aborted"}, NEW n,
           W!Completes(ec, n),
           UNCHANGED <<reading, running, pc, accept, res, answered, late, resumed>>
    PROVE  /\ Told' /\ UNCHANGED Stage /\ Io = "waiting"
           /\ Io' = (IF ec = "operation_aborted" THEN "aborted"
                     ELSE IF ec = "net_error" THEN "error" ELSE "ok")
<1>1. /\ wop.pc = "write" /\ wcb = W!NoCompletion /\ wcb' = [ec |-> ec, n |-> n]
      /\ wop # W!NoOp /\ UNCHANGED <<wop, wresult>>
  BY DEF W!Completes, W!Waiting, W!NoOp
<1>2. UNCHANGED <<pr, rop, rcb, rresult>>
  BY DEF reading
<1>3. Told' /\ UNCHANGED Stage
  BY <1>1, <1>2 DEF Told, Busy, ReadTold, WriteTold, Stage, InHandler
<1>4. ~InHandler /\ Io = WaitOf(wop, wcb) /\ pc = "write"
  BY <1>1, AbstractIo DEF CInv, Writing, NoWrite
<1>5. Io' = WaitOf(wop, wcb')
  BY <1>1, <1>2, <1>4 DEF Io, InHandler
<1> QED
  BY <1>1, <1>3, <1>4, <1>5 DEF WaitOf, W!NoCompletion

\* While an operation runs, no handler has left the program undefined.
LEMMA AtRestRuns ==
    ASSUME CInv, rop # R!NoOp \/ wop # W!NoOp
    PROVE  running = "running"
<1>1. rop # R!NoOp => rresult = R!NoResult
  BY ReadFacts DEF CInv, Reading
<1>2. wop # W!NoOp => pc = "write"
  BY DEF CInv, Writing, NoWrite
<1> QED
  BY <1>1, <1>2 DEF CInv, Undefined

\* What the peers and the sockets do is what the environment of Server's workers does.
LEMMA PeerSimulates ==
    ASSUME CInv, Told, Peer \/ ReadEnds \/ WriteEnds
    PROVE  Told' /\ Simulates
<1>1. ASSUME NEW how \in {"ok", "error"}, AcceptEnds(how)
      PROVE  Told' /\ Simulates
  <2>1. /\ running = "running" /\ accept = "waiting" /\ accept' = how
        /\ UNCHANGED <<pr, rop, rcb, rresult, wop, wcb, wresult>>
        /\ UNCHANGED <<running, pc, res, late, resumed, is_shutting_down, is_stopped>>
    BY <1>1 DEF AcceptEnds, reading, writing, flags
  <2>2. pc = "accept" /\ ~InHandler /\ Io = "waiting"
    BY <2>1, AbstractIo DEF CInv, Worker
  <2>3. Io' = how /\ UNCHANGED Stage
    BY <2>1, <2>2 DEF Io, Stage, InHandler
  <2>4. S!Environment("w")
    BY <2>1, <2>2, <2>3, WaitEndsStep DEF Quiet, K
  <2> QED
    BY <2>1, <2>4, WorkerSteps DEF Told, Busy, ReadTold, WriteTold
<1>2. CASE PeerSends \/ PeerEnds
  BY <1>2, NothingMoves DEF PeerSends, PeerEnds, R!PeerSends, R!PeerEnds, writing, worker
<1>3. CASE ReadEnds
  <2>1. UNCHANGED <<writing, running, pc, accept, res, answered, late, resumed,
                    is_shutting_down, is_stopped>>
    BY <1>3 DEF ReadEnds, worker, flags
  <2>2. PICK ec \in {"ok", "eof", "net_error"} : \E n : R!Completes(ec, n)
    BY <1>3 DEF ReadEnds, R!Stream, R!StreamDelivers, R!StreamEnds, R!StreamFails
  <2>3. /\ Told' /\ UNCHANGED Stage /\ Io = "waiting"
        /\ Io' = IF ec = "net_error" THEN "error" ELSE "ok"
    BY <2>1, <2>2, ReadCompletes DEF R!StreamCodes, R!StreamErrors
  <2>4. rop # R!NoOp
    BY <2>2 DEF R!Completes, R!Waiting, R!NoOp
  <2>5. S!Environment("w")
    BY <2>1, <2>3, <2>4, AtRestRuns, WaitEndsStep DEF Quiet, K
  <2> QED
    BY <2>3, <2>5, WorkerSteps
<1>4. CASE WriteEnds
  <2>1. UNCHANGED <<reading, running, pc, accept, res, answered, late, resumed,
                    is_shutting_down, is_stopped>>
    BY <1>4 DEF WriteEnds, worker, flags
  <2>2. PICK ec \in {"ok", "net_error"} : \E n : W!Completes(ec, n)
    BY <1>4 DEF WriteEnds, W!StreamWrites, W!StreamFails
  <2>3. /\ Told' /\ UNCHANGED Stage /\ Io = "waiting"
        /\ Io' = IF ec = "net_error" THEN "error" ELSE "ok"
    BY <2>1, <2>2, WriteCompletes
  <2>4. wop # W!NoOp
    BY <2>2 DEF W!Completes, W!Waiting, W!NoOp
  <2>5. S!Environment("w")
    BY <2>1, <2>3, <2>4, AtRestRuns, WaitEndsStep DEF Quiet, K
  <2> QED
    BY <2>3, <2>5, WorkerSteps
<1> QED
  BY <1>1, <1>2, <1>3, <1>4 DEF Peer, ClientConnects, AcceptFails

\* A resumed operation goes on waiting, or its handler is about to run.
LEMMA DispatchSimulates ==
    ASSUME CInv, Told, ReadDispatched \/ WriteDispatched
    PROVE  Told' /\ Simulates
<1>0. running = "running"
  BY DEF ReadDispatched, WriteDispatched, Free
<1>1. CASE ReadDispatched
  <2>1. /\ R!Dispatch /\ Dispatched(rop, rcb, rresult' # R!NoResult)
        /\ UNCHANGED <<wop, wcb, wresult, running, pc, accept, res, late,
                       is_shutting_down, is_stopped>>
    BY <1>1 DEF ReadDispatched, writing, flags
  <2>2. rop # R!NoOp /\ rop.kind \in {"header", "body"} /\ pc = Waits(rop.kind)
        /\ rresult = R!NoResult /\ wresult = W!NoResult
    BY <2>1, ReadDispatchShape, ReadFacts
       DEF CInv, Reading, Writing, NoWrite, R!OpKinds, Waits
  <2>3. ~InHandler /\ Io = WaitOf(rop, rcb) /\ Stage = pr.st
    BY <2>2, AbstractIo
  <2>4. CASE rop' # R!NoOp
    <3>1. /\ rop'.pc = "read" /\ rcb' = R!NoCompletion /\ rresult' = R!NoResult
          /\ Io = "ok" /\ pr'.st = pr.st
      BY <2>1, <2>2, <2>3, <2>4, ReadDispatchTells
    <3>2. Io' = "waiting" /\ Stage' = Stage
      BY <2>1, <2>2, <2>3, <3>1 DEF Io, Stage, InHandler, WaitOf, R!NoCompletion, Waits
    <3>3. S!OperationGoesOn("w")
      BY <1>0, <2>1, <2>2, <3>1, <3>2, GoesOnStep DEF Quiet, K, Waits
    <3>4. Told'
      BY <2>1, <2>2, <2>4, <3>1 DEF Told, Busy, ReadTold, WriteTold, Waits
    <3> QED
      BY <3>3, <3>4, WorkerSteps
  <2>5. CASE rop' = R!NoOp
    <3>1. rresult'.kind = rop.kind /\ rresult' # R!NoResult
      BY <2>1, <2>2, <2>5, ReadDispatchTells DEF R!NoResult
    <3>2. resumed' = [io |-> Io, stage |-> pr.st]
      BY <2>1, <2>3, <3>1 DEF Dispatched
    <3>3. Io' = Io /\ Stage' = Stage
      BY <2>3, <3>1, <3>2 DEF Io, Stage, InHandler
    <3>4. ReadTold'
      BY <2>1, <2>2, <2>3, <2>5, <3>2, ReadDispatchTells DEF ReadTold, Waits
    <3>5. Told'
      BY <2>1, <2>2, <2>5, <3>1, <3>4 DEF Told, Busy, WriteTold, R!NoOp, Waits
    <3> QED
      BY <2>1, <3>3, <3>5 DEF Simulates, K
  <2> QED
    BY <2>4, <2>5
<1>2. CASE WriteDispatched
  <2>1. /\ W!Dispatch /\ Dispatched(wop, wcb, wresult' # W!NoResult)
        /\ UNCHANGED <<pr, rop, rcb, rresult, running, pc, accept, res, late,
                       is_shutting_down, is_stopped>>
    BY <1>2 DEF WriteDispatched, reading, flags
  <2>2. /\ wop # W!NoOp /\ pc = "write" /\ WP!IInv
        /\ rresult = R!NoResult /\ wresult = W!NoResult
    BY <2>1, WriteDispatchShape, WriteFacts DEF CInv, Reading, Writing, NoWrite, Waits
  <2>3. ~InHandler /\ Io = WaitOf(wop, wcb) /\ Stage = pr.st
    BY <2>2, AbstractIo
  <2>4. CASE wop' # W!NoOp
    <3>1. wresult' = W!NoResult /\ Io = "ok" /\ WaitOf(wop', wcb') \in {"waiting", "error"}
      BY <2>1, <2>2, <2>3, <2>4, WriteDispatchTells
    <3>2. Io' = WaitOf(wop', wcb') /\ Stage' = Stage
      BY <2>1, <2>2, <2>3, <3>1 DEF Io, Stage, InHandler
    <3>3. S!OperationGoesOn("w")
      BY <1>0, <2>1, <2>2, <3>1, <3>2, GoesOnStep DEF Quiet, K
    <3>4. Told'
      BY <2>1, <2>2, <2>4, <3>1 DEF Told, Busy, ReadTold, WriteTold
    <3> QED
      BY <3>3, <3>4, WorkerSteps
  <2>5. CASE wop' = W!NoOp
    <3>1. wresult' # W!NoResult
      BY <2>1, <2>2, <2>5, WriteDispatchTells
    <3>2. resumed' = [io |-> Io, stage |-> pr.st]
      BY <2>1, <2>3, <3>1 DEF Dispatched
    <3>3. Io' = Io /\ Stage' = Stage
      BY <2>3, <3>1, <3>2 DEF Io, Stage, InHandler
    <3>4. WriteTold'
      BY <2>1, <2>2, <2>3, <2>5, <3>2, WriteDispatchTells DEF WriteTold
    <3>5. Told'
      BY <2>1, <2>2, <3>1, <3>4 DEF Told, Busy, ReadTold
    <3> QED
      BY <2>1, <3>3, <3>5 DEF Simulates, K
  <2> QED
    BY <2>4, <2>5
<1> QED
  BY <1>1, <1>2

(***************************************************************************)
(* The worker's calls, as Server sees them: K after each.                  *)
(***************************************************************************)
LEMMA ExitView ==
    ASSUME CInv, Told, Between, Exit, UNCHANGED flags
    PROVE  /\ Told' /\ Quiet
           /\ K' = [op |-> "none", io |-> "none", parser |-> pr.st, res |-> res, late |-> late]
<1>1. /\ pc' = "none" /\ rresult' = R!NoResult /\ wresult' = W!NoResult
      /\ UNCHANGED <<pr, rop, running, res, late, is_shutting_down, is_stopped>>
  BY DEF Exit, HandlerReturns, flags
<1>2. Io' = "none" /\ Stage' = pr.st
  BY <1>1 DEF Io, Stage, InHandler
<1> QED
  BY <1>1, <1>2 DEF Told, Busy, ReadTold, WriteTold, Quiet, K

\* The worker after it went to accept, in Server's terms.
LEMMA DoAcceptView ==
    ASSUME CInv, Told, Between, DoAccept, UNCHANGED flags
    PROVE  /\ Told' /\ Quiet
           /\ K' = [op |-> "accept", io |-> "waiting", parser |-> "reset",
                    res |-> res, late |-> 0]
<1>1. /\ pc' = "accept" /\ accept' = "waiting" /\ pr' = R!ResetParser /\ late' = 0
      /\ rresult' = R!NoResult /\ wresult' = W!NoResult
      /\ UNCHANGED <<rop, running, res, is_shutting_down, is_stopped>>
  BY DEF DoAccept, NewConnection, HandlerReturns, flags
<1>2. Io' = "waiting" /\ Stage' = "reset"
  BY <1>1 DEF Io, Stage, InHandler, R!ResetParser
<1> QED
  BY <1>1, <1>2 DEF Told, Busy, ReadTold, WriteTold, Quiet, K

\* The worker after it began to read a header, in Server's terms.
LEMMA DoReadView ==
    ASSUME CInv, Told, Between, DoRead, R!CanStart(pr), UNCHANGED flags
    PROVE  /\ Told' /\ Quiet
           /\ K' = [op |-> "read_header", io |-> "waiting", parser |-> "header",
                    res |-> res, late |-> late]
<1>1. /\ pc' = "read_header" /\ pr' = R!StartMessage(pr) /\ R!ReadSome("header", 0)
      /\ rresult' = R!NoResult /\ wresult' = W!NoResult
      /\ UNCHANGED <<running, res, late, is_shutting_down, is_stopped>>
  BY DEF DoRead, HandlerReturns, flags
<1>2. rop' # R!NoOp /\ rop'.pc = "read" /\ rcb' = R!NoCompletion /\ pr'.st = "header"
  BY <1>1 DEF R!ReadSome, R!NoOp, R!StartMessage
<1>3. Io' = "waiting" /\ Stage' = "header"
  BY <1>1, <1>2 DEF Io, Stage, InHandler, WaitOf, R!NoCompletion
<1> QED
  BY <1>1, <1>2, <1>3 DEF Told, Busy, ReadTold, WriteTold, Quiet, K

\* The worker after it began to read a body, in Server's terms.
LEMMA AsyncReadView ==
    ASSUME CInv, Told, Between, AsyncRead, R!GotHeader(pr), UNCHANGED flags
    PROVE  /\ Told' /\ Quiet
           /\ K' = [op |-> "read_body",
                    io |-> IF pr.st = "complete" THEN "posted" ELSE "waiting",
                    parser |-> pr.st, res |-> res, late |-> late]
<1>1. /\ R!InitiateBody("body") /\ pc' = "read_body" /\ wresult' = W!NoResult
      /\ UNCHANGED <<running, res, late, is_shutting_down, is_stopped>>
  BY DEF AsyncRead, flags
<1>2. /\ rresult' = R!NoResult /\ pr' = pr
      /\ IF pr.st = "complete"
         THEN rop' = [kind |-> "body", pc |-> "post", total |-> 0] /\ rcb' = [ec |-> "ok", n |-> 0]
         ELSE rop' = [kind |-> "body", pc |-> "read", total |-> 0] /\ rcb' = R!NoCompletion
  BY <1>1 DEF R!InitiateBody, R!Post, R!ReadSome, R!IsComplete
<1>3. rop' # R!NoOp /\ rop'.kind = "body"
  BY <1>2 DEF R!NoOp
<1>4. WaitOf(rop', rcb') = IF pr.st = "complete" THEN "posted" ELSE "waiting"
  BY <1>2 DEF WaitOf, R!NoCompletion
<1>5. Io' = (IF pr.st = "complete" THEN "posted" ELSE "waiting") /\ Stage' = pr.st
  BY <1>1, <1>2, <1>4 DEF Io, Stage, InHandler
<1> QED
  BY <1>1, <1>2, <1>3, <1>5 DEF Told, Busy, ReadTold, WriteTold, Quiet, K

\* The worker after it began a response, in Server's terms.
LEMMA RespondView ==
    ASSUME CInv, Told, Between, Respond, R!IsComplete(pr), UNCHANGED flags
    PROVE  /\ Told' /\ Quiet
           /\ res' \in (IF is_shutting_down THEN ServiceUnavailable ELSE HandleRequest)
           /\ \E io \in {"waiting", "error"} :
                K' = [op |-> "write", io |-> io, parser |-> "complete", res |-> res',
                      late |-> IF is_shutting_down THEN late + 1 ELSE late]
<1>1. /\ pc' = "write" /\ rresult' = R!NoResult /\ wresult' = W!NoResult
      /\ late' = IF is_shutting_down THEN late + 1 ELSE late
      /\ UNCHANGED <<pr, rop, running, is_shutting_down, is_stopped>>
      /\ res' \in (IF is_shutting_down THEN ServiceUnavailable ELSE HandleRequest)
  BY DEF Respond, HandlerReturns, flags
<1>2. PICK s : W!Suspend("write", 0, s)
  BY DEF Respond
<1>3. wop' # W!NoOp /\ WaitOf(wop', wcb') \in {"waiting", "error"}
  BY <1>2 DEF W!Suspend, W!Prepare, W!NothingPrepared, W!NoOp, W!NoCompletion, WaitOf
<1>4. Io' = WaitOf(wop', wcb') /\ Stage' = "complete"
  BY <1>1 DEF Io, Stage, InHandler, R!IsComplete
<1> QED
  BY <1>1, <1>3, <1>4 DEF Told, Busy, ReadTold, WriteTold, Quiet, K

\* An error page that is undefined is one of Server's.
LEMMA UnparsedMoves ==
    ASSUME Told, HostUnparsed, UNCHANGED flags,
           running = "running", pc = "read_body", Io \in {"ok", "posted"}
    PROVE  Told' /\ S!Handler("w")
<1> DEFINE f == [w \in {"w"} |-> K]
<1>1. /\ UNCHANGED <<pr, rop, rcb, rresult, wop, wcb, wresult>>
      /\ UNCHANGED <<pc, accept, res, late, resumed, is_shutting_down, is_stopped>>
      /\ running' = "undefined"
  BY DEF HostUnparsed, reading, writing, flags
<1>2. UNCHANGED <<Io, Stage>>
  BY <1>1 DEF Io, Stage, InHandler, WaitOf
<1>3. f' = f
  BY <1>1, <1>2 DEF K
<1>4. S!HostUnparsed
  BY <1>1, <1>3 DEF S!HostUnparsed, S!serverVars, K, f
<1>5. f["w"].op = pc /\ f["w"].io = Io
  BY DEF K
<1>6. S!Handler("w")
  BY <1>4, <1>5 DEF S!Handler, S!OnReadBody, S!Resumed, K, f
<1> QED
  BY <1>1, <1>6 DEF Told, Busy, ReadTold, WriteTold

\* Every handler of the worker is a handler of Server's worker.
LEMMA HandlerSimulates ==
    ASSUME CInv, Told, Handler
    PROVE  Told' /\ Simulates
<1>0. running = "running"
  BY DEF Handler, OnAccept, OnReadHeader, OnReadBody, OnWrite, Free
<1>1. CASE OnAccept
  <2>1. /\ pc = "accept" /\ Between /\ Io = accept /\ Stage = pr.st /\ UNCHANGED flags
        /\ R!CanStart(pr) /\ accept \in {"ok", "error", "aborted"}
    BY <1>0, <1>1, AbstractIo
       DEF OnAccept, CInv, Worker, Reading, Writing, NoWrite, Between, Waits
  <2>2. CASE accept = "ok"
    <3>1. DoRead
      BY <1>1, <2>2 DEF OnAccept
    <3> QED
      BY <1>0, <2>1, <2>2, <3>1, DoReadView, DoReadMoves, WorkerSteps DEF R!CanStart
  <2>3. CASE accept = "aborted"
    <3>1. Exit
      BY <1>1, <2>3 DEF OnAccept, Fail
    <3> QED
      BY <1>0, <2>1, <2>3, <3>1, ExitView, ExitMoves, WorkerSteps
  <2>4. CASE accept = "error"
    <3>1. DoAccept
      BY <1>1, <2>4 DEF OnAccept, Fail
    <3> QED
      BY <1>0, <2>1, <2>4, <3>1, DoAcceptView, DoAcceptMoves, WorkerSteps
  <2> QED
    BY <2>1, <2>2, <2>3, <2>4
<1>2. CASE OnReadHeader
  <2>1. pc = "read_header" /\ rresult # R!NoResult /\ Between /\ InHandler /\ UNCHANGED flags
    BY <1>2, ReadFacts DEF OnReadHeader, InHandler, CInv, Reading, Writing, NoWrite, Between
  <2>2. Io = resumed.io /\ Stage = resumed.stage
    BY <2>1 DEF Io, Stage
  <2>3. CASE rresult.ec = "ok"
    <3>1. AsyncRead /\ Io = "ok"
      BY <1>2, <2>1, <2>2, <2>3 DEF OnReadHeader, Told, ReadTold
    <3>2. R!GotHeader(pr)
      BY <2>1, <2>3, ReadFacts DEF CInv, Reading, Waits
    <3>3. pr.st \in {"body", "complete"}
      BY <3>2 DEF R!GotHeader
    <3> QED
      BY <1>0, <2>1, <3>1, <3>2, <3>3, AsyncReadView, AsyncReadMoves, WorkerSteps
  <2>4. CASE rresult.ec = "operation_aborted"
    <3>1. Exit /\ Io = "aborted" /\ Stage = pr.st
      BY <1>2, <2>1, <2>2, <2>4 DEF OnReadHeader, Fail, Told, ReadTold
    <3> QED
      BY <1>0, <2>1, <3>1, ExitView, ExitMoves, WorkerSteps
  <2>5. CASE rresult.ec \notin {"ok", "operation_aborted"}
    <3>1. DoAccept /\ Io \in {"ok", "error"}
      BY <1>2, <2>1, <2>2, <2>5 DEF OnReadHeader, Fail, Told, ReadTold
    <3> QED
      BY <1>0, <2>1, <3>1, DoAcceptView, DoAcceptMoves, WorkerSteps
  <2> QED
    BY <2>3, <2>4, <2>5
<1>3. CASE OnReadBody
  <2>1. pc = "read_body" /\ rresult # R!NoResult /\ Between /\ InHandler /\ UNCHANGED flags
    BY <1>3, ReadFacts DEF OnReadBody, InHandler, CInv, Reading, Writing, NoWrite, Between
  <2>2. Io = resumed.io /\ Stage = resumed.stage
    BY <2>1 DEF Io, Stage
  <2>3. CASE rresult.ec = "ok"
    <3>1. (Respond \/ HostUnparsed) /\ Io \in {"ok", "posted"}
      BY <1>3, <2>1, <2>2, <2>3 DEF OnReadBody, Told, ReadTold
    <3>2. CASE Respond
      <4>1. R!IsComplete(pr)
        BY <2>1, <2>3, ReadFacts DEF CInv, Reading, Waits, R!OpKinds
      <4>2. /\ Told' /\ Quiet
            /\ res' \in (IF is_shutting_down THEN S!ServiceUnavailable ELSE S!HandleRequest)
        BY <2>1, <3>2, <4>1, RespondView
           DEF ServiceUnavailable, HandleRequest, S!ServiceUnavailable, S!HandleRequest
      <4>3. PICK io \in {"waiting", "error"} :
              K' = [op |-> "write", io |-> io, parser |-> "complete", res |-> res',
                    late |-> IF is_shutting_down THEN late + 1 ELSE late]
        BY <2>1, <3>2, <4>1, RespondView
      <4>4. S!Handler("w")
        BY <1>0, <2>1, <3>1, <4>2, <4>3, RespondMoves
      <4> QED
        BY <4>2, <4>4, WorkerSteps
    <3>3. CASE HostUnparsed
      BY <1>0, <2>1, <3>1, <3>3, UnparsedMoves, WorkerSteps
    <3> QED
      BY <3>1, <3>2, <3>3
  <2>4. CASE rresult.ec = "operation_aborted"
    <3>1. Exit /\ Io = "aborted" /\ Stage = pr.st
      BY <1>3, <2>1, <2>2, <2>4 DEF OnReadBody, Fail, Told, ReadTold
    <3> QED
      BY <1>0, <2>1, <3>1, ExitView, ExitMoves, WorkerSteps
  <2>5. CASE rresult.ec \notin {"ok", "operation_aborted"}
    <3>1. DoAccept /\ Io \in {"ok", "error"}
      BY <1>3, <2>1, <2>2, <2>5 DEF OnReadBody, Fail, Told, ReadTold
    <3> QED
      BY <1>0, <2>1, <3>1, DoAcceptView, DoAcceptMoves, WorkerSteps
  <2> QED
    BY <2>3, <2>4, <2>5
<1>4. CASE OnWrite
  <2>1. /\ pc = "write" /\ wresult # W!NoResult /\ Between /\ InHandler /\ UNCHANGED flags
        /\ R!IsComplete(pr)
    BY <1>4, WriteFacts
       DEF OnWrite, InHandler, CInv, Counting, Reading, Writing, Between, Waits
  <2>2. Io = resumed.io /\ Stage = resumed.stage /\ Stage = pr.st /\ Stage = "complete"
    BY <2>1 DEF Io, Stage, Told, WriteTold, R!IsComplete
  <2>3. CASE wresult.ec = "ok"
    <3>1. Io = "ok" /\ R!CanStart(pr)
      BY <2>1, <2>2, <2>3 DEF Told, WriteTold, R!CanStart
    <3>2. CASE res.keep_alive
      <4>1. DoRead
        BY <1>4, <2>3, <3>2 DEF OnWrite
      <4> QED
        BY <1>0, <2>1, <2>2, <3>1, <3>2, <4>1, DoReadView, DoReadMoves, WorkerSteps
    <3>3. CASE ~res.keep_alive
      <4>1. DoAccept
        BY <1>4, <2>3, <3>3 DEF OnWrite
      <4> QED
        BY <1>0, <2>1, <3>1, <3>3, <4>1, DoAcceptView, DoAcceptMoves, WorkerSteps
    <3> QED
      BY <3>2, <3>3
  <2>4. CASE wresult.ec = "operation_aborted"
    <3>1. Exit /\ Io = "aborted"
      BY <1>4, <2>1, <2>2, <2>4 DEF OnWrite, Fail, Told, WriteTold
    <3> QED
      BY <1>0, <2>1, <2>2, <3>1, ExitView, ExitMoves, WorkerSteps
  <2>5. CASE wresult.ec \notin {"ok", "operation_aborted"}
    <3>1. DoAccept /\ Io = "error"
      BY <1>4, <2>1, <2>2, <2>5 DEF OnWrite, Fail, Told, WriteTold
    <3> QED
      BY <1>0, <2>1, <3>1, DoAcceptView, DoAcceptMoves, WorkerSteps
  <2> QED
    BY <2>3, <2>4, <2>5
<1> QED
  BY <1>1, <1>2, <1>3, <1>4 DEF Handler

\* A worker that waits for a read has one under way, queued when the stream is not waited for.
LEMMA ReadBusy ==
    ASSUME CInv, Told, ~InHandler, ~R!Waiting, pc \in {"read_header", "read_body"}
    PROVE  rcb.ec # "none" /\ rop # R!NoOp
<1>1. rop # R!NoOp
  BY DEF Told, Busy, InHandler
<1>2. rop.pc \in {"read", "post"} /\ RP!IInv
  BY <1>1 DEF CInv, Reading, RP!IInv, RP!TypeOK, R!NoOp, RP!NoOp
<1>3. rop.pc = "post" => rcb = [ec |-> "ok", n |-> 0]
  BY <1>2 DEF RP!IInv, RP!Control
<1>4. rcb # R!NoCompletion => rcb.ec \in RP!StreamCodes
  BY <1>2 DEF RP!IInv, RP!TypeOK, R!NoCompletion, RP!NoCompletion
<1> QED
  BY <1>1, <1>2, <1>3, <1>4 DEF R!Waiting, RP!StreamCodes, RP!StreamErrors

\* The same for a write.
LEMMA WriteBusy ==
    ASSUME CInv, Told, ~InHandler, ~W!Waiting, pc = "write"
    PROVE  wcb.ec # "none" /\ wop # W!NoOp
<1>1. wop # W!NoOp
  BY DEF Told, Busy, InHandler
<1>2. wop.pc \in {"write", "post"} /\ WP!IInv
  BY <1>1 DEF CInv, Writing, WP!IInv, WP!TypeOK, W!NoOp, WP!NoOp
<1>3. wop.pc = "post" => wcb.ec \in {"need_data", "source_error"}
  BY <1>2 DEF WP!IInv, WP!Control, WP!PrepareErrors
<1>4. wcb # W!NoCompletion => wcb.ec \in WP!ErrorCodes
  BY <1>2 DEF WP!IInv, WP!TypeOK, W!NoCompletion, WP!NoCompletion
<1> QED
  BY <1>1, <1>2, <1>3, <1>4 DEF W!Waiting, WP!ErrorCodes, WP!StreamErrors, WP!PrepareErrors

\* The server's stop() cancels what waits, and nothing else.
LEMMA ServerSimulates ==
    ASSUME CInv, Told, Server
    PROVE  Told' /\ Simulates
<1>1. CASE ServerShutsDown
  BY <1>1, NothingMoves DEF ServerShutsDown, reading, writing, worker
<1>2. CASE ServerStops
  <2>1. ~InHandler /\ UNCHANGED <<running, pc, res, answered, late, resumed>>
    BY <1>2 DEF ServerStops, Free
  <2>2. ASSUME UNCHANGED Stage, Io' = IF Io = "waiting" THEN "aborted" ELSE Io
        PROVE  Simulates
    BY <2>1, <2>2, ServiceStopStep, WorkerSteps DEF K
  <2>3. CASE R!Waiting
    <3>1. R!OwnerCancels /\ UNCHANGED <<writing, accept>>
      BY <1>2, <2>3 DEF ServerStops, ReadCancelled
    <3>2. R!Completes("operation_aborted", 0)
      BY <3>1 DEF R!OwnerCancels
    <3> QED
      BY <2>1, <2>2, <3>1, <3>2, ReadCompletes DEF R!StreamCodes, R!StreamErrors
  <2>4. CASE ~R!Waiting /\ W!Waiting
    <3>1. W!OwnerCancels /\ UNCHANGED <<peer, reading, accept>>
      BY <1>2, <2>4 DEF ServerStops, WriteCancelled
    <3>2. PICK n : W!Completes("operation_aborted", n)
      BY <3>1 DEF W!OwnerCancels
    <3> QED
      BY <2>1, <2>2, <3>1, <3>2, WriteCompletes
  <2>5. CASE ~R!Waiting /\ ~W!Waiting
    <3>1. /\ accept' = IF accept = "waiting" THEN "aborted" ELSE accept
          /\ UNCHANGED <<pr, rop, rcb, rresult, wop, wcb, wresult>>
      BY <1>2, <2>5 DEF ServerStops, AcceptCancelled, reading, writing
    <3>2. Told' /\ UNCHANGED Stage
      BY <2>1, <3>1 DEF Told, Busy, ReadTold, WriteTold, Stage, InHandler
    <3>3. CASE pc = "accept"
      <4>1. Io = accept /\ Io' = accept'
        BY <2>1, <3>1, <3>3 DEF Io, InHandler
      <4> QED
        BY <2>2, <3>1, <3>2, <4>1
    <3>4. CASE pc # "accept"
      <4>1. Io # "waiting"
        <5>1. CASE pc \in {"read_header", "read_body"}
          <6>1. rcb.ec # "none"
            BY <2>1, <2>5, <5>1, ReadBusy
          <6> QED
            BY <2>1, <5>1, <6>1 DEF Io, WaitOf
        <5>2. CASE pc = "write"
          <6>1. wcb.ec # "none"
            BY <2>1, <2>5, <5>2, WriteBusy
          <6> QED
            BY <2>1, <5>2, <6>1 DEF Io, WaitOf
        <5>3. CASE pc = "none"
          BY <2>1, <5>3 DEF Io
        <5> QED
          BY <3>4, <5>1, <5>2, <5>3 DEF CInv, Worker
      <4>2. UNCHANGED Io
        BY <2>1, <3>1, <3>4 DEF Io, InHandler
      <4> QED
        BY <2>2, <3>2, <4>1, <4>2
    <3> QED
      BY <3>3, <3>4
  <2> QED
    BY <2>3, <2>4, <2>5
<1> QED
  BY <1>1, <1>2 DEF Server

\* Every step of Connection is a step of Server's workers, or none.
LEMMA StepSimulates ==
    ASSUME CInv, Told, [Next]_vars
    PROVE  Told' /\ Simulates
<1>1. CASE UNCHANGED vars
  BY <1>1, NothingMoves DEF vars, reading, writing, worker
<1> QED
  BY <1>1, PeerSimulates, DispatchSimulates, HandlerSimulates, ServerSimulates DEF Next

(***************************************************************************)
(* A worker with its real operations, its parser, its serializer and its   *)
(* peers behaves as Server's worker, where only the shape of the           *)
(* operations is kept: what is proved of the server with those workers is  *)
(* not lost when the operations are put in.                                *)
(***************************************************************************)
THEOREM ConnectionImplementsWorker == Spec => ImplementsWorker
<1>1. Init => /\ Told
              /\ running = "running" /\ [w \in {"w"} |-> K] = [w \in {"w"} |-> S!NewWorker]
  <2> SUFFICES ASSUME Init PROVE Told /\ running = "running" /\ K = S!NewWorker
    OBVIOUS
  <2>1. /\ rop = R!NoOp /\ rresult = R!NoResult /\ pr = R!ResetParser /\ wresult = W!NoResult
        /\ pc = "accept" /\ accept = "waiting" /\ running = "running" /\ late = 0
        /\ res = [status |-> "none", keep_alive |-> FALSE]
    BY DEF Init, R!Init, W!Init
  <2>2. Told
    BY <2>1 DEF Told, Busy, ReadTold, WriteTold, R!NoOp
  <2>3. K = S!NewWorker
    BY <2>1 DEF K, Io, Stage, InHandler, R!ResetParser, S!NewWorker
  <2> QED
    BY <2>1, <2>2, <2>3
<1>2. CInv /\ Told /\ [Next]_vars => Told'
  BY StepSimulates
<1>3. CInv /\ Told /\ [Next]_vars
        => [S!WorkersNext]_<<running, [w \in {"w"} |-> [op |-> pc, io |-> Io, parser |-> Stage,
                                                       res |-> res, late |-> late]]>>
  BY StepSimulates DEF Simulates, K
<1> QED
  BY <1>1, <1>2, <1>3, ConnectionInvariant, PTL DEF Spec, ImplementsWorker, S!WorkersSpec, K
================================================================================
