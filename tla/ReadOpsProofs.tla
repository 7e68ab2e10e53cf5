----------------------------- MODULE ReadOpsProofs -----------------------------
(***************************************************************************)
(* Theorems about the read operations, for every set of layouts, every     *)
(* transfer size and every number of bytes.                                *)
(***************************************************************************)
EXTENDS ReadOps, TLAPS

(***************************************************************************)
(* What parse() does to a parser p, whatever was committed: the facts the  *)
(* operations rely on when they look at its result.                        *)
(***************************************************************************)
Parsable(m, p) == p \in Parser /\ (p.st = "body" => p.msg \in 1..Len(m))

ParseCodes == {"ok", "need_more_input"} \cup ParseErrors

\* A parsed result, classified by its error code
Classified(p, r) ==
    /\ r.pr.used + r.pr.buf = p.used + p.buf
    /\ r.ec \in ParseCodes
    /\ r.ec = "ok" => IsComplete(r.pr)
    /\ r.ec \in ParseErrors => r.pr.st = "failed"
    /\ r.ec = "need_more_input" => ~p.eof /\ r.pr.st \in {p.st, "body"}

\* Consuming bytes of an element leaves a parser state of the right type.
LEMMA ConsumeType ==
    ASSUME NEW p \in Parser, NEW n \in Nat, n <= p.buf, NEW s \in ParserStages
    PROVE  /\ Consume(p, n, s) \in Parser
           /\ Consume(p, n, s).st = s
           /\ Consume(p, n, s).msg = p.msg
           /\ Consume(p, n, s).eof = p.eof
           /\ Consume(p, n, s).used + Consume(p, n, s).buf = p.used + p.buf
<1>1. p.buf \in Nat /\ p.used \in Nat
  BY DEF Parser
<1>2. p.buf - n \in Nat /\ p.used + n \in Nat /\ (p.used + n) + (p.buf - n) = p.used + p.buf
  BY <1>1
<1> QED
  BY <1>2 DEF Consume, Parser

\* What one parse of body bytes returns: a well-typed parser state and a result, with no byte lost.
LEMMA ParseBodyFacts ==
    ASSUME NEW m \in Seq(Message), NEW p \in Parser,
           p.st = "body", p.msg \in 1..Len(m)
    PROVE  LET r == ParseBody(m, p)
           IN  Parsable(m, r.pr) /\ Classified(p, r)
<1>1. m[p.msg] \in Message
  OBVIOUS
<1>2. /\ p.buf \in Nat
      /\ m[p.msg].body \in Nat
  BY <1>1 DEF Parser, Message
<1>3. \A n \in Nat : n <= p.buf =>
        Parsable(m, Finished(p, n).pr) /\ Classified(p, Finished(p, n))
  BY ConsumeType
     DEF Finished, Parsable, Classified, IsComplete, ParseCodes, ParserStages, ParseErrors
<1>4. \A why \in ParseErrors :
        Parsable(m, Malformed(p, why).pr) /\ Classified(p, Malformed(p, why))
  BY DEF Malformed, Parsable, Classified, Parser, ParserStages, ParseCodes, ParseErrors
<1>5. ~p.eof => Parsable(m, NeedMore(p).pr) /\ Classified(p, NeedMore(p))
  BY DEF NeedMore, Parsable, Classified, ParseCodes, ParseErrors
<1>6. p.eof \in BOOLEAN
  BY DEF Parser
<1>7. CASE m[p.msg].kind = "until_eof"
  BY <1>2, <1>3, <1>5, <1>7 DEF ParseBody
<1>8. CASE m[p.msg].kind # "until_eof" /\ p.buf < m[p.msg].body
  BY <1>4, <1>5, <1>8 DEF ParseBody, ParseErrors
<1>9. CASE m[p.msg].kind # "until_eof" /\ ~(p.buf < m[p.msg].body)
  <2>1. m[p.msg].body <= p.buf
    BY <1>2, <1>9
  <2> QED
    BY <1>2, <1>3, <1>4, <1>9, <2>1 DEF ParseBody, ParseErrors
<1> QED
  BY <1>7, <1>8, <1>9

\* What parse() returns, whatever the buffered bytes are: the contract the read loop relies on.
LEMMA ParseFacts ==
    ASSUME NEW m \in Seq(Message), NEW p, Parsable(m, p),
           CanRead(p) \/ IsComplete(p)
    PROVE  LET r == Parse(m, p)
           IN  Parsable(m, r.pr) /\ Classified(p, r)
<1>1. p \in Parser /\ p.buf \in Nat /\ p.eof \in BOOLEAN
  BY DEF Parsable, Parser
<1>2. CASE p.st = "body"
  BY <1>1, <1>2, ParseBodyFacts DEF Parse, Parsable
<1>3. CASE IsComplete(p)
  BY <1>1, <1>3 DEF Parse, Parsable, Classified, IsComplete, ParseCodes, ParseErrors
<1>4. CASE p.st = "header"
  <2>1. Parse(m, p) = ParseHeader(m, p)
    BY <1>4 DEF Parse
  <2>2. \A why \in ParseErrors :
          Parsable(m, Malformed(p, why).pr) /\ Classified(p, Malformed(p, why))
    BY <1>1, <1>4 DEF Malformed, Parsable, Classified, Parser, ParserStages, ParseCodes, ParseErrors
  <2>3. CASE HeaderBuffered(m, p) /\ m[p.msg].kind = "bad_header"
    BY <2>1, <2>2, <2>3 DEF ParseHeader, ParseErrors
  <2>4. CASE HeaderBuffered(m, p) /\ m[p.msg].kind # "bad_header"
    <3> DEFINE q == Consume(p, m[p.msg].hdr, "body")
    <3>1. m[p.msg].hdr \in Nat /\ m[p.msg].hdr <= p.buf
      <4>1. m[p.msg] \in Message /\ p.buf >= m[p.msg].hdr
        BY <2>4 DEF HeaderBuffered
      <4> QED
        BY <1>1, <4>1 DEF Message
    <3>2. /\ q \in Parser /\ q.st = "body" /\ q.msg = p.msg
          /\ q.eof = p.eof /\ q.used + q.buf = p.used + p.buf
      BY <1>1, <3>1, ConsumeType DEF ParserStages
    <3>3. q.msg \in 1..Len(m)
      BY <2>4, <3>2 DEF HeaderBuffered
    <3> HIDE DEF q
    <3>4. LET r == ParseBody(m, q) IN Parsable(m, r.pr) /\ Classified(q, r)
      BY <3>2, <3>3, ParseBodyFacts
    <3>5. Parse(m, p) = ParseBody(m, q)
      BY <2>1, <2>4 DEF ParseHeader, q
    <3> QED
      BY <3>2, <3>4, <3>5 DEF Classified
  <2>5. CASE ~HeaderBuffered(m, p) /\ p.eof
    BY <2>1, <2>2, <2>5 DEF ParseHeader, ParseErrors
  <2>6. CASE ~HeaderBuffered(m, p) /\ ~p.eof
    BY <1>1, <1>4, <2>1, <2>6
       DEF ParseHeader, NeedMore, Parsable, Classified, ParseCodes, ParseErrors
  <2> QED
    BY <2>3, <2>4, <2>5, <2>6
<1> QED
  BY <1>2, <1>3, <1>4 DEF CanRead

--------------------------------------------------------------------------------
(***************************************************************************)
(* The inductive invariant.  The control part ties the queued completion   *)
(* to the coroutine that waits for it: what a posted operation relies on   *)
(* is what it tested when it was initiated, and an operation that runs has *)
(* told its caller nothing yet.                                            *)
(***************************************************************************)
Control ==
    /\ op = NoOp => cb = NoCompletion
    /\ op.pc = "post" => /\ cb = [ec |-> "ok", n |-> 0]
                         /\ op.total = 0
                         /\ IF op.kind = "header" THEN GotHeader(pr) ELSE IsComplete(pr)
    /\ op # NoOp => result = NoResult
    /\ pr.st = "body" => pr.msg \in 1..Len(msgs)

(***************************************************************************)
(* The bytes_transferred of all completed operations, the running total_   *)
(* bytes_ and a queued transfer add up to what the stream delivered, so a  *)
(* caller who sums what the handlers say knows how far the stream is.      *)
(***************************************************************************)
BytesReported == reported + op.total + cb.n = taken

(***************************************************************************)
(* A failure of a header or body read is final or resumable, and the       *)
(* parser says which: an error of the parser leaves it failed, an error of *)
(* the stream leaves it where the same operation may be started again.     *)
(***************************************************************************)
FailureIsClassified ==
    /\ result.ec \in ParseErrors => pr.st = "failed"
    /\ result.ec \in StreamErrors => CanRead(pr)

\* The loops translate asio's eof and need_more_input: no handler is told of either
InternalCodesHidden == result.ec \notin {"eof", "need_more_input"}

Outcome == SuccessDelivers /\ FailureIsClassified /\ InternalCodesHidden

Bytes == BytesConserved /\ BytesReported

IInv == TypeOK /\ Control /\ Bytes /\ SuspendedInStage /\ Outcome

\* The initial states satisfy the inductive invariant.
LEMMA IInvInit == Init => IInv
<1> SUFFICES ASSUME Init PROVE IInv
  OBVIOUS
<1>1. TypeOK
  BY DEF Init, TypeOK, ResetParser, Parser, ParserStages, NoOp, NoCompletion, NoResult
<1>2. Control /\ SuspendedInStage
  BY DEF Init, Control, SuspendedInStage, ResetParser, NoOp, NoCompletion, NoResult
<1>3. Bytes /\ Outcome
  BY DEF Init, Bytes, BytesConserved, BytesReported, Outcome, SuccessDelivers, FailureIsClassified,
         InternalCodesHidden, ResetParser, NoOp, NoCompletion, NoResult, ParseErrors, StreamErrors
<1> QED
  BY <1>1, <1>2, <1>3 DEF IInv

(***************************************************************************)
(* The types, one variable at a time.                                      *)
(***************************************************************************)
LEMMA StateFacts ==
    ASSUME IInv
    PROVE  /\ msgs \in Seq(Message)
           /\ sent \in Nat /\ taken \in Nat /\ reported \in Nat
           /\ pr \in Parser /\ pr.buf \in Nat /\ pr.used \in Nat /\ pr.msg \in Nat
           /\ cb.n \in Nat /\ op.total \in Nat
           /\ Idle <=> op = NoOp
           /\ ~Idle => op \in [kind : OpKinds, pc : {"read", "post"}, total : Nat]
           /\ cb # NoCompletion => cb \in [ec : StreamCodes, n : Nat]
BY LayoutsAssumption DEF IInv, TypeOK, Parser, Idle, NoOp, NoCompletion

(***************************************************************************)
(* A resumed coroutine hands the parser what it was told, and parses: the  *)
(* parser still takes input, and no byte is lost on the way.               *)
(***************************************************************************)
LEMMA FedFacts ==
    ASSUME IInv, Dispatchable("read")
    PROVE  /\ Parsable(msgs, Fed) /\ CanRead(Fed)
           /\ Fed.st = pr.st /\ Fed.msg = pr.msg
           /\ Fed.st = (IF op.kind = "header" THEN "header" ELSE "body")
           /\ Fed.used + Fed.buf = pr.used + pr.buf + cb.n
           /\ cb.ec = "eof" => Fed.eof
<1>1. /\ pr \in Parser /\ pr.buf \in Nat /\ pr.used \in Nat /\ cb.n \in Nat
      /\ pr.st = "body" => pr.msg \in 1..Len(msgs)
  BY StateFacts DEF IInv, Control
<1>2. pr.st = (IF op.kind = "header" THEN "header" ELSE "body")
  BY DEF IInv, SuspendedInStage, Dispatchable
<1> DEFINE received == Commit(pr, cb.n)
<1>3. /\ received \in Parser
      /\ received.st = pr.st /\ received.msg = pr.msg
      /\ received.used + received.buf = pr.used + pr.buf + cb.n
  BY <1>1 DEF Commit, Parser
<1> HIDE DEF received
<1>4. /\ CommitEof(received) \in Parser /\ CommitEof(received).eof
      /\ CommitEof(received).st = pr.st /\ CommitEof(received).msg = pr.msg
      /\ CommitEof(received).used + CommitEof(received).buf = pr.used + pr.buf + cb.n
  BY <1>3 DEF CommitEof, Parser
<1>5. Fed = IF cb.ec = "eof" THEN CommitEof(received) ELSE received
  BY DEF Fed, received
<1> QED
  BY <1>1, <1>2, <1>3, <1>4, <1>5 DEF Parsable, CanRead

\* The parse made inside a handler of the read operation obeys the facts of ParseFacts.
LEMMA ParsedFacts ==
    ASSUME IInv, Dispatchable("read")
    PROVE  /\ Parsable(msgs, Parsed.pr)
           /\ Parsed.pr.used + Parsed.pr.buf = pr.used + pr.buf + cb.n
           /\ Parsed.ec \in ParseCodes
           /\ Parsed.ec = "ok" => IsComplete(Parsed.pr)
           /\ Parsed.ec \in ParseErrors => Parsed.pr.st = "failed"
           /\ Parsed.ec = "need_more_input" =>
                cb.ec # "eof" /\ Parsed.pr.st \in {pr.st, "body"}
<1>1. msgs \in Seq(Message)
  BY StateFacts
<1>2. Parsable(msgs, Parse(msgs, Fed).pr) /\ Classified(Fed, Parse(msgs, Fed))
  BY <1>1, FedFacts, ParseFacts
<1> QED
  BY <1>2, FedFacts DEF Parsed, Classified

--------------------------------------------------------------------------------
(* The peer and the stream: only cb and taken change, together. *)

\* A step of the peer (bytes sent, or the end of the stream) keeps the inductive invariant.
LEMMA PeerStep ==
    ASSUME IInv, PeerSends \/ PeerEnds
    PROVE  IInv'
<1>1. UNCHANGED <<msgs, taken, pr, op, cb, result, reported>>
  BY DEF PeerSends, PeerEnds
<1>2. sent' \in Nat /\ ending' \in {"open", "eof", "error"}
  <2>1. sent \in Nat /\ ending \in {"open", "eof", "error"}
    BY DEF IInv, TypeOK
  <2> QED
    BY <2>1, MaxBytesAssumption DEF PeerSends, PeerEnds
<1>3. TypeOK'
  BY <1>1, <1>2 DEF IInv, TypeOK
<1> QED
  BY <1>1, <1>3
     DEF IInv, Control, Bytes, BytesConserved, BytesReported, SuspendedInStage,
         Outcome, SuccessDelivers, FailureIsClassified, InternalCodesHidden

\* The stream completing its pending read keeps the inductive invariant.
LEMMA CompletesStep ==
    ASSUME IInv, NEW ec \in StreamCodes, NEW n \in Nat, Completes(ec, n)
    PROVE  IInv'
<1>1. /\ op.pc = "read" /\ cb = NoCompletion
      /\ cb' = [ec |-> ec, n |-> n] /\ taken' = taken + n
      /\ UNCHANGED <<msgs, sent, ending, pr, op, result, reported>>
  BY DEF Completes, Waiting, peerVars
<1>2. taken \in Nat /\ op # NoOp /\ cb.n = 0 /\ cb' \in [ec : StreamCodes, n : Nat] /\ cb'.n = n
  BY <1>1, StateFacts DEF NoOp, NoCompletion
<1>3. TypeOK'
  BY <1>1, <1>2 DEF IInv, TypeOK
<1>4. Bytes'
  BY <1>1, <1>2, StateFacts DEF IInv, Bytes, BytesConserved, BytesReported
<1>5. Control'
  BY <1>1, <1>2 DEF IInv, Control
<1> QED
  BY <1>1, <1>3, <1>4, <1>5
     DEF IInv, SuspendedInStage, Outcome, SuccessDelivers, FailureIsClassified,
         InternalCodesHidden

\* Every step of the stream keeps the inductive invariant.
LEMMA StreamStep ==
    ASSUME IInv, Stream \/ OwnerCancels
    PROVE  IInv'
<1>1. Transferable \subseteq Nat
  BY MaxReadAssumption DEF Transferable
<1>2. PICK ec \in StreamCodes, n \in Nat : Completes(ec, n)
  BY <1>1 DEF Stream, StreamDelivers, StreamEnds, StreamFails, OwnerCancels,
              StreamCodes, StreamErrors
<1> QED
  BY <1>2, CompletesStep

--------------------------------------------------------------------------------
(* The caller: what an initiating function tests is what Control records. *)

\* Starting a new message between two operations keeps the inductive invariant.
LEMMA BeginStep ==
    ASSUME IInv, BeginMessage
    PROVE  IInv'
<1>1. /\ op = NoOp /\ op' = op /\ cb' = cb /\ result' = NoResult
      /\ pr' = StartMessage(pr)
      /\ UNCHANGED <<msgs, sent, ending, taken, reported>>
  BY StateFacts DEF BeginMessage, peerVars
<1>2. /\ pr' \in Parser /\ pr'.st = "header"
      /\ pr'.buf = pr.buf /\ pr'.used = pr.used
  BY <1>1, StateFacts DEF StartMessage, Parser, ParserStages
<1>3. TypeOK'
  BY <1>1, <1>2 DEF IInv, TypeOK
<1>4. Bytes'
  BY <1>1, <1>2 DEF IInv, Bytes, BytesConserved, BytesReported
<1>5. Control' /\ SuspendedInStage'
  BY <1>1, <1>2 DEF IInv, Control, SuspendedInStage, NoOp
<1>6. Outcome'
  BY <1>1 DEF Outcome, SuccessDelivers, FailureIsClassified, InternalCodesHidden,
              NoResult, ParseErrors, StreamErrors
<1> QED
  BY <1>3, <1>4, <1>5, <1>6 DEF IInv

\* Initiating a read operation keeps the inductive invariant.
LEMMA InitiateStep ==
    ASSUME IInv, op = NoOp, NEW kind \in OpKinds,
           result' = NoResult,
           UNCHANGED <<msgs, sent, ending, taken, pr, reported>>,
           \/ /\ Post(kind)
              /\ IF kind = "header" THEN GotHeader(pr) ELSE IsComplete(pr)
           \/ /\ ReadSome(kind, 0)
              /\ pr.st = (IF kind = "header" THEN "header" ELSE "body")
    PROVE  IInv'
<1>1. cb = NoCompletion
  BY DEF IInv, Control
<1>2. /\ op' \in [kind : OpKinds, pc : {"read", "post"}, total : Nat]
      /\ op'.total = 0 /\ op'.kind = kind /\ op' # NoOp
      /\ cb' \in {NoCompletion} \cup [ec : StreamCodes, n : Nat]
      /\ cb'.n = 0
  BY DEF Post, ReadSome, NoOp, NoCompletion, StreamCodes
<1>3. TypeOK'
  BY <1>2 DEF IInv, TypeOK
<1>4. Bytes'
  BY <1>1, <1>2 DEF IInv, Bytes, BytesConserved, BytesReported, NoOp, NoCompletion
<1>5. Control'
  BY <1>2 DEF IInv, Control, Post, ReadSome, GotHeader, IsComplete
<1>6. SuspendedInStage'
  BY DEF SuspendedInStage, Post, ReadSome
<1>7. Outcome'
  BY DEF Outcome, SuccessDelivers, FailureIsClassified, InternalCodesHidden,
         NoResult, ParseErrors, StreamErrors
<1> QED
  BY <1>3, <1>4, <1>5, <1>6, <1>7 DEF IInv

\* A precondition that makes an initiation throw leaves the invariant in place.
LEMMA ThrowStep ==
    ASSUME IInv, op = NoOp, NEW kind \in OpKinds, ThrowLogicError(kind)
    PROVE  IInv'
<1>1. /\ result' = [kind |-> kind, ec |-> "logic_error", n |-> 0]
      /\ UNCHANGED <<msgs, sent, ending, taken, pr, op, cb, reported>>
  BY DEF ThrowLogicError, peerVars
<1>2. TypeOK'
  BY <1>1 DEF IInv, TypeOK, ErrorCodes
<1>3. Outcome'
  BY <1>1 DEF Outcome, SuccessDelivers, FailureIsClassified, InternalCodesHidden,
              ParseErrors, StreamErrors
<1> QED
  BY <1>1, <1>2, <1>3
     DEF IInv, Control, Bytes, BytesConserved, BytesReported, SuspendedInStage

\* Every step of the caller keeps the inductive invariant.
LEMMA CallerStep ==
    ASSUME IInv, Caller
    PROVE  IInv'
<1>1. op = NoOp
  BY StateFacts DEF Caller, BeginMessage, AsyncReadHeader, AsyncReadSome, AsyncRead, AsyncReadBody
<1>2. CASE BeginMessage
  BY <1>2, BeginStep
<1>3. CASE AsyncReadHeader
  <2>1. CanRead(pr) /\ ~GotHeader(pr) => pr.st = "header"
    BY DEF CanRead, GotHeader
  <2>2. ~GotHeader(pr) => ~IsComplete(pr)
    BY DEF GotHeader, IsComplete
  <2> QED
    BY <1>1, <1>3, <2>1, <2>2, InitiateStep DEF AsyncReadHeader, OpKinds, peerVars
<1>4. ASSUME NEW kind \in {"some", "body"}, AsyncReadBody(kind)
      PROVE  IInv'
  <2>1. CASE GotHeader(pr)
    <3>1. ~IsComplete(pr) => pr.st = "body"
      BY <2>1 DEF GotHeader, IsComplete
    <3> QED
      BY <1>1, <1>4, <2>1, <3>1, InitiateStep DEF AsyncReadBody, InitiateBody, OpKinds, peerVars
  <2>2. CASE ~GotHeader(pr)
    BY <1>1, <1>4, <2>2, ThrowStep DEF AsyncReadBody, OpKinds
  <2> QED
    BY <2>1, <2>2
<1> QED
  BY <1>2, <1>3, <1>4 DEF Caller, AsyncReadSome, AsyncRead

--------------------------------------------------------------------------------
(***************************************************************************)
(* The coroutines.  A resumed one either reads again or completes; what it *)
(* completes with must agree with the parser it leaves.                    *)
(***************************************************************************)
Agrees(kind, ec, p) ==
    /\ ec \in ErrorCodes \ {"eof", "need_more_input"}
    /\ ec = "ok" => IF kind = "header" THEN GotHeader(p)
                    ELSE kind = "body" => IsComplete(p)
    /\ ec \in ParseErrors => p.st = "failed"
    /\ ec \in StreamErrors => CanRead(p)

\* A handler that completes the operation keeps the inductive invariant.
LEMMA CompleteStep ==
    ASSUME IInv, op # NoOp, NEW ec, Complete(ec, Total),
           UNCHANGED <<msgs, sent, ending, taken>>,
           Parsable(msgs, pr'),
           pr'.used + pr'.buf = pr.used + pr.buf + cb.n,
           Agrees(op.kind, ec, pr')
    PROVE  IInv'
<1>1. /\ op' = NoOp /\ cb' = NoCompletion
      /\ result' = [kind |-> op.kind, ec |-> ec, n |-> Total]
      /\ reported' = reported + Total
  BY DEF Complete
<1>2. Total = op.total + cb.n /\ Total \in Nat /\ op.kind \in OpKinds
  BY StateFacts DEF Total, Idle
<1>3. TypeOK'
  BY <1>1, <1>2, StateFacts DEF IInv, TypeOK, Agrees, Parsable
<1>4. Bytes'
  <2>1. op'.total = 0 /\ cb'.n = 0
    BY <1>1 DEF NoOp, NoCompletion
  <2>2. pr' \in Parser /\ pr'.used \in Nat /\ pr'.buf \in Nat
    BY DEF Parsable, Parser
  <2> QED
    BY <1>1, <1>2, <2>1, <2>2, StateFacts DEF IInv, Bytes, BytesConserved, BytesReported
<1>5. Control' /\ SuspendedInStage'
  BY <1>1 DEF Control, SuspendedInStage, NoOp, Parsable
<1>6. Outcome'
  BY <1>1, <1>2
     DEF Outcome, SuccessDelivers, FailureIsClassified, InternalCodesHidden, Agrees, OpKinds
<1> QED
  BY <1>3, <1>4, <1>5, <1>6 DEF IInv

\* A handler that starts another read keeps the inductive invariant.
LEMMA ContinueStep ==
    ASSUME IInv, Dispatchable("read"), Continue,
           UNCHANGED <<msgs, sent, ending, taken>>,
           Parsable(msgs, pr'),
           pr'.used + pr'.buf = pr.used + pr.buf + cb.n,
           pr'.st = (IF op.kind = "header" THEN "header" ELSE "body")
    PROVE  IInv'
<1>1. /\ op' = [kind |-> op.kind, pc |-> "read", total |-> Total]
      /\ cb' = NoCompletion
      /\ UNCHANGED <<result, reported>>
  BY DEF Continue, ReadSome
<1>2. /\ Total = op.total + cb.n /\ Total \in Nat /\ op.kind \in OpKinds
      /\ op # NoOp
  BY StateFacts DEF Total, Idle, Dispatchable
<1>3. TypeOK'
  BY <1>1, <1>2, StateFacts DEF IInv, TypeOK, Parsable
<1>4. Bytes'
  <2>1. op'.total = Total /\ cb'.n = 0
    BY <1>1 DEF NoCompletion
  <2>2. pr' \in Parser /\ pr'.used \in Nat /\ pr'.buf \in Nat
    BY DEF Parsable, Parser
  <2> QED
    BY <1>1, <1>2, <2>1, <2>2, StateFacts DEF IInv, Bytes, BytesConserved, BytesReported
<1>5. Control' /\ SuspendedInStage'
  BY <1>1, <1>2 DEF IInv, Control, SuspendedInStage, Parsable, NoOp
<1>6. Outcome'
  BY <1>1, <1>2
     DEF IInv, Control, Outcome, SuccessDelivers, FailureIsClassified, InternalCodesHidden,
         NoResult, ParseErrors, StreamErrors
<1> QED
  BY <1>3, <1>4, <1>5, <1>6 DEF IInv

\* Every handler the execution context runs keeps the inductive invariant.
LEMMA DispatchStep ==
    ASSUME IInv, Dispatch
    PROVE  IInv'
<1>1. op # NoOp
  BY DEF Dispatch, ReadFailed, ReadHeaderOp, ReadBodyOp, Resumed, PostedHeader, PostedBody,
         Dispatchable, NoOp
<1>2. op.kind \in OpKinds
  BY <1>1, StateFacts DEF Idle
<1>3. CASE ReadFailed
  <2>1. /\ Parsable(msgs, pr') /\ CanRead(pr')
        /\ pr'.used + pr'.buf = pr.used + pr.buf + cb.n
    BY <1>3, FedFacts DEF ReadFailed
  <2>2. Agrees(op.kind, cb.ec, pr')
    BY <1>3, <2>1 DEF ReadFailed, Agrees, ErrorCodes, StreamCodes, StreamErrors, ParseErrors
  <2> QED
    BY <1>1, <1>3, <2>1, <2>2, CompleteStep DEF ReadFailed, peerVars
<1>4. CASE ReadHeaderOp
  <2>1. Dispatchable("read") /\ pr' = Parsed.pr /\ op.kind = "header"
    BY <1>4 DEF ReadHeaderOp, Resumed
  <2>2. CASE HeaderOutcome = "need_more_input"
    <3>1. Parsed.pr.st = "header"
      BY <2>1, <2>2, ParsedFacts
         DEF HeaderOutcome, GotHeader, IInv, SuspendedInStage, Dispatchable
    <3> QED
      BY <1>4, <2>1, <2>2, <3>1, ParsedFacts, ContinueStep
         DEF ReadHeaderOp, Resumed, peerVars
  <2>3. CASE HeaderOutcome # "need_more_input"
    <3>1. Agrees(op.kind, HeaderOutcome, pr')
      BY <2>1, <2>3, ParsedFacts
         DEF HeaderOutcome, Agrees, GotHeader, IsComplete, ErrorCodes, StreamCodes,
             StreamErrors, ParseErrors, ParseCodes
    <3> QED
      BY <1>1, <1>4, <2>1, <2>3, <3>1, ParsedFacts, CompleteStep
         DEF ReadHeaderOp, Resumed, peerVars
  <2> QED
    BY <2>2, <2>3
<1>5. CASE ReadBodyOp
  <2>1. Dispatchable("read") /\ pr' = Parsed.pr /\ op.kind # "header"
    BY <1>5 DEF ReadBodyOp, Resumed
  <2>2. CASE BodyOutcome = "need_more_input"
    <3>1. Parsed.pr.st = "body"
      BY <2>1, <2>2, ParsedFacts
         DEF BodyOutcome, IInv, SuspendedInStage, Dispatchable
    <3> QED
      BY <1>5, <2>1, <2>2, <3>1, ParsedFacts, ContinueStep
         DEF ReadBodyOp, Resumed, peerVars
  <2>3. CASE BodyOutcome # "need_more_input"
    <3>1. Agrees(op.kind, BodyOutcome, pr')
      BY <1>2, <2>1, <2>3, ParsedFacts
         DEF BodyOutcome, Agrees, OpKinds, ErrorCodes, StreamCodes,
             StreamErrors, ParseErrors, ParseCodes
    <3> QED
      BY <1>1, <1>5, <2>1, <2>3, <3>1, ParsedFacts, CompleteStep
         DEF ReadBodyOp, Resumed, peerVars
  <2> QED
    BY <2>2, <2>3
<1>6. CASE PostedHeader
  <2>1. /\ op.pc = "post" /\ op.kind = "header" /\ Complete(cb.ec, op.total)
        /\ UNCHANGED <<msgs, sent, ending, taken, pr>>
    BY <1>6 DEF PostedHeader, Dispatchable, peerVars
  <2>2. cb.ec = "ok" /\ cb.n = 0 /\ op.total = 0 /\ Total = 0 /\ GotHeader(pr)
    BY <2>1 DEF IInv, Control, Total
  <2>3. Agrees(op.kind, cb.ec, pr')
    BY <2>1, <2>2 DEF Agrees, ErrorCodes, StreamCodes, StreamErrors, ParseErrors
  <2>4. Parsable(msgs, pr') /\ pr'.used + pr'.buf = pr.used + pr.buf + cb.n
    BY <2>1, <2>2, StateFacts DEF Parsable, IInv, Control
  <2> QED
    BY <1>1, <2>1, <2>2, <2>3, <2>4, CompleteStep
<1>7. CASE PostedBody
  <2>1. /\ op.pc = "post" /\ op.kind # "header"
        /\ pr' = Parse(msgs, pr).pr /\ Complete(Parse(msgs, pr).ec, op.total)
        /\ UNCHANGED <<msgs, sent, ending, taken>>
    BY <1>7 DEF PostedBody, Dispatchable, peerVars
  <2>2. cb.n = 0 /\ op.total = 0 /\ Total = 0 /\ IsComplete(pr)
    BY <2>1 DEF IInv, Control, Total
  <2>3. Parse(msgs, pr) = [pr |-> pr, ec |-> "ok"]
    BY <2>2 DEF Parse, IsComplete
  <2>4. Agrees(op.kind, "ok", pr')
    BY <2>1, <2>2, <2>3 DEF Agrees, ErrorCodes, StreamCodes, StreamErrors, ParseErrors
  <2>5. Parsable(msgs, pr') /\ pr'.used + pr'.buf = pr.used + pr.buf + cb.n
    BY <2>1, <2>2, <2>3, StateFacts DEF Parsable, IsComplete
  <2>6. Complete("ok", Total)
    BY <2>1, <2>2, <2>3
  <2> QED
    BY <1>1, <2>1, <2>4, <2>5, <2>6, CompleteStep
<1> QED
  BY <1>3, <1>4, <1>5, <1>6, <1>7 DEF Dispatch

\* A stuttering step keeps the inductive invariant.
LEMMA StutterStep ==
    ASSUME IInv, UNCHANGED vars
    PROVE  IInv'
BY DEF vars, IInv, TypeOK, Control, Bytes, BytesConserved, BytesReported, SuspendedInStage,
       Outcome, SuccessDelivers, FailureIsClassified, InternalCodesHidden

--------------------------------------------------------------------------------
(***************************************************************************)
(* The parser, the stream and the operations stay consistent: IInv is an   *)
(* invariant of the read operations.                                       *)
(***************************************************************************)
THEOREM ReadInvariant == Spec => []IInv
<1>1. Init => IInv
  BY IInvInit
<1>2. IInv /\ [Next]_vars => IInv'
  BY PeerStep, CallerStep, StreamStep, DispatchStep, StutterStep DEF Next
<1> QED
  BY <1>1, <1>2, PTL DEF Spec

(***************************************************************************)
(* Every variable of the read operations keeps its type.                   *)
(***************************************************************************)
THEOREM ReadTypes == Spec => []TypeOK
<1>1. IInv => TypeOK
  BY DEF IInv
<1> QED
  BY <1>1, ReadInvariant, PTL

(***************************************************************************)
(* No byte the stream delivered is lost or committed twice (read.hpp:81,   *)
(* 173): every exit of the loops comes after commit().                     *)
(***************************************************************************)
THEOREM BytesAreConserved == Spec => []BytesConserved
<1>1. IInv => BytesConserved
  BY DEF IInv, Bytes
<1> QED
  BY <1>1, ReadInvariant, PTL

(***************************************************************************)
(* The handlers are told of each byte exactly once (read.hpp:82, 174).     *)
(***************************************************************************)
THEOREM BytesAreReported == Spec => []BytesReported
<1>1. IInv => BytesReported
  BY DEF IInv, Bytes
<1> QED
  BY <1>1, ReadInvariant, PTL

(***************************************************************************)
(* The assertion at read.hpp:189 never fails, and a caller told of a       *)
(* header may always go on to its body.                                    *)
(***************************************************************************)
THEOREM SuccessIsMeant == Spec => []SuccessDelivers
<1>1. IInv => SuccessDelivers
  BY DEF IInv, Outcome
<1> QED
  BY <1>1, ReadInvariant, PTL

(***************************************************************************)
(* An error code tells whether the parser failed or may be resumed.        *)
(***************************************************************************)
THEOREM FailuresAreClassified == Spec => []FailureIsClassified
<1>1. IInv => FailureIsClassified
  BY DEF IInv, Outcome
<1> QED
  BY <1>1, ReadInvariant, PTL

(***************************************************************************)
(* The parser is in the stage an operation reads whenever that operation   *)
(* waits for the stream, so that commit() and parse() never throw.         *)
(***************************************************************************)
THEOREM SuspensionsAreInStage == Spec => []SuspendedInStage
<1>1. IInv => SuspendedInStage
  BY DEF IInv
<1> QED
  BY <1>1, ReadInvariant, PTL

--------------------------------------------------------------------------------
(***************************************************************************)
(* What an operation waits for.  parse() takes all there is: the parser it *)
(* leaves lacks part of what it is at.                                     *)
(***************************************************************************)
BodyLacking(m, p) ==
    p.st = "body" => m[p.msg].kind = "until_eof" \/ p.buf < m[p.msg].body

HeaderLacking(m, p) == p.st = "header" => ~HeaderBuffered(m, p)

\* parse() of a body either ends the message or leaves it lacking.
LEMMA ParseBodyTakesAll ==
    ASSUME NEW m \in Seq(Message), NEW p \in Parser,
           p.st = "body", p.msg \in 1..Len(m)
    PROVE  LET r == ParseBody(m, p)
           IN  r.pr.st # "header" /\ BodyLacking(m, r.pr)
<1>0. m[p.msg] \in Message
  OBVIOUS
<1>1. p.buf \in Nat /\ m[p.msg].body \in Nat
  BY <1>0 DEF Parser, Message
<1>2. \A n : Finished(p, n).pr.st = "complete"
  BY DEF Finished, Consume
<1>3. \A why : Malformed(p, why).pr.st = "failed"
  BY DEF Malformed, Parser
<1>4. NeedMore(p).pr = p
  BY DEF NeedMore
<1>5. \/ ParseBody(m, p) \in {Finished(p, p.buf), Finished(p, m[p.msg].body)}
      \/ ParseBody(m, p) \in {Malformed(p, "incomplete"), Malformed(p, "bad_message")}
      \/ /\ ParseBody(m, p) = NeedMore(p)
         /\ m[p.msg].kind = "until_eof" \/ p.buf < m[p.msg].body
  BY <1>1 DEF ParseBody
<1> QED
  BY <1>2, <1>3, <1>4, <1>5 DEF BodyLacking

\* The same of parse() in either stage, where a header may bring part of its body.
LEMMA ParseTakesAll ==
    ASSUME NEW m \in Seq(Message), NEW p, Parsable(m, p), CanRead(p)
    PROVE  BodyLacking(m, Parse(m, p).pr) /\ HeaderLacking(m, Parse(m, p).pr)
<1>1. p \in Parser /\ p.buf \in Nat
  BY DEF Parsable, Parser
<1>2. CASE p.st = "body"
  BY <1>1, <1>2, ParseBodyTakesAll DEF Parse, Parsable, HeaderLacking
<1>3. CASE p.st = "header"
  <2>1. Parse(m, p) = ParseHeader(m, p)
    BY <1>3 DEF Parse
  <2>2. \A why : Malformed(p, why).pr.st = "failed"
    BY <1>1 DEF Malformed, Parser
  <2>3. CASE HeaderBuffered(m, p) /\ m[p.msg].kind # "bad_header"
    <3> DEFINE q == Consume(p, m[p.msg].hdr, "body")
    <3>1. m[p.msg].hdr \in Nat /\ m[p.msg].hdr <= p.buf /\ p.msg \in 1..Len(m)
      <4>1. m[p.msg] \in Message /\ p.buf >= m[p.msg].hdr /\ p.msg \in 1..Len(m)
        BY <2>3 DEF HeaderBuffered
      <4> QED
        BY <1>1, <4>1 DEF Message
    <3>2. q \in Parser /\ q.st = "body" /\ q.msg = p.msg
      BY <1>1, <3>1, ConsumeType DEF ParserStages
    <3> HIDE DEF q
    <3>3. LET r == ParseBody(m, q) IN r.pr.st # "header" /\ BodyLacking(m, r.pr)
      BY <3>1, <3>2, ParseBodyTakesAll
    <3>4. Parse(m, p) = ParseBody(m, q)
      BY <2>1, <2>3 DEF ParseHeader, q
    <3> QED
      BY <3>3, <3>4 DEF HeaderLacking
  <2>4. CASE HeaderBuffered(m, p) /\ m[p.msg].kind = "bad_header"
    BY <2>1, <2>2, <2>4 DEF ParseHeader, BodyLacking, HeaderLacking
  <2>5. CASE ~HeaderBuffered(m, p)
    BY <1>3, <2>1, <2>2, <2>5 DEF ParseHeader, NeedMore, BodyLacking, HeaderLacking
  <2> QED
    BY <2>3, <2>4, <2>5
<1> QED
  BY <1>2, <1>3 DEF CanRead

\* What a queued completion of the stream brings
Transfers ==
    /\ op.pc = "read" /\ cb.ec = "ok" => cb.n > 0
    /\ cb.ec \in {"eof", "operation_aborted"} => cb.n = 0
    /\ cb.ec = "net_error" => ending = "error"

\* Until the peer breaks the connection, the parser has nothing left to parse
Parsing ==
    ending # "error" =>
        /\ BodyLacking(msgs, pr)
        /\ op.pc = "read" /\ op.kind = "header" /\ op.total > 0 => HeaderLacking(msgs, pr)

\* Every step keeps Transfers: the stream is asked for at least one byte.
LEMMA TransfersStep ==
    ASSUME IInv, Transfers, [Next]_vars
    PROVE  Transfers'
<1>1. CASE PeerSends \/ PeerEnds \/ BeginMessage \/ UNCHANGED vars
  BY <1>1 DEF PeerSends, PeerEnds, BeginMessage, peerVars, vars, Transfers
<1>2. CASE AsyncReadHeader \/ AsyncReadSome \/ AsyncRead
  BY <1>2 DEF AsyncReadHeader, AsyncReadSome, AsyncRead, AsyncReadBody, InitiateBody,
              ThrowLogicError, Post, ReadSome, peerVars, NoCompletion, Transfers
<1>3. CASE StreamDelivers
  <2>1. PICK n \in Transferable : Completes("ok", n)
    BY <1>3 DEF StreamDelivers
  <2>2. n > 0 /\ cb'.n = n /\ cb'.ec = "ok"
    BY <2>1, MaxReadAssumption DEF Transferable, Completes
  <2> QED
    BY <2>2 DEF Transfers
<1>4. CASE StreamEnds \/ StreamFails \/ OwnerCancels
  BY <1>4 DEF StreamEnds, StreamFails, OwnerCancels, Completes, peerVars, Transfers
<1>5. CASE Dispatch
  <2>1. cb' = NoCompletion
    BY <1>5 DEF Dispatch, ReadFailed, ReadHeaderOp, ReadBodyOp, PostedHeader, PostedBody,
                Continue, ReadSome, Complete
  <2> QED
    BY <2>1 DEF NoCompletion, Transfers
<1> QED
  BY <1>1, <1>2, <1>3, <1>4, <1>5 DEF Next, Caller, Stream

\* Every step keeps Parsing: whatever is committed is parsed in the same handler.
LEMMA ParsingStep ==
    ASSUME IInv, Transfers, Parsing, [Next]_vars
    PROVE  Parsing'
<1>1. CASE PeerSends \/ PeerEnds \/ UNCHANGED vars
  BY <1>1 DEF PeerSends, PeerEnds, vars, Parsing
<1>2. CASE BeginMessage
  BY <1>2 DEF BeginMessage, StartMessage, Idle, Parsing, BodyLacking
<1>3. CASE AsyncReadHeader \/ AsyncReadSome \/ AsyncRead
  BY <1>3 DEF AsyncReadHeader, AsyncReadSome, AsyncRead, AsyncReadBody, InitiateBody,
              ThrowLogicError, Post, ReadSome, peerVars, Idle, Parsing
<1>4. CASE Stream \/ OwnerCancels
  BY <1>4 DEF Stream, StreamDelivers, StreamEnds, StreamFails, OwnerCancels, Completes,
              peerVars, Parsing
<1>5. CASE ReadFailed
  <2>1. op' = NoOp /\ pr' = Fed /\ UNCHANGED <<msgs, ending>>
    BY <1>5 DEF ReadFailed, Complete, peerVars
  <2>2. CASE cb.ec = "net_error"
    BY <2>1, <2>2 DEF Transfers, Parsing
  <2>3. CASE cb.ec = "operation_aborted"
    <3>1. Fed = Commit(pr, cb.n) /\ cb.n = 0
      BY <2>3 DEF Fed, Transfers
    <3>2. Fed.st = pr.st /\ Fed.msg = pr.msg /\ Fed.buf = pr.buf
      BY <3>1, StateFacts DEF Commit, Parser
    <3> QED
      BY <2>1, <3>2 DEF Parsing, BodyLacking, NoOp
  <2> QED
    BY <1>5, <2>2, <2>3 DEF ReadFailed, StreamErrors
<1>6. CASE ReadHeaderOp \/ ReadBodyOp
  <2>1. Dispatchable("read") /\ pr' = Parsed.pr /\ UNCHANGED <<msgs, ending>>
    BY <1>6 DEF ReadHeaderOp, ReadBodyOp, Resumed, peerVars
  <2>2. BodyLacking(msgs, Parsed.pr) /\ HeaderLacking(msgs, Parsed.pr)
    BY <2>1, FedFacts, StateFacts, ParseTakesAll DEF Parsed
  <2> QED
    BY <2>1, <2>2 DEF Parsing
<1>7. CASE PostedHeader \/ PostedBody
  <2>1. op' = NoOp /\ op.pc = "post" /\ UNCHANGED <<msgs, ending>>
    BY <1>7 DEF PostedHeader, PostedBody, Dispatchable, Complete, peerVars
  <2>2. pr' = pr
    BY <1>7, <2>1 DEF PostedHeader, PostedBody, IInv, Control, Parse, IsComplete
  <2> QED
    BY <2>1, <2>2 DEF Parsing, NoOp
<1> QED
  BY <1>1, <1>2, <1>3, <1>4, <1>5, <1>6, <1>7 DEF Next, Caller, Dispatch

\* The stage a suspended operation reads says which part it lacks.
LEMMA ParsingWaits ==
    ASSUME IInv, Parsing
    PROVE  WaitsForMissing
<1> SUFFICES ASSUME op.pc = "read", ending # "error" PROVE Lacking
  BY DEF WaitsForMissing
<1>1. pr.st = (IF op.kind = "header" THEN "header" ELSE "body")
  BY DEF IInv, SuspendedInStage
<1> QED
  BY <1>1 DEF Parsing, Lacking, BodyLacking, HeaderLacking

(***************************************************************************)
(* read.hpp:81-100, 173-195: no operation waits for what it has.  What is  *)
(* committed is parsed before the next read, and what an earlier operation *)
(* left was parsed by that one; a cancelled read brings no bytes.          *)
(***************************************************************************)
THEOREM WaitsAreForMissing == Spec => []WaitsForMissing
<1>1. Init => Transfers /\ Parsing
  BY DEF Init, ResetParser, NoOp, NoCompletion, Transfers, Parsing, BodyLacking
<1>2. IInv /\ Parsing => WaitsForMissing
  BY ParsingWaits
<1> QED
  BY <1>1, <1>2, TransfersStep, ParsingStep, ReadInvariant, PTL DEF Spec

(***************************************************************************)
(* The loops go round only after bytes came (read.hpp:83-101, 175-200):    *)
(* after commit_eof() parse() never asks for more, so that the end of the  *)
(* stream ends the operation that meets it.                                *)
(***************************************************************************)
THEOREM LoopsProgress == Spec => RoundsProgress
<1>1. Init => Transfers
  BY DEF Init, NoOp, NoCompletion, Transfers
<1>2. IInv /\ Transfers /\ [Next]_vars
        => [Dispatch /\ op'.pc = "read" => op'.total > op.total]_vars
  <2> SUFFICES ASSUME IInv, Transfers, Dispatch, op'.pc = "read" PROVE op'.total > op.total
    OBVIOUS
  <2>1. /\ Dispatchable("read") /\ cb.ec \notin StreamErrors
        /\ Parsed.ec = "need_more_input" /\ op'.total = Total
    BY DEF Dispatch, ReadFailed, ReadHeaderOp, ReadBodyOp, Resumed, PostedHeader, PostedBody,
           HeaderOutcome, BodyOutcome, Complete, Continue, ReadSome, NoOp
  <2>2. cb.ec = "ok"
    BY <2>1, ParsedFacts, StateFacts DEF Dispatchable, StreamCodes
  <2>3. cb.n > 0
    BY <2>1, <2>2 DEF Dispatchable, Transfers
  <2> QED
    BY <2>1, <2>3, StateFacts DEF Total
<1> QED
  BY <1>1, <1>2, TransfersStep, ReadInvariant, PTL DEF Spec, RoundsProgress
================================================================================
