------------------------------ MODULE HttpParser ------------------------------
(***************************************************************************)
(* http_proto::parser, as far as include/boost/http_io/impl/read.hpp and   *)
(* the example server use it.  The class lives in another library, so      *)
(* every definition here is external: a contract read off the calls, not   *)
(* a translation.                                                          *)
(*                                                                         *)
(* Bytes are counted, not represented.  A peer's byte stream is a sequence *)
(* of messages back to back, and a message is a header of hdr bytes, a     *)
(* body of body bytes, and a kind that says how the body is framed or      *)
(* where the message is malformed.                                         *)
(***************************************************************************)
EXTENDS Naturals, Sequences

MessageKinds == {"sized", "until_eof", "bad_header", "bad_body"}

Message == [hdr : Nat \ {0}, body : Nat, kind : MessageKinds]

ParserStages == {"reset", "header", "body", "complete", "failed"}

(***************************************************************************)
(* st   : how far the current message is parsed;                           *)
(* msg  : the number of the current message (0 before the first start());  *)
(* buf  : bytes committed and not yet parsed, leftovers of the previous    *)
(*        message included;                                                *)
(* used : bytes parsed since reset(); eof : commit_eof() was called.       *)
(***************************************************************************)
Parser == [st : ParserStages, msg : Nat, buf : Nat, used : Nat, eof : BOOLEAN]

\* reset(): ready for the first message of a new connection
ResetParser == [st |-> "reset", msg |-> 0, buf |-> 0, used |-> 0, eof |-> FALSE]

GotHeader(p) == p.st \in {"body", "complete"}

IsComplete(p) == p.st = "complete"

\* start(), prepare(), commit() and parse() throw std::logic_error elsewhere
CanStart(p) == p.st \in {"reset", "complete"}

CanRead(p) == p.st \in {"header", "body"}

\* start(): the next message begins where the previous one ended
StartMessage(p) ==
    [st |-> "header", msg |-> p.msg + 1, buf |-> p.buf, used |-> p.used, eof |-> p.eof]

Commit(p, n) == [p EXCEPT !.buf = @ + n]

CommitEof(p) == [p EXCEPT !.eof = TRUE]

(***************************************************************************)
(* parse(ec), which goes on from the header into the body in one call      *)
(* ("override possible need_more_input", read.hpp:99), and is a no-op on a *)
(* complete message (read.hpp:155).                                        *)
(***************************************************************************)
NeedMore(p) == [pr |-> p, ec |-> "need_more_input"]

Malformed(p, why) == [pr |-> [p EXCEPT !.st = "failed"], ec |-> why]

Consume(p, n, stage) ==
    [st |-> stage, msg |-> p.msg, buf |-> p.buf - n, used |-> p.used + n, eof |-> p.eof]

Finished(p, n) == [pr |-> Consume(p, n, "complete"), ec |-> "ok"]

HeaderBuffered(msgs, p) == p.msg \in 1..Len(msgs) /\ p.buf >= msgs[p.msg].hdr

ParseBody(msgs, p) ==
    LET m == msgs[p.msg] IN
    IF m.kind = "until_eof"
    THEN IF p.eof THEN Finished(p, p.buf) ELSE NeedMore(p)
    ELSE IF p.buf < m.body
         THEN IF p.eof THEN Malformed(p, "incomplete") ELSE NeedMore(p)
         ELSE IF m.kind = "bad_body" THEN Malformed(p, "bad_message")
                                     ELSE Finished(p, m.body)

ParseHeader(msgs, p) ==
    IF HeaderBuffered(msgs, p)
    THEN IF msgs[p.msg].kind = "bad_header"
         THEN Malformed(p, "bad_message")
         ELSE ParseBody(msgs, Consume(p, msgs[p.msg].hdr, "body"))
    ELSE IF p.eof
         THEN Malformed(p, IF p.buf = 0 THEN "end_of_stream" ELSE "incomplete")
         ELSE NeedMore(p)

Parse(msgs, p) ==
    IF p.st = "header" THEN ParseHeader(msgs, p)
    ELSE IF p.st = "body" THEN ParseBody(msgs, p)
    ELSE [pr |-> p, ec |-> "ok"]
===============================================================================
