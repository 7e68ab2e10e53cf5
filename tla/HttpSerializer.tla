---------------------------- MODULE HttpSerializer ----------------------------
(***************************************************************************)
(* http_proto::serializer, as far as include/boost/http_io/impl/write.hpp  *)
(* uses it.  The class lives in another library, so every definition here  *)
(* is external.                                                            *)
(*                                                                         *)
(* Bytes are numbered from 1 along the connection.  out bytes have been    *)
(* consumed, ready have been produced, and the current message ends at     *)
(* end: the bytes out+1..ready can be prepared.                            *)
(***************************************************************************)
EXTENDS Naturals

Serializer == [out : Nat, ready : Nat, end : Nat, source : {"good", "broken"}]

PrepareErrors == {"need_data", "source_error"}

\* A new serializer, with no message yet
ResetSerializer == [out |-> 0, ready |-> 0, end |-> 0, source |-> "good"]

\* is_done()
IsDone(s) == s.out = s.end

\* start(): a message of n bytes, r of which are there already
StartSerializer(s, n, r) ==
    [out |-> s.out, ready |-> s.out + r, end |-> s.out + n, source |-> "good"]

\* The body source produces r bytes more, or breaks for good
Produce(s, r) == [s EXCEPT !.ready = s.ready + r]

Break(s) == [s EXCEPT !.source = "broken"]

\* prepare(): the buffers after out, or an error; throws logic_error when done
NothingPrepared(why) == [ec |-> why, from |-> 0, len |-> 0]

Prepare(s) ==
    IF IsDone(s) THEN NothingPrepared("logic_error")
    ELSE IF s.out < s.ready THEN [ec |-> "ok", from |-> s.out, len |-> s.ready - s.out]
    ELSE NothingPrepared(IF s.source = "good" THEN "need_data" ELSE "source_error")

\* consume()
ConsumeOut(s, n) == [s EXCEPT !.out = s.out + n]
===============================================================================
