--------------------------------- MODULE Writer ---------------------------------
(***************************************************************************)
(* What include/boost/http_io/write.hpp promises, as the caller of its     *)
(* operations and the peer see it: nothing of prepared buffers, coroutines *)
(* or completion queues.  WriteOps implements it.                          *)
(*                                                                         *)
(* An operation is called, sends the next bytes of the message and returns *)
(* in a later step.  Whatever it returns, the caller then knows how many   *)
(* bytes the peer was given, and the next operation goes on from there.    *)
(***************************************************************************)
EXTENDS Naturals, Sequences

VARIABLES
    wire,       \* the numbers of the bytes the peer was given
    end,        \* where the current message ends
    kind,       \* the operation that runs, or "none"
    told,       \* the sum of bytes_transferred over all handlers
    answer      \* what the last handler was told

vars == <<wire, end, kind, told, answer>>

Kinds == {"some", "write"}
NoAnswer == [kind |-> "none", ec |-> "none", n |-> 0]

StreamErrors == {"net_error", "operation_aborted"}
SourceErrors == {"need_data", "source_error"}

Init ==
    /\ wire = <<>> /\ end = 0
    /\ kind = "none" /\ told = 0
    /\ answer = NoAnswer

StartMessage ==
    /\ kind = "none" /\ Len(wire) = end
    /\ end' \in Nat /\ end' > end
    /\ answer' = NoAnswer
    /\ UNCHANGED <<wire, kind, told>>

Call(k) ==
    /\ kind = "none" /\ Len(wire) < end
    /\ kind' = k /\ answer' = NoAnswer
    /\ UNCHANGED <<wire, end, told>>

\* The next n bytes of the message, once only for async_write_some
SendBytes(n) ==
    /\ kind \in Kinds
    /\ kind = "some" => Len(wire) = told
    /\ wire' = wire \o [k \in 1..n |-> Len(wire) + k]
    /\ UNCHANGED <<end, kind, told, answer>>

(***************************************************************************)
(* Success means the whole message, or for async_write_some some of it.    *)
(* The source fails an operation only between two writes.                  *)
(***************************************************************************)
Return(ec) ==
    /\ kind \in Kinds
    /\ ec = "ok" => IF kind = "write" THEN Len(wire) = end ELSE told < Len(wire)
    /\ ec \in SourceErrors => Len(wire) < end /\ (kind = "some" => Len(wire) = told)
    /\ kind' = "none"
    /\ told' = Len(wire)
    /\ answer' = [kind |-> kind, ec |-> ec, n |-> Len(wire) - told]
    /\ UNCHANGED <<wire, end>>

Next ==
    \/ StartMessage
    \/ \E k \in Kinds : Call(k)
    \/ \E n \in 1..(end - Len(wire)) : SendBytes(n)
    \/ \E ec \in {"ok"} \cup StreamErrors \cup SourceErrors : Return(ec)

Spec == Init /\ [][Next]_vars
================================================================================
