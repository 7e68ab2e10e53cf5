--------------------------------- MODULE Reader ---------------------------------
(***************************************************************************)
(* What include/boost/http_io/read.hpp promises, as the caller of its      *)
(* operations sees it: nothing of parsers' buffers, coroutines, completion *)
(* queues, eof or need_more_input.  ReadOps implements it.                 *)
(*                                                                         *)
(* An operation is called, takes bytes off the stream, and returns in a    *)
(* later step.  The message is where the last operation left it until the  *)
(* next one returns, and the caller's account of the stream is exact       *)
(* whenever no operation runs.                                             *)
(***************************************************************************)
EXTENDS Naturals

VARIABLES
    stage,      \* how far the current message is, for the caller
    kind,       \* the operation that runs, or "none"
    taken,      \* bytes taken off the stream
    told,       \* the sum of bytes_transferred over all handlers
    answer      \* what the last handler was told

vars == <<stage, kind, taken, told, answer>>

Kinds == {"header", "some", "body"}
NoAnswer == [kind |-> "none", ec |-> "none", n |-> 0]

StreamErrors == {"net_error", "operation_aborted"}
ParseErrors == {"end_of_stream", "incomplete", "bad_message"}

HasHeader(s) == s \in {"body", "complete"}

Init ==
    /\ stage = "reset" /\ kind = "none"
    /\ taken = 0 /\ told = 0
    /\ answer = NoAnswer

StartMessage ==
    /\ kind = "none" /\ stage \in {"reset", "complete"}
    /\ stage' = "header" /\ answer' = NoAnswer
    /\ UNCHANGED <<kind, taken, told>>

Call(k) ==
    /\ kind = "none"
    /\ IF k = "header" THEN stage = "header" \/ HasHeader(stage) ELSE HasHeader(stage)
    /\ kind' = k /\ answer' = NoAnswer
    /\ UNCHANGED <<stage, taken, told>>

\* async_read and async_read_some throw before the header is read
Refuse(k) ==
    /\ kind = "none" /\ k # "header" /\ stage = "header"
    /\ answer' = [kind |-> k, ec |-> "logic_error", n |-> 0]
    /\ UNCHANGED <<stage, kind, taken, told>>

\* No byte is taken for a message that needs none, and async_read_some takes once
TakeBytes ==
    /\ kind \in Kinds
    /\ stage = (IF kind = "header" THEN "header" ELSE "body")
    /\ kind = "some" => taken = told
    /\ taken' \in Nat /\ taken' > taken
    /\ UNCHANGED <<stage, kind, told, answer>>

\* Where the success of an operation k, called in the stage s, leaves the message
Reached(k, s) ==
    IF k = "body" THEN {"complete"}
    ELSE IF s = "complete" \/ (k = "header" /\ s = "body") THEN {s}
    ELSE {"body", "complete"}

Return(ec, s) ==
    /\ kind \in Kinds
    /\ \/ ec = "ok" /\ s \in Reached(kind, stage)
       \/ ec \in ParseErrors /\ s = "failed" /\ stage \in {"header", "body"}
       \/ ec \in StreamErrors /\ s = stage /\ stage \in {"header", "body"}
    /\ stage' = s /\ kind' = "none"
    /\ told' = taken
    /\ answer' = [kind |-> kind, ec |-> ec, n |-> taken - told]
    /\ UNCHANGED taken

Next ==
    \/ StartMessage
    \/ \E k \in Kinds : Call(k) \/ Refuse(k)
    \/ TakeBytes
    \/ \E ec \in {"ok"} \cup ParseErrors \cup StreamErrors :
       \E s \in {"header", "body", "complete", "failed"} : Return(ec, s)

Spec == Init /\ [][Next]_vars
================================================================================
