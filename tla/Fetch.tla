---------------------------------- MODULE Fetch ----------------------------------
(***************************************************************************)
(* What the client promises, as the user of the command line sees it:      *)
(* "Performs an HTTP GET and prints the response" (main.cpp:229).  There   *)
(* are no connections, no parser and no suspensions here.  Client          *)
(* implements it.                                                          *)
(*                                                                         *)
(* Redirects are followed before anything is printed, then one page is     *)
(* printed from its beginning, and the client ends well only when all of   *)
(* it is out.                                                              *)
(***************************************************************************)
EXTENDS Naturals, Sequences

CONSTANTS Webs, Start

VARIABLES
    web,        \* what the servers answer
    page,       \* the URL the redirects have led to
    printed,    \* the output
    outcome     \* how the request ended, or "none"

vars == <<web, page, printed, outcome>>

Init ==
    /\ web \in Webs
    /\ page = Start /\ printed = <<>> /\ outcome = "none"

Follow ==
    /\ outcome = "none" /\ printed = <<>>
    /\ web[page].kind = "redirect" /\ page' = web[page].location
    /\ UNCHANGED <<web, printed, outcome>>

\* The next n bytes of the page
Output(n) ==
    /\ outcome = "none" /\ web[page].kind = "final"
    /\ printed' = printed \o [i \in 1..n |-> <<page, Len(printed) + i>>]
    /\ UNCHANGED <<web, page, outcome>>

Succeed ==
    /\ outcome = "none" /\ outcome' = "done"
    /\ web[page].kind = "final" /\ Len(printed) = web[page].size
    /\ UNCHANGED <<web, page, printed>>

\* Before all of the page is out, or when the connection is shut down
Fail(how) ==
    /\ outcome = "none" /\ outcome' = how
    /\ UNCHANGED <<web, page, printed>>

Next ==
    \/ Follow \/ Succeed
    \/ web[page].kind = "final" /\ \E n \in 1..(web[page].size - Len(printed)) : Output(n)
    \/ \E how \in {"threw", "undefined"} : Fail(how)

Spec == Init /\ [][Next]_vars
================================================================================
