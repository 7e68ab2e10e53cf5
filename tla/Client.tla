---------------------------------- MODULE Client ----------------------------------
(***************************************************************************)
(* example/client/flex_await/main.cpp: one GET over plain TCP or TLS, that *)
(* follows redirects and prints the body of the last response.             *)
(*                                                                         *)
(* request() is a coroutine, and a step runs from one co_await to the next.*)
(* Of the operations of read.hpp and write.hpp only what they promise is   *)
(* kept, as in Reader and Writer.  The web is any map from URLs to         *)
(* responses, one that redirects in circles included.                      *)
(***************************************************************************)
EXTENDS Naturals, Sequences

CONSTANTS
    Pages,      \* the URLs, each a host, a service and a target
    Https,      \* those whose service is "https", and not a port
    Webs,       \* the maps from URLs to responses
    Start       \* the URL on the command line

Responses ==
    [kind : {"final"}, framing : {"sized", "until_eof"}, size : Nat]
        \cup [kind : {"redirect"}, location : Pages]
        \cup [kind : {"no_location", "relative_location"}]

ASSUME PagesAssumption == Https \subseteq Pages /\ Start \in Pages
ASSUME WebsAssumption == Webs \subseteq [Pages -> Responses]

VARIABLES
    web,        \* what the servers answer, fixed by them
    pc,         \* the operation request() awaits, or how it ended
    hop,        \* the URL that host, service and target are parts of
    view,       \* what service and target are views of: main()'s url, or the parser's buffer
    asked,      \* the URL of the last request written
    pr,         \* the parser, and the bytes of the body in its buffer
    printed     \* the output: the bytes of bodies, each with its URL and place

vars == <<web, pc, hop, view, asked, pr, printed>>

Connecting == {"resolve", "connect", "handshake", "write"}
Awaits == Connecting \cup {"read_header", "read_some", "redirect_shutdown", "shutdown"}
Outcomes == {"done", "threw", "undefined"}

\* The body's bytes up to from are consumed, those up to to are in the buffer
Parser == [st : {"reset", "header", "body", "complete"}, from : Nat, to : Nat]

\* reset() and start()
StartedParser == [st |-> "header", from |-> 0, to |-> 0]

Init ==
    /\ web \in Webs
    /\ pc = "resolve" /\ hop = Start /\ view = "main"
    /\ asked = Start
    /\ pr = [st |-> "reset", from |-> 0, to |-> 0]
    /\ printed = <<>>

--------------------------------------------------------------------------------
(* connect() and write_get_request(). *)

Resolved ==
    /\ pc = "resolve" /\ pc' = "connect"
    /\ UNCHANGED <<web, hop, view, asked, pr, printed>>

Connected ==
    /\ pc = "connect" /\ pc' = (IF hop \in Https THEN "handshake" ELSE "write")
    /\ UNCHANGED <<web, hop, view, asked, pr, printed>>

HandshakeDone ==
    /\ pc = "handshake" /\ pc' = "write"
    /\ UNCHANGED <<web, hop, view, asked, pr, printed>>

\* Variant: the target that the loop's one shadows
TargetOfParameters == Start

Target == hop

\* The request is sent, and the parser readied for its response
Written ==
    /\ pc = "write"
    /\ asked' = Target
    /\ pr' = StartedParser
    /\ view' = IF view = "parser" THEN "stale" ELSE view
    /\ pc' = "read_header"
    /\ UNCHANGED <<web, hop, printed>>

--------------------------------------------------------------------------------
(* Redirects. *)

IsRedirect == web[asked].kind # "final"

\* Variant: the parser is reset before its views are used
RedirectedResetting ==
    /\ web[asked].kind = "redirect"
    /\ hop' = web[asked].location /\ view' = "stale"
    /\ pr' = StartedParser
    /\ pc' = "redirect_shutdown"
    /\ UNCHANGED <<web, asked, printed>>

\* Of the Location's parts the host is copied, the others are views into the parser's buffer
Redirected ==
    /\ web[asked].kind = "redirect"
    /\ hop' = web[asked].location /\ view' = "parser"
    /\ pr' = [st |-> "body", from |-> 0, to |-> 0]
    /\ pc' = "redirect_shutdown"
    /\ UNCHANGED <<web, asked, printed>>

\* "Bad redirect response" is thrown
LocationMissing ==
    /\ web[asked].kind = "no_location"
    /\ pc' = "threw"
    /\ UNCHANGED <<web, hop, view, asked, pr, printed>>

\* parse_uri() fails, and its result is used all the same
LocationUnparsed ==
    /\ web[asked].kind = "relative_location"
    /\ pc' = "undefined"
    /\ UNCHANGED <<web, hop, view, asked, pr, printed>>

\* Whatever async_shutdown says
RedirectShutdown ==
    /\ pc = "redirect_shutdown" /\ pc' = "resolve"
    /\ UNCHANGED <<web, hop, view, asked, pr, printed>>

--------------------------------------------------------------------------------
(* The body, read and printed in pieces. *)

\* The parser once up to n bytes of the body have been read, and perhaps the end of the
\* stream (for the parser a chunked body's end is like it: it may come with the bytes or later)
Filled(n) ==
    LET resp == web[asked]
        stages == IF n < resp.size THEN {"body"}
                  ELSE IF resp.framing = "sized" THEN {"complete"} ELSE {"body", "complete"}
    IN  {[st |-> s, from |-> pr.from, to |-> n] : s \in stages}

\* Variant: what was pulled is not consumed
PrintUnconsumed(p) ==
    /\ printed' = printed \o [i \in 1..(p.to - p.from) |-> <<asked, p.from + i>>]
    /\ pr' = p

\* Variant: the whole body is consumed instead of the buffer
PrintConsumingAll(p) ==
    /\ printed' = printed \o [i \in 1..(p.to - p.from) |-> <<asked, p.from + i>>]
    /\ pr' = [st |-> p.st, from |-> web[asked].size, to |-> p.to]

\* pull_body(), cout.write() and consume_body()
PrintBody(p) ==
    /\ printed' = printed \o [i \in 1..(p.to - p.from) |-> <<asked, p.from + i>>]
    /\ pr' = [st |-> p.st, from |-> p.to, to |-> p.to]

\* Variant: is_complete() is tested first
ReadOnAfterTest(p) ==
    /\ IF p.st = "complete" THEN pc' = "shutdown" /\ pr' = p /\ UNCHANGED printed
                            ELSE pc' = "read_some" /\ PrintBody(p)
    /\ UNCHANGED <<web, hop, view, asked>>

ReadOn(p) ==
    /\ PrintBody(p)
    /\ pc' = IF p.st = "complete" THEN "shutdown" ELSE "read_some"
    /\ UNCHANGED <<web, hop, view, asked>>

HeaderRead ==
    /\ pc = "read_header"
    /\ IF IsRedirect
       THEN Redirected \/ LocationMissing \/ LocationUnparsed
       ELSE \E n \in 0..web[asked].size : \E p \in Filled(n) : ReadOn(p)

\* async_read_some gives more of the body, or finds its end
SomeRead ==
    /\ pc = "read_some"
    /\ \E n \in pr.to..web[asked].size : \E p \in Filled(n) :
         /\ n > pr.to \/ p.st = "complete"
         /\ ReadOn(p)

\* What any_stream's async_shutdown ends with: TLS may miss the peer's part, TCP is closed
ShutdownResults ==
    IF asked \in Https THEN {"ok", "stream_truncated", "net_error"} ELSE {"ok", "net_error"}

ShutdownEnds ==
    /\ pc = "shutdown"
    /\ \E ec \in ShutdownResults :
         pc' = IF ec \in {"ok", "stream_truncated"} THEN "done" ELSE "threw"
    /\ UNCHANGED <<web, hop, view, asked, pr, printed>>

--------------------------------------------------------------------------------

\* An error given to a co_await without as_tuple is thrown, and one of async_read_some
AwaitFails ==
    /\ pc \in Connecting \cup {"read_header", "read_some"}
    /\ pc' = "threw"
    /\ UNCHANGED <<web, hop, view, asked, pr, printed>>

Next ==
    \/ Resolved \/ Connected \/ HandshakeDone \/ Written
    \/ HeaderRead \/ SomeRead
    \/ RedirectShutdown \/ ShutdownEnds
    \/ AwaitFails

Spec == Init /\ [][Next]_vars

(***************************************************************************)
(* Whatever request() awaits ends: servers answer, break off or close.     *)
(* The client has no timeout, and waits for ever for one that does not.    *)
(***************************************************************************)
FairSpec == Spec /\ WF_vars(Next)

--------------------------------------------------------------------------------
(* Properties. *)

TypeOK ==
    /\ web \in Webs
    /\ pc \in Awaits \cup Outcomes
    /\ hop \in Pages /\ asked \in Pages
    /\ view \in {"main", "parser", "stale"}
    /\ pr \in Parser /\ pr.from <= pr.to
    /\ printed \in Seq(Pages \X Nat)

\* The first n bytes of a page's body
BodyOf(page, n) == [i \in 1..n |-> <<page, i>>]

(***************************************************************************)
(* What has been printed is the beginning of the response being read: no   *)
(* byte of it is printed twice or skipped, in whatever pieces it comes,    *)
(* and none of a redirect's body (main.cpp:278).                           *)
(***************************************************************************)
PrintedInOrder ==
    /\ printed = BodyOf(asked, pr.from)
    /\ printed # <<>> => ~IsRedirect

Redirects(p) == web[p].kind = "redirect"

\* The pages that redirects lead to from p, which is one of them
LedTo(p) ==
    {q \in Pages : \A S \in SUBSET Pages :
        p \in S /\ (\A r \in S : Redirects(r) => web[r].location \in S) => q \in S}

(***************************************************************************)
(* The client succeeds only with the whole body of the page the redirects  *)
(* lead to: the bytes that come with the header, and those that come with  *)
(* the end of the message, are printed too (main.cpp:278-286).             *)
(***************************************************************************)
SuccessIsWhole ==
    pc = "done" =>
        /\ asked \in LedTo(Start) /\ ~IsRedirect
        /\ printed = BodyOf(asked, web[asked].size)

(***************************************************************************)
(* service and target are views of the URL in the parser's buffer until    *)
(* the next request is written: through the shutdown, the name lookup, the *)
(* connection and the handshake, each of them a suspension, the parser is  *)
(* not reset (main.cpp:254-266).                                           *)
(***************************************************************************)
ViewsAlive == pc \in Connecting \cup {"redirect_shutdown"} => view # "stale"

(***************************************************************************)
(* The client implements Fetch: through all the suspensions, the piecewise *)
(* reads and the connections made anew, it follows redirects only before   *)
(* it prints, appends to the output the next bytes of one page, and ends   *)
(* well only when that page is whole.                                      *)
(***************************************************************************)
Promised == INSTANCE Fetch WITH page <- hop,
                                outcome <- IF pc \in Outcomes THEN pc ELSE "none"

ImplementsFetch == Promised!Spec

(***************************************************************************)
(* A chain of redirects that ends lets the request end.                    *)
(***************************************************************************)
RequestEnds == (\E p \in LedTo(Start) : ~Redirects(p)) ~> pc \in Outcomes

(***************************************************************************)
(* main.cpp:229, "Performs an HTTP GET and prints the response", and       *)
(* main.cpp:353, where an exception is caught and printed: the client ends *)
(* with one or the other.                                                  *)
(***************************************************************************)
EndsInResponseOrError == pc # "undefined"
================================================================================
