------------------------------ MODULE ClientProofs ------------------------------
(***************************************************************************)
(* Theorems about Client, for any set of pages and any web.                *)
(***************************************************************************)
EXTENDS Client, SequenceTheorems, TLAPS

Types ==
    /\ web \in Webs
    /\ pc \in Awaits \cup Outcomes
    /\ hop \in Pages /\ asked \in Pages
    /\ view \in {"main", "parser", "stale"}
    /\ pr \in Parser

\* Where the body is, at each suspension: all that was buffered has been printed
Position ==
    /\ pr.from = pr.to
    /\ pc \in Connecting \cup {"read_header", "redirect_shutdown"} => pr.to = 0
    /\ pr.to # 0 => ~IsRedirect
    /\ pc \in {"read_some", "shutdown", "done"} => ~IsRedirect
    /\ pc \in {"shutdown", "done"} => pr.to = web[asked].size

Output == printed = BodyOf(asked, pr.to)

\* Whose response is read: that of the page the redirects have led to
Way ==
    /\ hop \in LedTo(Start) /\ asked \in LedTo(Start)
    /\ pc \in {"read_header", "read_some", "shutdown", "done"} => asked = hop

IInv == Types /\ Position /\ Output /\ Way /\ ViewsAlive

--------------------------------------------------------------------------------

LEMMA ResponseFacts ==
    ASSUME NEW r \in Responses
    PROVE  /\ r.kind \in {"final", "redirect", "no_location", "relative_location"}
           /\ r.kind = "final" => r.size \in Nat
           /\ r.kind = "redirect" => r.location \in Pages
  BY DEF Responses

LEMMA AnswerFacts ==
    ASSUME Types
    PROVE  web[asked] \in Responses
  BY WebsAssumption DEF Types

LEMMA BodyIsSequence ==
    ASSUME NEW p \in Pages, NEW n \in Nat
    PROVE  /\ BodyOf(p, n) \in Seq(Pages \X Nat) /\ Len(BodyOf(p, n)) = n
           /\ \A i \in 1..n : BodyOf(p, n)[i] = <<p, i>>
  BY DEF BodyOf

LEMMA NothingRead == ASSUME NEW p PROVE BodyOf(p, 0) = <<>>
  BY DEF BodyOf

\* What PrintBody appends
LEMMA BodyGoesOn ==
    ASSUME NEW p \in Pages, NEW m \in Nat, NEW n \in Nat, m <= n
    PROVE  BodyOf(p, m) \o [i \in 1..(n - m) |-> <<p, m + i>>] = BodyOf(p, n)
<1> DEFINE S == Pages \X Nat
           first == BodyOf(p, m)
           rest == [i \in 1..(n - m) |-> <<p, m + i>>]
           whole == first \o rest
           goal == BodyOf(p, n)
<1>1. n - m \in Nat /\ m + (n - m) = n
  OBVIOUS
<1>2. rest \in Seq(S) /\ Len(rest) = n - m
  BY <1>1
<1>3. \A i \in 1..(n - m) : rest[i] = <<p, m + i>>
  OBVIOUS
<1>4. first \in Seq(S) /\ Len(first) = m /\ \A i \in 1..m : first[i] = <<p, i>>
  BY BodyIsSequence
<1>5. goal \in Seq(S) /\ Len(goal) = n /\ \A i \in 1..n : goal[i] = <<p, i>>
  BY BodyIsSequence
<1> HIDE DEF S, first, rest, goal
<1>6. /\ whole \in Seq(S) /\ Len(whole) = Len(first) + Len(rest)
      /\ \A i \in 1..(Len(first) + Len(rest)) :
           whole[i] = IF i <= Len(first) THEN first[i] ELSE rest[i - Len(first)]
  BY <1>2, <1>4, ConcatProperties
<1>7. Len(first) + Len(rest) = n
  BY <1>1, <1>2, <1>4, Zenon
<1>8. /\ Len(whole) = n
      /\ \A i \in 1..n : whole[i] = IF i <= m THEN first[i] ELSE rest[i - m]
  BY <1>4, <1>6, <1>7, Zenon
<1> HIDE DEF whole
<1>9. \A i \in 1..n : whole[i] = <<p, i>>
  <2> SUFFICES ASSUME NEW i \in 1..n PROVE whole[i] = <<p, i>>
    OBVIOUS
  <2>1. CASE i <= m
    BY <1>4, <1>8, <2>1
  <2>2. CASE ~(i <= m)
    <3>1. i - m \in 1..(n - m) /\ m + (i - m) = i
      BY <2>2
    <3>2. whole[i] = rest[i - m]
      BY <1>8, <2>2
    <3> QED  BY <1>3, <3>1, <3>2
  <2> QED  BY <2>1, <2>2
<1>10. \A i \in 1..Len(whole) : whole[i] = goal[i]
  BY <1>5, <1>8, <1>9, Zenon
<1>11. Len(whole) = Len(goal)
  BY <1>5, <1>8, Zenon
<1>12. whole = goal
  BY <1>5, <1>6, <1>10, <1>11, SeqEqual
<1> QED  BY <1>12 DEF whole, first, rest, goal

--------------------------------------------------------------------------------
(* Where the redirects lead. *)

Closed(S) == \A r \in S : Redirects(r) => web[r].location \in S

LEMMA LedToDef ==
    ASSUME NEW p, NEW q \in Pages
    PROVE  q \in LedTo(p) <=> \A S \in SUBSET Pages : p \in S /\ Closed(S) => q \in S
  BY DEF LedTo, Closed

LEMMA LedToStarts == ASSUME NEW p \in Pages PROVE p \in LedTo(p)
  BY DEF LedTo

LEMMA LedToGoesOn ==
    ASSUME Types, NEW p \in Pages, NEW q \in LedTo(p), Redirects(q)
    PROVE  web[q].location \in LedTo(p)
<1>1. q \in Pages
  BY DEF LedTo
<1>2. web[q].location \in Pages
  BY <1>1, WebsAssumption, ResponseFacts DEF Types, Redirects
<1>3. ASSUME NEW S \in SUBSET Pages, p \in S, Closed(S)
      PROVE  web[q].location \in S
  <2>1. q \in S
    BY <1>1, <1>3, LedToDef
  <2> QED  BY <1>3, <2>1 DEF Closed
<1> QED  BY <1>2, <1>3, LedToDef

LEMMA LedToFixed == web' = web => \A p : LedTo(p)' = LedTo(p)
  BY DEF LedTo, Redirects

\* A page that is no redirect leads nowhere else
LEMMA LedToEnds ==
    ASSUME NEW p \in Pages, ~Redirects(p), NEW q \in LedTo(p)
    PROVE  q = p
<1>1. {p} \in SUBSET Pages /\ Closed({p})
  BY DEF Closed
<1> QED  BY <1>1 DEF LedTo, Closed

(***************************************************************************)
(* The redirects lead to one end at most.  The pages from which they lead  *)
(* to p hold the start and are closed under redirects, so that they are    *)
(* all the pages led to, and q is one of them.                             *)
(***************************************************************************)
LEMMA OneEnd ==
    ASSUME Types, NEW s \in Pages, NEW p \in LedTo(s), NEW q \in LedTo(s),
           ~Redirects(p), ~Redirects(q)
    PROVE  p = q
<1> DEFINE S == {r \in Pages : p \in LedTo(r)}
<1>1. p \in Pages /\ q \in Pages
  BY DEF LedTo
<1>2. s \in S
  OBVIOUS
<1>3. ASSUME NEW r \in S, Redirects(r)
      PROVE  web[r].location \in S
  <2> DEFINE t == web[r].location
             T == {r} \cup LedTo(t)
  <2>1. t \in Pages
    BY <1>3, WebsAssumption, ResponseFacts DEF Types, Redirects
  <2>2. T \in SUBSET Pages /\ r \in T
    BY DEF LedTo
  <2>3. Closed(T)
    BY <2>1, LedToStarts, LedToGoesOn DEF Closed
  <2>4. p \in T
    <3>1. p \in LedTo(r)
      OBVIOUS
    <3> HIDE DEF T
    <3> QED  BY <1>1, <2>2, <2>3, <3>1, LedToDef
  <2>5. p # r
    BY <1>3
  <2>6. p \in LedTo(t)
    BY <2>4, <2>5
  <2> QED  BY <2>1, <2>6
<1>4. Closed(S)
  BY <1>3 DEF Closed
<1>5. S \in SUBSET Pages
  OBVIOUS
<1>6. q \in S
  <2> HIDE DEF S
  <2> QED  BY <1>1, <1>2, <1>4, <1>5, LedToDef
<1>7. p \in LedTo(q)
  BY <1>6
<1> QED  BY <1>1, <1>7, LedToEnds

LEMMA InitInv == Init => IInv
<1> SUFFICES ASSUME Init PROVE IInv
  OBVIOUS
<1>1. Types /\ Position /\ Output /\ ViewsAlive
  BY PagesAssumption, NothingRead
  DEF Init, Types, Position, Output, ViewsAlive, Awaits, Outcomes, Connecting, Parser
<1>2. Way
  BY PagesAssumption, LedToStarts DEF Init, Way
<1> QED  BY <1>1, <1>2 DEF IInv

--------------------------------------------------------------------------------
(* One lemma for each kind of step. *)

\* From one suspension of connect() to the next, and to an outcome that is an error
LEMMA WaitInv ==
    IInv /\ (Resolved \/ Connected \/ HandshakeDone \/ RedirectShutdown \/ AwaitFails) => IInv'
<1> SUFFICES ASSUME IInv,
                    Resolved \/ Connected \/ HandshakeDone \/ RedirectShutdown \/ AwaitFails
             PROVE  IInv'
  OBVIOUS
<1>1. UNCHANGED <<web, hop, view, asked, pr, printed>>
  BY DEF Resolved, Connected, HandshakeDone, RedirectShutdown, AwaitFails
<1>2. \/ pc' = "threw"
      \/ /\ pc \in Connecting \cup {"redirect_shutdown"}
         /\ pc' \in {"resolve", "connect", "handshake", "write"}
  BY DEF Resolved, Connected, HandshakeDone, RedirectShutdown, AwaitFails, Connecting
<1>3. Types'
  BY <1>1, <1>2 DEF IInv, Types, Awaits, Outcomes, Connecting
<1>4. Position'
  BY <1>1, <1>2 DEF IInv, Position, IsRedirect, Connecting
<1>5. Output' /\ ViewsAlive'
  BY <1>1, <1>2 DEF IInv, Output, BodyOf, ViewsAlive, Connecting
<1>6. Way'
  BY <1>1, <1>2, LedToFixed DEF IInv, Way
<1> QED  BY <1>3, <1>4, <1>5, <1>6 DEF IInv

LEMMA WrittenInv == IInv /\ Written => IInv'
<1> SUFFICES ASSUME IInv, Written PROVE IInv'
  OBVIOUS
<1>1. pr.to = 0 /\ printed = <<>>
  BY NothingRead DEF IInv, Position, Output, Written, Connecting
<1>2. pr' = StartedParser /\ pr'.from = 0 /\ pr'.to = 0 /\ pr' \in Parser
  BY DEF Written, StartedParser, Parser
<1>3. Types'
  BY <1>2 DEF IInv, Types, Written, Target, Awaits
<1>4. Position'
  BY <1>2 DEF Position, Written
<1>5. Output'
  BY <1>1, <1>2, NothingRead DEF Output, Written
<1>6. ViewsAlive'
  BY DEF ViewsAlive, Written, Connecting
<1>7. Way'
  BY LedToFixed DEF IInv, Way, Written, Target
<1> QED  BY <1>3, <1>4, <1>5, <1>6, <1>7 DEF IInv

\* A redirect: followed, or the end of the request
LEMMA RedirectInv ==
    ASSUME IInv, pc = "read_header", Redirected \/ LocationMissing \/ LocationUnparsed
    PROVE  IInv'
<1>1. pr.to = 0 /\ pr.from = 0 /\ printed = <<>>
  BY NothingRead DEF IInv, Position, Output
<1>2. CASE Redirected
  <2>1. pr'.from = 0 /\ pr'.to = 0 /\ pr' \in Parser
    BY <1>2 DEF Redirected, Parser
  <2>2. web[asked].location \in Pages
    BY <1>2, AnswerFacts, ResponseFacts DEF IInv, Redirected
  <2>3. Types'
    BY <1>2, <2>1, <2>2 DEF IInv, Types, Redirected, Awaits
  <2>4. Position'
    BY <1>2, <2>1 DEF Position, Redirected
  <2>5. Output'
    BY <1>1, <1>2, <2>1, NothingRead DEF Output, Redirected
  <2>6. ViewsAlive'
    BY <1>2 DEF ViewsAlive, Redirected
  <2>7. Way'
    <3>1. web[asked].location \in LedTo(Start)
      BY <1>2, PagesAssumption, LedToGoesOn DEF IInv, Way, Redirected, Redirects
    <3> QED  BY <1>2, <3>1, LedToFixed DEF IInv, Way, Redirected
  <2> QED  BY <2>3, <2>4, <2>5, <2>6, <2>7 DEF IInv
<1>3. CASE LocationMissing \/ LocationUnparsed
  <2>1. pc' \in {"threw", "undefined"} /\ UNCHANGED <<web, hop, view, asked, pr, printed>>
    BY <1>3 DEF LocationMissing, LocationUnparsed
  <2>2. Types'
    BY <2>1 DEF IInv, Types, Outcomes
  <2>3. Position'
    BY <2>1 DEF IInv, Position, IsRedirect, Connecting
  <2>4. Output' /\ ViewsAlive'
    BY <2>1 DEF IInv, Output, BodyOf, ViewsAlive, Connecting
  <2>5. Way'
    BY <2>1, LedToFixed DEF IInv, Way
  <2> QED  BY <2>2, <2>3, <2>4, <2>5 DEF IInv
<1> QED  BY <1>2, <1>3

\* One round of the loop that prints
LEMMA ReadOnInv ==
    ASSUME IInv, ~IsRedirect, asked = hop,
           NEW n \in pr.to..web[asked].size, NEW p \in Filled(n), ReadOn(p)
    PROVE  IInv'
<1>1. web[asked].size \in Nat
  BY AnswerFacts, ResponseFacts DEF IInv, IsRedirect
<1>2. pr.from = pr.to /\ pr.to \in Nat /\ n \in Nat /\ pr.to <= n /\ n <= web[asked].size
  BY <1>1 DEF IInv, Types, Position, Parser
<1>3. /\ p.from = pr.to /\ p.to = n /\ p.st \in {"body", "complete"}
      /\ p.st = "complete" => n = web[asked].size
  BY <1>1, <1>2 DEF Filled
<1>4. pr' = [st |-> p.st, from |-> n, to |-> n]
  BY <1>3 DEF ReadOn, PrintBody
<1>5. pr' \in Parser /\ pr'.from = n /\ pr'.to = n
  BY <1>2, <1>3, <1>4 DEF Parser
<1>6. UNCHANGED <<web, hop, view, asked>>
  BY DEF ReadOn
<1>7. /\ pc' \in {"read_some", "shutdown"}
      /\ pc' = "shutdown" => n = web[asked].size
  BY <1>3 DEF ReadOn
<1>8. Types'
  BY <1>5, <1>6, <1>7 DEF IInv, Types, Awaits
<1>9. Position'
  BY <1>5, <1>6, <1>7 DEF Position, IsRedirect, Connecting
<1>10. Output'
  <2>1. printed' = printed \o [i \in 1..(n - pr.to) |-> <<asked, pr.to + i>>]
    BY <1>3 DEF ReadOn, PrintBody
  <2>2. printed' = BodyOf(asked, pr.to) \o [i \in 1..(n - pr.to) |-> <<asked, pr.to + i>>]
    BY <2>1 DEF IInv, Output
  <2>3. printed' = BodyOf(asked, n)
    BY <1>2, <2>2, BodyGoesOn DEF IInv, Types
  <2> QED  BY <1>5, <1>6, <2>3 DEF Output
<1>11. ViewsAlive'
  BY <1>7 DEF ViewsAlive, Connecting
<1>12. Way'
  BY <1>6, LedToFixed DEF IInv, Way
<1> QED  BY <1>8, <1>9, <1>10, <1>11, <1>12 DEF IInv

LEMMA HeaderReadInv == IInv /\ HeaderRead => IInv'
<1> SUFFICES ASSUME IInv, HeaderRead PROVE IInv'
  OBVIOUS
<1>1. CASE IsRedirect
  BY <1>1, RedirectInv DEF HeaderRead
<1>2. CASE ~IsRedirect
  <2>1. PICK n \in 0..web[asked].size : \E p \in Filled(n) : ReadOn(p)
    BY <1>2 DEF HeaderRead
  <2>2. pr.to = 0 /\ asked = hop
    BY DEF IInv, Position, Way, HeaderRead
  <2> QED  BY <1>2, <2>1, <2>2, ReadOnInv
<1> QED  BY <1>1, <1>2

LEMMA SomeReadInv == IInv /\ SomeRead => IInv'
<1> SUFFICES ASSUME IInv, SomeRead PROVE IInv'
  OBVIOUS
<1>1. PICK n \in pr.to..web[asked].size : \E p \in Filled(n) : ReadOn(p)
  BY DEF SomeRead
<1>2. ~IsRedirect /\ asked = hop
  BY DEF IInv, Position, Way, SomeRead
<1> QED  BY <1>1, <1>2, ReadOnInv

LEMMA ShutdownInv == IInv /\ ShutdownEnds => IInv'
<1> SUFFICES ASSUME IInv, ShutdownEnds PROVE IInv'
  OBVIOUS
<1>1. pc = "shutdown" /\ pc' \in {"done", "threw"} /\ UNCHANGED <<web, hop, view, asked, pr, printed>>
  BY DEF ShutdownEnds
<1>2. Types'
  BY <1>1 DEF IInv, Types, Outcomes
<1>3. Position'
  BY <1>1 DEF IInv, Position, IsRedirect, Connecting
<1>4. Output' /\ ViewsAlive'
  BY <1>1 DEF IInv, Output, BodyOf, ViewsAlive, Connecting
<1>5. Way'
  BY <1>1, LedToFixed DEF IInv, Way
<1> QED  BY <1>2, <1>3, <1>4, <1>5 DEF IInv

--------------------------------------------------------------------------------
(* Theorems. *)

\* main.cpp:229-297: the inductive invariant of request(), whatever the servers answer
THEOREM ClientInvariant == Spec => []IInv
<1>1. IInv /\ UNCHANGED vars => IInv'
  BY LedToFixed
  DEF IInv, Types, Position, Output, BodyOf, Way, ViewsAlive, IsRedirect, vars
<1>2. IInv /\ Next => IInv'
  BY WaitInv, WrittenInv, HeaderReadInv, SomeReadInv, ShutdownInv DEF Next
<1> QED  BY <1>1, <1>2, InitInv, PTL DEF Spec

\* Every variable keeps its type, and nothing is consumed that was not buffered
THEOREM ClientTypes == Spec => []TypeOK
<1>1. IInv => TypeOK
  <2> SUFFICES ASSUME IInv PROVE TypeOK
    OBVIOUS
  <2>1. pr.from \in Nat /\ pr.to \in Nat /\ pr.from <= pr.to
    BY DEF IInv, Types, Position, Parser
  <2>2. printed \in Seq(Pages \X Nat)
    BY <2>1, BodyIsSequence DEF IInv, Types, Output
  <2> QED  BY <2>1, <2>2 DEF IInv, Types, TypeOK
<1> QED  BY <1>1, ClientInvariant, PTL

\* main.cpp:278: the output is the beginning of the last response's body, each byte once
THEOREM OutputIsInOrder == Spec => []PrintedInOrder
<1>1. IInv => PrintedInOrder
  BY NothingRead DEF IInv, Types, Position, Output, PrintedInOrder
<1> QED  BY <1>1, ClientInvariant, PTL

\* main.cpp:254-266: the views of the redirect's URL are used before the parser is reset
THEOREM ViewsStayAlive == Spec => []ViewsAlive
<1>1. IInv => ViewsAlive
  BY DEF IInv
<1> QED  BY <1>1, ClientInvariant, PTL

(***************************************************************************)
(* main.cpp:249-296: success means that all of a response that is no       *)
(* redirect was printed, and that it is the response the redirects lead    *)
(* to.                                                                     *)
(***************************************************************************)
THEOREM SuccessPrintsAll == Spec => []SuccessIsWhole
<1>1. IInv => SuccessIsWhole
  BY DEF IInv, Position, Output, Way, SuccessIsWhole
<1> QED  BY <1>1, ClientInvariant, PTL

(***************************************************************************)
(* main.cpp:249-286: a client that has printed anything, or that succeeds, *)
(* has asked the one page that the redirects lead to and that does not     *)
(* redirect, and all it has printed is the beginning of that page: not of  *)
(* a page on the way, and of no page that it chose.                        *)
(***************************************************************************)
THEOREM OnlyThePageLedToIsPrinted ==
    Spec => [](printed # <<>> \/ pc = "done" =>
                 /\ {q \in LedTo(Start) : ~Redirects(q)} = {asked}
                 /\ printed = BodyOf(asked, Len(printed)))
<1> DEFINE Ends == {q \in LedTo(Start) : ~Redirects(q)}
<1>1. IInv => (printed # <<>> \/ pc = "done" =>
                 Ends = {asked} /\ printed = BodyOf(asked, Len(printed)))
  <2> SUFFICES ASSUME IInv, printed # <<>> \/ pc = "done"
               PROVE  Ends = {asked} /\ printed = BodyOf(asked, Len(printed))
    OBVIOUS
  <2>1. asked \in LedTo(Start) /\ asked \in Pages /\ pr.to \in Nat
    BY DEF IInv, Way, Types, Parser
  <2>2. ~Redirects(asked)
    <3>1. CASE printed # <<>>
      BY <3>1, <2>1, NothingRead DEF IInv, Output, Position, IsRedirect, Redirects
    <3>2. CASE pc = "done"
      BY <3>2 DEF IInv, Position, IsRedirect, Redirects
    <3> QED  BY <3>1, <3>2
  <2>3. ASSUME NEW q \in LedTo(Start), ~Redirects(q) PROVE q = asked
    BY <2>1, <2>2, <2>3, PagesAssumption, OneEnd DEF IInv
  <2>4. Len(printed) = pr.to
    BY <2>1, BodyIsSequence DEF IInv, Output
  <2> QED  BY <2>1, <2>2, <2>3, <2>4 DEF IInv, Output
<1> QED  BY <1>1, ClientInvariant, PTL

--------------------------------------------------------------------------------
(***************************************************************************)
(* The refinement of Fetch.  Most steps of the client are none of Fetch's; *)
(* a redirect is Follow, a round of the loop Output, and the three kinds   *)
(* of ends are Succeed and Fail.                                           *)
(***************************************************************************)
LEMMA FetchInit == Init => Promised!Init
  BY DEF Init, Promised!Init, Outcomes

\* From one suspension to the next, with nothing done that the user sees
LEMMA FetchStutters ==
    ASSUME UNCHANGED <<web, hop, printed>>, pc \notin Outcomes <=> pc' \notin Outcomes,
           pc \in Outcomes => pc' = pc
    PROVE  UNCHANGED Promised!vars
  BY DEF Promised!vars

LEMMA FetchFails ==
    ASSUME UNCHANGED <<web, hop, printed>>, pc \notin Outcomes, pc' \in {"threw", "undefined"}
    PROVE  Promised!Next
<1>1. pc' \in Outcomes
  BY DEF Outcomes
<1>2. Promised!Fail(pc')
  BY <1>1 DEF Promised!Fail
<1> QED  BY <1>2 DEF Promised!Next

LEMMA FetchWaits ==
    ASSUME Resolved \/ Connected \/ HandshakeDone \/ Written \/ RedirectShutdown \/ AwaitFails
    PROVE  [Promised!Next]_(Promised!vars)
<1>1. UNCHANGED <<web, hop, printed>> /\ pc \notin Outcomes
  BY DEF Resolved, Connected, HandshakeDone, Written, RedirectShutdown, AwaitFails,
         Connecting, Outcomes
<1>2. pc' = "threw" \/ pc' \notin Outcomes
  BY DEF Resolved, Connected, HandshakeDone, Written, RedirectShutdown, AwaitFails, Outcomes
<1> QED  BY <1>1, <1>2, FetchStutters, FetchFails

LEMMA FetchRedirects ==
    ASSUME IInv, pc = "read_header", Redirected \/ LocationMissing \/ LocationUnparsed
    PROVE  [Promised!Next]_(Promised!vars)
<1>1. pc \notin Outcomes /\ asked = hop /\ printed = <<>>
  BY NothingRead DEF Outcomes, IInv, Way, Position, Output
<1>2. CASE Redirected
  <2>1. pc' \notin Outcomes
    BY <1>2 DEF Redirected, Outcomes
  <2>2. Promised!Follow
    BY <1>1, <1>2, <2>1 DEF Redirected, Promised!Follow
  <2> QED  BY <2>2 DEF Promised!Next
<1>3. CASE LocationMissing \/ LocationUnparsed
  <2>1. UNCHANGED <<web, hop, printed>> /\ pc' \in {"threw", "undefined"}
    BY <1>3 DEF LocationMissing, LocationUnparsed
  <2> QED  BY <1>1, <2>1, FetchFails
<1> QED  BY <1>2, <1>3

\* What the user sees of a round of the loop: more of the page, or nothing
LEMMA FetchReadsOn ==
    ASSUME IInv, ~IsRedirect, asked = hop, pc \in {"read_header", "read_some"},
           NEW n \in pr.to..web[asked].size, NEW p \in Filled(n), ReadOn(p)
    PROVE  [Promised!Next]_(Promised!vars)
<1>1. web[asked].size \in Nat /\ web[hop].kind = "final"
  BY AnswerFacts, ResponseFacts DEF IInv, IsRedirect
<1>2. pr.from = pr.to /\ pr.to \in Nat /\ n \in Nat /\ pr.to <= n /\ n <= web[asked].size
  BY <1>1 DEF IInv, Types, Position, Parser
<1>3. p.from = pr.to /\ p.to = n
  BY <1>1, <1>2 DEF Filled
<1>4. printed' = printed \o [i \in 1..(n - pr.to) |-> <<hop, pr.to + i>>]
  BY <1>3 DEF ReadOn, PrintBody
<1>5. printed \in Seq(Pages \X Nat) /\ Len(printed) = pr.to
  BY <1>2, BodyIsSequence DEF IInv, Types, Output
<1>6. UNCHANGED <<web, hop>> /\ pc \notin Outcomes /\ pc' \notin Outcomes
  BY DEF ReadOn, Outcomes
<1>7. CASE n = pr.to
  <2>1. [i \in 1..(n - pr.to) |-> <<hop, pr.to + i>>] = <<>>
    BY <1>2, <1>7
  <2>2. printed' = printed
    BY <1>4, <1>5, <2>1
  <2> QED  BY <1>6, <2>2, FetchStutters
<1>8. CASE n > pr.to
  <2>1. n - pr.to \in 1..(web[hop].size - pr.to)
    BY <1>1, <1>2, <1>8
  <2>2. printed' = printed \o [i \in 1..(n - pr.to) |-> <<hop, Len(printed) + i>>]
    BY <1>4, <1>5
  <2>3. Promised!Output(n - pr.to)
    BY <1>1, <1>6, <2>2 DEF Promised!Output
  <2>4. n - pr.to \in 1..(web[hop].size - Len(printed))
    BY <1>5, <2>1, Zenon
  <2> QED  BY <1>1, <2>3, <2>4 DEF Promised!Next
<1> QED  BY <1>2, <1>7, <1>8

LEMMA FetchReads ==
    ASSUME IInv, HeaderRead \/ SomeRead
    PROVE  [Promised!Next]_(Promised!vars)
<1>1. pc \in {"read_header", "read_some"} /\ asked = hop
  BY DEF HeaderRead, SomeRead, IInv, Way
<1>2. CASE HeaderRead /\ IsRedirect
  BY <1>2, FetchRedirects DEF HeaderRead
<1>3. CASE HeaderRead /\ ~IsRedirect
  <2>1. PICK n \in 0..web[asked].size : \E p \in Filled(n) : ReadOn(p)
    BY <1>3 DEF HeaderRead
  <2>2. pr.to = 0
    BY <1>3 DEF IInv, Position, HeaderRead
  <2> QED  BY <1>1, <1>3, <2>1, <2>2, FetchReadsOn
<1>4. CASE SomeRead
  <2>1. PICK n \in pr.to..web[asked].size : \E p \in Filled(n) : ReadOn(p)
    BY <1>4 DEF SomeRead
  <2>2. ~IsRedirect
    BY <1>4 DEF IInv, Position, SomeRead
  <2> QED  BY <1>1, <2>1, <2>2, FetchReadsOn
<1> QED  BY <1>2, <1>3, <1>4

LEMMA FetchEnds ==
    ASSUME IInv, ShutdownEnds
    PROVE  [Promised!Next]_(Promised!vars)
<1>1. pc = "shutdown" /\ pc' \in {"done", "threw"} /\ UNCHANGED <<web, hop, printed>>
  BY DEF ShutdownEnds
<1>2. pc \notin Outcomes /\ pc' \in Outcomes
  BY <1>1 DEF Outcomes
<1>3. CASE pc' = "threw"
  BY <1>1, <1>2, <1>3, FetchFails
<1>4. CASE pc' = "done"
  <2>1. asked = hop /\ ~IsRedirect /\ pr.to = web[asked].size /\ pr.to \in Nat
    BY <1>1 DEF IInv, Types, Position, Way, Parser
  <2>2. Len(printed) = web[hop].size
    BY <2>1, BodyIsSequence DEF IInv, Types, Output
  <2>3. Promised!Succeed
    BY <1>1, <1>2, <1>4, <2>1, <2>2 DEF Promised!Succeed, IsRedirect
  <2> QED  BY <2>3 DEF Promised!Next
<1> QED  BY <1>1, <1>3, <1>4

(***************************************************************************)
(* main.cpp:229-297: the client is a Fetch, whatever the servers answer.   *)
(***************************************************************************)
THEOREM ClientImplementsFetch == Spec => ImplementsFetch
<1>1. IInv /\ [Next]_vars => [Promised!Next]_(Promised!vars)
  <2> SUFFICES ASSUME IInv, [Next]_vars PROVE [Promised!Next]_(Promised!vars)
    OBVIOUS
  <2>1. CASE UNCHANGED vars
    BY <2>1, FetchStutters DEF vars
  <2> QED  BY <2>1, FetchWaits, FetchReads, FetchEnds DEF Next
<1> QED  BY <1>1, FetchInit, ClientInvariant, PTL DEF Spec, ImplementsFetch, Promised!Spec
================================================================================
