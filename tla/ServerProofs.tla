----------------------------- MODULE ServerProofs -----------------------------
(***************************************************************************)
(* Theorems about the server, for every set of workers and any number of   *)
(* signals.                                                                *)
(***************************************************************************)
EXTENDS Server, TLAPS

(***************************************************************************)
(* The inductive invariant has a part for the server's flags and waits,    *)
(* and a part WorkerOK for each worker: only a stop cancels, so a worker   *)
(* whose wait was cancelled, or that exited, belongs to a stopped server;  *)
(* the parser is in the stage the worker's next call expects; and a        *)
(* response begun after the shutdown is the last of its connection.        *)
(***************************************************************************)
Flags ==
    /\ is_stopped => is_shutting_down
    /\ ~is_shutting_down => timer = "none" /\ sig # "none"
    /\ sig = "aborted" \/ timer = "aborted" => is_stopped
    /\ ShutdownTimed

WorkerOK(k) ==
    /\ k.op = "none" <=> k.io = "none"
    /\ k.op = "none" \/ k.io = "aborted" => is_stopped
    /\ k.op = "accept" => k.parser = "reset"
    /\ k.op = "write" => k.parser = "complete"
    /\ k.op \in {"accept", "read_header", "read_body"} => k.late = 0
    /\ k.late <= 1
    /\ k.late > 0 => is_shutting_down /\ ~k.res.keep_alive

IInv ==
    /\ TypeOK /\ Flags /\ NeverThrows /\ NothingRearmed
    /\ \A w \in Workers : WorkerOK(wk[w])

\* The initial states satisfy the inductive invariant.
LEMMA IInvInit == Init => IInv
<1> SUFFICES ASSUME Init PROVE IInv
  OBVIOUS
<1>1. NewWorker \in Worker /\ WorkerOK(NewWorker)
      /\ NewWorker.op # "none" /\ NewWorker.io # "none"
  <2>1. NewWorker.res \in Responses
    BY DEF NewWorker, Responses
  <2> QED
    BY <2>1 DEF NewWorker, Worker, WorkerOK, Waits
<1>2. /\ wk \in [Workers -> Worker]
      /\ \A w \in Workers : wk[w] = NewWorker
  BY <1>1 DEF Init
<1>3. TypeOK
  <2>1. is_shutting_down \in BOOLEAN /\ is_stopped \in BOOLEAN /\ raced \in BOOLEAN
    BY DEF Init
  <2>2. running \in {"running", "returned", "threw", "undefined"} /\ sig \in Waits /\ timer \in Waits
    BY DEF Init, Waits
  <2>3. pending \in Nat /\ signals \in Nat /\ pending <= signals
    BY DEF Init
  <2>4. \A w \in Workers : wk[w].op = "none" <=> wk[w].io = "none"
    BY <1>1, <1>2
  <2> QED
    BY <1>2, <2>1, <2>2, <2>3, <2>4 DEF TypeOK
<1>4. Flags /\ NeverThrows /\ NothingRearmed
  BY DEF Init, Flags, ShutdownTimed, NeverThrows, NothingRearmed
<1> QED
  BY <1>1, <1>2, <1>3, <1>4 DEF IInv

\* The server's flags and waits move, the workers stay
LEMMA ServerStep ==
    ASSUME IInv, TypeOK', Flags', NothingRearmed',
           UNCHANGED <<running, wk>>,
           is_shutting_down => is_shutting_down', is_stopped => is_stopped'
    PROVE  IInv'
BY DEF IInv, NeverThrows, WorkerOK

\* One worker moves, the server stays
LEMMA BecomesStep ==
    ASSUME IInv, NEW w \in Workers, NEW k \in Worker, WorkerOK(k), Becomes(w, k)
    PROVE  IInv'
<1>1. /\ wk' = [wk EXCEPT ![w] = k]
      /\ UNCHANGED <<running, is_shutting_down, is_stopped, sig, pending, signals, timer, raced>>
  BY DEF Becomes, serverVars
<1>2. wk' \in [Workers -> Worker]
  BY <1>1 DEF IInv, TypeOK
<1>3. \A v \in Workers : wk'[v] = IF v = w THEN k ELSE wk[v]
  BY <1>1 DEF IInv, TypeOK
<1>4. \A v \in Workers : WorkerOK(wk'[v])
  BY <1>3 DEF IInv
<1>5. \A v \in Workers : WorkerOK(wk[v])'
  BY <1>1, <1>4 DEF WorkerOK
<1>6. TypeOK'
  BY <1>1, <1>2, <1>5 DEF IInv, TypeOK, WorkerOK
<1> QED
  BY <1>1, <1>5, <1>6 DEF IInv, Flags, ShutdownTimed, NeverThrows, NothingRearmed

\* The parts of the type invariant that concern one worker.
LEMMA WorkerFacts ==
    ASSUME IInv, NEW w \in Workers
    PROVE  /\ wk[w] \in Worker /\ WorkerOK(wk[w])
           /\ wk[w].res \in Responses /\ wk[w].late \in Nat
           /\ wk[w].io \in Waits \cup {"error", "posted"}
           /\ wk[w].parser \in {"reset", "header", "body", "complete", "failed"}
BY DEF IInv, TypeOK, Worker

--------------------------------------------------------------------------------
(* Signals, the timer and stop(). *)

\* A signal arriving, or the timer expiring, keeps the inductive invariant.
LEMMA RaiseStep ==
    ASSUME IInv, RaiseSignal \/ TimerExpires
    PROVE  IInv'
<1>1. UNCHANGED <<running, is_shutting_down, is_stopped, wk, raced>>
  BY DEF RaiseSignal, TimerExpires
<1>2. TypeOK'
  BY <1>1 DEF IInv, TypeOK, RaiseSignal, TimerExpires, Waits
<1>3. Flags' /\ NothingRearmed'
  BY <1>1 DEF IInv, Flags, ShutdownTimed, NothingRearmed, RaiseSignal, TimerExpires
<1> QED
  BY <1>1, <1>2, <1>3, ServerStep

\* What stopping the services does to the workers and their pending operations.
LEMMA ServiceStopFacts ==
    ASSUME IInv, ServiceStop, is_stopped', is_shutting_down' = is_shutting_down
    PROVE  /\ wk' \in [Workers -> Worker]
           /\ \A w \in Workers : WorkerOK(wk[w])'
<1> DEFINE Stopped(w) == SocketCancelled(AcceptCancelled(wk[w]))
<1>1. ASSUME NEW w \in Workers
      PROVE  /\ Stopped(w) \in Worker
             /\ Stopped(w) = [wk[w] EXCEPT !.io = Cancelled(wk[w].io)]
  <2>1. /\ wk[w] \in Worker
        /\ Cancelled(wk[w].io) \in Waits \cup {"error", "posted"}
    BY WorkerFacts DEF Cancelled, Waits
  <2>2. [wk[w] EXCEPT !.io = Cancelled(wk[w].io)] \in Worker
    BY <2>1 DEF Worker
  <2>3. [wk[w] EXCEPT !.io = Cancelled(wk[w].io)].op = wk[w].op
    BY <2>1 DEF Worker
  <2>4. Stopped(w) = [wk[w] EXCEPT !.io = Cancelled(wk[w].io)]
    BY <2>3 DEF SocketCancelled, AcceptCancelled
  <2> QED
    BY <2>2, <2>4
<1>2. wk' = [w \in Workers |-> Stopped(w)]
  BY DEF ServiceStop
<1>3. wk' \in [Workers -> Worker]
  BY <1>1, <1>2
<1>4. ASSUME NEW w \in Workers PROVE WorkerOK(wk[w])'
  <2>1. wk'[w] = [wk[w] EXCEPT !.io = Cancelled(wk[w].io)]
    BY <1>1, <1>2
  <2>2. /\ wk'[w].op = wk[w].op /\ wk'[w].parser = wk[w].parser
        /\ wk'[w].res = wk[w].res /\ wk'[w].late = wk[w].late
        /\ wk'[w].io = Cancelled(wk[w].io)
    BY <2>1, WorkerFacts DEF Worker
  <2> QED
    BY <2>2, WorkerFacts DEF WorkerOK, Cancelled
<1> QED
  BY <1>3, <1>4

\* stop() keeps the inductive invariant.
LEMMA StopStep ==
    ASSUME IInv, is_shutting_down,
           NEW s \in Waits, NEW t \in Waits,
           is_stopped => s # "waiting" /\ t # "waiting",
           s = "aborted" \/ t = "aborted" => is_stopped,
           Stop(s, t), UNCHANGED <<running, is_shutting_down, pending, signals>>
    PROVE  IInv'
<1>1. CASE is_stopped
  <2>1. sig' = s /\ timer' = t /\ UNCHANGED <<is_stopped, wk, raced>>
    BY <1>1 DEF Stop
  <2>2. TypeOK' /\ Flags' /\ NothingRearmed'
    BY <1>1, <2>1 DEF IInv, TypeOK, Flags, ShutdownTimed, NothingRearmed
  <2> QED
    BY <2>1, <2>2, ServerStep
<1>2. CASE ~is_stopped
  <2>1. /\ is_stopped' = TRUE /\ sig' = Cancelled(s) /\ timer' = Cancelled(t)
        /\ ServiceStop /\ raced' \in BOOLEAN
    BY <1>2 DEF Stop
  <2>2. /\ wk' \in [Workers -> Worker]
        /\ \A w \in Workers : WorkerOK(wk[w])'
    BY <2>1, ServiceStopFacts
  <2>3. sig' \in Waits /\ timer' \in Waits /\ sig' # "waiting" /\ timer' # "waiting"
    BY <2>1 DEF Cancelled, Waits
  <2>4. TypeOK'
    BY <2>1, <2>2, <2>3 DEF IInv, TypeOK, WorkerOK
  <2>5. Flags' /\ NothingRearmed' /\ NeverThrows'
    BY <2>1, <2>3 DEF IInv, Flags, ShutdownTimed, NothingRearmed, NeverThrows
  <2> QED
    BY <2>2, <2>4, <2>5 DEF IInv
<1> QED
  BY <1>1, <1>2

\* The signal handler keeps the inductive invariant.
LEMMA OnSignalStep ==
    ASSUME IInv, OnSignal
    PROVE  IInv'
<1>1. sig \in {"ok", "aborted"} /\ UNCHANGED <<running, signals>>
  BY DEF OnSignal
<1>2. CASE is_shutting_down
  <2>1. Stop("none", timer) /\ UNCHANGED <<is_shutting_down, pending>>
    BY <1>2 DEF OnSignal
  <2>2. /\ timer \in Waits /\ "none" \in Waits
        /\ is_stopped => timer # "waiting"
        /\ timer = "aborted" => is_stopped
    BY DEF IInv, TypeOK, Flags, ShutdownTimed, NothingRearmed, Waits
  <2> QED
    BY <1>1, <1>2, <2>1, <2>2, StopStep
<1>3. CASE ~is_shutting_down
  <2>1. BeginShutdown
    BY <1>3 DEF OnSignal
  <2>2. ~is_stopped
    BY <1>3 DEF IInv, Flags, ShutdownTimed
  <2>3. /\ is_shutting_down' = TRUE /\ timer' = "waiting"
        /\ UNCHANGED <<is_stopped, wk, raced>>
        /\ sig' \in {"ok", "waiting"}
        /\ pending' \in Nat /\ pending' <= pending
    BY <2>1 DEF BeginShutdown, WaitForSignal, IInv, TypeOK
  <2>4. TypeOK'
    BY <1>1, <2>3 DEF IInv, TypeOK, Waits
  <2>5. Flags' /\ NothingRearmed'
    BY <2>2, <2>3 DEF Flags, ShutdownTimed, NothingRearmed
  <2> QED
    BY <1>1, <2>3, <2>4, <2>5, ServerStep
<1> QED
  BY <1>2, <1>3

\* The handler of the stop timer keeps the inductive invariant.
LEMMA OnTimerStep ==
    ASSUME IInv, OnTimer
    PROVE  IInv'
<1>1. timer \in {"ok", "aborted"} /\ UNCHANGED <<running, is_shutting_down, pending, signals>>
  BY DEF OnTimer
<1>2. is_shutting_down
  BY <1>1 DEF IInv, Flags, ShutdownTimed
<1>3. CASE timer = "ok"
  <2>1. Stop(sig, "none")
    BY <1>3 DEF OnTimer
  <2>2. /\ sig \in Waits /\ "none" \in Waits
        /\ is_stopped => sig # "waiting"
        /\ sig = "aborted" => is_stopped
    BY DEF IInv, TypeOK, Flags, ShutdownTimed, NothingRearmed, Waits
  <2> QED
    BY <1>1, <1>2, <2>1, <2>2, StopStep
<1>4. CASE timer # "ok"
  <2>1. timer' = "none" /\ UNCHANGED <<sig, is_stopped, wk, raced>>
    BY <1>4 DEF OnTimer
  <2>2. TypeOK' /\ Flags' /\ NothingRearmed'
    BY <1>1, <1>2, <1>4, <2>1 DEF IInv, TypeOK, Flags, ShutdownTimed, NothingRearmed, Waits
  <2> QED
    BY <1>1, <2>1, <2>2, ServerStep
<1> QED
  BY <1>3, <1>4

--------------------------------------------------------------------------------
(* The workers. *)

\* What is known of a worker whose handler the execution context is running.
LEMMA DoingFacts ==
    ASSUME NEW k \in Worker, NEW op \in {"none", "accept", "read_header", "read_body", "write"},
           NEW io \in Waits \cup {"error", "posted"},
           NEW stage \in {"reset", "header", "body", "complete", "failed"}
    PROVE  /\ Doing(k, op, io, stage) \in Worker
           /\ Doing(k, op, io, stage).op = op
           /\ Doing(k, op, io, stage).io = io
           /\ Doing(k, op, io, stage).parser = stage
           /\ Doing(k, op, io, stage).res = k.res
           /\ Doing(k, op, io, stage).late = k.late
BY DEF Doing, Worker

\* A worker going back to accepting keeps the inductive invariant.
LEMMA DoAcceptStep ==
    ASSUME IInv, NEW w \in Workers, NEW k, k.res \in Responses, DoAccept(w, k)
    PROVE  IInv'
<1> DEFINE n == [op |-> "accept", io |-> "waiting", parser |-> "reset",
                 res |-> k.res, late |-> 0]
<1>1. n \in Worker
  BY DEF Worker, Waits
<1>2. WorkerOK(n)
  BY DEF WorkerOK
<1>3. Becomes(w, n)
  BY DEF DoAccept
<1> HIDE DEF n
<1> QED
  BY <1>1, <1>2, <1>3, BecomesStep

\* A worker whose operation failed (it exits when aborted, else accepts) keeps the invariant.
LEMMA FailStep ==
    ASSUME IInv, NEW w \in Workers, NEW k, k.res \in Responses, Fail(w, k)
    PROVE  IInv'
<1>1. CASE wk[w].io = "aborted"
  <2> DEFINE n == Doing(wk[w], "none", "none", wk[w].parser)
  <2>1. /\ n \in Worker /\ n.op = "none" /\ n.io = "none"
        /\ n.res = wk[w].res /\ n.late = wk[w].late
    <3>1. "none" \in Waits \cup {"error", "posted"}
      BY DEF Waits
    <3>2. /\ wk[w] \in Worker
          /\ wk[w].parser \in {"reset", "header", "body", "complete", "failed"}
      BY WorkerFacts
    <3> QED
      BY <3>1, <3>2 DEF Doing, Worker
  <2>2. Becomes(w, n)
    BY <1>1 DEF Fail, Exit
  <2> HIDE DEF n
  <2>3. WorkerOK(n)
    BY <1>1, <2>1, WorkerFacts DEF WorkerOK
  <2> QED
    BY <2>1, <2>2, <2>3, BecomesStep
<1>2. CASE wk[w].io # "aborted"
  BY <1>2, DoAcceptStep DEF Fail
<1> QED
  BY <1>1, <1>2

\* A worker starting to read a request keeps the inductive invariant.
LEMMA DoReadStep ==
    ASSUME IInv, NEW w \in Workers, wk[w].parser \in {"reset", "complete"},
           wk[w].late = 0, DoRead(w, wk[w])
    PROVE  IInv'
<1> DEFINE n == Doing(wk[w], "read_header", "waiting", "header")
<1>1. /\ n \in Worker /\ n.op = "read_header" /\ n.io = "waiting" /\ n.late = 0
  BY WorkerFacts, DoingFacts DEF Waits
<1>2. Becomes(w, n)
  BY DEF DoRead
<1> HIDE DEF n
<1>3. WorkerOK(n)
  BY <1>1 DEF WorkerOK
<1> QED
  BY <1>1, <1>2, <1>3, BecomesStep

\* The initiation of the read itself keeps the inductive invariant.
LEMMA AsyncReadStep ==
    ASSUME IInv, NEW w \in Workers, NEW k \in Worker, k.parser \in {"body", "complete"},
           k.late = 0, AsyncRead(w, k)
    PROVE  IInv'
<1>1. PICK io \in {"waiting", "posted"}, stage \in {"body", "complete"} :
         Becomes(w, Doing(k, "read_body", io, stage))
  BY DEF AsyncRead
<1> DEFINE n == Doing(k, "read_body", io, stage)
<1>2. /\ n \in Worker /\ n.op = "read_body" /\ n.io = io /\ n.late = 0
  BY DoingFacts DEF Waits
<1>3. Becomes(w, n)
  BY <1>1
<1> HIDE DEF n
<1>4. WorkerOK(n)
  BY <1>2 DEF WorkerOK
<1> QED
  BY <1>2, <1>3, <1>4, BecomesStep

\* A worker answering a request keeps the inductive invariant.
LEMMA RespondStep ==
    ASSUME IInv, NEW w \in Workers, NEW k, k.parser = "complete", k.late = 0, Respond(w, k)
    PROVE  IInv'
<1>1. PICK res \in (IF is_shutting_down THEN ServiceUnavailable ELSE HandleRequest),
           io \in {"waiting", "error"} :
         Becomes(w, [op |-> "write", io |-> io, parser |-> k.parser, res |-> res,
                     late |-> IF is_shutting_down THEN k.late + 1 ELSE k.late])
  BY DEF Respond
<1> DEFINE n == [op |-> "write", io |-> io, parser |-> k.parser, res |-> res,
                 late |-> IF is_shutting_down THEN k.late + 1 ELSE k.late]
<1>2. res \in Responses /\ (is_shutting_down => ~res.keep_alive)
  <2>1. CASE is_shutting_down
    <3>1. res = [status |-> "unavailable", keep_alive |-> FALSE]
      BY <2>1 DEF ServiceUnavailable
    <3> QED
      BY <3>1 DEF Responses
  <2>2. CASE ~is_shutting_down
    <3>1. res \in HandleRequest
      BY <2>2
    <3>2. PICK keep \in BOOLEAN : res = [status |-> "served", keep_alive |-> keep]
      BY <3>1 DEF HandleRequest
    <3> QED
      BY <2>2, <3>2 DEF Responses
  <2> QED
    BY <2>1, <2>2
<1>3. n \in Worker
  BY <1>2 DEF Worker, Waits
<1>4. WorkerOK(n)
  BY <1>2 DEF WorkerOK
<1>5. Becomes(w, n)
  BY <1>1
<1> HIDE DEF n
<1> QED
  BY <1>3, <1>4, <1>5, BecomesStep

\* An error page that is undefined leaves all else as it was.
LEMMA UnparsedStep ==
    ASSUME IInv, HostUnparsed
    PROVE  IInv'
BY DEF HostUnparsed, serverVars, IInv, TypeOK, Flags, ShutdownTimed, NeverThrows,
       NothingRearmed, WorkerOK

\* A pending accept, read or write ending keeps the inductive invariant.
LEMMA WaitEndsStep ==
    ASSUME IInv, NEW w \in Workers, Environment(w)
    PROVE  IInv'
<1>1. PICK how \in {"ok", "error"} : WaitEnds(w, how)
  BY DEF Environment, ClientConnects, AcceptFails, PeerActs, PeerBreaks
<1> DEFINE n == [wk[w] EXCEPT !.io = how]
<1>2. wk[w].io = "waiting" /\ wk' = [wk EXCEPT ![w].io = how]
      /\ UNCHANGED <<running, serverVars>>
  BY <1>1 DEF WaitEnds
<1>3. /\ n \in Worker /\ n.op = wk[w].op /\ n.io = how /\ n.parser = wk[w].parser
      /\ n.res = wk[w].res /\ n.late = wk[w].late
  BY WorkerFacts DEF Worker, Waits
<1>4. Becomes(w, n)
  BY <1>2 DEF Becomes
<1> HIDE DEF n
<1>5. WorkerOK(n)
  BY <1>2, <1>3, WorkerFacts DEF WorkerOK
<1> QED
  BY <1>3, <1>4, <1>5, BecomesStep

\* A composed operation starting its next transfer keeps the inductive invariant.
LEMMA GoesOnStep ==
    ASSUME IInv, NEW w \in Workers, OperationGoesOn(w)
    PROVE  IInv'
<1>1. PICK io \in {"waiting", "error"} : Becomes(w, [wk[w] EXCEPT !.io = io])
  BY DEF OperationGoesOn
<1>2. wk[w].op # "none"
  BY DEF OperationGoesOn
<1> DEFINE n == [wk[w] EXCEPT !.io = io]
<1>3. /\ n \in Worker /\ n.op = wk[w].op /\ n.io = io /\ n.parser = wk[w].parser
      /\ n.res = wk[w].res /\ n.late = wk[w].late
  BY WorkerFacts DEF Worker, Waits
<1>4. Becomes(w, n)
  BY <1>1
<1> HIDE DEF n
<1>5. WorkerOK(n)
  BY <1>2, <1>3, WorkerFacts DEF WorkerOK
<1> QED
  BY <1>3, <1>4, <1>5, BecomesStep

\* Every handler of a worker keeps the inductive invariant.
LEMMA HandlerStep ==
    ASSUME IInv, NEW w \in Workers, Handler(w)
    PROVE  IInv'
<1> DEFINE at(stage) == [wk[w] EXCEPT !.parser = stage]
<1>1. ASSUME NEW stage \in {"body", "complete", "failed"}
      PROVE  /\ at(stage) \in Worker /\ at(stage).parser = stage
             /\ at(stage).res \in Responses /\ at(stage).late = wk[w].late
  BY WorkerFacts DEF Worker
<1>2. WorkerOK(wk[w]) /\ wk[w].res \in Responses
  BY WorkerFacts
<1>3. CASE OnAccept(w)
  <2>1. wk[w].parser = "reset" /\ wk[w].late = 0
    BY <1>2, <1>3 DEF OnAccept, Resumed, WorkerOK
  <2> QED
    BY <1>2, <1>3, <2>1, DoReadStep, FailStep DEF OnAccept
<1>4. CASE OnReadHeader(w)
  <2>1. wk[w].late = 0
    BY <1>2, <1>4 DEF OnReadHeader, Resumed, WorkerOK
  <2>2. \/ \E stage \in {"body", "complete"} : AsyncRead(w, at(stage))
        \/ Fail(w, at("failed"))
        \/ Fail(w, wk[w])
    BY <1>4 DEF OnReadHeader
  <2> HIDE DEF at
  <2> QED
    BY <1>1, <1>2, <2>1, <2>2, AsyncReadStep, FailStep
<1>5. CASE OnReadBody(w)
  <2>1. wk[w].late = 0
    BY <1>2, <1>5 DEF OnReadBody, Resumed, WorkerOK
  <2>2. \/ Respond(w, at("complete")) \/ HostUnparsed
        \/ Fail(w, at("failed")) \/ Fail(w, wk[w])
    BY <1>5 DEF OnReadBody
  <2> HIDE DEF at
  <2> QED
    BY <1>1, <1>2, <2>1, <2>2, RespondStep, UnparsedStep, FailStep
<1>6. CASE OnWrite(w)
  <2>1. wk[w].parser = "complete" /\ (wk[w].res.keep_alive => wk[w].late = 0)
    BY <1>2, <1>6, WorkerFacts DEF OnWrite, Resumed, WorkerOK
  <2> QED
    BY <1>2, <1>6, <2>1, DoReadStep, DoAcceptStep, FailStep DEF OnWrite
<1> QED
  BY <1>3, <1>4, <1>5, <1>6 DEF Handler

\* The return of run() keeps the inductive invariant.
LEMMA ReturnsStep ==
    ASSUME IInv, RunReturns
    PROVE  IInv'
BY DEF RunReturns, serverVars, IInv, TypeOK, Flags, ShutdownTimed, NeverThrows, NothingRearmed, WorkerOK

\* A stuttering step keeps the inductive invariant.
LEMMA StutterStep ==
    ASSUME IInv, UNCHANGED vars
    PROVE  IInv'
BY DEF vars, IInv, TypeOK, Flags, ShutdownTimed, NeverThrows, NothingRearmed, WorkerOK

--------------------------------------------------------------------------------
(***************************************************************************)
(* The server's flags, its waits and its workers stay consistent: IInv is  *)
(* an invariant of the server.                                             *)
(***************************************************************************)
THEOREM ServerInvariant == Spec => []IInv
<1>1. Init => IInv
  BY IInvInit
<1>2. IInv /\ [Next]_vars => IInv'
  BY RaiseStep, OnSignalStep, OnTimerStep, ReturnsStep, WaitEndsStep, GoesOnStep,
     HandlerStep, StutterStep DEF Next
<1> QED
  BY <1>1, <1>2, PTL DEF Spec

(***************************************************************************)
(* Every variable of the server keeps its type.                            *)
(***************************************************************************)
THEOREM ServerTypes == Spec => []TypeOK
<1>1. IInv => TypeOK
  BY DEF IInv
<1> QED
  BY <1>1, ServerInvariant, PTL

(***************************************************************************)
(* No worker stops serving before the server is stopped (main.cpp:424,     *)
(* 455, 474, 515: only operation_aborted ends it, and only stop() aborts). *)
(***************************************************************************)
THEOREM WorkersAreKept == Spec => []NoWorkerLost
<1>1. IInv => NoWorkerLost
  BY DEF IInv, NoWorkerLost, WorkerOK
<1> QED
  BY <1>1, ServerInvariant, PTL

(***************************************************************************)
(* The worker calls start() and async_read() only when the parser allows   *)
(* it (main.cpp:412, 439, 460).                                            *)
(***************************************************************************)
THEOREM HandlersNeverThrow == Spec => []NeverThrows
<1>1. IInv => NeverThrows
  BY DEF IInv
<1> QED
  BY <1>1, ServerInvariant, PTL

(***************************************************************************)
(* After the shutdown has begun a connection gets at most one response     *)
(* more (main.cpp:481-492, 326, 520).                                      *)
(***************************************************************************)
THEOREM ConnectionsDrain == Spec => []ShutdownDrains
<1>1. IInv => ShutdownDrains
  BY DEF IInv, ShutdownDrains, WorkerOK
<1> QED
  BY <1>1, ServerInvariant, PTL

(***************************************************************************)
(* The grace period runs from the first signal to the stop, and            *)
(* connections are cut off only by its end or by a second signal           *)
(* (server.cpp:73, 82, 98): on_signal need not look at its error code,     *)
(* because a cancelled wait always finds the server stopped.               *)
(***************************************************************************)
THEOREM GraceIsRespected == Spec => GraceRespected
<1> DEFINE Cut == is_stopped' # is_stopped => is_shutting_down /\ (timer = "ok" \/ sig = "ok")
<1>1. IInv /\ [Next]_vars => [Cut]_vars
  <2> SUFFICES ASSUME IInv, Next, is_stopped' # is_stopped
               PROVE  is_shutting_down /\ (timer = "ok" \/ sig = "ok")
    BY DEF vars
  <2>1. CASE OnSignal
    BY <2>1 DEF OnSignal, BeginShutdown, Stop, IInv, Flags, ShutdownTimed
  <2>2. CASE OnTimer
    BY <2>2 DEF OnTimer, IInv, Flags, ShutdownTimed
  <2>3. CASE RaiseSignal \/ TimerExpires \/ RunReturns
    BY <2>3 DEF RaiseSignal, TimerExpires, RunReturns, serverVars
  <2>4. ASSUME NEW w \in Workers, Environment(w) \/ OperationGoesOn(w) \/ Handler(w)
        PROVE  FALSE
    <3>1. UNCHANGED is_stopped
      BY <2>4 DEF Environment, ClientConnects, AcceptFails, PeerActs, PeerBreaks, WaitEnds,
                  OperationGoesOn, Handler, OnAccept, OnReadHeader, OnReadBody, OnWrite,
                  Fail, Exit, DoAccept, DoRead, AsyncRead, Respond, Becomes, Throws,
                  HostUnparsed, serverVars
    <3> QED
      BY <3>1
  <2> QED
    BY <2>1, <2>2, <2>3, <2>4 DEF Next
<1>2. IInv => ShutdownTimed
  BY DEF IInv, Flags
<1> QED
  BY <1>1, <1>2, ServerInvariant, PTL DEF Spec, GraceRespected

(***************************************************************************)
(* What one step of a worker may be.  A cancelled worker exits, and any    *)
(* other goes on with an operation that is not cancelled, or builds an     *)
(* error page that is undefined.                                           *)
(***************************************************************************)
GoesOnAs(w, k) ==
    /\ Becomes(w, k)
    /\ wk[w].io \notin {"none", "aborted"}
    /\ k.op # "none" /\ k.io # "aborted"
    /\ \/ k.late = wk[w].late \/ k.late = 0
       \/ is_shutting_down /\ wk[w].late = 0 /\ k.late = 1

LeavesUndefined(w) == HostUnparsed /\ wk[w].io \notin {"none", "aborted"}

LEMMA WorkerMoves ==
    ASSUME IInv, NEW w \in Workers, Environment(w) \/ OperationGoesOn(w) \/ Handler(w)
    PROVE  \/ wk[w].io = "aborted" /\ Exit(w)
           \/ \E k : GoesOnAs(w, k)
           \/ LeavesUndefined(w)
<1>1. wk[w] \in Worker /\ WorkerOK(wk[w])
  BY WorkerFacts
<1>2. ASSUME NEW io \in {"ok", "error", "waiting"}
      PROVE  LET k == [wk[w] EXCEPT !.io = io]
             IN  k.io = io /\ k.op = wk[w].op /\ k.late = wk[w].late
  BY <1>1 DEF Worker
<1>3. CASE Environment(w)
  <2>1. PICK how \in {"ok", "error"} : WaitEnds(w, how)
    BY <1>3 DEF Environment, ClientConnects, AcceptFails, PeerActs, PeerBreaks
  <2> DEFINE k == [wk[w] EXCEPT !.io = how]
  <2>2. wk[w].io = "waiting" /\ Becomes(w, k)
    BY <2>1 DEF WaitEnds, Becomes
  <2>3. k.io = how /\ k.op = wk[w].op /\ k.late = wk[w].late
    BY <1>2
  <2> HIDE DEF k
  <2>4. GoesOnAs(w, k)
    BY <1>1, <2>2, <2>3 DEF GoesOnAs, WorkerOK
  <2> QED
    BY <2>4
<1>4. CASE OperationGoesOn(w)
  <2>1. PICK io \in {"waiting", "error"} : Becomes(w, [wk[w] EXCEPT !.io = io])
    BY <1>4 DEF OperationGoesOn
  <2> DEFINE k == [wk[w] EXCEPT !.io = io]
  <2>2. wk[w].io = "ok" /\ wk[w].op # "none" /\ Becomes(w, k)
    BY <1>4, <2>1 DEF OperationGoesOn
  <2>3. k.io = io /\ k.op = wk[w].op /\ k.late = wk[w].late
    BY <1>2
  <2> HIDE DEF k
  <2>4. GoesOnAs(w, k)
    BY <2>2, <2>3 DEF GoesOnAs
  <2> QED
    BY <2>4
<1>5. CASE Handler(w)
  <2> DEFINE at(stage) == [wk[w] EXCEPT !.parser = stage]
             Moves == \/ wk[w].io = "aborted" /\ Exit(w)
                      \/ \E k : GoesOnAs(w, k)
                      \/ LeavesUndefined(w)
  <2> SUFFICES Moves
    OBVIOUS
  <2>1. wk[w].io \notin {"none", "waiting"}
    BY <1>5 DEF Handler, OnAccept, OnReadHeader, OnReadBody, OnWrite, Resumed
  <2>2. ASSUME NEW stage \in {"body", "complete", "failed"}
        PROVE  at(stage).parser = stage /\ at(stage).late = wk[w].late
    BY <1>1 DEF Worker
  <2>3. ASSUME NEW k, NEW op \in {"read_header", "read_body"}, NEW io \in {"waiting", "posted"},
               NEW stage, Becomes(w, Doing(k, op, io, stage)),
               k.late = wk[w].late, wk[w].io # "aborted"
        PROVE  Moves
    <3> DEFINE n == Doing(k, op, io, stage)
    <3>1. n.op = op /\ n.io = io /\ n.late = wk[w].late /\ Becomes(w, n)
      BY <2>3 DEF Doing
    <3> HIDE DEF n
    <3>2. GoesOnAs(w, n)
      BY <2>1, <2>3, <3>1 DEF GoesOnAs
    <3> QED
      BY <3>2
  <2>4. ASSUME NEW k, DoAccept(w, k), wk[w].io # "aborted"
        PROVE  Moves
    <3> DEFINE n == [op |-> "accept", io |-> "waiting", parser |-> "reset",
                     res |-> k.res, late |-> 0]
    <3>1. n.op = "accept" /\ n.io = "waiting" /\ n.late = 0 /\ Becomes(w, n)
      BY <2>4 DEF DoAccept
    <3> HIDE DEF n
    <3>2. GoesOnAs(w, n)
      BY <2>1, <2>4, <3>1 DEF GoesOnAs
    <3> QED
      BY <3>2
  <2>5. ASSUME NEW k, Fail(w, k)
        PROVE  Moves
    BY <2>4, <2>5 DEF Fail
  <2>6. ASSUME DoRead(w, wk[w]), wk[w].parser \in {"reset", "complete"}, wk[w].io # "aborted"
        PROVE  Moves
    BY <2>3, <2>6 DEF DoRead
  <2>7. ASSUME NEW k, AsyncRead(w, k), k.parser \in {"body", "complete"},
               k.late = wk[w].late, wk[w].io # "aborted"
        PROVE  Moves
    BY <2>3, <2>7 DEF AsyncRead
  <2>8. ASSUME NEW k, Respond(w, k), k.late = 0, wk[w].late = 0, wk[w].io # "aborted"
        PROVE  Moves
    <3>1. PICK res \in (IF is_shutting_down THEN ServiceUnavailable ELSE HandleRequest),
               io \in {"waiting", "error"} :
             Becomes(w, [op |-> "write", io |-> io, parser |-> k.parser, res |-> res,
                         late |-> IF is_shutting_down THEN k.late + 1 ELSE k.late])
      BY <2>8 DEF Respond
    <3> DEFINE n == [op |-> "write", io |-> io, parser |-> k.parser, res |-> res,
                     late |-> IF is_shutting_down THEN k.late + 1 ELSE k.late]
    <3>2. /\ n.op = "write" /\ n.io = io /\ Becomes(w, n)
          /\ n.late = IF is_shutting_down THEN 1 ELSE 0
      BY <2>8, <3>1
    <3> HIDE DEF n
    <3>3. GoesOnAs(w, n)
      BY <2>1, <2>8, <3>2 DEF GoesOnAs
    <3> QED
      BY <3>3
  <2> HIDE DEF Moves
  <2>9. CASE OnAccept(w)
    <3>1. wk[w].parser = "reset"
      BY <1>1, <2>9 DEF OnAccept, Resumed, WorkerOK
    <3> QED
      BY <2>5, <2>6, <2>9, <3>1 DEF OnAccept
  <2>10. CASE OnReadHeader(w)
    <3>1. \/ wk[w].io = "ok" /\ \E stage \in {"body", "complete"} : AsyncRead(w, at(stage))
          \/ Fail(w, at("failed"))
          \/ Fail(w, wk[w])
      BY <2>10 DEF OnReadHeader
    <3> HIDE DEF at
    <3> QED
      BY <2>2, <2>5, <2>7, <3>1
  <2>11. CASE OnReadBody(w)
    <3>1. \/ wk[w].io \in {"ok", "posted"} /\ Respond(w, at("complete"))
          \/ LeavesUndefined(w)
          \/ Fail(w, at("failed"))
          \/ Fail(w, wk[w])
      BY <2>11 DEF OnReadBody, LeavesUndefined
    <3>2. wk[w].late = 0
      BY <1>1, <2>11 DEF OnReadBody, Resumed, WorkerOK
    <3> HIDE DEF at
    <3> QED
      BY <2>2, <2>5, <2>8, <3>1, <3>2 DEF Moves
  <2>12. CASE OnWrite(w)
    <3>1. wk[w].parser = "complete"
      BY <1>1, <2>12 DEF OnWrite, Resumed, WorkerOK
    <3> QED
      BY <2>4, <2>5, <2>6, <2>12, <3>1 DEF OnWrite
  <2> QED
    BY <1>5, <2>9, <2>10, <2>11, <2>12 DEF Handler
<1> QED
  BY <1>3, <1>4, <1>5

\* What the workers are after such a step
LEMMA WorkersAfter ==
    ASSUME IInv, NEW w \in Workers, NEW k, Becomes(w, k)
    PROVE  /\ \A v \in Workers : wk'[v] = IF v = w THEN k ELSE wk[v]
           /\ UNCHANGED <<running, is_shutting_down, is_stopped, raced>>
BY DEF IInv, TypeOK, Becomes, serverVars

LEMMA ExitsAs ==
    ASSUME NEW w \in Workers, Exit(w)
    PROVE  \E k : Becomes(w, k) /\ k.op = "none" /\ k.io = "none" /\ k.late = wk[w].late
<1> DEFINE k == Doing(wk[w], "none", "none", wk[w].parser)
<1>1. k.op = "none" /\ k.io = "none" /\ k.late = wk[w].late /\ Becomes(w, k)
  BY DEF Doing, Exit
<1> HIDE DEF k
<1> QED
  BY <1>1

--------------------------------------------------------------------------------
(* What a clean stop leaves behind. *)

\* The stop itself: what waits is cancelled, and with nothing queued that is all there is
LEMMA StopIsCleanNow ==
    ASSUME IInv, ServiceStop, raced' = \E w \in Workers : wk[w].io \in {"ok", "error", "posted"},
           ~raced'
    PROVE  \A w \in Workers : wk'[w].io \in {"none", "aborted"}
<1> SUFFICES ASSUME NEW w \in Workers PROVE wk'[w].io \in {"none", "aborted"}
  OBVIOUS
<1>1. wk[w] \in Worker /\ wk[w].io \in {"none", "waiting", "aborted"}
  BY WorkerFacts DEF Waits
<1>2. wk'[w] = SocketCancelled(AcceptCancelled(wk[w]))
  BY DEF ServiceStop
<1> DEFINE c == [wk[w] EXCEPT !.io = Cancelled(wk[w].io)]
<1>3. c.op = wk[w].op /\ c.io = Cancelled(wk[w].io)
  BY <1>1 DEF Worker
<1>4. wk'[w] = c
  BY <1>2, <1>3 DEF SocketCancelled, AcceptCancelled
<1> HIDE DEF c
<1> QED
  BY <1>1, <1>3, <1>4 DEF Cancelled

LEMMA StopKeepsClean ==
    ASSUME IInv, WorkersCancelled, NEW s, NEW t, Stop(s, t)
    PROVE  WorkersCancelled'
<1>1. CASE is_stopped
  BY <1>1 DEF Stop, WorkersCancelled
<1>2. CASE ~is_stopped
  BY <1>2, StopIsCleanNow DEF Stop, WorkersCancelled
<1> QED
  BY <1>1, <1>2

LEMMA WorkerKeepsClean ==
    ASSUME IInv, WorkersCancelled, NEW w \in Workers,
           Environment(w) \/ OperationGoesOn(w) \/ Handler(w)
    PROVE  WorkersCancelled'
<1>1. CASE Exit(w)
  <2>1. PICK k : Becomes(w, k) /\ k.io = "none"
    BY <1>1, ExitsAs
  <2> QED
    BY <2>1, WorkersAfter DEF WorkersCancelled
<1>2. CASE \E k : GoesOnAs(w, k)
  <2>1. PICK k : GoesOnAs(w, k)
    BY <1>2
  <2>2. ~(is_stopped /\ ~raced)
    BY <2>1 DEF GoesOnAs, WorkersCancelled
  <2> QED
    BY <2>1, <2>2, WorkersAfter DEF GoesOnAs, WorkersCancelled
<1>3. CASE LeavesUndefined(w)
  BY <1>3 DEF LeavesUndefined, HostUnparsed, serverVars, WorkersCancelled
<1> QED
  BY <1>1, <1>2, <1>3, WorkerMoves

(***************************************************************************)
(* server.cpp:62, main.cpp:424: a stop that finds no completion queued is  *)
(* the end of every worker.  Nothing is left then that would have to end   *)
(* by itself, and ioc_.run() has only handlers to run.                     *)
(***************************************************************************)
THEOREM StopEndsWorkers == Spec => []StopIsClean
<1>1. Init => WorkersCancelled
  BY DEF Init, WorkersCancelled
<1>2. IInv /\ WorkersCancelled /\ [Next]_vars => WorkersCancelled'
  <2> SUFFICES ASSUME IInv, WorkersCancelled, [Next]_vars PROVE WorkersCancelled'
    OBVIOUS
  <2>1. CASE UNCHANGED vars \/ RaiseSignal \/ TimerExpires \/ RunReturns
    BY <2>1 DEF vars, serverVars, RaiseSignal, TimerExpires, RunReturns, WorkersCancelled
  <2>2. CASE OnSignal
    BY <2>2, StopKeepsClean DEF OnSignal, BeginShutdown, WorkersCancelled
  <2>3. CASE OnTimer
    BY <2>3, StopKeepsClean DEF OnTimer, WorkersCancelled
  <2> QED
    BY <2>1, <2>2, <2>3, WorkerKeepsClean DEF Next
<1>3. IInv /\ WorkersCancelled => StopIsClean
  BY DEF IInv, StopIsClean
<1> QED
  BY <1>1, <1>2, <1>3, ServerInvariant, PTL DEF Spec

--------------------------------------------------------------------------------
(***************************************************************************)
(* The refinement of Service.                                              *)
(***************************************************************************)
Staff == {w \in Workers : wk[w].op # "none"}
Cut == {w \in Workers : wk[w].io = "aborted"}
Late == [w \in Workers |-> wk[w].late]

LEMMA ServiceVars ==
    Promised!vars = <<Phase, Staff, Cut, Late>>
  BY DEF Promised!vars, Staff, Cut, Late

LEMMA ServiceInit == Init => Promised!Init
<1> SUFFICES ASSUME Init PROVE Promised!Init
  OBVIOUS
<1>1. \A w \in Workers : wk[w].op = "accept" /\ wk[w].io = "waiting" /\ wk[w].late = 0
  BY DEF Init, NewWorker
<1>2. Staff = Workers /\ Cut = {} /\ Late = [w \in Workers |-> 0]
  BY <1>1 DEF Staff, Cut, Late
<1>3. Phase = "serving"
  BY DEF Init, Phase
<1> QED
  BY <1>2, <1>3 DEF Promised!Init, Staff, Cut, Late

\* The phase in terms of the flags
LEMMA PhaseFacts ==
    ASSUME IInv
    PROVE  /\ Phase = "serving" <=> running = "running" /\ ~is_shutting_down
           /\ Phase = "draining" <=> running = "running" /\ is_shutting_down /\ ~is_stopped
           /\ Phase = "stopped" <=> running = "running" /\ is_stopped
BY DEF IInv, TypeOK, Flags, Phase

\* Only a stopped server has cancelled workers
LEMMA CutWhenStopped == ASSUME IInv, ~is_stopped PROVE Cut = {}
BY DEF IInv, WorkerOK, Cut

LEMMA ServiceStutters ==
    ASSUME UNCHANGED <<running, is_shutting_down, is_stopped, wk>>
    PROVE  UNCHANGED Promised!vars
BY DEF Promised!vars, Phase

LEMMA ServiceStops ==
    ASSUME IInv, running = "running", is_shutting_down, NEW s, NEW t, Stop(s, t),
           UNCHANGED <<running, is_shutting_down>>
    PROVE  [Promised!Next]_(Promised!vars)
<1>1. CASE is_stopped
  BY <1>1, ServiceStutters DEF Stop
<1>2. CASE ~is_stopped
  <2>1. is_stopped' /\ ServiceStop
    BY <1>2 DEF Stop
  <2>2. Phase = "draining" /\ Phase' = "stopped"
    BY <1>2, <2>1 DEF Phase
  <2>3. ASSUME NEW w \in Workers
        PROVE  /\ wk'[w].op = wk[w].op /\ wk'[w].late = wk[w].late
               /\ wk'[w].io = Cancelled(wk[w].io)
    <3>1. wk'[w] = SocketCancelled(AcceptCancelled(wk[w]))
      BY <2>1 DEF ServiceStop
    <3> DEFINE c == [wk[w] EXCEPT !.io = Cancelled(wk[w].io)]
    <3>2. c.op = wk[w].op /\ c.io = Cancelled(wk[w].io) /\ c.late = wk[w].late
      BY WorkerFacts DEF Worker
    <3>3. wk'[w] = c
      BY <3>1, <3>2 DEF SocketCancelled, AcceptCancelled
    <3> HIDE DEF c
    <3> QED
      BY <3>2, <3>3
  <2>4. Staff' = Staff /\ Late' = Late
    BY <2>3 DEF Staff, Late
  <2>5. Cut' \in SUBSET Staff
    BY <2>3, WorkerFacts DEF Cut, Staff, Cancelled, WorkerOK
  <2>6. Promised!Stop
    BY <2>2, <2>4, <2>5 DEF Promised!Stop, Staff, Cut, Late
  <2> QED
    BY <2>6 DEF Promised!Next
<1> QED
  BY <1>1, <1>2

LEMMA ServiceSignals ==
    ASSUME IInv, OnSignal \/ OnTimer
    PROVE  [Promised!Next]_(Promised!vars)
<1>1. CASE OnSignal /\ is_shutting_down
  BY <1>1, ServiceStops DEF OnSignal
<1>2. CASE OnSignal /\ ~is_shutting_down
  <2>1. /\ running = "running" /\ ~is_stopped /\ is_shutting_down'
        /\ UNCHANGED <<running, is_stopped, wk>>
    BY <1>2 DEF OnSignal, BeginShutdown, IInv, Flags
  <2>2. Phase = "serving" /\ Phase' = "draining"
    BY <1>2, <2>1 DEF Phase
  <2>3. Promised!Drain
    BY <2>1, <2>2 DEF Promised!Drain
  <2> QED
    BY <2>3 DEF Promised!Next
<1>3. CASE OnTimer
  <2>1. is_shutting_down
    BY <1>3 DEF OnTimer, IInv, Flags
  <2> QED
    BY <1>3, <2>1, ServiceStops, ServiceStutters DEF OnTimer
<1> QED
  BY <1>1, <1>2, <1>3

LEMMA ServiceReturns ==
    ASSUME IInv, RunReturns
    PROVE  Promised!Next
<1>1. is_stopped
  BY DEF RunReturns, IInv, Flags, ShutdownTimed
<1>2. Phase = "stopped" /\ Phase' = "returned"
  BY <1>1 DEF RunReturns, Phase
<1>3. Staff = {} /\ UNCHANGED <<Staff, Cut, Late>>
  BY DEF RunReturns, Staff, Cut, Late
<1>4. Promised!Return
  BY <1>2, <1>3 DEF Promised!Return, Staff, Cut, Late
<1> QED
  BY <1>4 DEF Promised!Next

\* A worker that was cancelled leaves
LEMMA ServiceLeaves ==
    ASSUME IInv, NEW w \in Workers, running = "running", wk[w].io = "aborted", Exit(w)
    PROVE  Promised!Next
<1>1. PICK k : Becomes(w, k) /\ k.op = "none" /\ k.io = "none" /\ k.late = wk[w].late
  BY ExitsAs
<1>2. \A v \in Workers : wk'[v] = IF v = w THEN k ELSE wk[v]
  BY <1>1, WorkersAfter
<1>3. Phase = "stopped" /\ Phase' = Phase
  <2>1. is_stopped
    BY WorkerFacts DEF WorkerOK
  <2>2. UNCHANGED <<running, is_shutting_down, is_stopped>>
    BY <1>1, WorkersAfter
  <2> QED
    BY <2>1, <2>2 DEF Phase
<1>4. w \in Cut /\ Staff' = Staff \ {w} /\ Cut' = Cut \ {w} /\ Late' = Late
  BY <1>1, <1>2 DEF Staff, Cut, Late
<1>5. Promised!Leave(w)
  BY <1>3, <1>4 DEF Promised!Leave, Staff, Cut, Late
<1> QED
  BY <1>5 DEF Promised!Next

\* Any other worker goes on, which only its count of late responses may show
LEMMA ServiceGoesOn ==
    ASSUME IInv, NEW w \in Workers, running = "running", NEW k, GoesOnAs(w, k)
    PROVE  [Promised!Next]_(Promised!vars)
<1>1. /\ wk[w].io \notin {"none", "aborted"} /\ k.op # "none" /\ k.io # "aborted"
      /\ Becomes(w, k)
  BY DEF GoesOnAs
<1>2. /\ \A v \in Workers : wk'[v] = IF v = w THEN k ELSE wk[v]
      /\ UNCHANGED <<running, is_shutting_down, is_stopped>>
  BY <1>1, WorkersAfter
<1>3. Phase' = Phase
  BY <1>2 DEF Phase
<1>4. wk[w].op # "none" /\ w \in Staff \ Cut
  BY <1>1, WorkerFacts DEF WorkerOK, Staff, Cut
<1>5. Staff' = Staff /\ Cut' = Cut
  BY <1>1, <1>2, <1>4 DEF Staff, Cut
<1>6. Late' = [Late EXCEPT ![w] = k.late]
  BY <1>2 DEF Late
<1>7. Late[w] = wk[w].late /\ Late = [Late EXCEPT ![w] = wk[w].late]
  BY DEF Late
<1>8. CASE k.late = wk[w].late
  <2>1. Late' = Late
    BY <1>6, <1>7, <1>8
  <2> QED
    BY <1>3, <1>5, <2>1 DEF Promised!vars, Staff, Cut, Late
<1>9. CASE k.late # wk[w].late
  <2>1. is_shutting_down
    BY <1>9, WorkerFacts DEF GoesOnAs, WorkerOK
  <2>2. Phase \in {"draining", "stopped"}
    BY <2>1, PhaseFacts DEF Phase
  <2>3. CASE k.late = 0
    <3>1. Promised!NextConnection(w)
      BY <1>3, <1>4, <1>5, <1>6, <2>2, <2>3 DEF Promised!NextConnection, Staff, Cut, Late
    <3> QED
      BY <3>1 DEF Promised!Next
  <2>4. CASE wk[w].late = 0 /\ k.late = 1
    <3>1. Promised!LastResponse(w)
      BY <1>3, <1>4, <1>5, <1>6, <1>7, <2>2, <2>4 DEF Promised!LastResponse, Staff, Cut, Late
    <3> QED
      BY <3>1 DEF Promised!Next
  <2> QED
    BY <1>9, <2>3, <2>4 DEF GoesOnAs
<1> QED
  BY <1>8, <1>9

\* An error page that is undefined is a worker's that was not cut off
LEMMA ServiceUndefined ==
    ASSUME IInv, NEW w \in Workers, running = "running", LeavesUndefined(w)
    PROVE  Promised!Next
<1>1. Phase \in {"serving", "draining", "stopped"}
  BY DEF Phase
<1>2. Phase' = "undefined" /\ UNCHANGED <<Staff, Cut, Late>>
  BY DEF LeavesUndefined, HostUnparsed, Phase, Staff, Cut, Late
<1>3. w \in Staff \ Cut
  BY WorkerFacts DEF LeavesUndefined, WorkerOK, Staff, Cut
<1>4. Promised!ErrorPage(w)
  BY <1>1, <1>2, <1>3 DEF Promised!ErrorPage, Staff, Cut, Late
<1> QED
  BY <1>4 DEF Promised!Next

(***************************************************************************)
(* server.cpp:46-106, acceptor.hpp:84-91, main.cpp:356-524: the server is  *)
(* a Service, with any number of workers and signals.                      *)
(***************************************************************************)
THEOREM ServerImplementsService == Spec => ImplementsService
<1>1. IInv /\ [Next]_vars => [Promised!Next]_(Promised!vars)
  <2> SUFFICES ASSUME IInv, [Next]_vars PROVE [Promised!Next]_(Promised!vars)
    OBVIOUS
  <2>1. CASE UNCHANGED vars \/ RaiseSignal \/ TimerExpires
    BY <2>1, ServiceStutters DEF vars, RaiseSignal, TimerExpires
  <2>2. ASSUME NEW w \in Workers, Environment(w) \/ OperationGoesOn(w) \/ Handler(w)
        PROVE  [Promised!Next]_(Promised!vars)
    <3>1. running = "running"
      BY <2>2 DEF Environment, ClientConnects, AcceptFails, PeerActs, PeerBreaks, WaitEnds,
                  OperationGoesOn, Handler, OnAccept, OnReadHeader, OnReadBody, OnWrite, Resumed
    <3> QED
      BY <2>2, <3>1, WorkerMoves, ServiceLeaves, ServiceGoesOn, ServiceUndefined
  <2> QED
    BY <2>1, <2>2, ServiceSignals, ServiceReturns DEF Next
<1> QED
  BY <1>1, ServiceInit, ServerInvariant, PTL DEF Spec, ImplementsService, Promised!Spec
================================================================================
