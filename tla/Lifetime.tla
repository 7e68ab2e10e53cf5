--------------------------------- MODULE Lifetime ---------------------------------
(***************************************************************************)
(* The objects of the example server, from main() (main.cpp) through       *)
(* server::make_service and the constructor of the acceptor to its array   *)
(* of workers (fixed_array.hpp): built one after the other, any of them    *)
(* throwing, and destroyed on the way out.                                 *)
(***************************************************************************)
EXTENDS Naturals, SequencesExt

CONSTANTS
    MaxWorkers      \* bound: the num_workers of the command line

ASSUME MaxWorkersAssumption == MaxWorkers \in Nat

VARIABLES
    num_workers,
    pc,         \* "building", "running", "leaving" or "left"
    alive,      \* the objects built and not destroyed, oldest first
    n_, t_,     \* the array's count, and the size of its block, if it has one
    left,       \* the elements of the array that are alive
    built,      \* history: the elements constructed
    destroyed,  \* history: the elements destroyed, in order
    freed       \* history: the size deallocate() was given

vars == <<num_workers, pc, alive, n_, t_, left, built, destroyed, freed>>

NoBlock == [block |-> FALSE, size |-> 0]
Block(n) == [block |-> TRUE, size |-> n]

\* Variant: the acceptor declares its workers before the counter they number themselves with
OrderArrayEarlier ==
    <<"doc_root", "ctx", "ioc_", "sigs_", "timer_", "v_", "sock_", "ctx_", "wv_", "id_">>

\* main()'s locals, the server's members, and the acceptor's
Order ==
    <<"doc_root", "ctx", "ioc_", "sigs_", "timer_", "v_", "sock_", "ctx_", "id_", "wv_">>

Objects == {"doc_root", "ctx", "ioc_", "sigs_", "timer_", "v_", "sock_", "ctx_", "id_", "wv_"}

\* What the constructor, the operations or the destructor of an object refer to
Uses(o) ==
    IF o \in {"sigs_", "timer_", "sock_"} THEN {"ioc_"}
    ELSE IF o = "ctx_" THEN {"ctx"} ELSE {}

WorkerUses == {"doc_root", "ctx", "ioc_", "sock_", "ctx_", "id_"}

IsAlive(o) == \E i \in 1..Len(alive) : alive[i] = o

Newest == alive[Len(alive)]

Init ==
    /\ num_workers \in 0..MaxWorkers
    /\ pc = "building" /\ alive = <<>>
    /\ n_ = 0 /\ t_ = NoBlock
    /\ left = 0 /\ built = 0 /\ destroyed = <<>> /\ freed = NoBlock

--------------------------------------------------------------------------------
(* Building. *)

Built == Len(alive) = Len(Order)

Upcoming == Order[Len(alive) + 1]

\* Both the constructors and the functions called between them may throw
Throw ==
    /\ pc \in {"building", "running"}
    /\ pc' = "leaving"
    /\ UNCHANGED <<num_workers, alive, n_, t_, left, built, destroyed, freed>>

Construct ==
    /\ pc = "building" /\ ~Built /\ Upcoming # "wv_"
    /\ alive' = Append(alive, Upcoming)
    /\ UNCHANGED <<num_workers, pc, n_, t_, left, built, destroyed, freed>>

(***************************************************************************)
(* The array exists, and has a destructor, as soon as the constructor it   *)
(* delegates to is done: before allocate().                                *)
(***************************************************************************)
BeginArray ==
    /\ pc = "building" /\ ~Built /\ Upcoming = "wv_"
    /\ alive' = Append(alive, "wv_")
    /\ UNCHANGED <<num_workers, pc, n_, t_, left, built, destroyed, freed>>

Allocate ==
    /\ pc = "building" /\ IsAlive("wv_") /\ t_ = NoBlock
    /\ t_' = Block(num_workers)
    /\ UNCHANGED <<num_workers, pc, alive, n_, left, built, destroyed, freed>>

\* Variant: the loop runs once more
ConstructElementPastEnd ==
    /\ pc = "building" /\ t_.block /\ n_ <= num_workers
    /\ n_' = n_ + 1 /\ left' = left + 1 /\ built' = built + 1
    /\ UNCHANGED <<num_workers, pc, alive, t_, destroyed, freed>>

ConstructElement ==
    /\ pc = "building" /\ t_.block /\ n_ < num_workers
    /\ n_' = n_ + 1 /\ left' = left + 1 /\ built' = built + 1
    /\ UNCHANGED <<num_workers, pc, alive, t_, destroyed, freed>>

Run ==
    /\ pc = "building" /\ Built /\ t_.block /\ n_ = num_workers
    /\ pc' = "running"
    /\ UNCHANGED <<num_workers, alive, n_, t_, left, built, destroyed, freed>>

RunReturns ==
    /\ pc = "running" /\ pc' = "leaving"
    /\ UNCHANGED <<num_workers, alive, n_, t_, left, built, destroyed, freed>>

--------------------------------------------------------------------------------
(* Leaving, with or without an exception: the newest object goes first. *)

Leaving(o) == pc = "leaving" /\ alive # <<>> /\ (Newest = "wv_") = (o = "wv_")

WithoutNewest == Front(alive)

\* Variant: the count itself is the loop's variable
DestroyElementCounting ==
    /\ Leaving("wv_") /\ t_.block /\ left > 0
    /\ left' = left - 1 /\ n_' = n_ - 1
    /\ destroyed' = Append(destroyed, left)
    /\ UNCHANGED <<num_workers, pc, alive, t_, built, freed>>

DestroyElement ==
    /\ Leaving("wv_") /\ t_.block /\ left > 0
    /\ left' = left - 1
    /\ destroyed' = Append(destroyed, left)
    /\ UNCHANGED <<num_workers, pc, alive, n_, t_, built, freed>>

\* An array that never got its block has nothing to do
Deallocate ==
    /\ Leaving("wv_") /\ (t_.block => left = 0)
    /\ freed' = IF t_.block THEN Block(n_) ELSE freed
    /\ alive' = WithoutNewest
    /\ UNCHANGED <<num_workers, pc, n_, t_, left, built, destroyed>>

Destroy ==
    /\ Leaving("other")
    /\ alive' = WithoutNewest
    /\ UNCHANGED <<num_workers, pc, n_, t_, left, built, destroyed, freed>>

Leave ==
    /\ pc = "leaving" /\ alive = <<>>
    /\ pc' = "left"
    /\ UNCHANGED <<num_workers, alive, n_, t_, left, built, destroyed, freed>>

--------------------------------------------------------------------------------

Next ==
    \/ Throw \/ Construct \/ BeginArray \/ Allocate \/ ConstructElement
    \/ Run \/ RunReturns
    \/ DestroyElement \/ Deallocate \/ Destroy \/ Leave

Spec == Init /\ [][Next]_vars

--------------------------------------------------------------------------------
(* Properties. *)

TypeOK ==
    /\ num_workers \in 0..MaxWorkers
    /\ pc \in {"building", "running", "leaving", "left"}
    /\ alive \in Seq(Objects)
    /\ n_ \in 0..num_workers /\ left \in 0..n_ /\ built \in Nat
    /\ t_ \in [block : BOOLEAN, size : Nat] /\ freed \in [block : BOOLEAN, size : Nat]
    /\ destroyed \in Seq(Nat)

(***************************************************************************)
(* No object outlives what it refers to, nor is it built before it: the    *)
(* workers take their number, their context and their socket's executor    *)
(* from an acceptor that is itself under construction, and go before it,   *)
(* wherever an exception cuts the building short (acceptor.hpp:33-37,      *)
(* main.cpp:347, "order of destruction matters here").                     *)
(***************************************************************************)
AliveWhileUsed ==
    /\ \A i \in 1..Len(alive) : \A o \in Uses(alive[i]) : IsAlive(o)
    /\ left > 0 => IsAlive("wv_") /\ \A o \in WorkerUses : IsAlive(o)

(***************************************************************************)
(* When main() is left, every worker that was constructed has been         *)
(* destroyed, once and in reverse order, and the block is freed: also when *)
(* a constructor throws, because the delegating constructor of fixed_array *)
(* lets its destructor run then.  A complete array is freed with the size  *)
(* it was allocated with.                                                  *)
(***************************************************************************)
ArrayReleased ==
    pc = "left" =>
        /\ Len(destroyed) = built
        /\ \A i \in 1..Len(destroyed) : destroyed[i] = built + 1 - i
        /\ freed.block = t_.block
        /\ built = num_workers => freed = t_
================================================================================
