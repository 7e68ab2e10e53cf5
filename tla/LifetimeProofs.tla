----------------------------- MODULE LifetimeProofs -----------------------------
(***************************************************************************)
(* Theorems about Lifetime, for any number of workers.                     *)
(***************************************************************************)
EXTENDS Lifetime, SequenceTheorems, TLAPS

Height == Len(alive)

\* The objects alive are the oldest ones, in the order they are built in
Stacked ==
    /\ alive \in Seq(Objects) /\ Height \in 0..10
    /\ \A i \in 1..Height : alive[i] = Order[i]

\* What the array has, at each stage of its life
Array ==
    /\ num_workers \in 0..MaxWorkers
    /\ n_ \in 0..num_workers /\ left \in 0..n_ /\ built = n_
    /\ t_ \in {NoBlock, Block(num_workers)}
    /\ t_ = NoBlock => n_ = 0

\* The elements that are gone went in reverse order
Gone ==
    /\ destroyed \in Seq(Nat) /\ Len(destroyed) = built - left
    /\ \A i \in 1..Len(destroyed) : destroyed[i] = built + 1 - i

Stage ==
    /\ pc \in {"building", "running", "leaving", "left"}
    /\ pc \in {"building", "running"} => left = n_
    /\ pc = "running" => Height = 10
    /\ pc = "building" /\ Height < 10 => t_ = NoBlock
    /\ pc = "left" => Height = 0
    /\ Height < 10 => left = 0
    /\ freed = IF pc \in {"leaving", "left"} /\ Height < 10 /\ t_.block
               THEN Block(n_) ELSE NoBlock

IInv == Stacked /\ Array /\ Gone /\ Stage

--------------------------------------------------------------------------------

LEMMA OrderFacts ==
    /\ \A i \in 1..10 : Order[i] \in Objects
    /\ \A i \in 1..10 : Order[i] = "wv_" <=> i = 10
  BY DEF Order, Objects

LEMMA OrderLength == Len(Order) = 10
  BY DEF Order

LEMMA BlockFacts ==
    ASSUME NEW n \in Nat
    PROVE  Block(n).block /\ ~NoBlock.block /\ Block(n) # NoBlock /\ Block(n).size = n
  BY DEF Block, NoBlock

LEMMA BelowTen == \A n \in 0..10 : n # 10 => n < 10 /\ n + 1 \in 1..10
  OBVIOUS

LEMMA UpToNext == \A n \in 0..10 : \A i \in 1..(n + 1) : i \in 1..n \/ i = n + 1
  OBVIOUS

LEMMA AboveZero == \A n \in 0..10 : n # 0 => n \in 1..10 /\ n - 1 \in 0..9
  OBVIOUS

LEMMA ArrayIsLast ==
    ASSUME Stacked
    PROVE  IsAlive("wv_") <=> Height = 10
<1>1. ASSUME IsAlive("wv_") PROVE Height = 10
  <2>1. PICK i \in 1..Height : alive[i] = "wv_"
    BY <1>1 DEF IsAlive, Height
  <2>2. Order[i] = "wv_" /\ i \in 1..10
    BY <2>1 DEF Stacked
  <2>3. i = 10
    BY <2>2, OrderFacts
  <2> QED  BY <2>3 DEF Stacked
<1>2. ASSUME Height = 10 PROVE IsAlive("wv_")
  <2>1. alive[10] = "wv_"
    BY <1>2, OrderFacts DEF Stacked
  <2>2. 10 \in 1..Len(alive)
    BY <1>2 DEF Height
  <2> QED  BY <2>1, <2>2 DEF IsAlive
<1> QED  BY <1>1, <1>2

\* The object built next is the one after those alive
LEMMA BuildKeepsStack ==
    ASSUME Stacked, ~Built, alive' = Append(alive, Upcoming)
    PROVE  Stacked' /\ Height < 10 /\ Height' = Height + 1
<1>1. Height # 10
  BY OrderLength, Zenon DEF Built, Height
<1>2. Height < 10 /\ Height + 1 \in 1..10
  BY <1>1, BelowTen, Zenon DEF Stacked
<1>3. Upcoming \in Objects /\ Upcoming = Order[Height + 1]
  BY <1>2, OrderFacts DEF Upcoming, Height
<1>4. alive' \in Seq(Objects) /\ Height' = Height + 1
  BY <1>3 DEF Stacked, Height
<1>5. \A i \in 1..Height : alive'[i] = alive[i]
  BY <1>3 DEF Stacked, Height
<1>6. alive'[Height + 1] = Order[Height + 1]
  BY <1>3 DEF Stacked, Height
<1>7. \A i \in 1..(Height + 1) : alive'[i] = Order[i]
  <2>1. \A i \in 1..(Height + 1) : i \in 1..Height \/ i = Height + 1
    BY UpToNext, Zenon DEF Stacked
  <2>2. \A i \in 1..Height : alive'[i] = Order[i]
    BY <1>5 DEF Stacked
  <2> QED  BY <1>6, <2>1, <2>2, Zenon
<1>8. Height' \in 0..10
  BY <1>2, <1>4
<1>9. Stacked'
  BY <1>4, <1>7, <1>8 DEF Stacked
<1> QED  BY <1>2, <1>4, <1>9

LEMMA DestroyKeepsStack ==
    ASSUME Stacked, alive # <<>>, alive' = WithoutNewest
    PROVE  Stacked' /\ Height \in 1..10 /\ Height' = Height - 1
<1>1. Height \in 1..10 /\ Height - 1 \in 0..9
  <2>1. Height # 0
    BY EmptySeq, Zenon DEF Stacked, Height
  <2> QED  BY <2>1, AboveZero, Zenon DEF Stacked
<1>2. alive' = SubSeq(alive, 1, Height - 1)
  BY DEF WithoutNewest, Front, Height
<1>3. \A i \in 1..(Height - 1) : alive[i] \in Objects
  BY <1>1, OrderFacts DEF Stacked
<1>4. /\ alive' \in Seq(Objects)
      /\ Len(alive') = IF 1 <= Height - 1 THEN (Height - 1) - 1 + 1 ELSE 0
      /\ \A i \in 1..((Height - 1) - 1 + 1) : alive'[i] = alive[1 + i - 1]
  BY <1>1, <1>2, <1>3, SubSeqProperties
<1>5. Height' = Height - 1
  <2>1. \A n \in 1..10 : (IF 1 <= n - 1 THEN (n - 1) - 1 + 1 ELSE 0) = n - 1
    OBVIOUS
  <2>2. Height' = IF 1 <= Height - 1 THEN (Height - 1) - 1 + 1 ELSE 0
    BY <1>4, Zenon DEF Height
  <2> QED  BY <1>1, <2>1, <2>2
<1>6. \A i \in 1..(Height - 1) : alive'[i] = Order[i]
  BY <1>1, <1>4 DEF Stacked
<1> QED  BY <1>1, <1>4, <1>5, <1>6 DEF Stacked, Order

LEMMA NewestIsArray ==
    ASSUME Stacked, alive # <<>>
    PROVE  Newest = "wv_" <=> Height = 10
<1>1. Height \in 1..10
  <2>1. Height # 0
    BY EmptySeq, Zenon DEF Stacked, Height
  <2> QED  BY <2>1, AboveZero, Zenon DEF Stacked
<1>2. Newest = Order[Height]
  BY <1>1 DEF Stacked, Newest, Height
<1> QED  BY <1>1, <1>2, OrderFacts

LEMMA InitInv == Init => IInv
  BY MaxWorkersAssumption, BlockFacts DEF Init, IInv, Stacked, Array, Gone, Stage, Height

--------------------------------------------------------------------------------
(* What is not changed stays true. *)

LEMMA StackFrame == Stacked /\ UNCHANGED alive => Stacked' /\ Height' = Height
  BY DEF Stacked, Height

LEMMA ArrayFrame == Array /\ UNCHANGED <<num_workers, n_, left, built, t_>> => Array'
  BY DEF Array, Block, NoBlock

LEMMA GoneFrame == Gone /\ UNCHANGED <<built, left, destroyed>> => Gone'
  BY DEF Gone

LEMMA NoBlockMeans == Array => (t_.block <=> t_ # NoBlock) /\ (t_.block => t_ = Block(num_workers))
  BY DEF Array, Block, NoBlock

--------------------------------------------------------------------------------
(* One lemma for each kind of step. *)

LEMMA ThrowInv == IInv /\ (Throw \/ RunReturns) => IInv'
<1> SUFFICES ASSUME IInv, Throw \/ RunReturns PROVE IInv'
  OBVIOUS
<1>1. /\ pc \in {"building", "running"} /\ pc' = "leaving"
      /\ UNCHANGED <<num_workers, alive, n_, t_, left, built, destroyed, freed>>
  BY DEF Throw, RunReturns
<1>2. Stacked' /\ Height' = Height /\ Array' /\ Gone'
  BY <1>1, StackFrame, ArrayFrame, GoneFrame DEF IInv
<1>3. Height < 10 => ~t_.block
  BY <1>1, NoBlockMeans DEF IInv, Stage
<1>4. Stage'
  BY <1>1, <1>2, <1>3 DEF IInv, Stage
<1> QED  BY <1>2, <1>4 DEF IInv

LEMMA ConstructInv == IInv /\ (Construct \/ BeginArray) => IInv'
<1> SUFFICES ASSUME IInv, Construct \/ BeginArray PROVE IInv'
  OBVIOUS
<1>1. /\ pc = "building" /\ ~Built /\ alive' = Append(alive, Upcoming)
      /\ UNCHANGED <<num_workers, pc, n_, t_, left, built, destroyed, freed>>
  BY DEF Construct, BeginArray
<1>2. Stacked' /\ Height < 10 /\ Height' = Height + 1
  BY <1>1, BuildKeepsStack DEF IInv
<1>3. Array' /\ Gone'
  BY <1>1, ArrayFrame, GoneFrame DEF IInv
<1>4. t_ = NoBlock /\ left = 0 /\ freed = NoBlock
  BY <1>1, <1>2 DEF IInv, Stage
<1>5. Stage'
  BY <1>1, <1>2, <1>4 DEF IInv, Stage
<1> QED  BY <1>2, <1>3, <1>5 DEF IInv

LEMMA AllocateInv == IInv /\ Allocate => IInv'
<1> SUFFICES ASSUME IInv, Allocate PROVE IInv'
  OBVIOUS
<1>1. Stacked' /\ Height' = Height /\ Gone' /\ Height = 10
  BY StackFrame, GoneFrame, ArrayIsLast DEF IInv, Allocate
<1>2. Array'
  BY DEF IInv, Array, Allocate, Block, NoBlock
<1>3. Stage'
  BY <1>1 DEF IInv, Stage, Allocate
<1> QED  BY <1>1, <1>2, <1>3 DEF IInv

LEMMA ConstructElementInv == IInv /\ ConstructElement => IInv'
<1> SUFFICES ASSUME IInv, ConstructElement PROVE IInv'
  OBVIOUS
<1>1. Stacked' /\ Height' = Height
  BY StackFrame DEF IInv, ConstructElement
<1>2. t_ # NoBlock /\ ~(Height < 10) /\ left = n_
  BY NoBlockMeans DEF IInv, Stage, ConstructElement
<1>3. Array'
  BY <1>2, MaxWorkersAssumption DEF IInv, Array, ConstructElement
<1>4. destroyed = <<>> /\ Gone'
  BY <1>2, EmptySeq DEF IInv, Array, Gone, ConstructElement
<1>5. Stage'
  BY <1>1, <1>2 DEF IInv, Stage, ConstructElement
<1> QED  BY <1>1, <1>3, <1>4, <1>5 DEF IInv

LEMMA RunInv == IInv /\ Run => IInv'
<1> SUFFICES ASSUME IInv, Run PROVE IInv'
  OBVIOUS
<1>1. Stacked' /\ Height' = Height /\ Array' /\ Gone'
  BY StackFrame, ArrayFrame, GoneFrame DEF IInv, Run
<1>2. Height = 10
  BY OrderLength, Zenon DEF Run, Built, Height
<1>3. Stage'
  BY <1>1, <1>2 DEF IInv, Stage, Run
<1> QED  BY <1>1, <1>3 DEF IInv

LEMMA DestroyElementInv == IInv /\ DestroyElement => IInv'
<1> SUFFICES ASSUME IInv, DestroyElement PROVE IInv'
  OBVIOUS
<1>1. Stacked' /\ Height' = Height
  BY StackFrame DEF IInv, DestroyElement
<1>2. pc = "leaving" /\ Height = 10
  BY NewestIsArray DEF IInv, DestroyElement, Leaving
<1>3. Array'
  BY DEF IInv, Array, DestroyElement, Block, NoBlock
<1>4. Gone'
  <2>1. left \in Nat /\ built \in Nat /\ left <= built /\ left > 0
    BY MaxWorkersAssumption DEF IInv, Array, DestroyElement
  <2>2. destroyed' = Append(destroyed, left) /\ built' = built /\ left' = left - 1
    BY DEF DestroyElement
  <2>3. /\ destroyed' \in Seq(Nat) /\ Len(destroyed') = built - left + 1
        /\ \A i \in 1..(built - left) : destroyed'[i] = destroyed[i]
        /\ destroyed'[built - left + 1] = left
    <3>1. destroyed \in Seq(Nat) /\ Len(destroyed) = built - left
      BY DEF IInv, Gone
    <3>2. /\ destroyed' \in Seq(Nat) /\ Len(destroyed') = Len(destroyed) + 1
          /\ \A i \in 1..Len(destroyed) : destroyed'[i] = destroyed[i]
          /\ destroyed'[Len(destroyed) + 1] = left
      BY <2>1, <2>2, <3>1, AppendProperties
    <3> QED  BY <3>1, <3>2, Zenon
  <2>4. \A i \in 1..(built - left) : destroyed'[i] = built + 1 - i
    BY <2>3 DEF IInv, Gone
  <2>5. \A i \in 1..(built - left + 1) : i \in 1..(built - left) \/ i = built - left + 1
    BY <2>1
  <2>6. left = built + 1 - (built - left + 1)
    BY <2>1
  <2>7. \A i \in 1..(built - left + 1) : destroyed'[i] = built + 1 - i
    BY <2>3, <2>4, <2>5, <2>6, Zenon
  <2>8. built - left + 1 = built' - left'
    BY <2>1, <2>2
  <2> QED  BY <2>2, <2>3, <2>7, <2>8 DEF Gone
<1>5. Stage'
  BY <1>1, <1>2 DEF IInv, Stage, DestroyElement
<1> QED  BY <1>1, <1>3, <1>4, <1>5 DEF IInv

LEMMA DeallocateInv == IInv /\ Deallocate => IInv'
<1> SUFFICES ASSUME IInv, Deallocate PROVE IInv'
  OBVIOUS
<1>1. pc = "leaving" /\ Height = 10
  BY NewestIsArray DEF IInv, Deallocate, Leaving
<1>2. Stacked' /\ Height' = Height - 1
  BY DestroyKeepsStack DEF IInv, Deallocate, Leaving
<1>3. Array' /\ Gone'
  BY ArrayFrame, GoneFrame DEF IInv, Deallocate
<1>4. left = 0
  BY NoBlockMeans, MaxWorkersAssumption DEF IInv, Array, Deallocate
<1>5. Height' < 10
  BY <1>1, <1>2
<1>6. freed' = IF t_.block THEN Block(n_) ELSE NoBlock
  BY <1>1 DEF IInv, Stage, Deallocate
<1>7. Stage'
  BY <1>1, <1>4, <1>5, <1>6 DEF IInv, Stage, Deallocate
<1> QED  BY <1>2, <1>3, <1>7 DEF IInv

LEMMA DestroyInv == IInv /\ Destroy => IInv'
<1> SUFFICES ASSUME IInv, Destroy PROVE IInv'
  OBVIOUS
<1>1. pc = "leaving" /\ Height # 10
  BY NewestIsArray DEF IInv, Destroy, Leaving
<1>2. Stacked' /\ Height \in 1..10 /\ Height' = Height - 1
  BY DestroyKeepsStack DEF IInv, Destroy, Leaving
<1>3. Height < 10 /\ Height' < 10
  <2>1. Height < 10
    BY <1>1, BelowTen, Zenon DEF IInv, Stacked
  <2> QED  BY <1>2, <2>1
<1>4. Array' /\ Gone'
  BY ArrayFrame, GoneFrame DEF IInv, Destroy
<1>5. Stage'
  BY <1>1, <1>3 DEF IInv, Stage, Destroy
<1> QED  BY <1>2, <1>4, <1>5 DEF IInv

LEMMA LeaveInv == IInv /\ Leave => IInv'
<1> SUFFICES ASSUME IInv, Leave PROVE IInv'
  OBVIOUS
<1>1. Stacked' /\ Height' = Height /\ Array' /\ Gone'
  BY StackFrame, ArrayFrame, GoneFrame DEF IInv, Leave
<1>2. Height = 0
  BY EmptySeq, Zenon DEF Leave, Height
<1>3. Stage'
  BY <1>1, <1>2 DEF IInv, Stage, Leave
<1> QED  BY <1>1, <1>3 DEF IInv

--------------------------------------------------------------------------------
(* Theorems. *)

\* main.cpp:529-575, server.hpp:66-80, acceptor.hpp:40-51, fixed_array.hpp:45-67: the
\* inductive invariant of the objects, whatever throws
THEOREM LifetimeInvariant == Spec => []IInv
<1>1. IInv /\ [Next]_vars => IInv'
  <2> SUFFICES ASSUME IInv, [Next]_vars PROVE IInv'
    OBVIOUS
  <2>1. CASE UNCHANGED vars
    <3>1. Stacked' /\ Height' = Height /\ Array' /\ Gone'
      BY <2>1, StackFrame, ArrayFrame, GoneFrame DEF IInv, vars
    <3>2. Stage'
      BY <2>1, <3>1 DEF IInv, Stage, vars
    <3> QED  BY <3>1, <3>2 DEF IInv
  <2>2. CASE Next
    BY <2>2, ThrowInv, ConstructInv, AllocateInv, ConstructElementInv, RunInv,
       DestroyElementInv, DeallocateInv, DestroyInv, LeaveInv DEF Next
  <2> QED  BY <2>1, <2>2
<1> QED  BY <1>1, InitInv, PTL DEF Spec

\* Every variable keeps its type, and the array never counts more than it was asked for
THEOREM LifetimeTypes == Spec => []TypeOK
<1>1. IInv => TypeOK
  <2> SUFFICES ASSUME IInv PROVE TypeOK
    OBVIOUS
  <2>1. /\ num_workers \in 0..MaxWorkers /\ n_ \in 0..num_workers /\ left \in 0..n_
        /\ built \in Nat /\ num_workers \in Nat /\ n_ \in Nat
    BY MaxWorkersAssumption DEF IInv, Array
  <2>2. t_ \in [block : BOOLEAN, size : Nat] /\ freed \in [block : BOOLEAN, size : Nat]
    <3>1. \A n \in Nat : Block(n) \in [block : BOOLEAN, size : Nat]
      BY DEF Block
    <3>2. NoBlock \in [block : BOOLEAN, size : Nat]
      BY DEF NoBlock
    <3>3. t_ \in {NoBlock, Block(num_workers)} /\ freed \in {NoBlock, Block(n_)}
      BY DEF IInv, Array, Stage
    <3> QED  BY <2>1, <3>1, <3>2, <3>3
  <2> QED  BY <2>1, <2>2 DEF IInv, Stacked, Gone, Stage, TypeOK
<1> QED  BY <1>1, LifetimeInvariant, PTL

\* acceptor.hpp:33-37 and main.cpp:347: no object outlives, or precedes, what it refers to
THEOREM UsedObjectsAreAlive == Spec => []AliveWhileUsed
<1>1. IInv => AliveWhileUsed
  <2> SUFFICES ASSUME IInv PROVE AliveWhileUsed
    OBVIOUS
  <2>1. \A j \in 1..Height : IsAlive(Order[j])
    BY DEF IInv, Stacked, IsAlive, Height
  <2>2. Height \in 0..10 /\ \A i \in 1..Height : alive[i] = Order[i]
    BY DEF IInv, Stacked
  <2>3. \A i \in 1..10 : \A o \in Uses(Order[i]) : \E j \in 1..(i - 1) : Order[j] = o
    BY DEF Uses, Order
  <2>4. ASSUME NEW i \in 1..Height, NEW o \in Uses(alive[i]) PROVE IsAlive(o)
    <3>1. i \in 1..10 /\ o \in Uses(Order[i])
      BY <2>2, <2>4
    <3>2. PICK j \in 1..(i - 1) : Order[j] = o
      BY <2>3, <3>1
    <3> QED  BY <2>1, <2>2, <3>2
  <2>5. ASSUME left > 0 PROVE IsAlive("wv_") /\ \A o \in WorkerUses : IsAlive(o)
    <3>1. Height = 10
      BY <2>2, <2>5, BelowTen DEF IInv, Stage
    <3>2. \A o \in WorkerUses \cup {"wv_"} : \E j \in 1..10 : Order[j] = o
      BY DEF WorkerUses, Order
    <3> QED  BY <2>1, <3>1, <3>2
  <2> QED  BY <2>4, <2>5 DEF AliveWhileUsed, Height
<1> QED  BY <1>1, LifetimeInvariant, PTL

\* fixed_array.hpp:45-67: the elements built are destroyed in reverse, and the block is freed
THEOREM ArrayIsReleased == Spec => []ArrayReleased
<1>1. IInv => ArrayReleased
  <2> SUFFICES ASSUME IInv, pc = "left" PROVE ArrayReleased
    BY DEF ArrayReleased
  <2>1. left = 0 /\ freed = IF t_.block THEN Block(n_) ELSE NoBlock
    BY DEF IInv, Stage
  <2>2. Len(destroyed) = built
    BY <2>1, MaxWorkersAssumption DEF IInv, Array, Gone
  <2>3. freed.block = t_.block
    BY <2>1, NoBlockMeans DEF IInv, Block, NoBlock
  <2>4. ASSUME built = num_workers PROVE freed = t_
    BY <2>1, <2>4, NoBlockMeans DEF IInv, Array
  <2> QED  BY <2>2, <2>3, <2>4 DEF IInv, Gone, ArrayReleased
<1> QED  BY <1>1, LifetimeInvariant, PTL
================================================================================
