------------------------------ MODULE FMQueue ------------------------------
(***************************************************************************)
(* What the ring of FM audio blocks promises: a bounded first-in first-out *)
(* queue whose head can be borrowed.  A borrowed block does not change     *)
(* until it is given back, which removes it.                               *)
(***************************************************************************)
EXTENDS Integers, Sequences

CONSTANTS
  Capacity,   \* blocks the queue can hold
  Readers,    \* threads that take blocks
  Block,      \* contents of a block
  NoBlock     \* not a block

VARIABLES
  queue,      \* the blocks that were put and not yet given back
  held        \* the block each reader has borrowed, or NoBlock

Init == queue = <<>> /\ held = [r \in Readers |-> NoBlock]

Put(b) ==
  /\ Len(queue) < Capacity
  /\ queue' = Append(queue, b)
  /\ UNCHANGED held

Borrow(r) ==
  /\ queue # <<>> /\ \A x \in Readers : held[x] = NoBlock
  /\ held' = [held EXCEPT ![r] = Head(queue)]
  /\ UNCHANGED queue

GiveBack(r) ==
  /\ held[r] # NoBlock
  /\ queue' = Tail(queue)
  /\ held' = [held EXCEPT ![r] = NoBlock]

Next ==
  \/ \E b \in Block : Put(b)
  \/ \E r \in Readers : Borrow(r) \/ GiveBack(r)

Spec == Init /\ [][Next]_<<queue, held>>
=============================================================================
