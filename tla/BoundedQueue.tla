---------------------------- MODULE BoundedQueue ----------------------------
(***************************************************************************)
(* What a circular buffer promises its one thread: a first-in first-out    *)
(* queue of at most Capacity items, which refuses an item when it is full  *)
(* and hands over any number of items from its front at once.  Where it    *)
(* does not own its memory an item may change while it waits, and nothing  *)
(* else does.                                                              *)
(***************************************************************************)
EXTENDS Integers, Sequences

CONSTANTS Capacity, Items

VARIABLES
  queue,   \* the items, oldest first
  answer   \* what the last call returned: a status and the items handed over

queueVars == <<queue, answer>>

Said(status, items) == answer' = [status |-> status, items |-> items]

QueueInit ==
  /\ queue = << >>
  /\ answer = [status |-> "none", items |-> << >>]

Accept(x) ==
  /\ Len(queue) < Capacity
  /\ queue' = Append(queue, x)
  /\ Said("JUSTRIGHT", << >>)

Refuse ==
  /\ Len(queue) = Capacity
  /\ queue' = queue
  /\ Said("FULL", << >>)

HandOver(k) ==
  /\ k <= Len(queue)
  /\ queue' = SubSeq(queue, k + 1, Len(queue))
  /\ Said("JUSTRIGHT", SubSeq(queue, 1, k))

Nothing ==
  /\ queue = << >>
  /\ queue' = queue
  /\ Said("EMPTY", << >>)

Corrupt(i, x) ==
  /\ queue' = [queue EXCEPT ![i] = x]
  /\ UNCHANGED answer

QueueNext ==
  \/ \E x \in Items : Accept(x)
  \/ Refuse
  \/ \E k \in 0..Capacity : HandOver(k)
  \/ Nothing
  \/ \E i \in 1..Len(queue), x \in Items : Corrupt(i, x)

QueueSpec == QueueInit /\ [][QueueNext]_queueVars
=============================================================================
