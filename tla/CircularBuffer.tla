--------------------------- MODULE CircularBuffer ---------------------------
(***************************************************************************)
(* One sensor's circular buffer.  Pointers are offsets from `data'.  The   *)
(* code lets them range over num_items + 1 items, so that a full ring can  *)
(* be told from an empty one, but allocates num_items: the item at offset  *)
(* num_items is memory of somebody else, who may write it at any time.     *)
(***************************************************************************)
EXTENDS Integers, Sequences

CONSTANTS
  num_items,   \* the size the ring is constructed with
  Items,       \* the data_items pushed: a reading and its timestamp
  Sizes        \* the sizes of the byte buffers given to get_data

(* sizeof(struct data_header) and sizeof(struct data_item).                *)
HeaderSize == 4
ItemSize   == 16

ASSUME BufferAssumption ==
  /\ num_items \in Nat \ {0}
  /\ Items # {}
  /\ Sizes \subseteq Nat

VARIABLES
  data,        \* the memory from `data' on, as the ring uses it
  head, tail,  \* offsets of the two pointers
  answer,      \* the status the last call returned, and the items it popped
  queued       \* history: the items pushed and not yet popped, oldest first

vars == <<data, head, tail, answer, queued>>

Offsets   == 0..num_items         \* end - data = num_items + 1
Allocated == 0..(num_items - 1)   \* new data_item[num_items]

(* Mutant: the wrap-around one item too late.                              *)
AfterTooFar(i) == IF i + 1 > num_items + 1 THEN 0 ELSE i + 1

(* The pointer after i, back to `data' when it reaches `end'.              *)
After(i) == IF i + 1 >= num_items + 1 THEN 0 ELSE i + 1

(* The offset of the i-th item from the tail, and how many there are.      *)
Place(i) == IF tail + i - 1 > num_items THEN tail + i - 1 - (num_items + 1)
                                        ELSE tail + i - 1
Count == IF head >= tail THEN head - tail ELSE head - tail + num_items + 1

Returns(status, items) == answer' = [status |-> status, items |-> items]
-----------------------------------------------------------------------------
(* The memory is not initialised.                                          *)
Init ==
  /\ data \in [Offsets -> Items]
  /\ head = 0 /\ tail = 0
  /\ answer = [status |-> "none", items |-> << >>]
  /\ queued = << >>

(* push_data_item refuses the item, which is gone, when the ring is full.  *)
PushFull ==
  /\ After(head) = tail
  /\ Returns("FULL", << >>)
  /\ UNCHANGED <<data, head, tail, queued>>

(* Mutant: a full ring overwrites its oldest item.                         *)
PushAlways(x) ==
  /\ data' = [data EXCEPT ![head] = x]
  /\ head' = After(head)
  /\ Returns("JUSTRIGHT", << >>)
  /\ queued' = Append(queued, x)
  /\ UNCHANGED tail

(* Mutant: the head is advanced before the item is written.                *)
PushAhead(x) ==
  /\ After(head) # tail
  /\ data' = [data EXCEPT ![After(head)] = x]
  /\ head' = After(head)
  /\ Returns("JUSTRIGHT", << >>)
  /\ queued' = Append(queued, x)
  /\ UNCHANGED tail

Push(x) ==
  /\ After(head) # tail
  /\ data' = [data EXCEPT ![head] = x]
  /\ head' = After(head)
  /\ Returns("JUSTRIGHT", << >>)
  /\ queued' = Append(queued, x)
  /\ UNCHANGED tail

PopEmpty ==
  /\ head = tail
  /\ Returns("EMPTY", << >>)
  /\ UNCHANGED <<data, head, tail, queued>>

(* Mutant: the tail is advanced before the item is read.                   *)
PopAhead ==
  /\ head # tail
  /\ tail' = After(tail)
  /\ Returns("JUSTRIGHT", <<data[After(tail)]>>)
  /\ queued' = Tail(queued)
  /\ UNCHANGED <<data, head>>

Pop ==
  /\ head # tail
  /\ tail' = After(tail)
  /\ Returns("JUSTRIGHT", <<data[tail]>>)
  /\ queued' = Tail(queued)
  /\ UNCHANGED <<data, head>>

(* The loop of get_data pops k items: as many as there are, unless the     *)
(* next would not fit.                                                     *)
Takes(size, k) ==
  /\ k <= Count
  /\ k = 0 \/ HeaderSize + k * ItemSize <= size
  /\ k = Count \/ HeaderSize + (k + 1) * ItemSize > size

GetData(size, k) ==
  /\ Takes(size, k)
  /\ tail' = IF tail + k > num_items THEN tail + k - (num_items + 1) ELSE tail + k
  /\ Returns("JUSTRIGHT", [i \in 1..k |-> data[Place(i)]])
  /\ queued' = SubSeq(queued, k + 1, Len(queued))
  /\ UNCHANGED <<data, head>>

RingNext ==
  \/ PushFull
  \/ \E x \in Items : Push(x)
  \/ PopEmpty
  \/ Pop
  \/ \E size \in Sizes, k \in 0..num_items : GetData(size, k)

(* The owner of the memory behind the array writes it.                     *)
Foreign ==
  /\ \E x \in Items : data' = [data EXCEPT ![num_items] = x]
  /\ UNCHANGED <<head, tail, answer, queued>>

Next == RingNext \/ Foreign

Spec == Init /\ [][Next]_vars
-----------------------------------------------------------------------------
(* Properties.                                                             *)

Statuses == {"none", "JUSTRIGHT", "EMPTY", "FULL"}

TypeOK ==
  /\ data \in [Offsets -> Items]
  /\ head \in Offsets /\ tail \in Offsets
  /\ answer \in [status : Statuses, items : Seq(Items)]
  /\ queued \in Seq(Items)

(* The pointers agree with what has been pushed and popped, whatever       *)
(* happens to the memory: nothing is lost, repeated or overwritten early,  *)
(* and a full ring holds num_items items.                                  *)
CountsAgree == Len(queued) = Count /\ Count <= num_items

(* The items at the offsets S are the ones that were pushed.               *)
Agree(S) ==
  \A i \in 1..Len(queued) : Place(i) \in S => data[Place(i)] = queued[i]

(* An item that lies inside the array is handed out as it was pushed, even *)
(* when the memory behind the array is written by somebody else.           *)
InsideIsSafe == Agree(Allocated)

(* Every call is a call of a first-in first-out queue of num_items items,  *)
(* with the same answer, whose contents are what the memory holds; between *)
(* calls no more than an item of it changes.                               *)
Contents == [i \in 1..Count |-> data[Place(i)]]
Queue    == INSTANCE BoundedQueue WITH Capacity <- num_items, queue <- Contents
IsQueue  == Queue!QueueSpec

(* A buffer with room for the header and num_items items always takes all  *)
(* there is: the ring is empty after it.  This is what the sensor thread   *)
(* needs of the size of its packet.                                        *)
PacketEmpties ==
  [][ \A size \in Sizes, k \in 0..num_items :
        GetData(size, k) /\ size >= HeaderSize + num_items * ItemSize
          => head' = tail' /\ queued' = << >> /\ Len(answer'.items) = Len(queued) ]_vars
-----------------------------------------------------------------------------
(* Properties the sources claim and the code does not have.                *)

(* `data' is "the array of data_items this circular buffer stores": a push *)
(* writes only inside it.                                                  *)
WritesInArray ==
  [][ head' # head => data' = data \/ \E i \in Allocated : data'[i] # data[i] ]_vars
=============================================================================
