------------------------ MODULE CircularBufferProofs ------------------------
(***************************************************************************)
(* Proofs about the circular buffer, for every size of ring, every kind of *)
(* item and every packet size.                                             *)
(***************************************************************************)
EXTENDS CircularBuffer, SequenceTheorems, TLAPS

Frame == TypeOK /\ CountsAgree

(* Where the pointers lead: advancing a pointer by one or by k items stays *)
(* in the ring.                                                            *)
LEMMA Pointers ==
  ASSUME NEW i \in Offsets
  PROVE  After(i) \in Offsets
BY BufferAssumption DEF After, Offsets

(* The places of the queued items are distinct offsets short of the head.  *)
LEMMA Places ==
  ASSUME Frame, NEW i \in 1..Count
  PROVE  Place(i) \in Offsets /\ Place(i) # head
BY BufferAssumption DEF Frame, TypeOK, Place, Count, Offsets

(* A ring that is not full has room for one more item.                     *)
LEMMA Room ==
  ASSUME Frame, After(head) # tail
  PROVE  Count < num_items
BY BufferAssumption DEF Frame, TypeOK, CountsAgree, Count, After, Offsets

(* A full ring holds num_items items.                                      *)
LEMMA NoRoom ==
  ASSUME Frame, After(head) = tail
  PROVE  Count = num_items
BY BufferAssumption DEF Frame, TypeOK, CountsAgree, Count, After, Offsets

(* A push adds one item at the end of the queue.                           *)
LEMMA PushStep ==
  ASSUME Frame, NEW x \in Items, Push(x), NEW S, Agree(S)
  PROVE  Frame' /\ Agree(S)'
<1> USE BufferAssumption DEF Frame, TypeOK
<1>1. TypeOK'
  BY Pointers DEF Push, Returns, Statuses
<1>2. Count' = Count + 1
  BY Room DEF Push, Count, After, Offsets
<1>3. Len(queued') = Len(queued) + 1
  BY DEF Push
<1>4. CountsAgree'
  BY <1>2, <1>3, Room DEF CountsAgree, Push
<1>5. Agree(S)'
  <2> SUFFICES ASSUME NEW i \in 1..Len(queued'), Place(i)' \in S
               PROVE  data'[Place(i)'] = queued'[i]
    BY DEF Agree
  <2>1. Place(i)' = Place(i)
    BY DEF Push, Place
  <2>2. CASE i = Len(queued) + 1
    <3>1. Place(i) = head
      BY <2>2 DEF CountsAgree, Place, Count, Offsets
    <3> QED
      BY <2>1, <2>2, <3>1 DEF Push
  <2>3. CASE i # Len(queued) + 1
    <3>1. i \in 1..Len(queued)
      BY <1>3, <2>3
    <3>2. Place(i) \in Offsets /\ Place(i) # head
      BY <3>1, Places DEF CountsAgree
    <3>3. queued'[i] = queued[i]
      BY <3>1 DEF Push
    <3> QED
      BY <2>1, <3>1, <3>2, <3>3 DEF Push, Agree
  <2> QED
    BY <2>2, <2>3
<1> QED
  BY <1>1, <1>4, <1>5

(* Taking k items leaves the rest of the queue where it was.               *)
LEMMA TakeStep ==
  ASSUME Frame, NEW S, Agree(S), NEW k \in 0..Count,
         tail' = IF tail + k > num_items THEN tail + k - (num_items + 1)
                                         ELSE tail + k,
         queued' = SubSeq(queued, k + 1, Len(queued)),
         UNCHANGED <<data, head>>
  PROVE  /\ tail' \in Offsets /\ queued' \in Seq(Items)
         /\ CountsAgree' /\ Agree(S)'
<1> USE BufferAssumption DEF Frame, TypeOK, CountsAgree
<1>1. tail' \in Offsets
  BY DEF Offsets, Count
<1>2. Count' = Count - k
  BY DEF Count, Offsets
<1>3. /\ queued' \in Seq(Items)
      /\ Len(queued') = Len(queued) - k
      /\ \A i \in 1..Len(queued') : queued'[i] = queued[i + k]
  BY DEF Offsets, Count
<1>4. Agree(S)'
  <2> SUFFICES ASSUME NEW i \in 1..Len(queued'), Place(i)' \in S
               PROVE  data'[Place(i)'] = queued'[i]
    BY DEF Agree
  <2>1. i + k \in 1..Len(queued)
    BY <1>3
  <2>2. Place(i)' = Place(i + k)
    BY <2>1, <1>1 DEF Place, Count, Offsets
  <2> QED
    BY <1>3, <2>1, <2>2 DEF Agree
<1> QED
  BY <1>1, <1>2, <1>3, <1>4

(* A pop takes one item.                                                   *)
LEMMA PopStep ==
  ASSUME Frame, Pop, NEW S, Agree(S)
  PROVE  Frame' /\ Agree(S)'
<1> USE BufferAssumption DEF Frame, TypeOK, CountsAgree
<1>1. 1 \in 0..Count
  BY DEF Pop, Count, Offsets
<1>2. tail' = IF tail + 1 > num_items THEN tail + 1 - (num_items + 1) ELSE tail + 1
  BY DEF Pop, After, Offsets
<1>3. queued' = SubSeq(queued, 1 + 1, Len(queued))
  BY <1>1 DEF Pop
<1>4. UNCHANGED <<data, head>>
  BY DEF Pop
<1>5. tail' \in Offsets /\ queued' \in Seq(Items) /\ CountsAgree' /\ Agree(S)'
  BY <1>1, <1>2, <1>3, <1>4, TakeStep
<1>6. <<data[tail]>> \in Seq(Items)
  BY DEF Pop
<1>7. TypeOK'
  BY <1>4, <1>5, <1>6 DEF Pop, Returns, Statuses
<1> QED
  BY <1>5, <1>7

(* get_data takes k items and hands them out in a packet.                  *)
LEMMA GetStep ==
  ASSUME Frame, NEW size \in Sizes, NEW k \in 0..num_items, GetData(size, k),
         NEW S, Agree(S)
  PROVE  Frame' /\ Agree(S)'
<1> USE BufferAssumption DEF Frame, TypeOK, CountsAgree
<1>1. k \in 0..Count
  BY DEF GetData, Takes, Count, Offsets
<1>2. /\ tail' = IF tail + k > num_items THEN tail + k - (num_items + 1)
                                         ELSE tail + k
      /\ queued' = SubSeq(queued, k + 1, Len(queued))
      /\ UNCHANGED <<data, head>>
  BY DEF GetData
<1>3. tail' \in Offsets /\ queued' \in Seq(Items) /\ CountsAgree' /\ Agree(S)'
  BY <1>1, <1>2, TakeStep
<1>4. [i \in 1..k |-> data[Place(i)]] \in Seq(Items)
  <2>1. \A i \in 1..k : data[Place(i)] \in Items
    BY <1>1, Places
  <2> QED
    BY <2>1
<1>5. TypeOK'
  BY <1>2, <1>3, <1>4 DEF GetData, Returns, Statuses
<1> QED
  BY <1>3, <1>5

(* A step of the ring keeps the items at any offsets as they were pushed.  *)
LEMMA RingStep ==
  ASSUME Frame, NEW S, Agree(S), RingNext
  PROVE  Frame' /\ Agree(S)'
<1>1. CASE PushFull \/ PopEmpty
  <2>1. UNCHANGED <<data, head, tail, queued>>
    BY <1>1 DEF PushFull, PopEmpty
  <2>2. << >> \in Seq(Items)
    OBVIOUS
  <2>3. \E s \in Statuses : answer' = [status |-> s, items |-> << >>]
    BY <1>1 DEF PushFull, PopEmpty, Returns, Statuses
  <2> QED
    BY <2>1, <2>2, <2>3 DEF Frame, TypeOK, CountsAgree, Agree, Count, Place
<1>2. CASE \E x \in Items : Push(x)
  BY <1>2, PushStep
<1>3. CASE Pop
  BY <1>3, PopStep
<1>4. CASE \E size \in Sizes, k \in 0..num_items : GetData(size, k)
  BY <1>4, GetStep
<1> QED
  BY <1>1, <1>2, <1>3, <1>4 DEF RingNext

(* The owner of the memory behind the array cannot touch the items in it.  *)
LEMMA ForeignStep ==
  ASSUME Frame, Agree(Allocated), Foreign
  PROVE  Frame' /\ Agree(Allocated)'
BY BufferAssumption DEF Frame, TypeOK, CountsAgree, Agree, Foreign, Count, Place,
   Offsets, Allocated

(* A call that changes nothing keeps everything.                           *)
LEMMA StutterStep ==
  ASSUME Frame, NEW S, Agree(S), UNCHANGED vars
  PROVE  Frame' /\ Agree(S)'
BY DEF Frame, TypeOK, CountsAgree, Agree, vars, Count, Place

(* The ring starts empty, whatever the memory holds.                       *)
LEMMA RingInit ==
  ASSUME Init, NEW S
  PROVE  Frame /\ Agree(S)
BY BufferAssumption DEF Init, Frame, TypeOK, CountsAgree, Agree, Count, Offsets,
   Statuses

(* What every state of the ring keeps.                                     *)
LEMMA RingInvariance == Spec => [](Frame /\ Agree(Allocated))
<1>1. Init => Frame /\ Agree(Allocated)
  BY RingInit
<1>2. Frame /\ Agree(Allocated) /\ [Next]_vars => (Frame /\ Agree(Allocated))'
  BY RingStep, ForeignStep, StutterStep DEF Next
<1> QED
  BY <1>1, <1>2, PTL DEF Spec

(* The pointers stay in the ring and what is handed out are items.         *)
THEOREM RingTypeCorrect == Spec => []TypeOK
BY RingInvariance, PTL DEF Frame

(* The count of the pointers is that of what was pushed and not popped.    *)
THEOREM RingCounts == Spec => []CountsAgree
BY RingInvariance, PTL DEF Frame

(* Items inside the array are handed out as they were pushed, even when    *)
(* the memory behind it is not the ring's own.                             *)
THEOREM RingIsSafe == Spec => []InsideIsSafe
BY RingInvariance, PTL DEF InsideIsSafe
-----------------------------------------------------------------------------
(* Refinement.                                                             *)

(* The contents are a sequence of items, one for each place.               *)
LEMMA ContentsType ==
  ASSUME Frame
  PROVE  /\ Contents \in Seq(Items) /\ Len(Contents) = Count
         /\ \A i \in 1..Count : Contents[i] = data[Place(i)]
<1> USE DEF Frame, TypeOK
<1>1. Count \in Nat
  BY BufferAssumption DEF Count, Offsets
<1>2. \A i \in 1..Count : data[Place(i)] \in Items
  BY Places
<1> QED
  BY <1>1, <1>2 DEF Contents

(* A push appends the item to the contents.                                *)
LEMMA PushAppends ==
  ASSUME Frame, NEW x \in Items, Push(x), Frame'
  PROVE  Contents' = Append(Contents, x)
<1> USE BufferAssumption DEF Frame, TypeOK
<1>1. Count \in Nat
  BY DEF Count, Offsets
<1>2. PICK n \in Nat : n = Count
  BY <1>1
<1>3. Count' = n + 1 /\ \A i : Place(i)' = Place(i)
  BY <1>2, Room DEF Push, Count, After, Offsets, Place
<1>4. \A i \in 1..n : Place(i) \in Offsets /\ Place(i) # head
  BY <1>2, Places
<1>5. /\ Contents \in Seq(Items) /\ Len(Contents) = n
      /\ \A i \in 1..n : Contents[i] = data[Place(i)] /\ Contents[i] \in Items
  BY <1>2, ContentsType
<1>6. \A i \in 1..n : data'[Place(i)] = Contents[i]
  BY <1>4, <1>5 DEF Push
<1>7. data'[Place(n + 1)] = x
  BY <1>2 DEF Push, Place, Count, Offsets
<1>8. Contents' = [i \in 1..(n + 1) |-> data'[Place(i)]]
  BY <1>3 DEF Contents
<1>9. \A i \in 1..(n + 1) : data'[Place(i)] \in Items
  <2> TAKE i \in 1..(n + 1)
  <2>1. i \in 1..n \/ i = n + 1
    OBVIOUS
  <2> QED
    BY <1>5, <1>6, <1>7, <2>1
<1>10. Contents' \in Seq(Items) /\ Len(Contents') = n + 1
  BY <1>8, <1>9
<1>11. /\ Append(Contents, x) \in Seq(Items)
       /\ Len(Append(Contents, x)) = n + 1
       /\ \A i \in 1..(n + 1) : Append(Contents, x)[i]
                                = IF i = n + 1 THEN x ELSE Contents[i]
  BY <1>5
<1>12. \A i \in 1..(n + 1) : Contents'[i] = Append(Contents, x)[i]
  BY <1>6, <1>7, <1>8, <1>11
<1> QED
  BY <1>10, <1>11, <1>12, SeqEqual

(* Taking k items hands over the front of the contents and leaves the rest.*)
LEMMA TakeHandsOver ==
  ASSUME Frame, Frame', NEW k \in 0..Count,
         tail' = IF tail + k > num_items THEN tail + k - (num_items + 1)
                                         ELSE tail + k,
         UNCHANGED <<data, head>>
  PROVE  /\ Contents' = SubSeq(Contents, k + 1, Len(Contents))
         /\ [i \in 1..k |-> data[Place(i)]] = SubSeq(Contents, 1, k)
         /\ k <= Len(Contents)
<1> USE BufferAssumption DEF Frame, TypeOK
<1>1. Count' = Count - k /\ Count \in Nat
  BY DEF Count, Offsets
<1>2. \A i \in 1..(Count - k) : Place(i)' = Place(i + k)
  BY DEF Place, Count, Offsets
<1>3. Contents' = [i \in 1..(Count - k) |-> data[Place(i + k)]]
  BY <1>1, <1>2 DEF Contents
<1>4. SubSeq(Contents, k + 1, Len(Contents))
        = [i \in 1..(Count - k) |-> Contents[i + k]]
  BY <1>1, ContentsType
<1>5. SubSeq(Contents, 1, k) = [i \in 1..k |-> Contents[i]]
  BY <1>1, ContentsType
<1>6. \A i \in 1..(Count - k) : Contents[i + k] = data[Place(i + k)]
  BY <1>1, ContentsType
<1>7. \A i \in 1..k : Contents[i] = data[Place(i)]
  BY <1>1, ContentsType
<1> QED
  BY <1>1, <1>3, <1>4, <1>5, <1>6, <1>7, ContentsType

(* A foreign write changes the one item behind the array, if there is one. *)
LEMMA ForeignCorrupts ==
  ASSUME Frame, Frame', Foreign
  PROVE  \/ UNCHANGED <<Contents, answer>>
         \/ \E i \in 1..Len(Contents), x \in Items : Queue!Corrupt(i, x)
<1> USE BufferAssumption DEF Frame, TypeOK
<1>1. PICK x \in Items : data' = [data EXCEPT ![num_items] = x]
  BY DEF Foreign
<1>2. Count' = Count /\ Count \in Nat /\ \A i : Place(i)' = Place(i)
  BY DEF Foreign, Count, Place, Offsets
<1>3. Contents' = [i \in 1..Count |-> data'[Place(i)]]
  BY <1>2 DEF Contents
<1>4. CASE \A i \in 1..Count : Place(i) # num_items
  <2>1. \A i \in 1..Count : data'[Place(i)] = data[Place(i)]
    BY <1>1, <1>4, Places
  <2> QED
    BY <1>3, <2>1 DEF Contents, Foreign
<1>5. CASE \E i \in 1..Count : Place(i) = num_items
  <2>1. PICK i \in 1..Count : Place(i) = num_items
    BY <1>5
  <2>2. \A j \in 1..Count : Place(j) = Place(i) => j = i
    BY DEF Place, Count, Offsets
  <2>3. \A j \in 1..Count :
          data'[Place(j)] = IF j = i THEN x ELSE data[Place(j)]
    BY <1>1, <2>1, <2>2, Places DEF Offsets
  <2>4. Contents' = [Contents EXCEPT ![i] = x]
    BY <1>3, <2>3 DEF Contents
  <2> QED
    BY <1>2, <2>4, ContentsType DEF Queue!Corrupt, Foreign
<1> QED
  BY <1>4, <1>5

(* Every call of the ring is a call of the queue with the same answer.     *)
LEMMA QueueStep ==
  ASSUME Frame, Next, Frame'
  PROVE  [Queue!QueueNext]_(Queue!queueVars)
<1> USE BufferAssumption DEF Queue!Said, Queue!QueueNext
<1>1. CASE PushFull
  <2>1. Contents' = Contents
    BY <1>1 DEF PushFull, Contents, Count, Place
  <2> QED
    BY <1>1, <2>1, NoRoom, ContentsType DEF PushFull, Returns, Queue!Refuse
<1>2. ASSUME NEW x \in Items, Push(x) PROVE Queue!QueueNext
  <2>1. Contents' = Append(Contents, x)
    BY <1>2, PushAppends
  <2> QED
    BY <1>2, <2>1, Room, ContentsType DEF Push, Returns, Queue!Accept
<1>3. CASE PopEmpty
  <2>1. Contents' = Contents
    BY <1>3 DEF PopEmpty, Contents, Count, Place
  <2>2. Count = 0
    BY <1>3 DEF PopEmpty, Count, Frame, TypeOK, Offsets
  <2>3. Contents = << >>
    BY <2>2, ContentsType
  <2> QED
    BY <1>3, <2>1, <2>3 DEF PopEmpty, Returns, Queue!Nothing
<1>4. CASE Pop
  <2> USE DEF Frame, TypeOK
  <2>1. 1 \in 0..Count /\ 1 \in 0..num_items
    BY <1>4 DEF Pop, Count, Offsets
  <2>2. /\ tail' = IF tail + 1 > num_items THEN tail + 1 - (num_items + 1)
                                           ELSE tail + 1
        /\ UNCHANGED <<data, head>>
    BY <1>4 DEF Pop, After, Offsets
  <2>3. Place(1) = tail
    BY DEF Place, Offsets
  <2>4. <<data[tail]>> = [i \in 1..1 |-> data[Place(i)]]
    BY <2>3
  <2>5. /\ Contents' = SubSeq(Contents, 1 + 1, Len(Contents))
        /\ <<data[tail]>> = SubSeq(Contents, 1, 1)
        /\ 1 <= Len(Contents)
    BY <2>1, <2>2, <2>4, TakeHandsOver
  <2>6. Queue!HandOver(1)
    BY <1>4, <2>5 DEF Pop, Returns, Queue!HandOver
  <2> QED
    BY <2>1, <2>6
<1>5. ASSUME NEW size \in Sizes, NEW k \in 0..num_items, GetData(size, k)
      PROVE  Queue!QueueNext
  <2>1. k \in 0..Count
    BY <1>5 DEF GetData, Takes, Count, Offsets, Frame, TypeOK
  <2>2. /\ tail' = IF tail + k > num_items THEN tail + k - (num_items + 1)
                                           ELSE tail + k
        /\ UNCHANGED <<data, head>>
    BY <1>5 DEF GetData
  <2>3. /\ Contents' = SubSeq(Contents, k + 1, Len(Contents))
        /\ [i \in 1..k |-> data[Place(i)]] = SubSeq(Contents, 1, k)
        /\ k <= Len(Contents)
    BY <2>1, <2>2, TakeHandsOver
  <2>4. answer' = [status |-> "JUSTRIGHT", items |-> SubSeq(Contents, 1, k)]
    BY <1>5, <2>3, Zenon DEF GetData, Returns
  <2>5. Queue!HandOver(k)
    BY <2>3, <2>4 DEF Queue!HandOver
  <2> QED
    BY <2>5
<1>6. CASE Foreign
  BY <1>6, ForeignCorrupts DEF Queue!queueVars
<1> QED
  BY <1>1, <1>2, <1>3, <1>4, <1>5, <1>6 DEF Next, RingNext

(* Whatever is written behind its array, the ring is a first-in first-out  *)
(* queue of num_items items in which nothing but an item waiting behind    *)
(* the array can change.                                                   *)
THEOREM RingIsQueue == Spec => IsQueue
<1> DEFINE Inv == Frame /\ Agree(Allocated)
<1>1. Init => Inv /\ Queue!QueueInit
  <2> SUFFICES ASSUME Init PROVE Inv /\ Queue!QueueInit
    OBVIOUS
  <2>1. Inv /\ Count = 0
    BY RingInit DEF Init, Count
  <2>2. Contents = << >>
    BY <2>1, ContentsType
  <2> QED
    BY <2>1, <2>2 DEF Init, Queue!QueueInit
<1>2. Inv /\ [Next]_vars => Inv'
  BY RingStep, ForeignStep, StutterStep DEF Next
<1>3. Inv /\ Inv' /\ [Next]_vars => [Queue!QueueNext]_(Queue!queueVars)
  <2>1. CASE UNCHANGED vars
    BY <2>1 DEF vars, Queue!queueVars, Contents, Count, Place
  <2> QED
    BY <2>1, QueueStep
<1> QED
  BY <1>1, <1>2, <1>3, PTL DEF Spec, IsQueue, Queue!QueueSpec
-----------------------------------------------------------------------------
(* A packet with room for a full ring leaves nothing behind in it.         *)
LEMMA TakesAll ==
  ASSUME Frame, NEW size \in Sizes, NEW k \in 0..num_items, GetData(size, k),
         size >= HeaderSize + num_items * ItemSize
  PROVE  head' = tail' /\ queued' = << >> /\ Len(answer'.items) = Len(queued)
<1> USE BufferAssumption DEF Frame, TypeOK
<1>1. Count \in Nat /\ Count <= num_items /\ Len(queued) = Count
  BY DEF Count, Offsets, CountsAgree
<1>2. k = Count
  <2>1. k <= Count /\ (k = Count \/ 4 + (k + 1) * 16 > size)
    BY DEF GetData, Takes, HeaderSize, ItemSize
  <2>2. size \in Nat /\ size >= 4 + num_items * 16
    BY DEF HeaderSize, ItemSize
  <2> QED
    BY <1>1, <2>1, <2>2
<1>3. head' = tail'
  <2>1. head' = head
        /\ tail' = IF tail + k > num_items THEN tail + k - (num_items + 1) ELSE tail + k
    BY DEF GetData
  <2>2. CASE head >= tail
    BY <1>2, <2>1, <2>2 DEF Count, Offsets
  <2>3. CASE ~(head >= tail)
    BY <1>2, <2>1, <2>3 DEF Count, Offsets
  <2> QED
    BY <2>2, <2>3
<1>4. queued' = << >>
  BY <1>1, <1>2 DEF GetData
<1>5. Len(answer'.items) = Len(queued)
  <2>1. answer'.items = [i \in 1..k |-> data[Place(i)]]
    BY DEF GetData, Returns
  <2> QED
    BY <1>1, <1>2, <2>1
<1> QED
  BY <1>3, <1>4, <1>5

(* get_data with room for a full ring hands over all of it and empties it, *)
(* which is what the sampling thread relies on: its packet is 16n + 4      *)
(* bytes, so that the reading that found the ring full finds it empty.     *)
THEOREM PacketEmptiesRing == Spec => PacketEmpties
<1>1. Frame /\ [Next]_vars
        => [ \A size \in Sizes, k \in 0..num_items :
               GetData(size, k) /\ size >= HeaderSize + num_items * ItemSize
                 => head' = tail' /\ queued' = << >>
                    /\ Len(answer'.items) = Len(queued) ]_vars
  BY TakesAll
<1> QED
  BY <1>1, RingInvariance, PTL DEF Spec, PacketEmpties
=============================================================================
