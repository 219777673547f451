------------------------- MODULE RetiredQueueProofs -------------------------
(***************************************************************************)
(* RetiredQueue is sound, and implements BoundedFifo, for every capacity    *)
(* and every set of nodes.                                                  *)
(*                                                                         *)
(* The ring is a matter of distances: an index a thread saw earlier lies    *)
(* between the other thread's present index and its own, so that the        *)
(* distances add up.  Once the remainders are gone, all of it is linear     *)
(* arithmetic with one case for the wrap.                                   *)
(***************************************************************************)
EXTENDS RetiredQueue, SequenceTheorems, TLAPS

-----------------------------------------------------------------------------
(* The operators on indices, without remainders.                           *)

\* How many entries lie from i up to j.
Gap(i, j) == IF i <= j THEN j - i ELSE j - i + Size

\* The entry k places after i.
Place(i, k) == IF i + k < Size THEN i + k ELSE i + k - Size

Holds(i) == i \in Index /\ Gap(readIndex, i) < Gap(readIndex, writeIndex)

LEMMA SizeType == Size \in Nat /\ Size >= 2 /\ QueueCapacity = Size - 1
BY QueueCapacityAssumption DEF Size

LEMMA Remainders ==
    /\ \A a \in 0..(Size - 1) : a % Size = a
    /\ \A a \in Size..(2*Size - 1) : a % Size = a - Size
    /\ \A a \in (-Size)..(-1) : a % Size = a + Size
<1>1. ASSUME NEW n \in Nat \ {0}
      PROVE  /\ \A a \in 0..(n - 1) : a % n = a
             /\ \A a \in n..(2*n - 1) : a % n = a - n
             /\ \A a \in (-n)..(-1) : a % n = a + n
  <2>1. \A a \in 0..(n - 1) : a % n = a OBVIOUS
  <2>2. \A a \in n..(2*n - 1) : a % n = a - n OBVIOUS
  <2>3. \A a \in (-n)..(-1) : a % n = a + n OBVIOUS
  <2> QED BY <2>1, <2>2, <2>3
<1>2. Size \in Nat \ {0} BY SizeType
<1> QED BY <1>1, <1>2

LEMMA PlaceIsRemainder ==
    ASSUME NEW i \in Index, NEW k \in Index
    PROVE  (i + k) % Size = Place(i, k) /\ Place(i, k) \in Index
<1> DEFINE a == i + k
<1>1. /\ i \in Int /\ k \in Int /\ 0 <= i /\ i < Size /\ 0 <= k /\ k < Size
      /\ Size \in Nat
  BY SizeType DEF Index
<1>2. a < Size => a \in 0..(Size - 1) BY <1>1
<1>3. a >= Size => a \in Size..(2*Size - 1) BY <1>1
<1>4. (a < Size \/ a >= Size) /\ a = i + k BY <1>1
<1>5. Place(i, k) \in Index BY <1>1 DEF Place, Index
<1>6. Place(i, k) = IF a < Size THEN a ELSE a - Size BY <1>1 DEF Place
<1> HIDE DEF a
<1>7. a % Size = Place(i, k)
  <2>1. CASE a < Size
    <3>1. a % Size = a BY <2>1, <1>2, Remainders
    <3> QED BY <2>1, <3>1, <1>6
  <2>2. CASE a >= Size
    <3>1. a % Size = a - Size BY <2>2, <1>3, Remainders
    <3>2. ~(a < Size) BY <2>2, <1>1, <1>4
    <3> QED BY <3>1, <3>2, <1>6
  <2> QED BY <1>4, <2>1, <2>2
<1> QED BY <1>4, <1>5, <1>7

LEMMA AdvanceIsPlace ==
    ASSUME NEW i \in Index
    PROVE  Advance(i) = Place(i, 1) /\ Advance(i) \in Index
<1>1. 1 \in Index BY SizeType DEF Index
<1> QED BY <1>1, PlaceIsRemainder DEF Advance

LEMMA DistanceIsGap ==
    ASSUME NEW i \in Index, NEW j \in Index
    PROVE  Distance(i, j) = Gap(i, j) /\ Gap(i, j) \in Index
<1> DEFINE a == j - i
<1>1. /\ i \in Int /\ j \in Int /\ 0 <= i /\ i < Size /\ 0 <= j /\ j < Size
      /\ Size \in Nat
  BY SizeType DEF Index
<1>2. i <= j => a \in 0..(Size - 1) BY <1>1
<1>3. ~(i <= j) => a \in (-Size)..(-1) BY <1>1
<1>4. Gap(i, j) \in Index BY <1>1 DEF Gap, Index
<1>5. Gap(i, j) = (IF i <= j THEN a ELSE a + Size) /\ Distance(i, j) = a % Size
  BY DEF Gap, Distance
<1> HIDE DEF a
<1>6. i <= j => a % Size = a BY <1>2, Remainders
<1>7. ~(i <= j) => a % Size = a + Size BY <1>3, Remainders
<1> QED BY <1>4, <1>5, <1>6, <1>7

LEMMA GapType ==
    ASSUME NEW i \in Index, NEW j \in Index
    PROVE  Gap(i, j) \in Nat /\ Gap(i, j) <= QueueCapacity
BY DistanceIsGap, SizeType DEF Index

\* A place is as far away as it is counted, and every place is reached so.
LEMMA GapOfPlace ==
    ASSUME NEW i \in Index, NEW k \in Index
    PROVE  Gap(i, Place(i, k)) = k
BY SizeType DEF Index, Gap, Place

LEMMA PlaceOfGap ==
    ASSUME NEW i \in Index, NEW j \in Index
    PROVE  Place(i, Gap(i, j)) = j
BY SizeType DEF Index, Gap, Place

\* What a load returns lies between what was seen before and the index itself.
LEMMA LoadableIsBetween ==
    ASSUME NEW seen \in Index, NEW index \in Index, NEW v \in Loadable(seen, index)
    PROVE  v \in Index /\ Gap(seen, v) + Gap(v, index) = Gap(seen, index)
<1>1. PICK k \in 0..Distance(seen, index) : v = (seen + k) % Size
  BY DEF Loadable
<1>2. k \in Index /\ k <= Gap(seen, index)
  <2>1. Distance(seen, index) = Gap(seen, index) /\ Gap(seen, index) \in Index
    BY DistanceIsGap
  <2> QED BY <2>1, SizeType DEF Index
<1>3. v = Place(seen, k) /\ v \in Index
  BY <1>1, <1>2, PlaceIsRemainder
<1> QED BY <1>2, <1>3, SizeType DEF Index, Gap, Place

LEMMA OccupiedIsHeld ==
    ASSUME readIndex \in Index, writeIndex \in Index, NEW i
    PROVE  i \in Occupied <=> Holds(i)
<1>1. ASSUME i \in Occupied PROVE Holds(i)
  <2>1. PICK k \in 0..(Distance(readIndex, writeIndex) - 1) : i = (readIndex + k) % Size
    BY <1>1 DEF Occupied
  <2>2. k \in Index /\ k < Gap(readIndex, writeIndex)
    <3>1. /\ Distance(readIndex, writeIndex) = Gap(readIndex, writeIndex)
          /\ Gap(readIndex, writeIndex) \in Index
      BY DistanceIsGap
    <3> QED BY <3>1, SizeType DEF Index
  <2>3. i = Place(readIndex, k) /\ i \in Index
    BY <2>1, <2>2, PlaceIsRemainder
  <2> QED BY <2>2, <2>3, GapOfPlace DEF Holds
<1>2. ASSUME Holds(i) PROVE i \in Occupied
  <2> DEFINE k == Gap(readIndex, i)
  <2>1. i \in Index /\ k \in Index /\ k < Gap(readIndex, writeIndex)
    BY <1>2, DistanceIsGap DEF Holds
  <2>2. i = (readIndex + k) % Size
    BY <2>1, PlaceIsRemainder, PlaceOfGap
  <2>3. k \in 0..(Distance(readIndex, writeIndex) - 1)
    <3> HIDE DEF k
    <3>1. Gap(readIndex, writeIndex) \in Index BY DistanceIsGap
    <3> QED BY <2>1, <3>1, DistanceIsGap, SizeType DEF Index
  <2> HIDE DEF k
  <2> QED BY <2>2, <2>3 DEF Occupied
<1> QED BY <1>1, <1>2

\* Gaps along the ring add up from whichever side they are cut.
LEMMA GapsAdd ==
    ASSUME NEW i \in Index, NEW j \in Index, NEW k \in Index, NEW v \in Index,
           Gap(i, j) + Gap(j, k) = Gap(i, k)
    PROVE  /\ Gap(i, v) + Gap(v, j) = Gap(i, j) => Gap(v, j) + Gap(j, k) = Gap(v, k)
           /\ Gap(j, v) + Gap(v, k) = Gap(j, k) => Gap(i, v) + Gap(v, k) = Gap(i, k)
<1>1. Gap(i, v) + Gap(v, j) = Gap(i, j) => Gap(v, j) + Gap(j, k) = Gap(v, k)
  BY SizeType DEF Index, Gap
<1>2. Gap(j, v) + Gap(v, k) = Gap(j, k) => Gap(i, v) + Gap(v, k) = Gap(i, k)
  BY SizeType DEF Index, Gap
<1> QED BY <1>1, <1>2

\* One place further: the end of a gap may move unless it meets the start, the
\* start unless it is at the end.
LEMMA GapGrows ==
    ASSUME NEW i \in Index, NEW j \in Index
    PROVE  /\ Place(j, 1) # i => Gap(i, Place(j, 1)) = Gap(i, j) + 1
           /\ i # j => Gap(Place(i, 1), j) = Gap(i, j) - 1
           /\ Place(j, 1) = i => Gap(i, j) = QueueCapacity
           /\ Gap(i, j) = 0 <=> i = j
BY SizeType DEF Index, Gap, Place

\* The end of two gaps moves on, or their start, or what lies between them.
LEMMA EndMoves ==
    ASSUME NEW i \in Index, NEW j \in Index, NEW k \in Index,
           Gap(i, j) + Gap(j, k) = Gap(i, k), Place(k, 1) # i
    PROVE  Place(k, 1) # j /\ Gap(i, j) + Gap(j, Place(k, 1)) = Gap(i, Place(k, 1))
<1>1. /\ Gap(i, j) \in 0..QueueCapacity /\ Gap(j, k) \in 0..QueueCapacity
      /\ Gap(i, k) \in 0..QueueCapacity
  BY DistanceIsGap, SizeType DEF Index
<1>2. Place(k, 1) # j
  <2>1. Place(k, 1) = j => Gap(j, k) = QueueCapacity BY GapGrows
  <2>2. Gap(i, j) = 0 => i = j BY GapGrows
  <2> QED BY <1>1, <2>1, <2>2, SizeType
<1>3. Gap(j, Place(k, 1)) = Gap(j, k) + 1 /\ Gap(i, Place(k, 1)) = Gap(i, k) + 1
  BY <1>2, GapGrows
<1> QED BY <1>1, <1>2, <1>3, SizeType

LEMMA StartMoves ==
    ASSUME NEW i \in Index, NEW j \in Index, NEW k \in Index,
           Gap(i, j) + Gap(j, k) = Gap(i, k), i # j
    PROVE  i # k /\ Gap(Place(i, 1), j) + Gap(j, k) = Gap(Place(i, 1), k)
<1>1. Gap(i, j) \in Nat /\ Gap(j, k) \in Nat /\ Gap(i, k) \in Nat
  BY DistanceIsGap, SizeType DEF Index
<1>2. i # k
  <2>1. (Gap(i, j) = 0 <=> i = j) /\ (Gap(i, k) = 0 <=> i = k) BY GapGrows
  <2> QED BY <1>1, <2>1
<1>3. Gap(Place(i, 1), j) = Gap(i, j) - 1 /\ Gap(Place(i, 1), k) = Gap(i, k) - 1
  BY <1>2, GapGrows
<1> QED BY <1>1, <1>2, <1>3

LEMMA MiddleMoves ==
    ASSUME NEW i \in Index, NEW j \in Index, NEW k \in Index,
           Gap(i, j) + Gap(j, k) = Gap(i, k), j # k
    PROVE  Place(j, 1) # i /\ Gap(i, Place(j, 1)) + Gap(Place(j, 1), k) = Gap(i, k)
<1>1. Place(j, 1) # i BY SizeType DEF Index, Gap, Place
<1> QED BY <1>1, GapGrows, SizeType DEF Gap, Index

-----------------------------------------------------------------------------
(* The invariant.  A thread's view of the other's index lies between that   *)
(* index and its own; once a thread has seen room, or an item, its view     *)
(* stays good until it moves its own index; and a node is in one place.     *)

Views == /\ Gap(readView, readIndex) + Gap(readIndex, writeIndex) = Gap(readView, writeIndex)
         /\ Gap(readIndex, writeView) + Gap(writeView, writeIndex) = Gap(readIndex, writeIndex)

HasRoom == push.pc \in {"write", "release"} => Place(writeIndex, 1) # readView

HasItem == pop.pc \in {"take", "erase", "release"} => readIndex # writeView

Filled(i) == \/ Holds(i) /\ ~(i = readIndex /\ pop.pc = "release")
             \/ i = writeIndex /\ push.pc = "release"

Entries == /\ \A i \in Index : entries[i] # NoNode <=> Filled(i)
           /\ \A i, j \in Index : entries[i] = entries[j] /\ entries[i] # NoNode => i = j

\* Where the node offered is, and where the node removed is.
Offered == /\ push.pc = "idle" <=> push.node = NoNode
           /\ push.pc \in {"check", "write"} => \A i \in Index : entries[i] # push.node
           /\ push.pc = "release" => entries[writeIndex] = push.node
           /\ push.node # NoNode => push.node # pop.node

Removed == /\ pop.pc \in {"idle", "take"} <=> pop.node = NoNode
           /\ pop.pc = "erase" => entries[readIndex] = pop.node
           /\ pop.pc \in {"release", "delete"} => \A i \in Index : entries[i] # pop.node

RingInv == RingTypeOK /\ Views /\ HasRoom /\ HasItem /\ Entries /\ Offered /\ Removed

LEMMA RingInvInit == RingInit => RingInv
<1> SUFFICES ASSUME RingInit PROVE RingInv OBVIOUS
<1>1. 0 \in Index BY SizeType DEF Index
<1>2. RingTypeOK BY <1>1 DEF RingInit, RingTypeOK
<1> QED BY <1>1, <1>2, SizeType
        DEF RingInit, RingInv, Views, HasRoom, HasItem, Entries, Filled, Holds, Offered,
            Removed, Gap, Index

LEMMA PushCallInv == ASSUME NEW n \in Item, RingInv, PushCall(n) PROVE RingInv'
<1> USE SizeType, NoNodeAssumption DEF RingInv, PushCall
<1>1. RingTypeOK' BY DEF RingTypeOK, Index
<1>2. Views' BY DEF Views
<1>3. HasRoom' BY DEF RingTypeOK, Views, HasRoom, HasItem
<1>4. HasItem' BY DEF RingTypeOK, Views, HasRoom, HasItem
<1>5. Entries' BY DEF RingTypeOK, Views, HasRoom, HasItem, RingTypeOK, Entries, Filled, Offered, Removed, Holds, Gap, Index
<1>6. Offered' BY DEF RingTypeOK, Views, HasRoom, HasItem, RingTypeOK, Entries, Filled, Offered, Removed, Holds, Gap, Index, Held
<1>7. Removed' BY DEF RingTypeOK, Views, HasRoom, HasItem, RingTypeOK, Entries, Filled, Offered, Removed, Holds, Gap, Index
<1> QED BY <1>1, <1>2, <1>3, <1>4, <1>5, <1>6, <1>7

LEMMA PushFullInv == ASSUME RingInv, PushFull PROVE RingInv'
<1> USE SizeType, NoNodeAssumption DEF RingInv, PushFull
<1>0. readView' \in Index /\ Gap(readView, readView') + Gap(readView', readIndex) = Gap(readView, readIndex)
  BY LoadableIsBetween DEF RingTypeOK
<1>1. RingTypeOK' BY <1>0 DEF RingTypeOK
<1>2. Views' BY <1>0, <1>1, GapsAdd DEF RingTypeOK, Views
<1>3. HasRoom' BY <1>0, <1>1, AdvanceIsPlace DEF RingTypeOK, Views, HasRoom, HasItem
<1>4. HasItem' BY <1>0, <1>1 DEF RingTypeOK, Views, HasRoom, HasItem
<1>5. Entries' BY <1>1 DEF Entries, Filled, Holds
<1>6. Offered' BY <1>1 DEF Offered
<1>7. Removed' BY <1>1 DEF RingTypeOK, Removed
<1> QED BY <1>1, <1>2, <1>3, <1>4, <1>5, <1>6, <1>7

LEMMA PushRoomInv == ASSUME RingInv, PushRoom PROVE RingInv'
<1> USE SizeType, NoNodeAssumption DEF RingInv, PushRoom
<1>0. readView' \in Index /\ Gap(readView, readView') + Gap(readView', readIndex) = Gap(readView, readIndex)
  BY LoadableIsBetween DEF RingTypeOK
<1>1. RingTypeOK' BY <1>0 DEF RingTypeOK
<1>2. Views' BY <1>0, <1>1, GapsAdd DEF RingTypeOK, Views
<1>3. HasRoom' BY <1>0, <1>1, AdvanceIsPlace DEF RingTypeOK, Views, HasRoom, HasItem
<1>4. HasItem' BY <1>0, <1>1 DEF RingTypeOK, Views, HasRoom, HasItem
<1>5. Entries' BY <1>1 DEF Entries, Filled, Holds
<1>6. Offered' BY <1>1 DEF Offered
<1>7. Removed' BY <1>1 DEF RingTypeOK, Removed
<1> QED BY <1>1, <1>2, <1>3, <1>4, <1>5, <1>6, <1>7

LEMMA PushWriteInv == ASSUME RingInv, PushWrite PROVE RingInv'
<1> USE SizeType, NoNodeAssumption DEF RingInv, PushWrite
<1>1. RingTypeOK' BY DEF RingTypeOK, Index
<1>2. Views' BY DEF Views
<1>3. HasRoom' BY DEF RingTypeOK, Views, HasRoom, HasItem
<1>4. HasItem' BY DEF RingTypeOK, Views, HasRoom, HasItem
<1>5. Entries' BY DEF RingTypeOK, Views, HasRoom, HasItem, RingTypeOK, Entries, Filled, Offered, Removed, Holds, Gap, Index
<1>6. Offered' BY DEF RingTypeOK, Views, HasRoom, HasItem, RingTypeOK, Entries, Filled, Offered, Removed, Holds, Gap, Index
<1>7. Removed' BY DEF RingTypeOK, Views, HasRoom, HasItem, RingTypeOK, Entries, Filled, Offered, Removed, Holds, Gap, Index
<1> QED BY <1>1, <1>2, <1>3, <1>4, <1>5, <1>6, <1>7

LEMMA PushReleaseInv == ASSUME RingInv, PushRelease PROVE RingInv'
<1> USE SizeType, NoNodeAssumption DEF RingInv, PushRelease
<1>0. writeIndex' = Place(writeIndex, 1) /\ writeIndex' \in Index
  BY AdvanceIsPlace DEF RingTypeOK
<1>1. RingTypeOK' BY <1>0 DEF RingTypeOK
<1>2. Views'
  <2>1. /\ writeIndex' # readIndex
        /\ Gap(readView, readIndex) + Gap(readIndex, writeIndex') = Gap(readView, writeIndex')
    BY <1>0, EndMoves DEF RingTypeOK, Views, HasRoom
  <2>2. Gap(readIndex, writeView) + Gap(writeView, writeIndex') = Gap(readIndex, writeIndex')
    BY <1>0, <2>1, EndMoves DEF RingTypeOK, Views
  <2> QED BY <2>1, <2>2 DEF Views
<1>3. HasRoom' BY DEF HasRoom
<1>4. HasItem' BY DEF HasItem
<1>5. Entries'
  <2>1. Gap(readIndex, writeIndex') = Gap(readIndex, writeIndex) + 1
    BY <1>0, EndMoves, GapGrows DEF RingTypeOK, Views, HasRoom
  <2>2. \A i \in Index : Gap(readIndex, i) = Gap(readIndex, writeIndex) <=> i = writeIndex
    BY DEF RingTypeOK, Gap, Index
  <2>3. \A i \in Index : Holds(i)' <=> Holds(i) \/ i = writeIndex
    <3>1. Gap(readIndex, writeIndex) \in Nat
      BY DistanceIsGap DEF RingTypeOK, Index
    <3>2. \A i \in Index : Gap(readIndex, i) \in Nat
      <4>1. readIndex \in Index BY DEF RingTypeOK
      <4> QED BY ONLY <4>1, DistanceIsGap, SizeType DEF Index
    <3>3. \A i \in Index : Holds(i)' <=> Gap(readIndex, i) < Gap(readIndex, writeIndex) + 1
      BY <2>1 DEF Holds, Gap, Index
    <3>4. \A i \in Index : Holds(i) <=> Gap(readIndex, i) < Gap(readIndex, writeIndex)
      BY DEF Holds
    <3> QED BY ONLY <3>1, <3>2, <3>3, <3>4, <2>2
  <2>4. pop.pc = "release" => writeIndex # readIndex
    BY StartMoves DEF RingTypeOK, Views, HasItem
  <2>5. \A i \in Index : Filled(i)' <=> Filled(i)
    BY <2>3, <2>4 DEF Filled
  <2> QED BY <2>5 DEF Entries
<1>6. Offered' BY DEF Offered
<1>7. Removed' BY DEF Removed
<1> QED BY <1>1, <1>2, <1>3, <1>4, <1>5, <1>6, <1>7

LEMMA PopEmptyInv == ASSUME RingInv, PopEmpty PROVE RingInv'
<1> USE SizeType, NoNodeAssumption DEF RingInv, PopEmpty
<1>0. writeView' \in Index /\ Gap(writeView, writeView') + Gap(writeView', writeIndex) = Gap(writeView, writeIndex)
  BY LoadableIsBetween DEF RingTypeOK
<1>1. RingTypeOK' BY <1>0 DEF RingTypeOK
<1>2. Views' BY <1>0, <1>1, GapsAdd DEF RingTypeOK, Views
<1>3. HasRoom' BY <1>0, <1>1, AdvanceIsPlace DEF RingTypeOK, Views, HasRoom, HasItem
<1>4. HasItem' BY <1>0, <1>1 DEF RingTypeOK, Views, HasRoom, HasItem
<1>5. Entries' BY <1>1 DEF Entries, Filled, Holds
<1>6. Offered' BY <1>1 DEF Offered
<1>7. Removed' BY <1>1 DEF RingTypeOK, Removed
<1> QED BY <1>1, <1>2, <1>3, <1>4, <1>5, <1>6, <1>7

LEMMA PopSeenInv == ASSUME RingInv, PopSeen PROVE RingInv'
<1> USE SizeType, NoNodeAssumption DEF RingInv, PopSeen
<1>0. writeView' \in Index /\ Gap(writeView, writeView') + Gap(writeView', writeIndex) = Gap(writeView, writeIndex)
  BY LoadableIsBetween DEF RingTypeOK
<1>1. RingTypeOK' BY <1>0 DEF RingTypeOK
<1>2. Views' BY <1>0, <1>1, GapsAdd DEF RingTypeOK, Views
<1>3. HasRoom' BY <1>0, <1>1, AdvanceIsPlace DEF RingTypeOK, Views, HasRoom, HasItem
<1>4. HasItem' BY <1>0, <1>1 DEF RingTypeOK, Views, HasRoom, HasItem
<1>5. Entries' BY <1>1 DEF Entries, Filled, Holds
<1>6. Offered' BY <1>1 DEF Offered
<1>7. Removed' BY <1>1 DEF RingTypeOK, Removed
<1> QED BY <1>1, <1>2, <1>3, <1>4, <1>5, <1>6, <1>7

LEMMA PopTakeInv == ASSUME RingInv, PopTake PROVE RingInv'
<1> USE SizeType, NoNodeAssumption DEF RingInv, PopTake
<1>1. RingTypeOK' BY DEF RingTypeOK, Index
<1>2. Views' BY DEF Views
<1>3. HasRoom' BY DEF RingTypeOK, Views, HasRoom, HasItem
<1>4. HasItem' BY DEF RingTypeOK, Views, HasRoom, HasItem
<1>5. Entries' BY DEF RingTypeOK, Views, HasRoom, HasItem, RingTypeOK, Entries, Filled, Offered, Removed, Holds, Gap, Index
<1>6. Offered' BY DEF RingTypeOK, Views, HasRoom, HasItem, RingTypeOK, Entries, Filled, Offered, Removed, Holds, Gap, Index
<1>7. Removed' BY DEF RingTypeOK, Views, HasRoom, HasItem, RingTypeOK, Entries, Filled, Offered, Removed, Holds, Gap, Index
<1> QED BY <1>1, <1>2, <1>3, <1>4, <1>5, <1>6, <1>7

LEMMA PopEraseInv == ASSUME RingInv, PopErase PROVE RingInv'
<1> USE SizeType, NoNodeAssumption DEF RingInv, PopErase
<1>1. RingTypeOK' BY DEF RingTypeOK, Index
<1>2. Views' BY DEF Views
<1>3. HasRoom' BY DEF RingTypeOK, Views, HasRoom, HasItem
<1>4. HasItem' BY DEF RingTypeOK, Views, HasRoom, HasItem
<1>5. Entries' BY DEF RingTypeOK, Views, HasRoom, HasItem, RingTypeOK, Entries, Filled, Offered, Removed, Holds, Gap, Index
<1>6. Offered' BY DEF RingTypeOK, Views, HasRoom, HasItem, RingTypeOK, Entries, Filled, Offered, Removed, Holds, Gap, Index
<1>7. Removed' BY DEF RingTypeOK, Views, HasRoom, HasItem, RingTypeOK, Entries, Filled, Offered, Removed, Holds, Gap, Index
<1> QED BY <1>1, <1>2, <1>3, <1>4, <1>5, <1>6, <1>7

LEMMA PopReleaseInv == ASSUME RingInv, PopRelease PROVE RingInv'
<1> USE SizeType, NoNodeAssumption DEF RingInv, PopRelease
<1>0. readIndex' = Place(readIndex, 1) /\ readIndex' \in Index
  BY AdvanceIsPlace DEF RingTypeOK
<1>1. RingTypeOK' BY <1>0 DEF RingTypeOK
<1>2. readIndex # writeIndex
  BY StartMoves DEF RingTypeOK, Views, HasItem
<1>3. Views'
  <2>1. Gap(readView, readIndex') + Gap(readIndex', writeIndex) = Gap(readView, writeIndex)
    BY <1>0, <1>2, MiddleMoves DEF RingTypeOK, Views
  <2>2. Gap(readIndex', writeView) + Gap(writeView, writeIndex) = Gap(readIndex', writeIndex)
    BY <1>0, StartMoves DEF RingTypeOK, Views, HasItem
  <2> QED BY <2>1, <2>2 DEF Views
<1>4. HasRoom' BY DEF HasRoom
<1>5. HasItem' BY DEF HasItem
<1>6. Entries'
  <2>1. Gap(readIndex', writeIndex) = Gap(readIndex, writeIndex) - 1
    BY <1>0, <1>2, GapGrows DEF RingTypeOK
  <2>2. \A i \in Index : i # readIndex => Gap(readIndex', i) = Gap(readIndex, i) - 1
    BY <1>0, GapGrows DEF RingTypeOK
  <2>3. Gap(readIndex', readIndex) = QueueCapacity
    BY <1>0, GapGrows DEF RingTypeOK
  <2>4. \A i \in Index : Holds(i)' <=> Holds(i) /\ i # readIndex
    <3>1. Gap(readIndex, writeIndex) \in 0..QueueCapacity
      BY DistanceIsGap DEF RingTypeOK, Index, Size
    <3>2. \A i \in Index : Gap(readIndex, i) \in Nat
      <4>1. readIndex \in Index BY DEF RingTypeOK
      <4> QED BY ONLY <4>1, DistanceIsGap, SizeType DEF Index
    <3>3. \A i \in Index : Holds(i)' <=> Gap(readIndex', i) < Gap(readIndex, writeIndex) - 1
      BY <2>1 DEF Holds, Gap, Index
    <3>4. \A i \in Index : Holds(i) <=> Gap(readIndex, i) < Gap(readIndex, writeIndex)
      BY DEF Holds
    <3> QED BY ONLY <3>1, <3>2, <3>3, <3>4, <2>2, <2>3, SizeType
  <2>5. pop.pc' = "delete" BY DEF RingTypeOK
  <2>6. \A i \in Index : Filled(i)' <=> Filled(i)
    BY <2>4, <2>5 DEF Filled
  <2> QED BY <2>6 DEF Entries
<1>7. Offered' BY DEF RingTypeOK, Offered
<1>8. Removed' BY DEF RingTypeOK, Removed
<1> QED BY <1>1, <1>3, <1>4, <1>5, <1>6, <1>7, <1>8

LEMMA DeleteInv == ASSUME RingInv, Delete PROVE RingInv'
<1> USE SizeType, NoNodeAssumption DEF RingInv, Delete
<1>1. RingTypeOK' BY DEF RingTypeOK, Index
<1>2. Views' BY DEF Views
<1>3. HasRoom' BY DEF RingTypeOK, Views, HasRoom, HasItem
<1>4. HasItem' BY DEF RingTypeOK, Views, HasRoom, HasItem
<1>5. Entries' BY DEF RingTypeOK, Views, HasRoom, HasItem, RingTypeOK, Entries, Filled, Offered, Removed, Holds, Gap, Index
<1>6. Offered' BY DEF RingTypeOK, Views, HasRoom, HasItem, RingTypeOK, Entries, Filled, Offered, Removed, Holds, Gap, Index
<1>7. Removed' BY DEF RingTypeOK, Views, HasRoom, HasItem, RingTypeOK, Entries, Filled, Offered, Removed, Holds, Gap, Index
<1> QED BY <1>1, <1>2, <1>3, <1>4, <1>5, <1>6, <1>7

LEMMA ResetIndicesInv == ASSUME RingInv, ResetIndices PROVE RingInv'
<1> USE SizeType, NoNodeAssumption DEF RingInv, ResetIndices
<1>0. 0 \in Index BY DEF Index
<1>1. RingTypeOK' BY <1>0 DEF RingTypeOK
<1>2. Views' BY DEF Views, Gap
<1>3. HasRoom' BY DEF HasRoom
<1>4. HasItem' BY DEF HasItem
<1>5. Entries' BY DEF Entries, Filled, Holds, Gap, Index
<1>6. Offered' BY <1>1 DEF RingTypeOK, Entries, Filled, Offered, Removed
<1>7. Removed' BY <1>1 DEF RingTypeOK, Entries, Filled, Offered, Removed
<1> QED BY <1>1, <1>2, <1>3, <1>4, <1>5, <1>6, <1>7

-----------------------------------------------------------------------------
(* The ring is sound.                                                      *)

LEMMA RingInvNext == RingInv /\ [RingNext]_ringVars => RingInv'
<1> SUFFICES ASSUME RingInv, [RingNext]_ringVars PROVE RingInv' OBVIOUS
<1>1. CASE Push
  BY <1>1, PushCallInv, PushFullInv, PushRoomInv, PushWriteInv, PushReleaseInv DEF Push
<1>2. CASE Pop
  BY <1>2, PopEmptyInv, PopSeenInv, PopTakeInv, PopEraseInv, PopReleaseInv, DeleteInv
     DEF Pop
<1>3. CASE ResetIndices BY <1>3, ResetIndicesInv
<1>4. CASE UNCHANGED ringVars
  BY <1>4 DEF ringVars, RingInv, RingTypeOK, Views, HasRoom, HasItem, Entries, Filled, Holds,
              Offered, Removed, Gap
<1> QED BY <1>1, <1>2, <1>3, <1>4 DEF RingNext

LEMMA RingInvIsSound == RingInv => RingSound
<1> SUFFICES ASSUME RingInv PROVE RingSound OBVIOUS
<1>1. NoDataRace
  BY StartMoves DEF RingInv, RingTypeOK, Views, HasItem, NoDataRace
<1>2. EntriesExact
  <2>1. \A i : i \in Occupied <=> Holds(i)
    BY OccupiedIsHeld DEF RingInv, RingTypeOK
  <2> QED BY <2>1 DEF RingInv, Entries, Filled, EntriesExact
<1> QED BY <1>1, <1>2 DEF RingInv, RingSound

LEMMA RingInvariant == RingSpec => []RingInv
BY RingInvInit, RingInvNext, PTL DEF RingSpec

(* Of the two threads' plain accesses to entries_ no two ever meet, push     *)
(* overwrites no node that has not been popped, and pop leaves none behind,  *)
(* for every capacity, however stale the indices that the two threads see.   *)
THEOREM RingIsSound == RingSpec => []RingSound
BY RingInvariant, RingInvIsSound, PTL

-----------------------------------------------------------------------------
(* The ring implements the bounded queue.                                  *)

ItemsOf(r, w, e, removed) ==
    [k \in 1..Gap(r, w) |-> IF k = 1 /\ removed.pc = "release" THEN removed.node
                            ELSE e[Place(r, k - 1)]]

Items == ItemsOf(readIndex, writeIndex, entries, pop)

LEMMA ItemsWithoutRemainders ==
    ASSUME NEW r \in Index, NEW w \in Index, NEW e, NEW removed
    PROVE  [k \in 1..Distance(r, w) |->
               IF k = 1 /\ removed.pc = "release" THEN removed.node
               ELSE e[(r + k - 1) % Size]] = ItemsOf(r, w, e, removed)
<1>1. Distance(r, w) = Gap(r, w) /\ Gap(r, w) \in 0..(Size - 1)
  BY DistanceIsGap DEF Index
<1>2. \A k \in 1..Gap(r, w) : (r + k - 1) % Size = Place(r, k - 1)
  <2>1. \A k \in 1..Gap(r, w) : k - 1 \in Index /\ r + (k - 1) = r + k - 1
    BY <1>1, SizeType DEF Index
  <2>2. \A k \in Index : (r + k) % Size = Place(r, k) BY PlaceIsRemainder
  <2> QED BY <2>1, <2>2
<1> QED BY <1>1, <1>2 DEF ItemsOf

LEMMA Mapping ==
    ASSUME RingTypeOK
    PROVE  /\ [k \in 1..Distance(readIndex, writeIndex) |-> ItemAt(k)] = Items
           /\ Distance(readView, readIndex) = Gap(readView, readIndex)
BY ItemsWithoutRemainders, DistanceIsGap DEF RingTypeOK, ItemAt, Items

LEMMA MappingNext ==
    ASSUME RingTypeOK'
    PROVE  /\ ([k \in 1..Distance(readIndex, writeIndex) |-> ItemAt(k)] = Items)'
           /\ (Distance(readView, readIndex) = Gap(readView, readIndex))'
<1>1. {writeIndex', readIndex', readView'} \subseteq Index BY DEF RingTypeOK, Index
<1>2. ([k \in 1..Distance(readIndex, writeIndex) |-> ItemAt(k)] = Items)'
  BY <1>1, ItemsWithoutRemainders DEF ItemAt, Items
<1>3. Distance(readView', readIndex') = Gap(readView', readIndex')
  BY <1>1, DistanceIsGap
<1> QED BY <1>2, <1>3 DEF Distance, Gap

LEMMA FifoInitially == RingInit => Fifo!FifoInit
<1> SUFFICES ASSUME RingInit PROVE Fifo!FifoInit OBVIOUS
<1>1. RingTypeOK BY RingInvInit DEF RingInv
<1>2. Items = <<>> /\ Gap(readView, readIndex) = 0
  BY DEF RingInit, Items, ItemsOf, Gap
<1> QED BY <1>1, <1>2, Mapping DEF RingInit, Fifo!FifoInit

\* What the queue holds are nodes, and as many as lie between the indices.
LEMMA ItemsAreNodes ==
    ASSUME RingInv
    PROVE  /\ Gap(readIndex, writeIndex) \in Nat
           /\ Len(Items) = Gap(readIndex, writeIndex)
           /\ Items \in Seq(Item)
           /\ \A k \in 1..Gap(readIndex, writeIndex) :
                 Place(readIndex, k - 1) \in Index /\ Holds(Place(readIndex, k - 1))
<1>1. Gap(readIndex, writeIndex) \in 0..(Size - 1)
  BY DistanceIsGap DEF Index, RingInv, RingTypeOK
<1>2. ASSUME NEW k \in 1..Gap(readIndex, writeIndex)
      PROVE  /\ Place(readIndex, k - 1) \in Index /\ Holds(Place(readIndex, k - 1))
             /\ Place(readIndex, k - 1) = readIndex => k = 1
  <2>1. k - 1 \in Index /\ k - 1 < Gap(readIndex, writeIndex)
    BY <1>1, SizeType DEF Index
  <2>2. Place(readIndex, k - 1) \in Index /\ Gap(readIndex, Place(readIndex, k - 1)) = k - 1
    BY <2>1, PlaceIsRemainder, GapOfPlace DEF RingInv, RingTypeOK
  <2>3. Gap(readIndex, readIndex) = 0 BY GapGrows DEF RingInv, RingTypeOK
  <2>4. k \in Int BY <1>1
  <2> QED BY <2>1, <2>2, <2>3, <2>4 DEF Holds
<1>3. ASSUME NEW k \in 1..Gap(readIndex, writeIndex)
      PROVE  (IF k = 1 /\ pop.pc = "release" THEN pop.node
              ELSE entries[Place(readIndex, k - 1)]) \in Item
  BY <1>2 DEF RingInv, RingTypeOK, Entries, Filled, Removed
<1>4. /\ Gap(readIndex, writeIndex) \in Nat
      /\ Items \in [1..Gap(readIndex, writeIndex) -> Item]
  BY <1>1, <1>3, SizeType DEF Items, ItemsOf
<1>5. \A n \in Nat : \A s \in [1..n -> Item] : s \in Seq(Item) /\ Len(s) = n
  OBVIOUS
<1> QED BY <1>2, <1>4, <1>5

LEMMA PushCallOffers ==
    ASSUME NEW n \in Item, RingInv, RingInv', PushCall(n) PROVE Fifo!Offer(n)
<1>1. Items' = Items BY DEF PushCall, Items
<1>2. n \notin Fifo!Range(Items)
  BY ItemsAreNodes DEF PushCall, Held, Items, ItemsOf, Fifo!Range
<1>3. Gap(readView, readIndex)' = Gap(readView, readIndex) BY DEF PushCall, Gap
<1> QED
  BY <1>1, <1>2, <1>3, Mapping, MappingNext, NoNodeAssumption
     DEF PushCall, Held, RingInv, Offered, Fifo!Offer

LEMMA PushFullRefuses ==
    ASSUME RingInv, RingInv', PushFull PROVE Fifo!Refuse
<1>1. Items' = Items /\ Gap(readView, readIndex)' = Gap(readView', readIndex)
  BY DEF PushFull, Items, Gap
<1>2. /\ readView' \in Index
      /\ Gap(readView, readView') + Gap(readView', readIndex) = Gap(readView, readIndex)
  BY LoadableIsBetween DEF PushFull, RingInv, RingTypeOK
<1>3. /\ Gap(readView', readIndex) \in 0..Gap(readView, readIndex)
      /\ Gap(readView', readIndex) \in Nat
  BY <1>2, GapType DEF RingInv, RingTypeOK
<1>4. Gap(readView', readIndex) + Gap(readIndex, writeIndex) = QueueCapacity
  BY <1>2, GapsAdd, GapGrows, AdvanceIsPlace DEF PushFull, RingInv, RingTypeOK, Views
<1>5. Len(Items) = Gap(readIndex, writeIndex) /\ Gap(readIndex, writeIndex) \in Nat
  BY ItemsAreNodes
<1>6. Len(Items) + Gap(readView', readIndex) = QueueCapacity BY <1>3, <1>4, <1>5
<1> QED
  BY <1>1, <1>3, <1>6, Mapping, MappingNext
     DEF PushFull, RingInv, Offered, Fifo!Refuse

LEMMA PushRoomObserves ==
    ASSUME RingInv, RingInv', PushRoom PROVE Fifo!Observe
<1>1. Items' = Items /\ Gap(readView, readIndex)' = Gap(readView', readIndex)
  BY DEF PushRoom, Items, Gap
<1>2. /\ readView' \in Index
      /\ Gap(readView, readView') + Gap(readView', readIndex) = Gap(readView, readIndex)
  BY LoadableIsBetween DEF PushRoom, RingInv, RingTypeOK
<1>3. Gap(readView', readIndex) \in 0..Gap(readView, readIndex)
  BY <1>2, GapType DEF RingInv, RingTypeOK
<1> QED
  BY <1>1, <1>3, Mapping, MappingNext DEF PushRoom, RingInv, RingTypeOK, Fifo!Observe

LEMMA PushWriteStutters ==
    ASSUME RingInv, RingInv', PushWrite PROVE UNCHANGED Fifo!fifoVars
<1>1. \A k \in 1..Gap(readIndex, writeIndex) : Place(readIndex, k - 1) # writeIndex
  <2>1. \A n \in Nat : ~(n < n) OBVIOUS
  <2> QED BY <2>1, ItemsAreNodes DEF Holds
<1>2. Items' = Items
  BY <1>1, ItemsAreNodes DEF PushWrite, Items, ItemsOf, RingInv, RingTypeOK
<1>3. Gap(readView, readIndex)' = Gap(readView, readIndex) BY DEF PushWrite, Gap
<1> QED
  BY <1>2, <1>3, Mapping, MappingNext DEF PushWrite, RingInv, RingTypeOK, Fifo!fifoVars

LEMMA PushReleaseAccepts ==
    ASSUME RingInv, RingInv', PushRelease PROVE Fifo!Accept
<1> DEFINE n == Gap(readIndex, writeIndex)
<1>0. /\ writeIndex' = Place(writeIndex, 1) /\ writeIndex' \in Index
      /\ readIndex \in Index /\ writeIndex \in Index /\ readView \in Index
  BY AdvanceIsPlace DEF PushRelease, RingInv, RingTypeOK
<1>1. writeIndex' # readIndex
  BY <1>0, EndMoves DEF PushRelease, RingInv, Views, HasRoom
<1>2. Gap(readIndex, writeIndex') = n + 1
  BY <1>0, <1>1, GapGrows
<1>3. n \in Nat /\ Len(Items) = n /\ Items \in Seq(Item) BY ItemsAreNodes
<1>4. Place(readIndex, n) = writeIndex BY <1>0, PlaceOfGap
<1>5. push.node = entries[writeIndex] /\ push.node \in Item
  BY DEF PushRelease, RingInv, RingTypeOK, Offered
<1>6. n = 0 => pop.pc # "release"
  BY <1>0, StartMoves, GapGrows DEF RingInv, RingTypeOK, Views, HasItem
<1>7. Items' = [k \in 1..(n + 1) |-> IF k = 1 /\ pop.pc = "release" THEN pop.node
                                    ELSE entries[Place(readIndex, k - 1)]]
  BY <1>2 DEF PushRelease, Items, ItemsOf
<1>8. Items' = Append(Items, push.node)
  <2>1. Items = [k \in 1..n |-> IF k = 1 /\ pop.pc = "release" THEN pop.node
                                ELSE entries[Place(readIndex, k - 1)]]
    BY DEF Items, ItemsOf
  <2> HIDE DEF n
  <2> QED BY <1>3, <1>4, <1>5, <1>6, <1>7, <2>1
<1>9. Gap(readIndex, writeIndex) + Gap(readView, readIndex) < QueueCapacity
  <2>1. Gap(readView, writeIndex') = Gap(readView, writeIndex) + 1
    BY <1>0, GapGrows DEF PushRelease, RingInv, HasRoom
  <2>2. Gap(readView, writeIndex') \in 0..QueueCapacity
    BY <1>0, DistanceIsGap, SizeType DEF Index
  <2>3. Gap(readView, readIndex) + Gap(readIndex, writeIndex) = Gap(readView, writeIndex)
    BY DEF RingInv, Views
  <2>4. /\ Gap(readView, readIndex) \in Nat /\ Gap(readIndex, writeIndex) \in Nat
        /\ Gap(readView, writeIndex) \in Nat
    BY <1>0, DistanceIsGap, SizeType DEF Index
  <2> QED BY <2>1, <2>2, <2>3, <2>4, SizeType
<1>10. Gap(readView, readIndex)' = Gap(readView, readIndex) BY DEF PushRelease, Gap
<1> QED
  BY <1>3, <1>5, <1>8, <1>9, <1>10, Mapping, MappingNext, NoNodeAssumption
     DEF PushRelease, RingInv, Fifo!Accept

\* What pop does before the release store changes nothing for the queue.
LEMMA PopSeenStutters ==
    ASSUME RingInv, RingInv', PopEmpty \/ PopSeen PROVE UNCHANGED Fifo!fifoVars
<1>1. Items' = Items BY DEF PopEmpty, PopSeen, Items, ItemsOf, RingInv, RingTypeOK
<1>2. Gap(readView, readIndex)' = Gap(readView, readIndex) BY DEF PopEmpty, PopSeen, Gap
<1> QED
  BY <1>1, <1>2, Mapping, MappingNext
     DEF PopEmpty, PopSeen, RingInv, RingTypeOK, Fifo!fifoVars

LEMMA PopTakeStutters ==
    ASSUME RingInv, RingInv', PopTake PROVE UNCHANGED Fifo!fifoVars
<1>1. Items' = Items BY DEF PopTake, Items, ItemsOf, RingInv, RingTypeOK
<1>2. Gap(readView, readIndex)' = Gap(readView, readIndex) BY DEF PopTake, Gap
<1> QED
  BY <1>1, <1>2, Mapping, MappingNext DEF PopTake, RingInv, RingTypeOK, Fifo!fifoVars

LEMMA PopEraseStutters ==
    ASSUME RingInv, RingInv', PopErase PROVE UNCHANGED Fifo!fifoVars
<1>1. \A k \in 1..Gap(readIndex, writeIndex) :
         Place(readIndex, k - 1) = readIndex <=> k = 1
  <2>1. Gap(readIndex, writeIndex) \in 0..QueueCapacity /\ readIndex \in Index
    BY GapType DEF RingInv, RingTypeOK
  <2>2. \A k \in 1..Gap(readIndex, writeIndex) : k - 1 \in Index
    BY <2>1, SizeType DEF Index
  <2>3. \A k \in Index : Place(readIndex, k) = readIndex <=> k = 0
    BY <2>1, SizeType DEF Index, Place
  <2> QED BY <2>1, <2>2, <2>3
<1>2. Items' = Items
  <2>1. entries[readIndex] = pop.node /\ pop.pc = "erase" /\ pop'.pc = "release"
        /\ pop'.node = pop.node
    BY DEF PopErase, RingInv, RingTypeOK, Removed
  <2>2. \A i \in Index : i # readIndex => entries'[i] = entries[i]
    BY DEF PopErase, RingInv, RingTypeOK
  <2>3. readIndex' = readIndex /\ writeIndex' = writeIndex BY DEF PopErase
  <2> QED BY <1>1, <2>1, <2>2, <2>3, ItemsAreNodes DEF Items, ItemsOf
<1>3. Gap(readView, readIndex)' = Gap(readView, readIndex) BY DEF PopErase, Gap
<1> QED
  BY <1>2, <1>3, Mapping, MappingNext DEF PopErase, RingInv, RingTypeOK, Fifo!fifoVars

LEMMA PopReleaseTakesHead ==
    ASSUME RingInv, RingInv', PopRelease PROVE Fifo!TakeHead
<1> DEFINE n == Gap(readIndex, writeIndex)
<1>0. /\ readIndex' = Place(readIndex, 1) /\ readIndex' \in Index
      /\ readIndex \in Index /\ writeIndex \in Index /\ readView \in Index
  BY AdvanceIsPlace DEF PopRelease, RingInv, RingTypeOK
<1>1. readIndex # writeIndex
  BY <1>0, StartMoves DEF PopRelease, RingInv, RingTypeOK, Views, HasItem
<1>2. Gap(readIndex', writeIndex) = n - 1 /\ n # 0
  BY <1>0, <1>1, GapGrows
<1>3. n \in Nat /\ Len(Items) = n /\ Items \in Seq(Item) BY ItemsAreNodes
<1>4. n - 1 \in 0..(QueueCapacity - 1)
  <2>1. n <= QueueCapacity BY <1>0, GapType
  <2> HIDE DEF n
  <2> QED BY <1>2, <1>3, <2>1, SizeType
<1>5. \A k \in 1..(n - 1) : Place(readIndex', k - 1) = Place(readIndex, k)
  <2>1. \A k \in 1..(n - 1) : k \in 1..(Size - 1) BY <1>4, SizeType
  <2>2. \A k \in 1..(Size - 1) : Place(Place(readIndex, 1), k - 1) = Place(readIndex, k)
    BY <1>0, SizeType DEF Place, Index
  <2> QED BY <1>0, <2>1, <2>2
<1>6. Items = [k \in 1..n |-> IF k = 1 THEN pop.node ELSE entries[Place(readIndex, k - 1)]]
  BY DEF PopRelease, Items, ItemsOf
<1>7. Items' = [k \in 1..(n - 1) |-> entries[Place(readIndex, k)]]
  <2>1. /\ Items' = ItemsOf(readIndex', writeIndex, entries, pop')
        /\ pop'.pc = "delete"
    BY DEF PopRelease, RingInv, RingTypeOK, Items
  <2> QED BY <1>2, <1>5, <2>1 DEF ItemsOf
<1>8. Items # <<>> /\ Head(Items) = pop.node /\ Items' = Tail(Items)
  <2> HIDE DEF n
  <2>1. Items # <<>> /\ Head(Items) = pop.node BY <1>2, <1>3, <1>6
  <2>2. Tail(Items) = [k \in 1..(n - 1) |-> Items[k + 1]] 
    <3>1. /\ Tail(Items) \in Seq(Item) /\ Len(Tail(Items)) = n - 1
          /\ \A k \in 1..(n - 1) : Tail(Items)[k] = Items[k + 1]
      BY <1>3, <2>1, HeadTailProperties
    <3>2. Tail(Items) \in [1..(n - 1) -> Item] BY <3>1, LenProperties
    <3> QED BY <3>1, <3>2
  <2>3. \A k \in 1..(n - 1) : Items[k + 1] = entries[Place(readIndex, k)]
    BY <1>3, <1>6
  <2> QED BY <1>7, <2>1, <2>2, <2>3
<1>9. Gap(readView, readIndex') = Gap(readView, readIndex) + 1
  BY <1>0, <1>1, MiddleMoves, GapGrows DEF RingInv, Views
<1>10. Gap(readView, readIndex)' = Gap(readView, readIndex') BY DEF PopRelease, Gap
<1> QED
  BY <1>8, <1>9, <1>10, Mapping, MappingNext DEF PopRelease, RingInv, RingTypeOK, Fifo!TakeHead

LEMMA DeleteDisposes ==
    ASSUME RingInv, RingInv', Delete PROVE Fifo!Dispose
<1>1. Items' = Items BY DEF Delete, Items, ItemsOf, RingInv, RingTypeOK
<1>2. Gap(readView, readIndex)' = Gap(readView, readIndex) BY DEF Delete, Gap
<1> QED
  BY <1>1, <1>2, Mapping, MappingNext DEF Delete, RingInv, RingTypeOK, Fifo!Dispose

LEMMA ResetObserves ==
    ASSUME RingInv, RingInv', ResetIndices PROVE Fifo!Observe
<1>1. Gap(readIndex, writeIndex) = 0 /\ Gap(readIndex, writeIndex)' = 0
  BY GapGrows DEF ResetIndices, RingInv, RingTypeOK, Gap
<1>2. Items' = Items BY <1>1 DEF Items, ItemsOf
<1>3. Gap(readView, readIndex)' = 0 /\ Gap(readView, readIndex) \in Nat
  BY GapType DEF ResetIndices, RingInv, RingTypeOK, Gap
<1>4. \A n \in Nat : 0 \in 0..n OBVIOUS
<1> QED
  BY <1>2, <1>3, <1>4, Mapping, MappingNext
     DEF ResetIndices, RingInv, Fifo!Observe

LEMMA FifoStep ==
    RingInv /\ RingInv' /\ [RingNext]_ringVars => [Fifo!FifoNext]_(Fifo!fifoVars)
<1> SUFFICES ASSUME RingInv, RingInv', [RingNext]_ringVars
             PROVE  Fifo!FifoNext \/ UNCHANGED Fifo!fifoVars
  OBVIOUS
<1>1. CASE Push
  BY <1>1, PushCallOffers, PushFullRefuses, PushRoomObserves, PushWriteStutters,
     PushReleaseAccepts DEF Push, Fifo!FifoNext
<1>2. CASE Pop
  BY <1>2, PopSeenStutters, PopTakeStutters, PopEraseStutters, PopReleaseTakesHead,
     DeleteDisposes DEF Pop, Fifo!FifoNext
<1>3. CASE ResetIndices BY <1>3, ResetObserves DEF Fifo!FifoNext
<1>4. CASE UNCHANGED ringVars
  <2>1. Items' = Items /\ Gap(readView, readIndex)' = Gap(readView, readIndex)
    BY <1>4 DEF ringVars, Items, Gap
  <2> QED BY <1>4, <2>1, Mapping, MappingNext DEF ringVars, RingInv, Fifo!fifoVars
<1> QED BY <1>1, <1>2, <1>3, <1>4 DEF RingNext

(* RetiredQueue is a first-in first-out queue of QueueCapacity nodes: what push    *)
(* has accepted comes out once and in order, and push hands a node back only  *)
(* when the nodes in the queue, with those removed since it last saw          *)
(* read_index_, are QueueCapacity.                                                 *)
THEOREM RingImplementsFifo == RingSpec => ImplementsFifo
BY RingInvariant, FifoInitially, FifoStep, PTL DEF RingSpec, ImplementsFifo, Fifo!FifoSpec

=============================================================================
