---------------------------- MODULE RetiredQueue ----------------------------
(***************************************************************************)
(* RealtimeModelSlot::RetiredQueue, the ring buffer that carries models the *)
(* audio thread has finished with to the thread that may destroy them.      *)
(*                                                                         *)
(* One producer (the audio thread, push) and one consumer (the collector,   *)
(* pop).  Every access to a location the other thread also accesses is a    *)
(* step of its own: the acquire load of the other side's index, the plain   *)
(* accesses to an entry, the release store of one's own index.  Each thread *)
(* reads its own index exactly.  The acquire load of the other's index may  *)
(* return any value not older than the last one this thread saw, which is   *)
(* all C++ promises: readView and writeView are the last values seen.       *)
(***************************************************************************)
EXTENDS Integers, Sequences, FiniteSets

CONSTANTS Item,          \* addresses of model nodes
          NoNode,        \* nullptr
          QueueCapacity  \* kRetiredQueueCapacity

ASSUME QueueCapacityAssumption == QueueCapacity \in Nat \ {0}
ASSUME NoNodeAssumption == NoNode \notin Item

VARIABLES entries,     \* entries_
          writeIndex,  \* write_index_
          readIndex,   \* read_index_
          readView,    \* the value of read_index_ the producer saw last
          writeView,   \* the value of write_index_ the consumer saw last
          push,        \* the call of push in progress: its pc and its argument
          pop          \* the call of pop in progress: its pc and its result

ringVars == <<entries, writeIndex, readIndex, readView, writeView, push, pop>>

-----------------------------------------------------------------------------
\* One entry stays unused so that full and empty differ.
Size == QueueCapacity + 1

Index == 0..(Size - 1)

Advance(i) == (i + 1) % Size

\* How many entries lie from index i up to, and without, index j.
Distance(i, j) == (j - i) % Size

\* The entries that hold a pushed node not yet removed.
Occupied == {(readIndex + k) % Size : k \in 0..(Distance(readIndex, writeIndex) - 1)}

\* What an acquire load of an index may return to a thread that last saw seen.
Loadable(seen, index) == {(seen + k) % Size : k \in 0..Distance(seen, index)}

RingInit == /\ entries = [i \in Index |-> NoNode]
            /\ writeIndex = 0
            /\ readIndex = 0
            /\ readView = 0
            /\ writeView = 0
            /\ push = [pc |-> "idle", node |-> NoNode]
            /\ pop = [pc |-> "idle", node |-> NoNode]

-----------------------------------------------------------------------------
(* The audio thread: push.  The node offered is one it owns, so it is not   *)
(* in the queue and not in the collector's hands.                           *)

Held == {entries[i] : i \in Index} \cup {pop.node}

PushCall(n) ==
    /\ push.pc = "idle"
    /\ n \notin Held
    /\ push' = [pc |-> "check", node |-> n]
    /\ UNCHANGED <<entries, writeIndex, readIndex, readView, writeView, pop>>

\* next == read_index_.load(acquire): the queue is full, push returns false.
PushFull ==
    /\ push.pc = "check"
    /\ readView' \in Loadable(readView, readIndex)
    /\ Advance(writeIndex) = readView'
    /\ push' = [pc |-> "idle", node |-> NoNode]
    /\ UNCHANGED <<entries, writeIndex, readIndex, writeView, pop>>

\* Variant: push does not look whether there is room.
PushRoomUnchecked ==
    /\ push.pc = "check"
    /\ push' = [push EXCEPT !.pc = "write"]
    /\ UNCHANGED <<entries, writeIndex, readIndex, readView, writeView, pop>>

PushRoom ==
    /\ push.pc = "check"
    /\ readView' \in Loadable(readView, readIndex)
    /\ Advance(writeIndex) # readView'
    /\ push' = [push EXCEPT !.pc = "write"]
    /\ UNCHANGED <<entries, writeIndex, readIndex, writeView, pop>>

PushWrite ==
    /\ push.pc = "write"
    /\ entries' = [entries EXCEPT ![writeIndex] = push.node]
    /\ push' = [push EXCEPT !.pc = "release"]
    /\ UNCHANGED <<writeIndex, readIndex, readView, writeView, pop>>

PushRelease ==
    /\ push.pc = "release"
    /\ writeIndex' = Advance(writeIndex)
    /\ push' = [pc |-> "idle", node |-> NoNode]
    /\ UNCHANGED <<entries, readIndex, readView, writeView, pop>>

-----------------------------------------------------------------------------
(* The collector: pop, and what collect_retired does with the result.       *)

PopEmpty ==
    /\ pop.pc = "idle"
    /\ writeView' \in Loadable(writeView, writeIndex)
    /\ readIndex = writeView'
    /\ UNCHANGED <<entries, writeIndex, readIndex, readView, push, pop>>

PopSeen ==
    /\ pop.pc = "idle"
    /\ writeView' \in Loadable(writeView, writeIndex)
    /\ readIndex # writeView'
    /\ pop' = [pop EXCEPT !.pc = "take"]
    /\ UNCHANGED <<entries, writeIndex, readIndex, readView, push>>

PopTake ==
    /\ pop.pc = "take"
    /\ pop' = [pc |-> "erase", node |-> entries[readIndex]]
    /\ UNCHANGED <<entries, writeIndex, readIndex, readView, writeView, push>>

\* Variant: the entry keeps its pointer.
PopEraseNothing ==
    /\ pop.pc = "erase"
    /\ pop' = [pop EXCEPT !.pc = "release"]
    /\ UNCHANGED <<entries, writeIndex, readIndex, readView, writeView, push>>

PopErase ==
    /\ pop.pc = "erase"
    /\ entries' = [entries EXCEPT ![readIndex] = NoNode]
    /\ pop' = [pop EXCEPT !.pc = "release"]
    /\ UNCHANGED <<writeIndex, readIndex, readView, writeView, push>>

\* Variant: pop gives the entry back and forgets the node.
PopReleaseForgets ==
    /\ pop.pc = "release"
    /\ readIndex' = Advance(readIndex)
    /\ pop' = [pc |-> "idle", node |-> NoNode]
    /\ UNCHANGED <<entries, writeIndex, readView, writeView, push>>

PopRelease ==
    /\ pop.pc = "release"
    /\ readIndex' = Advance(readIndex)
    /\ pop' = [pop EXCEPT !.pc = "delete"]
    /\ UNCHANGED <<entries, writeIndex, readView, writeView, push>>

Delete ==
    /\ pop.pc = "delete"
    /\ pop' = [pc |-> "idle", node |-> NoNode]
    /\ UNCHANGED <<entries, writeIndex, readIndex, readView, writeView, push>>

-----------------------------------------------------------------------------
\* clear_non_realtime: no other thread runs and the queue has been drained.
ResetIndices ==
    /\ push.pc = "idle"
    /\ pop.pc = "idle"
    /\ readIndex = writeIndex
    /\ entries' = [i \in Index |-> NoNode]
    /\ writeIndex' = 0
    /\ readIndex' = 0
    /\ readView' = 0
    /\ writeView' = 0
    /\ UNCHANGED <<push, pop>>

Push == (\E n \in Item : PushCall(n)) \/ PushFull \/ PushRoom \/ PushWrite \/ PushRelease

Pop == PopEmpty \/ PopSeen \/ PopTake \/ PopErase \/ PopRelease \/ Delete

RingNext == Push \/ Pop \/ ResetIndices

RingSpec == RingInit /\ [][RingNext]_ringVars

(***************************************************************************)
(* A started push is finished by the audio thread; collect_retired is       *)
(* called again and again (the worker polls every 10 ms), and a released    *)
(* index becomes visible to an acquire load in finite time.                 *)
(***************************************************************************)
RingFairness == /\ WF_ringVars(PushFull \/ PushRoom \/ PushWrite \/ PushRelease)
                /\ WF_ringVars(PopSeen /\ writeView' = writeIndex)
                /\ WF_ringVars(PopTake \/ PopErase \/ PopRelease \/ Delete)

RingFairSpec == RingSpec /\ RingFairness

-----------------------------------------------------------------------------
(* Properties *)

\* Every variable has its type (entries_, the indices and the calls in progress).
RingTypeOK ==
    /\ entries \in [Index -> Item \cup {NoNode}]
    /\ {writeIndex, readIndex, readView, writeView} \subseteq Index
    /\ push \in [pc : {"idle", "check", "write", "release"}, node : Item \cup {NoNode}]
    /\ pop \in [pc : {"idle", "take", "erase", "release", "delete"}, node : Item \cup {NoNode}]

\* The plain accesses of push and pop to entries_ never meet in one entry: the
\* two index hand-overs order them, so the program has no data race there.
NoDataRace ==
    push.pc \in {"write", "release"} /\ pop.pc \in {"take", "erase", "release"}
        => writeIndex # readIndex

\* An entry holds a node exactly while that node is in transit, and no node is
\* in two entries: push never overwrites a node that nobody popped (a leak), and
\* pop leaves no dangling pointer behind (a later double delete).
EntriesExact ==
    /\ \A i \in Index :
         entries[i] # NoNode <=>
             \/ i \in Occupied /\ ~(i = readIndex /\ pop.pc = "release")
             \/ i = writeIndex /\ push.pc = "release"
    /\ \A i, j \in Index : entries[i] = entries[j] /\ entries[i] # NoNode => i = j

\* The ring between the two threads: no race on an entry, none overwritten or
\* left behind.
RingSound == RingTypeOK /\ NoDataRace /\ EntriesExact

\* Between the erase and the release store the head is in the collector's hands.
ItemAt(k) == IF k = 1 /\ pop.pc = "release" THEN pop.node
             ELSE entries[(readIndex + k - 1) % Size]

\* The ring buffer implements the bounded queue: nodes come out in the order
\* push released them, each once, none is lost, and push returns false only
\* when QueueCapacity nodes are in the queue or removed without its knowledge.
Fifo == INSTANCE BoundedFifo WITH
            Node <- Item, Null <- NoNode, Capacity <- QueueCapacity,
            items <- [k \in 1..Distance(readIndex, writeIndex) |-> ItemAt(k)],
            unseen <- Distance(readView, readIndex),
            offered <- push.node,
            delivered <- IF pop.pc = "delete" THEN pop.node ELSE NoNode

ImplementsFifo == Fifo!FifoSpec

\* A node that push has accepted is eventually taken out for destruction, how
\* often the collector's loads may have missed it before.
AcceptedIsDelivered ==
    \A n \in Item :
        (\E i \in Occupied : entries[i] = n) ~> (pop.pc = "delete" /\ pop.node = n)
=============================================================================
