---------------------------- MODULE BoundedFifo ----------------------------
(***************************************************************************)
(* What RetiredQueue promises its two threads: a first-in first-out queue   *)
(* of at most Capacity nodes.  A node offered by the audio thread is either *)
(* accepted, at the tail, or handed back; the collector takes nodes from    *)
(* the head.  A removal becomes visible to the audio thread some time after *)
(* it happened, so an offer may be refused although a place has just become *)
(* free, but only if the removals it has not yet seen account for it.       *)
(***************************************************************************)
EXTENDS Naturals, Sequences, Functions

CONSTANTS Node,      \* the nodes that travel through the queue
          Null,      \* no node
          Capacity   \* how many nodes the queue holds (kRetiredQueueCapacity)

VARIABLES items,      \* the nodes in the queue, oldest first
          unseen,     \* removals the producer has not observed yet
          offered,    \* the node being pushed, or Null
          delivered   \* the node popped and not yet disposed of, or Null

fifoVars == <<items, unseen, offered, delivered>>

FifoInit == /\ items = <<>>
            /\ unseen = 0
            /\ offered = Null
            /\ delivered = Null

Offer(n) == /\ offered = Null
            /\ n \notin Range(items) \cup {delivered}
            /\ offered' = n
            /\ UNCHANGED <<items, unseen, delivered>>

\* The producer catches up with some of the removals.
Observe == /\ unseen' \in 0..unseen
           /\ UNCHANGED <<items, offered, delivered>>

Accept == /\ offered # Null
          /\ Len(items) + unseen < Capacity
          /\ items' = Append(items, offered)
          /\ offered' = Null
          /\ UNCHANGED <<unseen, delivered>>

Refuse == /\ offered # Null
          /\ unseen' \in 0..unseen
          /\ Len(items) + unseen' = Capacity
          /\ offered' = Null
          /\ UNCHANGED <<items, delivered>>

TakeHead == /\ delivered = Null
          /\ items # <<>>
          /\ delivered' = Head(items)
          /\ items' = Tail(items)
          /\ unseen' = unseen + 1
          /\ UNCHANGED offered

Dispose == /\ delivered' = Null
           /\ UNCHANGED <<items, unseen, offered>>

FifoNext == \/ \E n \in Node : Offer(n)
            \/ Observe \/ Accept \/ Refuse
            \/ TakeHead \/ Dispose

FifoSpec == FifoInit /\ [][FifoNext]_fifoVars
=============================================================================
