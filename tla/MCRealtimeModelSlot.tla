------------------------ MODULE MCRealtimeModelSlot ------------------------
(***************************************************************************)
(* RealtimeModelSlot with a retired queue of one entry, so that it fills   *)
(* while a crossfade runs, and with four addresses, which are used again   *)
(* as soon as they are free.                                               *)
(***************************************************************************)
EXTENDS RealtimeModelSlot, TLC

CONSTANT slow

MCModel == {slow}

MCLatency == [m \in Model |-> 2]

\* Which free address new returns makes no difference: it is the lowest one.
LowestFreeFirst ==
    \A n \in Node : heap[n] = Free /\ heap'[n] # Free =>
        \A lower \in 1..(n - 1) : heap[lower] # Free
=============================================================================
