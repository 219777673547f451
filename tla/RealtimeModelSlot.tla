------------------------- MODULE RealtimeModelSlot -------------------------
(***************************************************************************)
(* RealtimeModelSlot: how a prepared model reaches the audio callback, and  *)
(* how it leaves it again, without a lock, an allocation or a deletion on   *)
(* the audio thread.                                                        *)
(*                                                                         *)
(* Three threads run concurrently: the audio thread (process), one          *)
(* publisher at a time (publish) and one collector (collect_retired).  A    *)
(* step is what a thread does between two accesses to memory it shares:     *)
(* the exchanges of pending_, the operations on the retired queue, the      *)
(* stores the observers read, and the reads of the model graphs.  The       *)
(* retired queue is the sequence BoundedFifo describes, which the ring      *)
(* buffer of RetiredQueue implements.  heap says which addresses hold a     *)
(* node and what model the node owns; an address can be allocated again     *)
(* after delete, so a dangling pointer would be seen to alias a new model.  *)
(***************************************************************************)
EXTENDS Integers, Sequences, FiniteSets, Functions

CONSTANTS Node,          \* addresses at which a node can be allocated
          Null,          \* nullptr
          Model,         \* the models that can be published
          Dry,           \* the node content without a model (request for dry)
          Free,          \* the content of an address with no node
          ModelLatency,  \* info.latency_samples of each model
          Capacity,      \* kRetiredQueueCapacity
          BlockSizes,    \* the maximum block sizes prepare is called with
          FadeLengths    \* the crossfade lengths prepare is called with

ASSUME ContentAssumption == /\ Null \notin Node \cup Model \cup {Dry}
                            /\ Dry \notin Model
                            /\ Free \notin Model \cup {Dry}
                            /\ ModelLatency \in [Model -> Int]
ASSUME CapacityAssumption == Capacity \in Nat \ {0}
ASSUME SizesAssumption == /\ BlockSizes \subseteq Nat \ {0}
                          /\ FadeLengths \subseteq Nat \ {0}

VARIABLES
    heap,             \* what each address holds
    pending,          \* pending_
    current,          \* current_
    fadeFrom,         \* fade_from_
    retireWaiting,    \* retire_waiting_
    retired,          \* retired_: the nodes in the queue, oldest first
    fadeActive,       \* fade_active_
    position,         \* crossfade_position_
    config,           \* prepared_, maximum_block_frames_, crossfade_frames_
    reportedLatency,  \* reported_latency_
    fadeSnapshot,     \* fade_active_snapshot_
    audio,            \* the call of process in progress
    publisher,        \* the call of publish in progress, and the node it holds
    collector         \* the call of collect_retired in progress, its node

owners == <<pending, current, fadeFrom, retireWaiting, retired>>
observed == <<reportedLatency, fadeSnapshot>>
vars == <<heap, owners, fadeActive, position, config, observed, audio,
          publisher, collector>>

-----------------------------------------------------------------------------
Content == Model \cup {Dry}

NonNegative(i) == IF i < 0 THEN 0 ELSE i

Larger(i, j) == IF i < j THEN j ELSE i

\* node_latency: no node and a dry node have none, a negative one counts as 0.
NodeLatency(n) ==
    IF n = Null \/ heap[n] \notin Model THEN 0
    ELSE NonNegative(ModelLatency[heap[n]])

Unprepared == [prepared |-> FALSE, maxBlock |-> 0, fadeFrames |-> 1]

Idle == [pc |-> "idle", frames |-> 0]
NoCall == [pc |-> "idle", node |-> Null]

Init == /\ heap = [n \in Node |-> Free]
        /\ pending = Null
        /\ current = Null
        /\ fadeFrom = Null
        /\ retireWaiting = Null
        /\ retired = <<>>
        /\ fadeActive = FALSE
        /\ position = 0
        /\ config = Unprepared
        /\ reportedLatency = 0
        /\ fadeSnapshot = FALSE
        /\ audio = Idle
        /\ publisher = NoCall
        /\ collector = NoCall

-----------------------------------------------------------------------------
(* The publisher *)

\* new Node(model): an exception of publish on an unprepared slot changes nothing.
Allocate(n, m) ==
    /\ config.prepared
    /\ publisher.pc = "idle"
    /\ heap[n] = Free
    /\ heap' = [heap EXCEPT ![n] = m]
    /\ publisher' = [pc |-> "exchange", node |-> n]
    /\ UNCHANGED <<owners, fadeActive, position, config, observed, audio, collector>>

\* pending_.exchange: the newest request takes the place of the one before.
PublishExchange ==
    /\ publisher.pc = "exchange"
    /\ pending' = publisher.node
    /\ publisher' = IF pending = Null THEN NoCall
                    ELSE [pc |-> "delete", node |-> pending]
    /\ UNCHANGED <<heap, current, fadeFrom, retireWaiting, retired, fadeActive,
                   position, config, observed, audio, collector>>

DeleteReplaced ==
    /\ publisher.pc = "delete"
    /\ heap' = [heap EXCEPT ![publisher.node] = Free]
    /\ publisher' = NoCall
    /\ UNCHANGED <<owners, fadeActive, position, config, observed, audio, collector>>

Publisher == \/ \E n \in Node, m \in Content : Allocate(n, m)
             \/ PublishExchange
             \/ DeleteReplaced

-----------------------------------------------------------------------------
(* The collector *)

\* Variant: the last node in the queue is taken for an empty queue.
CollectPopButOne ==
    /\ collector.pc = "idle"
    /\ Len(retired) > 1
    /\ collector' = [pc |-> "delete", node |-> Head(retired)]
    /\ retired' = Tail(retired)
    /\ UNCHANGED <<heap, pending, current, fadeFrom, retireWaiting, fadeActive,
                   position, config, observed, audio, publisher>>

CollectPop ==
    /\ collector.pc = "idle"
    /\ retired # <<>>
    /\ collector' = [pc |-> "delete", node |-> Head(retired)]
    /\ retired' = Tail(retired)
    /\ UNCHANGED <<heap, pending, current, fadeFrom, retireWaiting, fadeActive,
                   position, config, observed, audio, publisher>>

CollectDelete ==
    /\ collector.pc = "delete"
    /\ heap' = [heap EXCEPT ![collector.node] = Free]
    /\ collector' = NoCall
    /\ UNCHANGED <<owners, fadeActive, position, config, observed, audio, publisher>>

Collector == CollectPop \/ CollectDelete

-----------------------------------------------------------------------------
(* The audio thread *)

HasRoom == Len(retired) < Capacity

\* Variant: a waiting node is never retried.
NeverFlush == UNCHANGED <<retired, retireWaiting>>

FlushWaitingRetirement ==
    IF retireWaiting # Null /\ HasRoom
    THEN /\ retired' = Append(retired, retireWaiting)
         /\ retireWaiting' = Null
    ELSE UNCHANGED <<retired, retireWaiting>>

\* Variant: a node that does not fit into the queue is dropped.
RetireOrDrop(node) ==
    IF node # Null /\ HasRoom
    THEN retired' = Append(retired, node) /\ UNCHANGED retireWaiting
    ELSE UNCHANGED <<retired, retireWaiting>>

\* retire: into the queue or, if it is full, into the waiting place.
Retire(node) ==
    IF node = Null THEN UNCHANGED <<retired, retireWaiting>>
    ELSE IF HasRoom
    THEN retired' = Append(retired, node) /\ UNCHANGED retireWaiting
    ELSE retireWaiting' = node /\ UNCHANGED retired

\* process begins with flush_waiting_retirement.  A call with no frames, or
\* with more than prepared for, returns before any of this.
ProcessFlush(frames) ==
    /\ config.prepared
    /\ audio.pc = "idle"
    /\ frames \in 1..config.maxBlock
    /\ audio' = [pc |-> "accept", frames |-> frames]
    /\ FlushWaitingRetirement
    /\ UNCHANGED <<heap, pending, current, fadeFrom, fadeActive, position, config,
                   observed, publisher, collector>>

\* accept_pending_if_possible: a crossfade or a waiting retirement is in the
\* way, or the exchange of pending_ returns nullptr.
AcceptNothing ==
    /\ audio.pc = "accept"
    /\ fadeActive \/ retireWaiting # Null \/ pending = Null
    /\ audio' = [audio EXCEPT !.pc = "render"]
    /\ UNCHANGED <<heap, owners, fadeActive, position, config, observed,
                   publisher, collector>>

CrossfadeToPending ==
    /\ audio.pc = "accept"
    /\ pending # Null
    /\ fadeFrom' = current
    /\ current' = pending
    /\ position' = 0
    /\ fadeActive' = TRUE
    /\ audio' = [audio EXCEPT !.pc = "raiseLatency"]
    /\ UNCHANGED <<heap, retireWaiting, retired, config, observed, publisher, collector>>

\* Variant: the pending pointer is loaded, not exchanged.
AcceptPendingByLoad ==
    /\ ~fadeActive
    /\ retireWaiting = Null
    /\ CrossfadeToPending
    /\ UNCHANGED pending

AcceptPending ==
    /\ ~fadeActive
    /\ retireWaiting = Null
    /\ CrossfadeToPending
    /\ pending' = Null

\* Variant: only the new model's latency is reported.
RaiseLatencyToNew ==
    /\ audio.pc = "raiseLatency"
    /\ reportedLatency' = NodeLatency(current)
    /\ audio' = [audio EXCEPT !.pc = "showFade"]
    /\ UNCHANGED <<heap, owners, fadeActive, position, config, fadeSnapshot,
                   publisher, collector>>

RaiseLatency ==
    /\ audio.pc = "raiseLatency"
    /\ reportedLatency' = Larger(NodeLatency(fadeFrom), NodeLatency(current))
    /\ audio' = [audio EXCEPT !.pc = "showFade"]
    /\ UNCHANGED <<heap, owners, fadeActive, position, config, fadeSnapshot,
                   publisher, collector>>

ShowFade ==
    /\ audio.pc = "showFade"
    /\ fadeSnapshot' = TRUE
    /\ audio' = [audio EXCEPT !.pc = "render"]
    /\ UNCHANGED <<heap, owners, fadeActive, position, config, reportedLatency,
                   publisher, collector>>

\* The block is rendered through current_ and, in a crossfade, fade_from_.
Render ==
    /\ audio.pc = "render"
    /\ IF ~fadeActive
       THEN audio' = Idle /\ UNCHANGED position
       ELSE IF position + audio.frames >= config.fadeFrames
       THEN audio' = [audio EXCEPT !.pc = "finish"] /\ UNCHANGED position
       ELSE audio' = Idle /\ position' = position + audio.frames
    /\ UNCHANGED <<heap, owners, fadeActive, config, observed, publisher, collector>>

\* finish_crossfade: retire(fade_from_), then the plain members.
FinishCrossfade ==
    /\ audio.pc = "finish"
    /\ Retire(fadeFrom)
    /\ fadeFrom' = Null
    /\ position' = 0
    /\ fadeActive' = FALSE
    /\ audio' = [audio EXCEPT !.pc = "settleLatency"]
    /\ UNCHANGED <<heap, pending, current, config, observed, publisher, collector>>

SettleLatency ==
    /\ audio.pc = "settleLatency"
    /\ reportedLatency' = NodeLatency(current)
    /\ audio' = [audio EXCEPT !.pc = "hideFade"]
    /\ UNCHANGED <<heap, owners, fadeActive, position, config, fadeSnapshot,
                   publisher, collector>>

HideFade ==
    /\ audio.pc = "hideFade"
    /\ fadeSnapshot' = FALSE
    /\ audio' = Idle
    /\ UNCHANGED <<heap, owners, fadeActive, position, config, reportedLatency,
                   publisher, collector>>

Audio == \/ \E frames \in UNION {1..b : b \in BlockSizes} : ProcessFlush(frames)
         \/ AcceptNothing \/ AcceptPending \/ RaiseLatency \/ ShowFade
         \/ Render \/ FinishCrossfade \/ SettleLatency \/ HideFade

-----------------------------------------------------------------------------
(* Stop the world: no other thread is inside the slot. *)

Quiescent == audio.pc = "idle" /\ publisher.pc = "idle" /\ collector.pc = "idle"

\* clear_non_realtime deletes what each owner holds, then resets the members.
ClearNonRealtime ==
    /\ heap' = [n \in Node |->
                  IF n \in {pending, current, fadeFrom, retireWaiting} \cup Range(retired)
                  THEN Free ELSE heap[n]]
    /\ pending' = Null
    /\ current' = Null
    /\ fadeFrom' = Null
    /\ retireWaiting' = Null
    /\ retired' = <<>>
    /\ position' = 0
    /\ fadeActive' = FALSE
    /\ reportedLatency' = 0
    /\ fadeSnapshot' = FALSE
    /\ UNCHANGED <<audio, publisher, collector>>

\* prepare: an invalid argument throws before anything is cleared.
Prepare(maxBlock, fadeFrames) ==
    /\ Quiescent
    /\ ClearNonRealtime
    /\ config' = [prepared |-> TRUE, maxBlock |-> maxBlock, fadeFrames |-> fadeFrames]

\* The destructor; the model lets the memory be used for a new, empty slot.
Destroy ==
    /\ Quiescent
    /\ ClearNonRealtime
    /\ config' = Unprepared

Owner == \/ \E b \in BlockSizes, f \in FadeLengths : Prepare(b, f)
         \/ Destroy

Next == Publisher \/ Collector \/ Audio \/ Owner

Spec == Init /\ [][Next]_vars

(***************************************************************************)
(* The host keeps calling process, each call of process and of publish ends *)
(* (nothing in them waits), and the worker keeps collecting: it does so     *)
(* after each publication and whenever it has been idle for 10 ms.          *)
(***************************************************************************)
FairSpec == /\ Spec
            /\ WF_vars(Audio)
            /\ WF_vars(Collector)
            /\ WF_vars(PublishExchange \/ DeleteReplaced)

-----------------------------------------------------------------------------
(* Properties *)

\* Every variable has its type.
TypeOK ==
    /\ heap \in [Node -> Content \cup {Free}]
    /\ {pending, current, fadeFrom, retireWaiting} \subseteq Node \cup {Null}
    /\ retired \in Seq(Node) /\ Len(retired) <= Capacity
    /\ fadeActive \in BOOLEAN /\ fadeSnapshot \in BOOLEAN
    /\ position \in Nat /\ reportedLatency \in Nat
    /\ config \in [prepared : BOOLEAN, maxBlock : Nat, fadeFrames : Nat \ {0}]
    /\ audio \in [pc : {"idle", "accept", "raiseLatency", "showFade", "render",
                        "finish", "settleLatency", "hideFade"}, frames : Nat]
    /\ publisher \in [pc : {"idle", "exchange", "delete"}, node : Node \cup {Null}]
    /\ collector \in [pc : {"idle", "delete"}, node : Node \cup {Null}]

\* The places a node can be owned from, and the address in each.
Place == ({"pending", "current", "fadeFrom", "retireWaiting", "publisher", "collector"}
             \X {0})
         \cup ({"retired"} \X (1..Len(retired)))

At(place) ==
    CASE place[1] = "pending"       -> pending
      [] place[1] = "current"       -> current
      [] place[1] = "fadeFrom"      -> fadeFrom
      [] place[1] = "retireWaiting" -> retireWaiting
      [] place[1] = "publisher"     -> publisher.node
      [] place[1] = "collector"     -> collector.node
      [] place[1] = "retired"       -> retired[place[2]]

\* A node has one owner at a time, whatever the three threads are doing...
SingleOwner ==
    \A p, q \in Place : At(p) = At(q) /\ At(p) # Null => p = q

\* ... the address every owner holds is that of a live node, and every live
\* node has an owner: no use after free, no double delete, no leak.
OwnedIffLive ==
    \A n \in Node : heap[n] # Free <=> \E p \in Place : At(p) = n

\* retire_waiting_ has room for one node: it is never in use when a crossfade
\* is under way, so a completed crossfade always has somewhere to leave its node.
WaitingBlocksFades ==
    /\ retireWaiting # Null => ~fadeActive
    /\ fadeFrom # Null => fadeActive

\* The memory of the slot: every live node has exactly one owner among the three
\* threads and the places they share, no address is used after free, and a
\* crossfade that ends finds the waiting place empty.
SlotSound == TypeOK /\ SingleOwner /\ OwnedIffLive /\ WaitingBlocksFades

\* What an observer reads between two blocks is what the audio is doing: the
\* crossfade flag, and a latency that covers both models of a crossfade and
\* settles to the remaining one's.
ObserversAgree ==
    audio.pc \in {"idle", "accept", "render"} =>
        /\ fadeSnapshot = fadeActive
        /\ reportedLatency = Larger(NodeLatency(fadeFrom), NodeLatency(current))

\* While process is under way, no other thread frees or reuses a model that
\* this block renders.
RenderedStaysLive ==
    [][audio.pc # "idle" =>
          \A n \in {current, fadeFrom} \ {Null} : heap'[n] = heap[n]]_vars

ContentOf(n) == IF n = Null THEN Null ELSE heap[n]

\* Seen from outside, the slot is a ModelHandover: requests coalesce to the
\* newest, each accepted one is faded in whole, and every request is taken over
\* or superseded, because a full retired queue is drained in the end.
Handover == INSTANCE ModelHandover WITH
                Model <- Content,
                None <- Null,
                requested <- ContentOf(pending),
                active <- ContentOf(current),
                leaving <- ContentOf(fadeFrom),
                fading <- fadeActive

ImplementsHandover == Handover!HandoverSpec

HandoverSafety == Handover!HandoverSafety

\* A model the audio has finished with is destroyed in the end, also when the
\* queue was full as its crossfade completed.
RetiredIsDestroyed ==
    \A n \in Node : (n = retireWaiting \/ n \in Range(retired)) ~> heap[n] = Free
=============================================================================
