---------------------- MODULE RealtimeModelSlotProofs ----------------------
(***************************************************************************)
(* Proofs about RealtimeModelSlot, for every number of addresses, every     *)
(* queue capacity, and all block sizes, crossfade lengths and latencies.    *)
(***************************************************************************)
EXTENDS RealtimeModelSlot, SequenceTheorems, TLAPS

USE ContentAssumption, CapacityAssumption, SizesAssumption
USE DEF FlushWaitingRetirement, Retire, CrossfadeToPending

-----------------------------------------------------------------------------
(* Operators *)

\* The latency of a node is a natural number, whatever the model reports.
LEMMA NodeLatencyNat ==
    ASSUME TypeOK, NEW n \in Node \cup {Null}
    PROVE  NodeLatency(n) \in Nat
<1>1. CASE n = Null \/ heap[n] \notin Model
  BY <1>1 DEF NodeLatency
<1>2. CASE ~(n = Null \/ heap[n] \notin Model)
  <2>1. ModelLatency[heap[n]] \in Int
    BY <1>2
  <2>. QED BY <1>2, <2>1 DEF NodeLatency, NonNegative
<1>. QED BY <1>1, <1>2

LEMMA LargerNat ==
    ASSUME NEW i \in Nat, NEW j \in Nat
    PROVE  Larger(i, j) \in Nat
BY DEF Larger

-----------------------------------------------------------------------------
(* Type correctness *)

LEMMA InitTypeOK == Init => TypeOK
<1> SUFFICES ASSUME Init PROVE TypeOK
  OBVIOUS
<1>1. retired \in Seq(Node) /\ Len(retired) <= Capacity
  BY EmptySeq DEF Init
<1>2. config \in [prepared : BOOLEAN, maxBlock : Nat, fadeFrames : Nat \ {0}]
  BY DEF Init, Unprepared
<1>. QED BY <1>1, <1>2 DEF Init, TypeOK, Idle, NoCall, Content

LEMMA PublisherTypeOK == TypeOK /\ Publisher => TypeOK'
<1> SUFFICES ASSUME TypeOK, Publisher PROVE TypeOK'
  OBVIOUS
<1> USE DEF TypeOK, Content, owners, observed, NoCall
<1>1. ASSUME NEW n \in Node, NEW m \in Content, Allocate(n, m) PROVE TypeOK'
  BY <1>1 DEF Allocate
<1>2. CASE PublishExchange
  BY <1>2 DEF PublishExchange
<1>3. CASE DeleteReplaced
  BY <1>3 DEF DeleteReplaced
<1>. QED BY <1>1, <1>2, <1>3 DEF Publisher

LEMMA CollectorTypeOK == TypeOK /\ Collector => TypeOK'
<1> SUFFICES ASSUME TypeOK, Collector PROVE TypeOK'
  OBVIOUS
<1> USE DEF TypeOK, owners, observed, NoCall
<1>1. CASE CollectPop
  <2>1. /\ Head(retired) \in Node
        /\ Tail(retired) \in Seq(Node)
        /\ Len(Tail(retired)) = Len(retired) - 1
    BY <1>1, HeadTailProperties DEF CollectPop
  <2>2. retired' \in Seq(Node) /\ Len(retired') <= Capacity
    BY <1>1, <2>1, LenProperties DEF CollectPop
  <2>. QED BY <1>1, <2>1, <2>2 DEF CollectPop
<1>2. CASE CollectDelete
  BY <1>2 DEF CollectDelete
<1>. QED BY <1>1, <1>2 DEF Collector

LEMMA AudioTypeOK == TypeOK /\ Audio => TypeOK'
<1> SUFFICES ASSUME TypeOK, Audio PROVE TypeOK'
  OBVIOUS
<1> USE DEF owners, observed, Idle
<1>1. ASSUME NEW n \in Node, HasRoom
      PROVE  Append(retired, n) \in Seq(Node) /\ Len(Append(retired, n)) <= Capacity
  BY <1>1, AppendProperties DEF TypeOK, HasRoom
<1>2. ASSUME NEW frames \in UNION {1..b : b \in BlockSizes}, ProcessFlush(frames)
      PROVE  TypeOK'
  <2>1. frames \in Nat
    BY <1>2 DEF ProcessFlush, TypeOK
  <2>2. /\ retired' \in Seq(Node) /\ Len(retired') <= Capacity
        /\ retireWaiting' \in Node \cup {Null}
    <3>1. CASE retireWaiting # Null /\ HasRoom
      <4>1. retireWaiting \in Node
        BY <3>1 DEF TypeOK
      <4>. QED BY <1>1, <1>2, <3>1, <4>1 DEF ProcessFlush
    <3>2. CASE ~(retireWaiting # Null /\ HasRoom)
      BY <1>2, <3>2 DEF ProcessFlush, TypeOK
    <3>. QED BY <3>1, <3>2
  <2>. QED BY <1>2, <2>1, <2>2 DEF ProcessFlush, TypeOK
<1>3. CASE AcceptNothing
  BY <1>3 DEF AcceptNothing, TypeOK
<1>4. CASE AcceptPending
  BY <1>4 DEF AcceptPending, TypeOK
<1>5. CASE RaiseLatency
  <2>1. reportedLatency' \in Nat
    BY <1>5, NodeLatencyNat, LargerNat DEF RaiseLatency, TypeOK
  <2>. QED BY <1>5, <2>1 DEF RaiseLatency, TypeOK
<1>6. CASE ShowFade
  BY <1>6 DEF ShowFade, TypeOK
<1>7. CASE Render
  BY <1>7 DEF Render, TypeOK
<1>8. CASE FinishCrossfade
  <2>1. /\ retired' \in Seq(Node) /\ Len(retired') <= Capacity
        /\ retireWaiting' \in Node \cup {Null}
    <3>1. CASE fadeFrom # Null /\ HasRoom
      <4>1. fadeFrom \in Node
        BY <3>1 DEF TypeOK
      <4>. QED BY <1>1, <1>8, <3>1, <4>1 DEF FinishCrossfade, TypeOK
    <3>2. CASE ~(fadeFrom # Null /\ HasRoom)
      BY <1>8, <3>2 DEF FinishCrossfade, TypeOK
    <3>. QED BY <3>1, <3>2
  <2>. QED BY <1>8, <2>1 DEF FinishCrossfade, TypeOK
<1>9. CASE SettleLatency
  <2>1. reportedLatency' \in Nat
    BY <1>9, NodeLatencyNat DEF SettleLatency, TypeOK
  <2>. QED BY <1>9, <2>1 DEF SettleLatency, TypeOK
<1>10. CASE HideFade
  BY <1>10 DEF HideFade, TypeOK
<1>. QED BY <1>2, <1>3, <1>4, <1>5, <1>6, <1>7, <1>8, <1>9, <1>10 DEF Audio

LEMMA OwnerTypeOK == TypeOK /\ Owner => TypeOK'
<1> SUFFICES ASSUME TypeOK, Owner PROVE TypeOK'
  OBVIOUS
<1>0. ASSUME ClearNonRealtime,
             config' \in [prepared : BOOLEAN, maxBlock : Nat, fadeFrames : Nat \ {0}]
      PROVE  TypeOK'
  <2>1. retired' \in Seq(Node) /\ Len(retired') <= Capacity
    BY <1>0, EmptySeq DEF ClearNonRealtime
  <2>2. heap' \in [Node -> Content \cup {Free}]
    BY <1>0 DEF ClearNonRealtime, TypeOK
  <2>. QED BY <1>0, <2>1, <2>2 DEF ClearNonRealtime, TypeOK
<1>1. ASSUME NEW b \in BlockSizes, NEW f \in FadeLengths, Prepare(b, f)
      PROVE  TypeOK'
  BY <1>0, <1>1 DEF Prepare
<1>2. CASE Destroy
  BY <1>0, <1>2 DEF Destroy, Unprepared
<1>. QED BY <1>1, <1>2 DEF Owner

\* Every reachable state of the slot is well typed; in particular the retired
\* queue never holds more nodes than it has room for.
THEOREM TypeCorrect == Spec => []TypeOK
<1>1. Init => TypeOK
  BY InitTypeOK
<1>2. TypeOK /\ [Next]_vars => TypeOK'
  <2> SUFFICES ASSUME TypeOK, [Next]_vars PROVE TypeOK'
    OBVIOUS
  <2>1. CASE UNCHANGED vars
    BY <2>1 DEF vars, owners, observed, TypeOK
  <2>. QED BY <2>1, PublisherTypeOK, CollectorTypeOK, AudioTypeOK, OwnerTypeOK DEF Next
<1>. QED BY <1>1, <1>2, PTL DEF Spec

-----------------------------------------------------------------------------
(* Sequences without repetition *)

Queued(q, n) == \E i \in 1..Len(q) : q[i] = n

NoRepeat(q) == \A i, j \in 1..Len(q) : q[i] = q[j] => i = j

LEMMA AppendQueued ==
    ASSUME NEW q \in Seq(Node), NEW n \in Node, NoRepeat(q), ~Queued(q, n)
    PROVE  /\ NoRepeat(Append(q, n))
           /\ \A m : Queued(Append(q, n), m) <=> Queued(q, m) \/ m = n
<1>1. /\ Len(Append(q, n)) = Len(q) + 1
      /\ \A i \in 1..Len(q) : Append(q, n)[i] = q[i]
      /\ Append(q, n)[Len(q) + 1] = n
      /\ Len(q) \in Nat
  BY AppendProperties, LenProperties
<1>2. 1..(Len(q) + 1) = 1..Len(q) \cup {Len(q) + 1}
  BY <1>1
<1>3. NoRepeat(Append(q, n))
  BY <1>1, <1>2 DEF NoRepeat, Queued
<1>4. ASSUME NEW m PROVE Queued(Append(q, n), m) <=> Queued(q, m) \/ m = n
  BY <1>1, <1>2 DEF Queued
<1>. QED BY <1>3, <1>4

LEMMA TailQueued ==
    ASSUME NEW q \in Seq(Node), q # <<>>, NoRepeat(q)
    PROVE  /\ Head(q) \in Node
           /\ NoRepeat(Tail(q))
           /\ \A m : Queued(Tail(q), m) <=> Queued(q, m) /\ m # Head(q)
<1>1. /\ Head(q) = q[1] /\ Head(q) \in Node
      /\ Len(Tail(q)) = Len(q) - 1
      /\ \A i \in 1..Len(Tail(q)) : Tail(q)[i] = q[i + 1]
      /\ Len(q) \in Nat \ {0}
  BY HeadTailProperties, LenProperties, EmptySeq
<1>2. NoRepeat(Tail(q))
  BY <1>1 DEF NoRepeat
<1>3. ASSUME NEW m, Queued(Tail(q), m) PROVE Queued(q, m) /\ m # Head(q)
  <2>1. PICK i \in 1..(Len(q) - 1) : q[i + 1] = m
    BY <1>1, <1>3 DEF Queued
  <2>2. i + 1 \in 1..Len(q) /\ 1 \in 1..Len(q) /\ i + 1 # 1
    BY <1>1
  <2>. QED BY <1>1, <2>1, <2>2 DEF Queued, NoRepeat
<1>4. ASSUME NEW m, Queued(q, m), m # Head(q) PROVE Queued(Tail(q), m)
  <2>1. PICK i \in 1..Len(q) : q[i] = m
    BY <1>4 DEF Queued
  <2>2. i # 1
    BY <1>1, <1>4, <2>1
  <2>3. i - 1 \in 1..Len(Tail(q)) /\ Tail(q)[i - 1] = q[i]
    BY <1>1, <2>2
  <2>. QED BY <2>1, <2>3 DEF Queued
<1>. QED BY <1>1, <1>2, <1>3, <1>4

-----------------------------------------------------------------------------
(***************************************************************************)
(* The inductive invariant of ownership.  SingleOwner and OwnedIffLive are  *)
(* not inductive alone: that a completed crossfade finds retire_waiting_    *)
(* free, and that a new crossfade finds fade_from_ free, follows from where *)
(* process is in its course, and a thread outside publish or                *)
(* collect_retired holds no node.                                           *)
(***************************************************************************)
Distinct(a, b) == a = Null \/ a # b

FadePhase ==
    /\ WaitingBlocksFades
    /\ audio.pc \in {"finish", "raiseLatency", "showFade"} => fadeActive
    /\ audio.pc \in {"settleLatency", "hideFade"} => ~fadeActive

CallsHold ==
    /\ publisher.pc = "idle" <=> publisher.node = Null
    /\ collector.pc = "idle" <=> collector.node = Null

Exclusive ==
    /\ Distinct(pending, current) /\ Distinct(pending, fadeFrom)
    /\ Distinct(pending, retireWaiting) /\ Distinct(pending, publisher.node)
    /\ Distinct(pending, collector.node)
    /\ Distinct(current, fadeFrom) /\ Distinct(current, retireWaiting)
    /\ Distinct(current, publisher.node) /\ Distinct(current, collector.node)
    /\ Distinct(fadeFrom, retireWaiting) /\ Distinct(fadeFrom, publisher.node)
    /\ Distinct(fadeFrom, collector.node)
    /\ Distinct(retireWaiting, publisher.node) /\ Distinct(retireWaiting, collector.node)
    /\ Distinct(publisher.node, collector.node)
    /\ ~Queued(retired, pending) /\ ~Queued(retired, current)
    /\ ~Queued(retired, fadeFrom) /\ ~Queued(retired, retireWaiting)
    /\ ~Queued(retired, publisher.node) /\ ~Queued(retired, collector.node)
    /\ NoRepeat(retired)

Held == {pending, current, fadeFrom, retireWaiting, publisher.node, collector.node}

LiveOwned ==
    \A n \in Node : heap[n] # Free <=> n \in Held \/ Queued(retired, n)

OwnershipInv == TypeOK /\ FadePhase /\ CallsHold /\ Exclusive /\ LiveOwned

\* The queue holds addresses, never nullptr.
LEMMA NullNotQueued == ASSUME TypeOK PROVE ~Queued(retired, Null)
<1>1. \A i \in 1..Len(retired) : retired[i] \in Node
  BY ElementOfSeq DEF TypeOK
<1>. QED BY <1>1 DEF Queued

LEMMA InitOwnership == Init => OwnershipInv
<1> SUFFICES ASSUME Init PROVE OwnershipInv
  OBVIOUS
<1>1. \A n : ~Queued(retired, n)
  BY EmptySeq DEF Init, Queued
<1>2. NoRepeat(retired)
  BY EmptySeq DEF Init, NoRepeat
<1>3. Exclusive /\ LiveOwned
  BY <1>1, <1>2 DEF Init, NoCall, Exclusive, Distinct, LiveOwned, Held
<1>4. FadePhase /\ CallsHold
  BY DEF Init, NoCall, Idle, FadePhase, WaitingBlocksFades, CallsHold
<1>. QED BY <1>3, <1>4, InitTypeOK DEF OwnershipInv

LEMMA PublisherOwnership == OwnershipInv /\ Publisher => OwnershipInv'
<1> SUFFICES ASSUME OwnershipInv, Publisher PROVE OwnershipInv'
  OBVIOUS
<1>0. TypeOK' /\ ~Queued(retired, Null)
  BY PublisherTypeOK, NullNotQueued DEF OwnershipInv
<1> USE DEF owners, observed
<1>1. ASSUME NEW n \in Node, NEW m \in Content, Allocate(n, m) PROVE OwnershipInv'
  <2>1. n \notin Held /\ ~Queued(retired, n)
    BY <1>1 DEF Allocate, OwnershipInv, LiveOwned
  <2>2. Exclusive'
    BY <1>1, <2>1, <1>0 DEF Allocate, OwnershipInv, Exclusive, Distinct, Held
  <2>3. LiveOwned'
    <3>1. publisher.node = Null
      BY <1>1 DEF Allocate, OwnershipInv, CallsHold
    <3>2. \A k \in Node : heap'[k] = IF k = n THEN m ELSE heap[k]
      BY <1>1 DEF Allocate, OwnershipInv, TypeOK
    <3>3. m # Free
      BY DEF Content
    <3>4. \A k \in Node : k \in Held' <=> k \in Held \/ k = n
      BY <1>1, <3>1 DEF Allocate, Held
    <3>. QED BY <1>1, <2>1, <3>2, <3>3, <3>4 DEF Allocate, OwnershipInv, LiveOwned
  <2>4. FadePhase' /\ CallsHold'
    BY <1>1 DEF Allocate, OwnershipInv, FadePhase, WaitingBlocksFades, CallsHold
  <2>. QED BY <1>0, <2>2, <2>3, <2>4 DEF OwnershipInv
<1>2. CASE PublishExchange
  <2>1. publisher.node # Null
    BY <1>2 DEF PublishExchange, OwnershipInv, CallsHold
  <2>2. Exclusive'
    BY <1>0, <1>2 DEF PublishExchange, OwnershipInv, Exclusive, Distinct, NoCall
  <2>3. LiveOwned'
    BY <1>2 DEF PublishExchange, OwnershipInv, LiveOwned, Held, NoCall
  <2>4. FadePhase' /\ CallsHold'
    BY <1>2 DEF PublishExchange, OwnershipInv, FadePhase, WaitingBlocksFades, CallsHold,
                NoCall
  <2>. QED BY <1>0, <2>2, <2>3, <2>4 DEF OwnershipInv
<1>3. CASE DeleteReplaced
  <2>1. publisher.node \in Node
    BY <1>3 DEF DeleteReplaced, OwnershipInv, CallsHold, TypeOK
  <2>2. Exclusive'
    BY <1>0, <1>3 DEF DeleteReplaced, OwnershipInv, Exclusive, Distinct, NoCall
  <2>3. LiveOwned'
    <3>1. \A k \in Node : heap'[k] = IF k = publisher.node THEN Free ELSE heap[k]
      BY <1>3, <2>1 DEF DeleteReplaced, OwnershipInv, TypeOK
    <3>. QED
      BY <1>3, <2>1, <3>1 DEF DeleteReplaced, OwnershipInv, LiveOwned, Held, NoCall,
                              Exclusive, Distinct
  <2>4. FadePhase' /\ CallsHold'
    BY <1>3 DEF DeleteReplaced, OwnershipInv, FadePhase, WaitingBlocksFades, CallsHold,
                NoCall
  <2>. QED BY <1>0, <2>2, <2>3, <2>4 DEF OwnershipInv
<1>. QED BY <1>1, <1>2, <1>3 DEF Publisher

LEMMA CollectorOwnership == OwnershipInv /\ Collector => OwnershipInv'
<1> SUFFICES ASSUME OwnershipInv, Collector PROVE OwnershipInv'
  OBVIOUS
<1>0. TypeOK' /\ ~Queued(retired, Null)
  BY CollectorTypeOK, NullNotQueued DEF OwnershipInv
<1> USE DEF owners, observed
<1>1. CASE CollectPop
  <2>1. /\ Head(retired) \in Node
        /\ NoRepeat(Tail(retired))
        /\ \A m : Queued(Tail(retired), m) <=> Queued(retired, m) /\ m # Head(retired)
    BY <1>1, TailQueued DEF CollectPop, OwnershipInv, TypeOK, Exclusive
  <2>2. Queued(retired, Head(retired))
    BY <1>1, HeadTailProperties, LenProperties, EmptySeq
       DEF CollectPop, OwnershipInv, TypeOK, Queued
  <2>3. Exclusive'
    BY <1>0, <1>1, <2>1, <2>2 DEF CollectPop, OwnershipInv, Exclusive, Distinct
  <2>4. collector.node = Null
    BY <1>1 DEF CollectPop, OwnershipInv, CallsHold
  <2>5. LiveOwned'
    BY <1>1, <2>1, <2>2, <2>4 DEF CollectPop, OwnershipInv, LiveOwned, Held
  <2>6. FadePhase' /\ CallsHold'
    BY <1>1, <2>1 DEF CollectPop, OwnershipInv, FadePhase, WaitingBlocksFades, CallsHold
  <2>. QED BY <1>0, <2>3, <2>5, <2>6 DEF OwnershipInv
<1>2. CASE CollectDelete
  <2>1. collector.node \in Node
    BY <1>2 DEF CollectDelete, OwnershipInv, CallsHold, TypeOK
  <2>2. Exclusive'
    BY <1>0, <1>2 DEF CollectDelete, OwnershipInv, Exclusive, Distinct, NoCall
  <2>3. LiveOwned'
    <3>1. \A k \in Node : heap'[k] = IF k = collector.node THEN Free ELSE heap[k]
      BY <1>2, <2>1 DEF CollectDelete, OwnershipInv, TypeOK
    <3>. QED
      BY <1>2, <2>1, <3>1 DEF CollectDelete, OwnershipInv, LiveOwned, Held, NoCall,
                              Exclusive, Distinct
  <2>4. FadePhase' /\ CallsHold'
    BY <1>2 DEF CollectDelete, OwnershipInv, FadePhase, WaitingBlocksFades, CallsHold,
                NoCall
  <2>. QED BY <1>0, <2>2, <2>3, <2>4 DEF OwnershipInv
<1>. QED BY <1>1, <1>2 DEF Collector

LEMMA AudioOwnership == OwnershipInv /\ Audio => OwnershipInv'
<1> SUFFICES ASSUME OwnershipInv, Audio PROVE OwnershipInv'
  OBVIOUS
<1>0. TypeOK' /\ ~Queued(retired, Null)
  BY AudioTypeOK, NullNotQueued DEF OwnershipInv
<1> USE DEF owners, observed
\* Putting a node that one of the audio thread's members holds into the queue.
<1>1. ASSUME NEW n \in Node, ~Queued(retired, n)
      PROVE  /\ NoRepeat(Append(retired, n))
             /\ \A m : Queued(Append(retired, n), m) <=> Queued(retired, m) \/ m = n
  BY <1>1, AppendQueued DEF OwnershipInv, TypeOK, Exclusive
\* The steps that move no node.
<1>2. ASSUME UNCHANGED <<heap, owners, fadeActive, publisher, collector>>, FadePhase'
      PROVE  OwnershipInv'
  BY <1>0, <1>2 DEF OwnershipInv, CallsHold, Exclusive, LiveOwned, Held
<1>3. ASSUME NEW frames \in UNION {1..b : b \in BlockSizes}, ProcessFlush(frames)
      PROVE  OwnershipInv'
  <2>1. CASE retireWaiting # Null /\ HasRoom
    <3>1. retireWaiting \in Node /\ ~Queued(retired, retireWaiting)
      BY <2>1 DEF OwnershipInv, TypeOK, Exclusive
    <3>2. /\ NoRepeat(retired')
          /\ \A m : Queued(retired', m) <=> Queued(retired, m) \/ m = retireWaiting
      <4>1. retired' = Append(retired, retireWaiting)
        BY <1>3, <2>1 DEF ProcessFlush
      <4>. QED BY <1>1, <3>1, <4>1, Zenon
    <3>3. Exclusive'
      BY <1>0, <1>3, <2>1, <3>1, <3>2 DEF ProcessFlush, OwnershipInv, Exclusive, Distinct
    <3>4. LiveOwned'
      BY <1>3, <2>1, <3>1, <3>2 DEF ProcessFlush, OwnershipInv, LiveOwned, Held
    <3>5. FadePhase' /\ CallsHold'
      BY <1>3, <2>1 DEF ProcessFlush, OwnershipInv, FadePhase, WaitingBlocksFades, CallsHold
    <3>. QED BY <1>0, <3>3, <3>4, <3>5 DEF OwnershipInv
  <2>2. CASE ~(retireWaiting # Null /\ HasRoom)
    <3>1. FadePhase'
      BY <1>3, <2>2 DEF ProcessFlush, OwnershipInv, FadePhase, WaitingBlocksFades
    <3>. QED BY <1>2, <1>3, <2>2, <3>1 DEF ProcessFlush
  <2>. QED BY <2>1, <2>2
<1>4. CASE AcceptNothing
  BY <1>2, <1>4 DEF AcceptNothing, OwnershipInv, TypeOK, FadePhase, WaitingBlocksFades
<1>5. CASE AcceptPending
  <2>1. fadeFrom = Null
    BY <1>5 DEF AcceptPending, OwnershipInv, FadePhase, WaitingBlocksFades
  <2>2. Exclusive'
    BY <1>0, <1>5, <2>1 DEF AcceptPending, OwnershipInv, Exclusive, Distinct
  <2>3. LiveOwned'
    BY <1>5, <2>1 DEF AcceptPending, OwnershipInv, LiveOwned, Held
  <2>4. FadePhase' /\ CallsHold'
    BY <1>5 DEF AcceptPending, OwnershipInv, TypeOK, FadePhase, WaitingBlocksFades, CallsHold
  <2>. QED BY <1>0, <2>2, <2>3, <2>4 DEF OwnershipInv
<1>6. CASE RaiseLatency
  BY <1>2, <1>6 DEF RaiseLatency, OwnershipInv, TypeOK, FadePhase, WaitingBlocksFades
<1>7. CASE ShowFade
  BY <1>2, <1>7 DEF ShowFade, OwnershipInv, TypeOK, FadePhase, WaitingBlocksFades
<1>8. CASE Render
  <2>1. FadePhase'
    BY <1>8 DEF Render, Idle, OwnershipInv, TypeOK, FadePhase, WaitingBlocksFades
  <2>. QED BY <1>2, <1>8, <2>1 DEF Render
<1>9. CASE FinishCrossfade
  <2>1. fadeActive /\ retireWaiting = Null
    BY <1>9 DEF FinishCrossfade, OwnershipInv, FadePhase, WaitingBlocksFades
  <2>2. FadePhase' /\ CallsHold'
    BY <1>9 DEF FinishCrossfade, OwnershipInv, TypeOK, FadePhase, WaitingBlocksFades,
                CallsHold
  <2>3. CASE fadeFrom = Null
    <3>1. Exclusive' /\ LiveOwned'
      BY <1>9, <2>3 DEF FinishCrossfade, OwnershipInv, Exclusive, LiveOwned, Held
    <3>. QED BY <1>0, <2>2, <3>1 DEF OwnershipInv
  <2>4. CASE fadeFrom # Null /\ HasRoom
    <3>1. fadeFrom \in Node /\ ~Queued(retired, fadeFrom)
      BY <2>4 DEF OwnershipInv, TypeOK, Exclusive
    <3>2. /\ NoRepeat(retired')
          /\ \A m : Queued(retired', m) <=> Queued(retired, m) \/ m = fadeFrom
      <4>1. retired' = Append(retired, fadeFrom)
        BY <1>9, <2>4 DEF FinishCrossfade
      <4>. QED BY <1>1, <3>1, <4>1, Zenon
    <3>3. Exclusive'
      BY <1>0, <1>9, <2>4, <3>1, <3>2 DEF FinishCrossfade, OwnershipInv, Exclusive, Distinct
    <3>4. LiveOwned'
      BY <1>9, <2>4, <3>1, <3>2 DEF FinishCrossfade, OwnershipInv, LiveOwned, Held
    <3>. QED BY <1>0, <2>2, <3>3, <3>4 DEF OwnershipInv
  <2>5. CASE fadeFrom # Null /\ ~HasRoom
    <3>1. Exclusive'
      BY <1>0, <1>9, <2>1, <2>5 DEF FinishCrossfade, OwnershipInv, Exclusive, Distinct
    <3>2. LiveOwned'
      BY <1>9, <2>1, <2>5 DEF FinishCrossfade, OwnershipInv, LiveOwned, Held
    <3>. QED BY <1>0, <2>2, <3>1, <3>2 DEF OwnershipInv
  <2>. QED BY <2>3, <2>4, <2>5
<1>10. CASE SettleLatency
  BY <1>2, <1>10 DEF SettleLatency, OwnershipInv, TypeOK, FadePhase, WaitingBlocksFades
<1>11. CASE HideFade
  BY <1>2, <1>11 DEF HideFade, Idle, OwnershipInv, FadePhase, WaitingBlocksFades
<1>. QED BY <1>3, <1>4, <1>5, <1>6, <1>7, <1>8, <1>9, <1>10, <1>11 DEF Audio

LEMMA OwnerOwnership == OwnershipInv /\ Owner => OwnershipInv'
<1> SUFFICES ASSUME OwnershipInv, Owner PROVE OwnershipInv'
  OBVIOUS
<1>1. Quiescent /\ ClearNonRealtime
  BY DEF Owner, Prepare, Destroy
<1>2. /\ publisher.node = Null /\ collector.node = Null
      /\ publisher' = publisher /\ collector' = collector /\ audio' = audio
  BY <1>1 DEF Quiescent, ClearNonRealtime, OwnershipInv, CallsHold
<1>3. \A n : ~Queued(retired', n)
  BY <1>1, EmptySeq DEF ClearNonRealtime, Queued
<1>4. NoRepeat(retired')
  BY <1>1, EmptySeq DEF ClearNonRealtime, NoRepeat
<1>5. Exclusive'
  BY <1>1, <1>2, <1>3, <1>4 DEF ClearNonRealtime, Exclusive, Distinct
<1>6. \A n \in Node : heap'[n] = Free
  <2>1. ASSUME NEW n \in Node, heap[n] # Free
        PROVE  n \in {pending, current, fadeFrom, retireWaiting} \cup Range(retired)
    <3>1. n \in {pending, current, fadeFrom, retireWaiting} \/ Queued(retired, n)
      BY <1>2, <2>1 DEF OwnershipInv, LiveOwned, Held
    <3>2. DOMAIN retired = 1..Len(retired)
      BY LenProperties DEF OwnershipInv, TypeOK
    <3>. QED BY <3>1, <3>2 DEF Queued, Range
  <2>. QED BY <1>1, <2>1 DEF ClearNonRealtime
<1>7. LiveOwned'
  BY <1>1, <1>2, <1>3, <1>6 DEF ClearNonRealtime, LiveOwned, Held
<1>8. FadePhase' /\ CallsHold'
  BY <1>1, <1>2 DEF Quiescent, ClearNonRealtime, OwnershipInv, FadePhase,
                    WaitingBlocksFades, CallsHold
<1>. QED BY <1>5, <1>7, <1>8, OwnerTypeOK DEF OwnershipInv

LEMMA OwnershipStep == OwnershipInv /\ [Next]_vars => OwnershipInv'
<1> SUFFICES ASSUME OwnershipInv, [Next]_vars PROVE OwnershipInv'
  OBVIOUS
<1>1. CASE UNCHANGED vars
  BY <1>1 DEF vars, owners, observed, OwnershipInv, TypeOK, FadePhase,
              WaitingBlocksFades, CallsHold, Exclusive, LiveOwned, Held
<1>. QED BY <1>1, PublisherOwnership, CollectorOwnership, AudioOwnership,
            OwnerOwnership DEF Next

LEMMA OwnershipInvariant == Spec => []OwnershipInv
BY InitOwnership, OwnershipStep, PTL DEF Spec

\* retire_waiting_ and fade_from_ are free whenever the code assigns them, for
\* any capacity of the retired queue.
THEOREM WaitingSlotNeverOverwritten == Spec => []WaitingBlocksFades
<1>1. OwnershipInv => WaitingBlocksFades
  BY DEF OwnershipInv, FadePhase
<1>. QED BY <1>1, OwnershipInvariant, PTL

\* The places are exactly the ones Exclusive and LiveOwned speak of.
LEMMA HolderAt ==
    ASSUME NEW p \in Place
    PROVE  \/ p = <<"pending", 0>> /\ At(p) = pending
           \/ p = <<"current", 0>> /\ At(p) = current
           \/ p = <<"fadeFrom", 0>> /\ At(p) = fadeFrom
           \/ p = <<"retireWaiting", 0>> /\ At(p) = retireWaiting
           \/ p = <<"publisher", 0>> /\ At(p) = publisher.node
           \/ p = <<"collector", 0>> /\ At(p) = collector.node
           \/ \E i \in 1..Len(retired) : p = <<"retired", i>> /\ At(p) = retired[i]
BY DEF Place, At

\* No node ever has two owners, so none is deleted twice or rendered by the
\* audio thread while another thread may delete it.
THEOREM NodesHaveOneOwner == Spec => []SingleOwner
<1>1. ASSUME OwnershipInv, NEW p \in Place, NEW q \in Place, At(p) = At(q), At(p) # Null
      PROVE  p = q
  <2>1. Exclusive
    BY <1>1 DEF OwnershipInv
  <2>2. \A i \in 1..Len(retired) : Queued(retired, retired[i])
    BY DEF Queued
  <2>3. CASE \E i \in 1..Len(retired) : p = <<"retired", i>> /\ At(p) = retired[i]
    <3>1. PICK i \in 1..Len(retired) : p = <<"retired", i>> /\ At(p) = retired[i]
      BY <2>3
    <3>2. \E j \in 1..Len(retired) : q = <<"retired", j>> /\ At(q) = retired[j]
      BY <1>1, <2>1, <2>2, <3>1, HolderAt DEF Exclusive
    <3>. QED BY <1>1, <2>1, <3>1, <3>2 DEF Exclusive, NoRepeat
  <2>4. CASE ~\E i \in 1..Len(retired) : p = <<"retired", i>> /\ At(p) = retired[i]
    <3>1. ~\E j \in 1..Len(retired) : q = <<"retired", j>> /\ At(q) = retired[j]
      BY <1>1, <2>1, <2>2, <2>4, HolderAt DEF Exclusive
    <3>. QED BY <1>1, <2>1, <2>4, <3>1, HolderAt DEF Exclusive, Distinct
  <2>. QED BY <2>3, <2>4
<1>2. OwnershipInv => SingleOwner
  BY <1>1 DEF SingleOwner
<1>. QED BY <1>2, OwnershipInvariant, PTL

\* A live node always has an owner that will pass it on or delete it, and no
\* owner's pointer dangles.
THEOREM LiveNodesAreOwned == Spec => []OwnedIffLive
<1>1. ASSUME OwnershipInv, NEW n \in Node
      PROVE  (n \in Held \/ Queued(retired, n)) <=> \E p \in Place : At(p) = n
  <2>1. ASSUME NEW p \in Place, At(p) = n PROVE n \in Held \/ Queued(retired, n)
    BY <2>1, HolderAt DEF Held, Queued
  <2>2. ASSUME Queued(retired, n) PROVE \E p \in Place : At(p) = n
    <3>1. PICK i \in 1..Len(retired) : retired[i] = n
      BY <2>2 DEF Queued
    <3>2. <<"retired", i>> \in Place /\ At(<<"retired", i>>) = n
      BY <3>1 DEF Place, At
    <3>. QED BY <3>2
  <2>3. ASSUME n \in Held PROVE \E p \in Place : At(p) = n
    <3>1. /\ <<"pending", 0>> \in Place /\ At(<<"pending", 0>>) = pending
          /\ <<"current", 0>> \in Place /\ At(<<"current", 0>>) = current
          /\ <<"fadeFrom", 0>> \in Place /\ At(<<"fadeFrom", 0>>) = fadeFrom
          /\ <<"retireWaiting", 0>> \in Place /\ At(<<"retireWaiting", 0>>) = retireWaiting
          /\ <<"publisher", 0>> \in Place /\ At(<<"publisher", 0>>) = publisher.node
          /\ <<"collector", 0>> \in Place /\ At(<<"collector", 0>>) = collector.node
      BY DEF Place, At
    <3>. QED BY <2>3, <3>1 DEF Held
  <2>. QED BY <2>1, <2>2, <2>3
<1>2. OwnershipInv => OwnedIffLive
  BY <1>1 DEF OwnershipInv, LiveOwned, OwnedIffLive
<1>. QED BY <1>2, OwnershipInvariant, PTL

-----------------------------------------------------------------------------
(* What the audio renders, and what the observers are told *)

\* The other threads leave the models of the audio thread, and the pending one
\* except for its replacement, as they are.
LEMMA OthersKeepAudible ==
    ASSUME OwnershipInv, Publisher \/ Collector
    PROVE  /\ UNCHANGED <<current, fadeFrom, fadeActive, observed, audio>>
           /\ \A n \in {current, fadeFrom} \ {Null} : heap'[n] = heap[n]
           /\ ~PublishExchange => /\ pending' = pending
                                  /\ pending # Null => heap'[pending] = heap[pending]
<1> USE DEF owners, observed
<1>0. {current, fadeFrom, pending} \ {Null} \subseteq Node
  BY DEF OwnershipInv, TypeOK
<1>1. ASSUME NEW n \in Node, NEW m \in Content, Allocate(n, m)
      PROVE  \A k \in {current, fadeFrom, pending} \ {Null} : heap'[k] = heap[k]
  <2>1. n \notin {current, fadeFrom, pending}
    BY <1>1 DEF Allocate, OwnershipInv, LiveOwned, Held
  <2>. QED BY <1>0, <1>1, <2>1 DEF Allocate, OwnershipInv, TypeOK
<1>2. CASE PublishExchange
  BY <1>2 DEF PublishExchange
<1>3. ASSUME DeleteReplaced
      PROVE  \A k \in {current, fadeFrom, pending} \ {Null} : heap'[k] = heap[k]
  <2>1. publisher.node \notin {current, fadeFrom, pending} \ {Null}
    BY DEF OwnershipInv, Exclusive, Distinct
  <2>. QED BY <1>0, <1>3, <2>1 DEF DeleteReplaced, OwnershipInv, TypeOK
<1>4. CASE CollectPop
  BY <1>4 DEF CollectPop
<1>5. ASSUME CollectDelete
      PROVE  \A k \in {current, fadeFrom, pending} \ {Null} : heap'[k] = heap[k]
  <2>1. collector.node \notin {current, fadeFrom, pending} \ {Null}
    BY DEF OwnershipInv, Exclusive, Distinct
  <2>. QED BY <1>0, <1>5, <2>1 DEF CollectDelete, OwnershipInv, TypeOK
<1>6. ASSUME NEW n \in Node, NEW m \in Content, Allocate(n, m)
      PROVE  UNCHANGED <<current, fadeFrom, fadeActive, observed, audio, pending>>
  BY <1>6 DEF Allocate
<1>7. DeleteReplaced \/ CollectDelete =>
        UNCHANGED <<current, fadeFrom, fadeActive, observed, audio, pending>>
  BY DEF DeleteReplaced, CollectDelete
<1>. QED BY <1>1, <1>2, <1>3, <1>4, <1>5, <1>6, <1>7 DEF Publisher, Collector

\* No thread frees or reuses a model while a block is rendered through it.
THEOREM RenderedModelsStayLive == Spec => RenderedStaysLive
<1>1. ASSUME OwnershipInv, [Next]_vars, audio.pc # "idle",
             NEW n \in {current, fadeFrom} \ {Null}
      PROVE  heap'[n] = heap[n]
  <2>1. CASE UNCHANGED vars
    BY <2>1 DEF vars
  <2>2. CASE Publisher \/ Collector
    BY <1>1, <2>2, OthersKeepAudible
  <2>3. CASE Audio
    BY <2>3 DEF Audio, ProcessFlush, AcceptNothing, AcceptPending, RaiseLatency, ShowFade,
                Render, FinishCrossfade, SettleLatency, HideFade
  <2>4. CASE Owner
    BY <1>1, <2>4 DEF Owner, Prepare, Destroy, Quiescent
  <2>. QED BY <1>1, <2>1, <2>2, <2>3, <2>4 DEF Next
<1>2. OwnershipInv /\ [Next]_vars =>
        [audio.pc # "idle" =>
           \A n \in {current, fadeFrom} \ {Null} : heap'[n] = heap[n]]_vars
  BY <1>1
<1>. QED BY <1>2, OwnershipInvariant, PTL DEF Spec, RenderedStaysLive

\* In mid-process the two stores lag behind the members they mirror, each until
\* its own step; ObserversAgree needs to know what they hold on the way.
MirrorPhase ==
    /\ audio.pc \in {"idle", "accept", "render", "finish"} => fadeSnapshot = fadeActive
    /\ audio.pc \in {"idle", "accept", "render", "finish", "showFade", "hideFade"} =>
          reportedLatency = Larger(NodeLatency(fadeFrom), NodeLatency(current))

ObserverInv == OwnershipInv /\ MirrorPhase

LEMMA InitObserver == Init => ObserverInv
BY InitOwnership DEF Init, Idle, ObserverInv, MirrorPhase, NodeLatency, Larger

LEMMA ObserverStep == ObserverInv /\ [Next]_vars => ObserverInv'
<1> SUFFICES ASSUME ObserverInv, [Next]_vars PROVE MirrorPhase'
  <2>1. OwnershipInv /\ [Next]_vars => OwnershipInv'
    BY OwnershipStep
  <2>. QED BY <2>1 DEF ObserverInv
<1> USE DEF owners, observed
\* A step that leaves the audible models alone leaves their latencies alone.
<1>1. ASSUME UNCHANGED <<current, fadeFrom>>,
             \A n \in {current, fadeFrom} \ {Null} : heap'[n] = heap[n]
      PROVE  /\ NodeLatency(current)' = NodeLatency(current)
             /\ NodeLatency(fadeFrom)' = NodeLatency(fadeFrom)
  BY <1>1 DEF NodeLatency
<1>2. CASE Publisher \/ Collector
  BY <1>1, <1>2, OthersKeepAudible DEF ObserverInv, MirrorPhase
<1>3. CASE UNCHANGED vars
  BY <1>1, <1>3 DEF vars, ObserverInv, MirrorPhase
<1>4. CASE Owner
  <2>1. /\ reportedLatency' = 0 /\ fadeSnapshot' = FALSE /\ fadeActive' = FALSE
        /\ current' = Null /\ fadeFrom' = Null
    BY <1>4 DEF Owner, Prepare, Destroy, ClearNonRealtime
  <2>. QED BY <2>1 DEF MirrorPhase, NodeLatency, Larger
<1>5. CASE Audio
  <2>1. heap' = heap
    BY <1>5 DEF Audio, ProcessFlush, AcceptNothing, AcceptPending, RaiseLatency, ShowFade,
                Render, FinishCrossfade, SettleLatency, HideFade
  <2>2. ASSUME NEW frames \in UNION {1..b : b \in BlockSizes}, ProcessFlush(frames)
        PROVE  MirrorPhase'
    BY <1>1, <2>1, <2>2 DEF ProcessFlush, ObserverInv, MirrorPhase
  <2>3. CASE AcceptNothing
    BY <1>1, <2>1, <2>3 DEF AcceptNothing, ObserverInv, MirrorPhase, OwnershipInv, TypeOK
  <2>4. CASE AcceptPending
    BY <2>4 DEF AcceptPending, ObserverInv, MirrorPhase, OwnershipInv, TypeOK
  <2>5. CASE RaiseLatency
    BY <1>1, <2>1, <2>5 DEF RaiseLatency, ObserverInv, MirrorPhase, OwnershipInv, TypeOK
  <2>6. CASE ShowFade
    BY <1>1, <2>1, <2>6 DEF ShowFade, ObserverInv, MirrorPhase, OwnershipInv, TypeOK,
                            FadePhase
  <2>7. CASE Render
    BY <1>1, <2>1, <2>7 DEF Render, Idle, ObserverInv, MirrorPhase, OwnershipInv, TypeOK
  <2>8. CASE FinishCrossfade
    BY <2>8 DEF FinishCrossfade, ObserverInv, MirrorPhase, OwnershipInv, TypeOK
  <2>9. CASE SettleLatency
    <3>1. fadeFrom = Null /\ fadeFrom' = Null
      BY <2>9 DEF SettleLatency, ObserverInv, OwnershipInv, FadePhase, WaitingBlocksFades
    <3>2. NodeLatency(current) \in Nat
      BY NodeLatencyNat DEF ObserverInv, OwnershipInv, TypeOK
    <3>3. Larger(0, NodeLatency(current)) = NodeLatency(current)
      BY <3>2 DEF Larger
    <3>4. NodeLatency(fadeFrom)' = 0 /\ NodeLatency(current)' = NodeLatency(current)
      BY <2>1, <2>9, <3>1 DEF SettleLatency, NodeLatency
    <3>5. reportedLatency' = Larger(NodeLatency(fadeFrom)', NodeLatency(current)')
      BY <2>9, <3>3, <3>4 DEF SettleLatency
    <3>6. audio'.pc = "hideFade"
      BY <2>9 DEF SettleLatency, ObserverInv, OwnershipInv, TypeOK
    <3>. QED BY <3>5, <3>6 DEF MirrorPhase
  <2>10. CASE HideFade
    BY <1>1, <2>1, <2>10 DEF HideFade, Idle, ObserverInv, MirrorPhase, OwnershipInv,
                             TypeOK, FadePhase
  <2>. QED BY <1>5, <2>2, <2>3, <2>4, <2>5, <2>6, <2>7, <2>8, <2>9, <2>10 DEF Audio
<1>. QED BY <1>2, <1>3, <1>4, <1>5 DEF Next

\* Between two blocks, and while one is rendered, the latency the host is told
\* covers every audible model, and the crossfade flag is the audio thread's own.
THEOREM ObserversSeeTheAudio == Spec => []ObserversAgree
<1>1. ObserverInv => ObserversAgree
  BY DEF ObserverInv, MirrorPhase, ObserversAgree
<1>. QED BY <1>1, InitObserver, ObserverStep, PTL DEF Spec

-----------------------------------------------------------------------------
(* The slot implements the handover *)

LEMMA InitHandover == Init => Handover!HandoverInit
BY DEF Init, Handover!HandoverInit, ContentOf

LEMMA PublisherHandover ==
    ASSUME OwnershipInv, Publisher \/ Collector
    PROVE  (\E m \in Content : Handover!Request(m)) \/ UNCHANGED Handover!handoverVars
<1>1. /\ UNCHANGED <<current, fadeFrom, fadeActive>>
      /\ ContentOf(current)' = ContentOf(current)
      /\ ContentOf(fadeFrom)' = ContentOf(fadeFrom)
  BY OthersKeepAudible DEF ContentOf
<1>2. CASE PublishExchange
  <2>1. publisher.node \in Node /\ heap[publisher.node] \in Content
    BY <1>2 DEF PublishExchange, OwnershipInv, TypeOK, CallsHold, LiveOwned, Held
  <2>2. ContentOf(pending)' = heap[publisher.node]
    BY <1>2, <2>1 DEF PublishExchange, ContentOf
  <2>. QED BY <1>1, <2>1, <2>2 DEF Handover!Request
<1>3. CASE ~PublishExchange
  <2>1. ContentOf(pending)' = ContentOf(pending)
    BY <1>3, OthersKeepAudible DEF ContentOf
  <2>. QED BY <1>1, <2>1 DEF Handover!handoverVars
<1>. QED BY <1>2, <1>3

LEMMA AudioHandover ==
    ASSUME OwnershipInv, Audio
    PROVE  Handover!TakeOver \/ Handover!FadeOut \/ UNCHANGED Handover!handoverVars
<1> USE DEF owners, observed, ContentOf
<1>1. CASE AcceptPending
  <2>1. pending \in Node /\ ContentOf(pending) # Null
    BY <1>1 DEF AcceptPending, OwnershipInv, TypeOK, LiveOwned, Held, Content
  <2>. QED BY <1>1, <2>1 DEF AcceptPending, Handover!TakeOver
<1>2. CASE FinishCrossfade
  BY <1>2 DEF FinishCrossfade, OwnershipInv, FadePhase, Handover!FadeOut
<1>3. ASSUME UNCHANGED <<heap, pending, current, fadeFrom, fadeActive>>
      PROVE  UNCHANGED Handover!handoverVars
  BY <1>3 DEF Handover!handoverVars
<1>4. ~AcceptPending /\ ~FinishCrossfade =>
        UNCHANGED <<heap, pending, current, fadeFrom, fadeActive>>
  BY DEF Audio, ProcessFlush, AcceptNothing, RaiseLatency, ShowFade, Render,
         SettleLatency, HideFade
<1>. QED BY <1>1, <1>2, <1>3, <1>4

LEMMA OwnerHandover == Owner => Handover!Drop
BY DEF Owner, Prepare, Destroy, ClearNonRealtime, Handover!Drop, ContentOf

\* Whatever its threads do, the slot behaves like a ModelHandover.
THEOREM SlotImplementsHandover == Spec => HandoverSafety
<1>1. OwnershipInv /\ [Next]_vars => [Handover!HandoverNext]_(Handover!handoverVars)
  <2> SUFFICES ASSUME OwnershipInv, [Next]_vars
               PROVE  Handover!HandoverNext \/ UNCHANGED Handover!handoverVars
    OBVIOUS
  <2>1. CASE UNCHANGED vars
    BY <2>1 DEF vars, owners, ContentOf, Handover!handoverVars
  <2>2. CASE Publisher \/ Collector
    BY <2>2, PublisherHandover DEF Handover!HandoverNext
  <2>3. CASE Audio
    BY <2>3, AudioHandover DEF Handover!HandoverNext
  <2>4. CASE Owner
    BY <2>4, OwnerHandover DEF Handover!HandoverNext
  <2>. QED BY <2>1, <2>2, <2>3, <2>4 DEF Next
<1>. QED BY <1>1, InitHandover, OwnershipInvariant, PTL
         DEF Spec, HandoverSafety, Handover!HandoverSafety

\* In every reachable state of the slot each live node has exactly one owner, no
\* owner's pointer dangles, and a crossfade that ends has somewhere to leave its node.
THEOREM SlotIsSound == Spec => []SlotSound
<1>. QED BY TypeCorrect, NodesHaveOneOwner, LiveNodesAreOwned, WaitingSlotNeverOverwritten, PTL DEF SlotSound
=============================================================================
