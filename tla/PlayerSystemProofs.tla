------------------------ MODULE PlayerSystemProofs ------------------------
(*****************************************************************************)
(* Proofs about PlayerSystem and PluginShell: the composition only restricts *)
(* what the slot can do, so that every theorem about the slot holds in it,   *)
(* and it keeps the queue short, few models in memory, and the slot's        *)
(* content equal to the last publication; the shell restricts the player in  *)
(* the same way, and what its status line says of a published model is true. *)
(*****************************************************************************)
EXTENDS PluginShell, RealtimeModelSlotProofs, FiniteSetTheorems

USE ContentAssumption, PlayerAssumption

-----------------------------------------------------------------------------
(* The worker's variables and the discipline of its thread *)

\* What is loaded has been requested.
Requested ==
    /\ latestRequest = Null => latestGeneration = 0
    /\ consumed <= latestGeneration
    /\ worker.pc \in {"load", "decide"} => worker.task.target \in Content

\* publish is called at the end of a load, collect_retired at two places.
OneThread ==
    /\ Publishing => worker.pc = "decide" /\ W!TaskIsNewest /\ ~worker.failed
    /\ collector.pc # "idle" => worker.pc \in {"collect", "lastCollect"}

WorkerPart == PlayerTypeOK /\ Requested /\ OneThread

LEMMA NoWaiters == <<>> \in [{} -> W!WaiterRecord]
<1>1. <<>> \in [1..Len(<<>>) -> W!WaiterRecord]
  BY EmptySeq, LenProperties
<1>2. 1..Len(<<>>) = {}
  BY EmptySeq
<1>. QED BY <1>1, <1>2

LEMMA InitWorkerPart == PlayerInit => WorkerPart
<1> SUFFICES ASSUME PlayerInit PROVE WorkerPart
  OBVIOUS
<1>1. status \in W!StatusRecord
  BY DEF PlayerInit, W!StatusRecord, W!Generation, W!Target
<1>2. worker \in W!WorkerRecord /\ processor \in W!Task
  BY DEF PlayerInit, W!WorkerRecord, W!Task, W!NoTask, W!Generation, W!Target
<1>3. latestGeneration \in W!Generation /\ consumed \in W!Generation
  BY DEF PlayerInit, W!Generation
<1>4. W!WorkerTypeOK
  BY <1>1, <1>2, <1>3, NoWaiters DEF PlayerInit, W!WorkerTypeOK
<1>5. Requested /\ OneThread
  BY DEF PlayerInit, Init, NoCall, Requested, OneThread, Publishing
<1>. QED BY <1>4, <1>5 DEF WorkerPart, PlayerTypeOK, PlayerInit

\* The worker's variables are typed when its records and counters are.
LEMMA TypedParts ==
    ASSUME stopping' \in BOOLEAN, bypassed' \in BOOLEAN,
           selected' \in Model \cup {Null},
           latestGeneration' \in W!Generation, consumed' \in W!Generation,
           latestRequest' \in W!Target \cup {Null}, status' \in W!StatusRecord,
           worker' \in W!WorkerRecord, processor' \in W!Task
    PROVE  PlayerTypeOK'
BY NoWaiters DEF PlayerTypeOK, W!WorkerTypeOK

LEMMA CompleteTyped ==
    ASSUME W!WorkerTypeOK, NEW state \in {"published", "error"}, W!Complete(state)
    PROVE  status' \in W!StatusRecord
<1>1. worker.task.generation \in W!Generation
  BY DEF W!WorkerTypeOK, W!WorkerRecord, W!Task
<1>2. (state = "error") \in BOOLEAN
  OBVIOUS
<1>. QED BY <1>1, <1>2 DEF W!WorkerTypeOK, W!Complete, W!StatusRecord

LEMMA WorkerPartStep == WorkerPart /\ [PlayerNext]_playerVars => WorkerPart'
<1> SUFFICES ASSUME WorkerPart, [PlayerNext]_playerVars PROVE WorkerPart'
  OBVIOUS
<1>0. /\ W!WorkerTypeOK /\ bypassed \in BOOLEAN /\ selected \in Model \cup {Null}
      /\ worker \in W!WorkerRecord /\ status \in W!StatusRecord /\ processor \in W!Task
      /\ latestGeneration \in W!Generation /\ consumed \in W!Generation
      /\ stopping \in BOOLEAN /\ latestRequest \in W!Target \cup {Null}
  BY DEF WorkerPart, PlayerTypeOK, W!WorkerTypeOK
<1> USE DEF Publishing, workerVars, shellVars
<1>a. ASSUME UNCHANGED <<workerVars, shellVars>>, OneThread' PROVE WorkerPart'
  BY <1>0, <1>a, TypedParts DEF WorkerPart, Requested, W!TaskIsNewest
<1>b. ASSUME worker' \in W!WorkerRecord, worker'.pc \notin {"load", "decide"},
             UNCHANGED <<stopping, latestGeneration, latestRequest, consumed, shellVars>>,
             status' \in W!StatusRecord, processor' \in W!Task,
             publisher'.pc = "idle", collector'.pc = "idle"
      PROVE  WorkerPart'
  BY <1>0, <1>b, TypedParts DEF WorkerPart, Requested, OneThread
<1>c. ASSUME ~Publishing, UNCHANGED vars, worker.pc \notin {"collect", "lastCollect"}
      PROVE  publisher'.pc = "idle" /\ collector'.pc = "idle"
  <2>1. publisher.pc = "idle" => publisher'.pc = "idle"
    BY <1>c DEF vars
  <2>2. publisher.pc = "idle"
    BY <1>c
  <2>3. collector.pc = "idle" /\ collector' = collector
    BY <1>c DEF vars, WorkerPart, OneThread
  <2>. QED BY <2>1, <2>2, <2>3
<1>1. CASE RequestModel
  <2>1. PICK path \in Model :
          /\ selected' = path
          /\ IF worker.pc = "ended" THEN UNCHANGED workerVars ELSE W!Request(path)
    BY <1>1 DEF RequestModel
  <2>2. UNCHANGED <<vars, bypassed>> /\ ~Publishing
    BY <1>1 DEF RequestModel
  <2>3. CASE worker.pc = "ended"
    <3>1. UNCHANGED workerVars
      BY <2>1, <2>3
    <3>2. PlayerTypeOK'
      BY <1>0, <2>1, <2>2, <3>1, TypedParts
    <3>. QED BY <2>2, <3>1, <3>2 DEF vars, WorkerPart, Requested, OneThread, W!TaskIsNewest
  <2>4. CASE W!Request(path)
    <3>1. latestGeneration' \in W!Generation /\ latestGeneration' = latestGeneration + 1
      BY <1>0, <2>4 DEF W!Request, W!Generation
    <3>2. path \in W!Target /\ path # Null
      BY <2>1 DEF W!Target
    <3>3. status' \in W!StatusRecord
      BY <1>0, <2>4, <3>1, <3>2 DEF W!Request, W!StatusRecord
    <3>4. PlayerTypeOK'
      BY <1>0, <2>1, <2>2, <2>4, <3>1, <3>2, <3>3, TypedParts DEF W!Request
    <3>5. consumed' <= latestGeneration' /\ worker' = worker
      BY <1>0, <2>4, <3>1 DEF W!Request, W!Generation, WorkerPart, Requested
    <3>6. Requested'
      BY <2>4, <3>2, <3>5 DEF W!Request, WorkerPart, Requested
    <3>7. OneThread'
      BY <2>2, <3>5 DEF vars, WorkerPart, OneThread
    <3>. QED BY <3>4, <3>6, <3>7 DEF WorkerPart
  <2>. QED BY <2>1, <2>3, <2>4
<1>2. CASE StopWorker
  <2>1. PlayerTypeOK'
    BY <1>0, <1>2, TypedParts DEF StopWorker, W!Stop
  <2>. QED BY <1>2, <2>1 DEF StopWorker, vars, W!Stop, WorkerPart, Requested, OneThread
<1>3. CASE Think
  <2> USE DEF vars
  <2>0. /\ ~Publishing /\ UNCHANGED shellVars
        /\ worker.pc \notin {"collect", "lastCollect"} =>
               publisher'.pc = "idle" /\ collector'.pc = "idle"
    BY <1>3, <1>c DEF Think
  <2>1. CASE W!TakeRequest
    <3>1. latestRequest \in Content /\ latestRequest \in W!Target
      <4>1. latestGeneration # 0
        BY <1>0, <2>1 DEF W!TakeRequest, W!NewRequest, W!Generation, WorkerPart, Requested
      <4>. QED BY <1>0, <4>1 DEF WorkerPart, Requested, Content, W!Target
    <3>2. /\ worker'.task = [generation |-> latestGeneration, target |-> latestRequest]
          /\ worker'.pc \in {"load", "decide"} /\ worker'.failed = FALSE
          /\ consumed' = latestGeneration /\ worker.pc = "wait"
          /\ UNCHANGED <<latestGeneration, latestRequest, stopping, processor>>
      BY <2>1 DEF W!TakeRequest
    <3>3. worker' \in W!WorkerRecord
      BY <1>0, <2>1, <3>1 DEF W!TakeRequest, W!WorkerRecord, W!Task
    <3>4. status' \in W!StatusRecord
      BY <1>0, <2>1, <3>1 DEF W!TakeRequest, W!StatusRecord
    <3>5. PlayerTypeOK'
      BY <1>0, <2>0, <3>2, <3>3, <3>4, TypedParts
    <3>6. Requested'
      BY <1>0, <3>1, <3>2 DEF WorkerPart, Requested, W!Generation
    <3>. QED BY <2>0, <3>2, <3>5, <3>6 DEF WorkerPart, OneThread
  <2>2. CASE W!Poll
    <3>1. worker' \in W!WorkerRecord /\ worker'.pc = "collect" /\ worker.pc = "wait"
      BY <1>0, <2>2 DEF W!Poll, W!WorkerRecord
    <3>. QED BY <1>0, <1>b, <2>0, <2>2, <3>1 DEF W!Poll
  <2>3. ASSUME NEW fails \in BOOLEAN, W!Load(fails) PROVE WorkerPart'
    <3>1. /\ worker' \in W!WorkerRecord /\ worker.pc = "load"
          /\ worker'.task = worker.task
      BY <1>0, <2>3 DEF W!Load, W!WorkerRecord
    <3>2. PlayerTypeOK'
      BY <1>0, <2>0, <2>3, <3>1, TypedParts DEF W!Load
    <3>3. Requested'
      BY <2>3, <3>1 DEF W!Load, WorkerPart, Requested
    <3>4. OneThread'
      BY <2>0, <3>1 DEF OneThread
    <3>. QED BY <3>2, <3>3, <3>4 DEF WorkerPart
  <2>4. ASSUME worker.pc = "decide",
               \/ worker' = [pc |-> "wait", task |-> W!NoTask, failed |-> FALSE]
               \/ worker' = [pc |-> "collect", task |-> W!NoTask, failed |-> FALSE],
               UNCHANGED <<stopping, latestGeneration, latestRequest, consumed, processor>>,
               status' \in W!StatusRecord
        PROVE  WorkerPart'
    <3>1. ASSUME NEW pc \in {"wait", "collect"},
                 worker' = [pc |-> pc, task |-> W!NoTask, failed |-> FALSE]
          PROVE  worker' \in W!WorkerRecord /\ worker'.pc \in {"wait", "collect"}
      <4>1. W!NoTask \in W!Task
        BY DEF W!Task, W!NoTask, W!Generation
      <4>. QED BY <3>1, <4>1 DEF W!WorkerRecord
    <3>2. worker' \in W!WorkerRecord /\ worker'.pc \in {"wait", "collect"}
      BY <2>4, <3>1
    <3>. QED BY <1>0, <1>b, <2>0, <2>4, <3>2
  <2>5. CASE W!Discard
    BY <1>0, <2>4, <2>5 DEF W!Discard
  <2>6. CASE W!ReportError
    BY <1>0, <2>4, <2>6, CompleteTyped DEF W!ReportError
  <2>7. CASE W!PublishThrows
    BY <1>0, <2>4, <2>7, CompleteTyped DEF W!PublishThrows
  <2>8. CASE W!Quit
    <3>1. /\ worker' \in W!WorkerRecord /\ worker'.pc = "lastCollect" /\ worker.pc = "wait"
      BY <1>0, <2>8 DEF W!Quit, W!WorkerRecord
    <3>. QED BY <1>0, <1>b, <2>0, <2>8, <3>1 DEF W!Quit
  <2>9. CASE W!NotifyStopped
    <3>1. /\ worker' \in W!WorkerRecord /\ worker'.pc = "ended" /\ worker.pc = "notify"
      BY <1>0, <2>9 DEF W!NotifyStopped, W!WorkerRecord
    <3>. QED BY <1>0, <1>b, <2>0, <2>9, <3>1 DEF W!NotifyStopped
  <2>. QED BY <1>3, <2>1, <2>2, <2>3, <2>5, <2>6, <2>7, <2>8, <2>9 DEF Think
<1>4. CASE BeginPublish
  <2>1. worker' = worker /\ UNCHANGED <<workerVars, shellVars>>
    BY <1>4 DEF BeginPublish
  <2>2. OneThread'
    BY <1>4, <2>1 DEF BeginPublish, Allocate, WorkerPart, OneThread, W!TaskIsNewest
  <2>. QED BY <1>a, <2>1, <2>2
<1>5. CASE ContinuePublish
  <2>1. /\ worker.pc = "decide" /\ W!TaskIsNewest /\ ~worker.failed
        /\ collector' = collector /\ collector.pc = "idle" /\ UNCHANGED shellVars
    BY <1>5 DEF ContinuePublish, PublishExchange, DeleteReplaced, WorkerPart, OneThread
  <2>2. CASE publisher' = NoCall
    <3>1. W!Publish
      BY <1>5, <2>2 DEF ContinuePublish
    <3>2. worker' \in W!WorkerRecord /\ worker'.pc = "collect"
      BY <3>1 DEF W!Publish, W!WorkerRecord, W!Task, W!NoTask, W!Generation
    <3>3. status' \in W!StatusRecord
      BY <1>0, <3>1, CompleteTyped DEF W!Publish
    <3>4. processor' \in W!Task
      BY <1>0, <3>1 DEF W!Publish, W!WorkerRecord
    <3>. QED BY <1>b, <2>1, <2>2, <3>1, <3>2, <3>3, <3>4 DEF W!Publish, NoCall
  <2>3. CASE publisher' # NoCall
    <3>1. UNCHANGED workerVars
      BY <1>5, <2>3 DEF ContinuePublish
    <3>2. OneThread'
      BY <2>1, <3>1 DEF OneThread, W!TaskIsNewest
    <3>. QED BY <1>a, <2>1, <3>1, <3>2
  <2>. QED BY <2>2, <2>3
<1>6. CASE CollectOne
  <2>1. OneThread'
    BY <1>6 DEF CollectOne, CollectPop, CollectDelete, NoCall, WorkerPart, OneThread,
                W!TaskIsNewest
  <2>. QED BY <1>6, <1>a, <2>1 DEF CollectOne
<1>7. CASE EndCollect
  <2>1. publisher'.pc = "idle" /\ collector'.pc = "idle" /\ UNCHANGED shellVars
    <3>1. worker.pc \in {"collect", "lastCollect"}
      BY <1>7 DEF EndCollect, W!Collect, W!LastCollect
    <3>2. publisher.pc = "idle"
      BY <3>1 DEF WorkerPart, OneThread
    <3>. QED BY <1>7, <3>2 DEF EndCollect, CollectedAll, vars
  <2>2. worker' \in W!WorkerRecord /\ worker'.pc \in {"wait", "notify"}
    BY <1>0, <1>7 DEF EndCollect, W!Collect, W!LastCollect, W!WorkerRecord
  <2>3. status' \in W!StatusRecord
    BY <1>0, <1>7 DEF EndCollect, W!Collect, W!LastCollect, W!StatusRecord
  <2>. QED BY <1>0, <1>7, <1>b, <2>1, <2>2, <2>3 DEF EndCollect, W!Collect, W!LastCollect
<1>8. CASE AudioThread
  <2>1. publisher' = publisher /\ collector' = collector
    BY <1>8 DEF AudioThread, ProcessBlock, ProcessFlush, AcceptNothing, AcceptPending,
                CrossfadeToPending, RaiseLatency, ShowFade, Render, FinishCrossfade,
                SettleLatency, HideFade
  <2>2. OneThread'
    BY <1>8, <2>1 DEF AudioThread, WorkerPart, OneThread, W!TaskIsNewest
  <2>. QED BY <1>8, <1>a, <2>2 DEF AudioThread
<1>9. CASE SetBypass
  <2>1. PlayerTypeOK'
    BY <1>0, <1>9, TypedParts DEF SetBypass
  <2>. QED BY <1>9, <2>1 DEF SetBypass, vars, WorkerPart, Requested, OneThread, W!TaskIsNewest
<1>10. CASE RebuildModelWorker
  <2> USE DEF RebuildModelWorker, StartWorker, AskAgain
  <2>1. publisher'.pc = "idle" /\ collector'.pc = "idle"
    <3>1. Quiescent /\ UNCHANGED <<publisher, collector>>
      BY <1>10 DEF PrepareProcessor, Prepare, ClearNonRealtime
    <3>. QED BY <3>1 DEF Quiescent
  <2>2. latestGeneration' \in W!Generation /\ consumed' = 0 /\ 0 \in W!Generation
    BY <1>10 DEF W!Generation
  <2>3. selected \in W!Target \cup {Null} /\ latestRequest' = selected /\ selected' = selected
    BY <1>0, <1>10 DEF W!Target
  <2>4. status' \in W!StatusRecord
    BY <1>10, <2>2, <2>3 DEF W!StatusRecord
  <2>5. worker' \in W!WorkerRecord /\ processor' \in W!Task /\ worker'.pc = "wait"
    BY <1>10 DEF W!WorkerRecord, W!Task, W!NoTask, W!Generation
  <2>6. PlayerTypeOK'
    BY <1>0, <1>10, <2>2, <2>3, <2>4, <2>5, TypedParts
  <2>7. Requested'
    BY <1>10, <2>5 DEF Requested
  <2>. QED BY <2>1, <2>5, <2>6, <2>7 DEF WorkerPart, OneThread
<1>11. CASE UNCHANGED playerVars
  <2>1. OneThread'
    BY <1>11 DEF playerVars, vars, WorkerPart, OneThread, W!TaskIsNewest
  <2>. QED BY <1>11, <1>a, <2>1 DEF playerVars
<1>. QED
  BY <1>1, <1>2, <1>3, <1>4, <1>5, <1>6, <1>7, <1>8, <1>9, <1>10, <1>11
  DEF PlayerNext, WorkerThread

\* The worker's state is well typed, whatever its processor and owner do.
THEOREM PlayerTypeCorrect == PlayerSpec => []PlayerTypeOK
<1>. QED BY InitWorkerPart, WorkerPartStep, PTL DEF PlayerSpec, WorkerPart

-----------------------------------------------------------------------------
(* The composition restricts the slot *)

LEMMA SlotStep == WorkerPart /\ [PlayerNext]_playerVars => [Next]_vars
<1> SUFFICES ASSUME WorkerPart, [PlayerNext]_playerVars PROVE [Next]_vars
  OBVIOUS
<1>1. CASE UNCHANGED vars
  BY <1>1
<1>2. CASE BeginPublish
  <2>1. worker.task.target \in Content
    BY <1>2 DEF BeginPublish, WorkerPart, Requested
  <2>2. Publisher
    BY <1>2, <2>1 DEF BeginPublish, Publisher
  <2>. QED BY <2>2 DEF Next
<1>3. CASE ContinuePublish
  BY <1>3 DEF ContinuePublish, Publisher, Next
<1>4. CASE CollectOne
  BY <1>4 DEF CollectOne, Collector, Next
<1>5. CASE AudioThread
  BY <1>5 DEF AudioThread, ProcessBlock, Audio, Next
<1>6. CASE RebuildModelWorker
  BY <1>6 DEF RebuildModelWorker, PrepareProcessor, Owner, Next
<1>. QED
  BY <1>1, <1>2, <1>3, <1>4, <1>5, <1>6
  DEF PlayerNext, WorkerThread, RequestModel, StopWorker, Think, EndCollect, SetBypass, playerVars

\* Every behaviour of the composed system is one of the slot, so that each
\* theorem about the slot on its own holds in the plug-in.
THEOREM PlayerRespectsSlot == PlayerSpec => Spec
<1>1. PlayerInit => Init
  BY DEF PlayerInit
<1>. QED BY <1>1, InitWorkerPart, WorkerPartStep, SlotStep, PTL DEF PlayerSpec, Spec
-----------------------------------------------------------------------------
(***************************************************************************)
(* Counting the nodes.  Every node in the slot's hands is in one of its     *)
(* places.  When a round of collect_retired ends, the queue is empty and at *)
(* most three of the other places are in use; a publication adds one node,  *)
(* and the next round follows it.                                           *)
(***************************************************************************)
Has(n) == IF n = Null THEN 0 ELSE 1

Arriving == Has(publisher.node) + Has(pending) + Has(current)

Leaving == Len(retired) + Has(fadeFrom) + Has(retireWaiting) + Has(collector.node)

InSlot == Arriving + Leaving

FewInSlot == InSlot <= 3 + (IF Publishing \/ worker.pc = "collect" THEN 1 ELSE 0)

\* The audio has a node of its own before any can be on its way out.
CurrentFirst ==
    fadeActive \/ fadeFrom # Null \/ retireWaiting # Null \/ retired # <<>> => current # Null

CountInv == FewInSlot /\ CurrentFirst /\ QueueNeverFills

LEMMA HasValue ==
    \A n : Has(n) \in Nat /\ (n = Null => Has(n) = 0) /\ (n # Null => Has(n) = 1)
BY DEF Has

\* The same, for the places, before and after a step.
LEMMA HasNat ==
    /\ Has(pending) \in Nat /\ Has(current) \in Nat /\ Has(fadeFrom) \in Nat
    /\ Has(retireWaiting) \in Nat /\ Has(publisher.node) \in Nat
    /\ Has(collector.node) \in Nat
    /\ Has(pending') \in Nat /\ Has(current') \in Nat /\ Has(fadeFrom') \in Nat
    /\ Has(retireWaiting') \in Nat /\ Has(publisher'.node) \in Nat
    /\ Has(collector'.node) \in Nat
BY HasValue

LEMMA CountNat == OwnershipInv => Len(retired) \in Nat /\ InSlot \in Nat
<1> SUFFICES ASSUME OwnershipInv PROVE Len(retired) \in Nat /\ InSlot \in Nat
  OBVIOUS
<1>1. Len(retired) \in Nat
  BY LenProperties DEF OwnershipInv, TypeOK
<1>. QED BY <1>1, HasValue DEF InSlot, Arriving, Leaving

\* What the bound on the number of nodes says about the queue.
LEMMA FewQueued == 
    ASSUME OwnershipInv, FewInSlot, CurrentFirst
    PROVE  Len(retired) <= 3 /\ (fadeFrom # Null => Len(retired) <= 2)
<1>1. Len(retired) \in Nat /\ (Len(retired) = 0 <=> retired = <<>>)
  BY LenProperties, EmptySeq DEF OwnershipInv, TypeOK
<1>2. InSlot <= 4
  BY CountNat DEF FewInSlot
<1>. QED BY <1>1, <1>2, HasValue DEF InSlot, Arriving, Leaving, CurrentFirst

LEMMA InitCount == PlayerInit => CountInv
BY EmptySeq, HasValue DEF PlayerInit, Init, NoCall, CountInv, FewInSlot, InSlot, Arriving, Leaving, Publishing,
       CurrentFirst, QueueNeverFills

\* The audio thread passes nodes from place to place.
LEMMA AudioCount ==
    ASSUME OwnershipInv, CountInv, AudioThread
    PROVE  CountInv'
<1>1. Len(retired) \in Nat /\ retired \in Seq(Node)
  BY LenProperties DEF OwnershipInv, TypeOK
<1>2. worker' = worker /\ publisher' = publisher /\ collector' = collector
  BY DEF AudioThread, workerVars, ProcessBlock, ProcessFlush, AcceptNothing, AcceptPending,
         CrossfadeToPending, RaiseLatency, ShowFade, Render, FinishCrossfade,
         SettleLatency, HideFade
<1>3. ASSUME UNCHANGED <<owners, fadeActive>> PROVE CountInv'
  BY <1>2, <1>3 DEF owners, CountInv, FewInSlot, InSlot, Arriving, Leaving, Publishing, CurrentFirst, QueueNeverFills
<1>4. ASSUME NEW n \in Node, retired' = Append(retired, n)
      PROVE  Len(retired') = Len(retired) + 1
  BY <1>1, <1>4, AppendProperties
<1>5. ASSUME NEW frames \in UNION {1..b : b \in BlockSizes}, ProcessFlush(frames)
      PROVE  CountInv'
  <2>1. CASE retireWaiting # Null /\ HasRoom
    <3>1. /\ retireWaiting \in Node /\ retired' = Append(retired, retireWaiting)
          /\ retireWaiting' = Null
          /\ UNCHANGED <<pending, current, fadeFrom, fadeActive>>
      BY <1>5, <2>1 DEF ProcessFlush, FlushWaitingRetirement, OwnershipInv, TypeOK
    <3>2. Len(retired') = Len(retired) + 1
      BY <1>4, <3>1
    <3>3. InSlot' = InSlot
      <4>1. Has(retireWaiting) = 1 /\ Has(retireWaiting') = 0
        BY <2>1, <3>1, HasValue
      <4>2. Leaving' = Leaving
        BY <1>1, <1>2, <3>1, <3>2, <4>1, HasNat DEF Leaving
      <4>. QED BY <1>2, <3>1, <4>2 DEF InSlot, Arriving
    <3>4. FewInSlot' /\ CurrentFirst'
      BY <1>2, <2>1, <3>1, <3>3 DEF CountInv, FewInSlot, Publishing, CurrentFirst
    <3>5. QueueNeverFills'
      BY <2>1 DEF CountInv, QueueNeverFills
    <3>. QED BY <3>4, <3>5 DEF CountInv
  <2>2. CASE ~(retireWaiting # Null /\ HasRoom)
    BY <1>3, <1>5, <2>2 DEF ProcessFlush, FlushWaitingRetirement, owners
  <2>. QED BY <2>1, <2>2
<1>6. CASE AcceptPending
  <2>1. /\ pending # Null /\ fadeFrom = Null
        /\ fadeFrom' = current /\ current' = pending /\ pending' = Null
        /\ UNCHANGED <<retireWaiting, retired>>
    BY <1>6 DEF AcceptPending, CrossfadeToPending, OwnershipInv, FadePhase, WaitingBlocksFades
  <2>2. InSlot' = InSlot
    <3>1. Has(pending') = 0 /\ Has(pending) = 1 /\ Has(fadeFrom) = 0
      BY <2>1, HasValue
    <3>2. Has(current') = Has(pending) /\ Has(fadeFrom') = Has(current)
      BY <2>1
    <3>3. Arriving' = Has(publisher.node) + 1 /\ Arriving = Has(publisher.node) + 1 + Has(current)
      BY <1>2, <3>1, <3>2, HasNat DEF Arriving
    <3>4. Leaving' = Leaving + Has(current)
      BY <1>1, <1>2, <2>1, <3>1, <3>2, HasNat DEF Leaving
    <3>5. Leaving \in Nat
      BY <1>1, HasNat DEF Leaving
    <3>. QED BY <3>3, <3>4, <3>5, HasNat DEF InSlot
  <2>. QED BY <1>2, <2>1, <2>2
       DEF CountInv, FewInSlot, Publishing, CurrentFirst, QueueNeverFills
<1>7. CASE FinishCrossfade
  <2>1. fadeActive /\ retireWaiting = Null /\ fadeFrom' = Null
    BY <1>7 DEF FinishCrossfade, OwnershipInv, FadePhase, WaitingBlocksFades
  <2>2. UNCHANGED <<pending, current>> /\ ~fadeActive'
    BY <1>7 DEF FinishCrossfade
  <2>3. CurrentFirst'
    BY <2>1, <2>2 DEF CountInv, CurrentFirst
  <2>4. CASE fadeFrom = Null
    <3>1. UNCHANGED <<retired, retireWaiting>>
      BY <1>7, <2>4 DEF FinishCrossfade, Retire
    <3>. QED BY <1>2, <2>1, <2>2, <2>3, <2>4, <3>1
         DEF CountInv, FewInSlot, InSlot, Arriving, Leaving, Publishing, QueueNeverFills
  <2>5. CASE fadeFrom # Null /\ HasRoom
    <3>1. /\ fadeFrom \in Node /\ retired' = Append(retired, fadeFrom)
          /\ UNCHANGED retireWaiting
      BY <1>7, <2>5 DEF FinishCrossfade, Retire, OwnershipInv, TypeOK
    <3>2. Len(retired') = Len(retired) + 1
      BY <1>4, <3>1
    <3>3. InSlot' = InSlot
      <4>1. Has(fadeFrom) = 1 /\ Has(fadeFrom') = 0
        BY <2>1, <2>5, HasValue
      <4>2. Leaving' = Leaving
        BY <1>1, <1>2, <3>1, <3>2, <4>1, HasNat DEF Leaving
      <4>. QED BY <1>2, <2>2, <4>2 DEF InSlot, Arriving
    <3>4. Len(retired) <= 2
      BY <2>5, FewQueued DEF CountInv
    <3>5. QueueNeverFills'
      BY <1>1, <2>1, <3>1, <3>2, <3>4 DEF QueueNeverFills
    <3>. QED BY <1>2, <2>3, <3>3, <3>5 DEF CountInv, FewInSlot, Publishing
  <2>6. CASE fadeFrom # Null /\ ~HasRoom
    <3>1. retireWaiting' = fadeFrom /\ UNCHANGED retired
      BY <1>7, <2>6 DEF FinishCrossfade, Retire
    <3>2. InSlot' = InSlot
      BY <1>1, <1>2, <2>1, <2>2, <2>6, <3>1, HasValue DEF InSlot, Arriving, Leaving
    <3>3. Len(retired) <= 2
      BY <2>6, FewQueued DEF CountInv
    <3>4. QueueNeverFills'
      <4>1. Capacity < 3
        BY <1>1, <2>6, <3>3, CapacityAssumption DEF HasRoom
      <4>. QED BY <4>1, CapacityAssumption DEF QueueNeverFills
    <3>. QED BY <1>2, <2>3, <3>2, <3>4 DEF CountInv, FewInSlot, Publishing
  <2>. QED BY <2>4, <2>5, <2>6
<1>8. CASE AcceptNothing \/ RaiseLatency \/ ShowFade \/ Render \/ SettleLatency \/ HideFade
  BY <1>3, <1>8 DEF AcceptNothing, RaiseLatency, ShowFade, Render, SettleLatency, HideFade
<1>. QED BY <1>5, <1>6, <1>7, <1>8 DEF AudioThread, ProcessBlock

LEMMA SumShrinks ==
  ASSUME NEW a \in Nat, NEW b \in Nat, NEW c \in Nat, c <= b
  PROVE  a + c <= a + b /\ a + c \in Nat
<1>. QED OBVIOUS

LEMMA CountStep ==
    ASSUME OwnershipInv, WorkerPart, CountInv, [PlayerNext]_playerVars
    PROVE  CountInv'
<1>0. Len(retired) \in Nat /\ InSlot \in Nat
  BY CountNat
<1>1. ASSUME UNCHANGED vars, ~Publishing, worker.pc = "collect" => worker'.pc = "collect"
      PROVE  CountInv'
  <2>1. InSlot' = InSlot /\ ~Publishing'
    BY <1>1 DEF vars, owners, InSlot, Arriving, Leaving, Publishing
  <2>. QED BY <1>0, <1>1, <2>1
       DEF vars, owners, CountInv, FewInSlot, CurrentFirst, QueueNeverFills
<1>2. CASE RequestModel \/ StopWorker \/ SetBypass \/ UNCHANGED playerVars
  <2>1. UNCHANGED vars /\ worker' = worker
    BY <1>2 DEF RequestModel, StopWorker, SetBypass, playerVars, workerVars, W!Request, W!Stop
  <2>2. InSlot' = InSlot /\ Publishing' = Publishing
    BY <2>1 DEF vars, owners, InSlot, Arriving, Leaving, Publishing
  <2>. QED BY <2>1, <2>2 DEF vars, owners, CountInv, FewInSlot, CurrentFirst, QueueNeverFills
<1>3. CASE Think
  <2>1. worker.pc # "collect"
    BY <1>3 DEF Think, W!TakeRequest, W!Poll, W!Load, W!Discard, W!ReportError,
                W!PublishThrows, W!Quit, W!NotifyStopped
  <2>. QED BY <1>1, <1>3, <2>1 DEF Think
<1>4. CASE BeginPublish
  <2>1. PICK n \in Node : Allocate(n, worker.task.target)
    BY <1>4 DEF BeginPublish
  <2>2. /\ publisher.node = Null /\ ~Publishing /\ worker.pc = "decide"
        /\ publisher'.node = n /\ Publishing' /\ n # Null
        /\ UNCHANGED <<owners, fadeActive, collector>>
    BY <1>4, <2>1 DEF BeginPublish, Allocate, OwnershipInv, CallsHold, Publishing
  <2>3. InSlot' = InSlot + 1
    <3>1. Has(publisher.node) = 0 /\ Has(publisher'.node) = 1
      BY <2>2, HasValue
    <3>2. Arriving' = Arriving + 1 /\ Arriving \in Nat
      BY <2>2, <3>1, HasNat DEF owners, Arriving
    <3>3. Leaving' = Leaving /\ Leaving \in Nat
      BY <1>0, <2>2, HasNat DEF owners, Leaving
    <3>. QED BY <3>2, <3>3 DEF InSlot
  <2>. QED BY <1>0, <2>2, <2>3
       DEF owners, CountInv, FewInSlot, CurrentFirst, QueueNeverFills
<1>5. CASE ContinuePublish
  <2>1. Publishing /\ (Publishing' \/ worker'.pc = "collect")
    BY <1>5 DEF ContinuePublish, PublishExchange, DeleteReplaced, Publishing, NoCall,
                W!Publish
  <2>2. InSlot' <= InSlot /\ InSlot' \in Nat
    <3>1. CASE PublishExchange
      <4>1. publisher.node # Null
        BY <3>1 DEF PublishExchange, OwnershipInv, CallsHold
      <4>2. Has(publisher.node) = 1 /\ Has(pending') = 1
        BY <3>1, <4>1, HasValue DEF PublishExchange
      <4>3. Has(publisher'.node) = Has(pending)
        BY <3>1, HasValue DEF PublishExchange, NoCall
      <4>. QED BY <1>0, <3>1, <4>2, <4>3, HasValue DEF PublishExchange, InSlot, Arriving, Leaving
    <3>2. CASE DeleteReplaced
      BY <1>0, <3>2, HasValue DEF DeleteReplaced, NoCall, owners, InSlot, Arriving, Leaving
    <3>. QED BY <1>5, <3>1, <3>2 DEF ContinuePublish
  <2>3. UNCHANGED <<current, fadeFrom, retireWaiting, retired, fadeActive>>
    BY <1>5 DEF ContinuePublish, PublishExchange, DeleteReplaced, owners
  <2>. QED BY <1>0, <2>1, <2>2, <2>3 DEF CountInv, FewInSlot, CurrentFirst, QueueNeverFills
<1>6. CASE CollectOne
  <2>1. worker' = worker /\ publisher' = publisher
        /\ UNCHANGED <<pending, current, fadeFrom, retireWaiting, fadeActive>>
    BY <1>6 DEF CollectOne, workerVars, CollectPop, CollectDelete, owners
  <2>2. /\ InSlot' <= InSlot /\ InSlot' \in Nat
        /\ Len(retired') <= Len(retired) /\ Len(retired') \in Nat
        /\ retired' # <<>> => retired # <<>>
    <3>1. CASE CollectPop
      <4>1. Len(retired') = Len(retired) - 1 /\ Len(retired') \in Nat
        BY <1>0, <3>1, HeadTailProperties, LenProperties, EmptySeq
        DEF CollectPop, OwnershipInv, TypeOK
      <4>2. collector.node = Null
        BY <3>1 DEF CollectPop, OwnershipInv, CallsHold
      <4>3. retired # <<>>
        BY <3>1 DEF CollectPop
      <4>4. Has(collector.node) = 0 /\ Has(collector'.node) <= 1
        BY <4>2, HasValue
      <4>5. InSlot' <= InSlot /\ InSlot' \in Nat
        <5>1. Leaving' <= Leaving /\ Leaving' \in Nat /\ Leaving \in Nat
          BY <1>0, <2>1, <4>1, <4>4, HasNat DEF Leaving
        <5>2. Arriving' = Arriving /\ Arriving \in Nat
          BY <2>1, HasNat DEF Arriving
        <5>3. InSlot' = Arriving + Leaving' /\ InSlot = Arriving + Leaving
          BY <5>2 DEF InSlot
        <5>. QED BY <5>1, <5>2, <5>3, SumShrinks
      <4>. QED BY <1>0, <4>1, <4>3, <4>5
    <3>2. CASE CollectDelete
      BY <1>0, <2>1, <3>2, HasValue DEF CollectDelete, NoCall, owners, InSlot, Arriving, Leaving
    <3>. QED BY <1>6, <3>1, <3>2 DEF CollectOne
  <2>. QED BY <1>0, <2>1, <2>2
       DEF CountInv, FewInSlot, Publishing, CurrentFirst, QueueNeverFills
<1>7. CASE EndCollect
  <2>1. worker.pc \in {"collect", "lastCollect"} /\ worker'.pc # "collect"
    BY <1>7 DEF EndCollect, W!Collect, W!LastCollect, WorkerPart, PlayerTypeOK, W!WorkerTypeOK,
                W!WorkerRecord
  <2>2. publisher.node = Null /\ ~Publishing /\ collector.node = Null /\ retired = <<>>
    BY <1>7, <2>1 DEF EndCollect, CollectedAll, WorkerPart, OneThread, Publishing,
                      OwnershipInv, CallsHold
  <2>3. fadeFrom = Null \/ retireWaiting = Null
    BY DEF OwnershipInv, FadePhase, WaitingBlocksFades
  <2>4. InSlot <= 3
    <3>1. Has(publisher.node) = 0 /\ Has(collector.node) = 0 /\ Len(retired) = 0
      BY <2>2, EmptySeq, HasValue
    <3>2. /\ Has(fadeFrom) + Has(retireWaiting) <= 1
          /\ Has(pending) <= 1 /\ Has(current) <= 1
      BY <2>3 DEF Has
    <3>3. Arriving \in 0..2
      BY <3>1, <3>2, HasNat DEF Arriving
    <3>4. Leaving \in 0..1
      BY <3>1, <3>2, HasNat DEF Leaving
    <3>. QED BY <3>3, <3>4 DEF InSlot
  <2>5. InSlot' = InSlot /\ ~Publishing'
    BY <1>7, <2>2 DEF EndCollect, vars, owners, InSlot, Arriving, Leaving, Publishing
  <2>. QED BY <1>0, <1>7, <2>1, <2>4, <2>5
       DEF EndCollect, vars, owners, CountInv, FewInSlot, CurrentFirst, QueueNeverFills
<1>8. CASE AudioThread
  BY <1>8, AudioCount
<1>9. CASE RebuildModelWorker
  <2>1. Quiescent /\ ClearNonRealtime
    BY <1>9 DEF RebuildModelWorker, PrepareProcessor, Prepare
  <2>2. publisher'.node = Null /\ collector'.node = Null /\ ~Publishing'
    BY <2>1 DEF Quiescent, ClearNonRealtime, OwnershipInv, CallsHold, Publishing
  <2>3. InSlot' = 0
    BY <2>1, <2>2, EmptySeq, HasValue DEF ClearNonRealtime, InSlot, Arriving, Leaving
  <2>. QED BY <2>1, <2>3, EmptySeq
       DEF ClearNonRealtime, CountInv, FewInSlot, CurrentFirst, QueueNeverFills
<1>. QED
  BY <1>2, <1>3, <1>4, <1>5, <1>6, <1>7, <1>8, <1>9 DEF PlayerNext, WorkerThread

LEMMA CountInvariant == PlayerSpec => [](OwnershipInv /\ WorkerPart /\ CountInv)
<1>1. PlayerInit => OwnershipInv /\ WorkerPart /\ CountInv
  BY InitOwnership, InitWorkerPart, InitCount DEF PlayerInit
<1>2. OwnershipInv /\ WorkerPart /\ CountInv /\ [PlayerNext]_playerVars
        => (OwnershipInv /\ WorkerPart /\ CountInv)'
  BY SlotStep, OwnershipStep, WorkerPartStep, CountStep
<1>. QED BY <1>1, <1>2, PTL DEF PlayerSpec

\* At most three models wait in the queue and, if its capacity is three or more,
\* retire_waiting_ is never used, for any number of requests and any timing.
THEOREM BackPressureNeverSetsIn == PlayerSpec => []QueueNeverFills
<1>. QED BY CountInvariant, PTL DEF CountInv

-----------------------------------------------------------------------------
(* From the places to the heap: a node is live only while a place has it.    *)

HeldIn(n) == {n} \ {Null}

InQueue == {retired[i] : i \in 1..Len(retired)}

LEMMA HeldInCount ==
    \A n : IsFiniteSet(HeldIn(n)) /\ Cardinality(HeldIn(n)) = Has(n)
<1>. SUFFICES ASSUME NEW n
              PROVE  IsFiniteSet(HeldIn(n)) /\ Cardinality(HeldIn(n)) = Has(n)
  OBVIOUS
<1>1. CASE n = Null
  <2>1. HeldIn(n) = {}
    BY <1>1 DEF HeldIn
  <2>. QED BY <1>1, <2>1, FS_EmptySet DEF Has
<1>2. CASE n # Null
  <2>1. HeldIn(n) = {n}
    BY <1>2 DEF HeldIn
  <2>2. IsFiniteSet({n}) /\ Cardinality({n}) = 1
    BY FS_Singleton
  <2>3. Has(n) = 1
    BY <1>2 DEF Has
  <2>. QED BY <2>1, <2>2, <2>3
<1>. QED BY <1>1, <1>2

\* A union has at most as many elements as its parts together.
LEMMA UnionBound ==
    ASSUME NEW S, NEW T, IsFiniteSet(S), IsFiniteSet(T), NEW m \in Nat, NEW n \in Nat,
           Cardinality(S) <= m, Cardinality(T) <= n
    PROVE  IsFiniteSet(S \cup T) /\ Cardinality(S \cup T) <= m + n
<1>1. /\ IsFiniteSet(S \cup T)
      /\ Cardinality(S \cup T) = Cardinality(S) + Cardinality(T) - Cardinality(S \cap T)
  BY FS_Union
<1>2. IsFiniteSet(S \cap T)
  <2>1. S \cap T \in SUBSET S
    OBVIOUS
  <2>. QED BY <2>1, FS_Subset
<1>3. Cardinality(S) \in Nat /\ Cardinality(T) \in Nat /\ Cardinality(S \cap T) \in Nat
  BY <1>2, FS_CardinalityType
<1>4. \A a, b, c \in Nat : a <= m /\ b <= n => a + b - c <= m + n
  OBVIOUS
<1>. QED BY <1>1, <1>3, <1>4

LEMMA InQueueCount ==
    ASSUME retired \in Seq(Node)
    PROVE  IsFiniteSet(InQueue) /\ Cardinality(InQueue) <= Len(retired)
<1>1. Len(retired) \in Nat
  BY LenProperties
<1>. DEFINE f == [i \in 1..Len(retired) |-> retired[i]]
<1>2. f \in Surjection(1..Len(retired), InQueue)
  BY DEF Surjection, InQueue
<1>3. IsFiniteSet(1..Len(retired)) /\ Cardinality(1..Len(retired)) = Len(retired)
  <2>1. 1 \in Int /\ Len(retired) \in Int
    BY <1>1
  <2>2. /\ IsFiniteSet(1..Len(retired))
        /\ Cardinality(1..Len(retired)) = IF 1 > Len(retired) THEN 0 ELSE Len(retired) - 1 + 1
    BY <2>1, FS_Interval
  <2>3. \A n \in Nat : (IF 1 > n THEN 0 ELSE n - 1 + 1) = n
    OBVIOUS
  <2>. QED BY <1>1, <2>2, <2>3
<1>. QED BY <1>2, <1>3, FS_Surjection

\* With as many nodes as the places have.
LEMMA LiveBound ==
    ASSUME OwnershipInv
    PROVE  /\ Cardinality({n \in Node : heap[n] # Free}) \in Nat
           /\ Cardinality({n \in Node : heap[n] # Free}) <= InSlot
<1>. DEFINE Live == {n \in Node : heap[n] # Free}
            A == (HeldIn(publisher.node) \cup HeldIn(pending)) \cup HeldIn(current)
            B == ((InQueue \cup HeldIn(fadeFrom)) \cup HeldIn(retireWaiting))
                     \cup HeldIn(collector.node)
<1>1. retired \in Seq(Node) /\ Len(retired) \in Nat
  BY LenProperties DEF OwnershipInv, TypeOK
<1>2. \A n : /\ Has(n) \in Nat /\ IsFiniteSet(HeldIn(n))
             /\ Cardinality(HeldIn(n)) <= Has(n)
  BY HasValue, HeldInCount
<1>3. \A m, n \in Nat : m + n \in Nat
  OBVIOUS
<1>4. IsFiniteSet(A) /\ Cardinality(A) <= Arriving
  <2>1. /\ IsFiniteSet(HeldIn(publisher.node) \cup HeldIn(pending))
        /\ Cardinality(HeldIn(publisher.node) \cup HeldIn(pending))
               <= Has(publisher.node) + Has(pending)
    BY <1>2, UnionBound
  <2>. QED BY <1>2, <1>3, <2>1, UnionBound DEF Arriving
<1>5. IsFiniteSet(B) /\ Cardinality(B) <= Leaving
  <2>1. IsFiniteSet(InQueue) /\ Cardinality(InQueue) <= Len(retired)
    BY <1>1, InQueueCount
  <2>2. /\ IsFiniteSet(InQueue \cup HeldIn(fadeFrom))
        /\ Cardinality(InQueue \cup HeldIn(fadeFrom)) <= Len(retired) + Has(fadeFrom)
    BY <1>1, <1>2, <2>1, UnionBound
  <2>3. /\ IsFiniteSet((InQueue \cup HeldIn(fadeFrom)) \cup HeldIn(retireWaiting))
        /\ Cardinality((InQueue \cup HeldIn(fadeFrom)) \cup HeldIn(retireWaiting))
               <= Len(retired) + Has(fadeFrom) + Has(retireWaiting)
    BY <1>1, <1>2, <1>3, <2>2, UnionBound
  <2>. QED BY <1>1, <1>2, <1>3, <2>3, UnionBound DEF Leaving
<1>6. Arriving \in Nat /\ Leaving \in Nat
  BY <1>1, <1>2, <1>3 DEF Arriving, Leaving
<1>7. IsFiniteSet(A \cup B) /\ Cardinality(A \cup B) <= InSlot
  <2>. HIDE DEF A, B
  <2>. QED BY <1>4, <1>5, <1>6, UnionBound DEF InSlot
<1>8. Live \subseteq A \cup B
  <2>. SUFFICES ASSUME NEW n \in Node, heap[n] # Free PROVE n \in A \cup B
    OBVIOUS
  <2>1. n # Null
    BY ContentAssumption
  <2>2. n \in Held \/ Queued(retired, n)
    BY DEF OwnershipInv, LiveOwned
  <2>. QED BY <2>1, <2>2 DEF Held, HeldIn, Queued, InQueue
<1>9. Cardinality(Live) <= Cardinality(A \cup B) /\ IsFiniteSet(Live)
  <2>. HIDE DEF A, B, Live
  <2>. QED BY <1>7, <1>8, FS_Subset
<1>10. Cardinality(Live) \in Nat /\ Cardinality(A \cup B) \in Nat /\ InSlot \in Nat
  <2>. HIDE DEF A, B, Live
  <2>. QED BY <1>7, <1>9, CountNat, FS_CardinalityType
<1>11. \A k, l, m \in Nat : k <= l /\ l <= m => k <= m
  OBVIOUS
<1>. QED BY <1>7, <1>9, <1>10, <1>11

(* Because every live node has one place and the worker collects after every *)
(* publication, there are never more than four models in memory, whatever    *)
(* the capacity of the queue.                                                *)
THEOREM FourModelsAtMost == PlayerSpec => []MemoryBounded
<1>1. OwnershipInv /\ WorkerPart /\ CountInv => MemoryBounded
  <2>. SUFFICES ASSUME OwnershipInv, CountInv PROVE MemoryBounded
    OBVIOUS
  <2>1. /\ Cardinality({n \in Node : heap[n] # Free}) \in Nat
        /\ Cardinality({n \in Node : heap[n] # Free}) <= InSlot
    BY LiveBound
  <2>2. InSlot \in Nat /\ InSlot <= 4
    BY CountNat DEF CountInv, FewInSlot
  <2>3. \A c, k \in Nat : c <= k /\ k <= 4 => c <= 4
    OBVIOUS
  <2>. QED BY <2>1, <2>2, <2>3 DEF MemoryBounded
<1>. QED BY <1>1, CountInvariant, PTL
-----------------------------------------------------------------------------
(***************************************************************************)
(* What the audio holds is what the worker published last.  In the middle   *)
(* of a publication the two differ, and this says how.                      *)
(***************************************************************************)
PublishedInv ==
    /\ PublishedIsNewest
    /\ publisher.pc = "exchange" => heap[publisher.node] = worker.task.target
    /\ publisher.pc = "delete" => Newest = worker.task.target

LEMMA InitPublished == PlayerInit => PublishedInv
BY DEF PlayerInit, Init, NoCall, PublishedInv, PublishedIsNewest, Publishing, Newest,
       ContentOf, W!NoTask

\* The audio thread moves the pending node on, and nothing else of it changes.
LEMMA AudioKeepsNewest ==
    ASSUME OwnershipInv, AudioThread
    PROVE  Newest' = Newest /\ UNCHANGED <<heap, publisher>>
<1>1. UNCHANGED <<heap, publisher>>
  BY DEF AudioThread, ProcessBlock, ProcessFlush, AcceptNothing, AcceptPending,
         CrossfadeToPending, RaiseLatency, ShowFade, Render, FinishCrossfade,
         SettleLatency, HideFade
<1>2. CASE AcceptPending
  BY <1>1, <1>2 DEF AcceptPending, CrossfadeToPending, Newest, ContentOf
<1>3. CASE ~AcceptPending
  <2>1. pending' = pending /\ current' = current
    BY <1>3 DEF AudioThread, ProcessBlock, ProcessFlush, AcceptNothing, RaiseLatency,
                ShowFade, Render, FinishCrossfade, SettleLatency, HideFade, owners
  <2>. QED BY <1>1, <2>1 DEF Newest, ContentOf
<1>. QED BY <1>1, <1>2, <1>3

LEMMA PublishedStep ==
    OwnershipInv /\ WorkerPart /\ PublishedInv /\ [PlayerNext]_playerVars
        => PublishedInv'
<1> SUFFICES ASSUME OwnershipInv, WorkerPart, PublishedInv, [PlayerNext]_playerVars
             PROVE  PublishedInv'
  OBVIOUS
<1>a. ASSUME Publisher \/ Collector, ~PublishExchange PROVE Newest' = Newest
  BY <1>a, OthersKeepAudible DEF Newest, ContentOf
<1>b. ASSUME ~Publishing, ~Publishing', Newest' = Newest, processor' = processor
      PROVE  PublishedInv'
  BY <1>b DEF PublishedInv, PublishedIsNewest, Publishing
<1>1. CASE \/ UNCHANGED playerVars \/ RequestModel \/ StopWorker \/ Think \/ EndCollect \/ SetBypass
  <2>1. UNCHANGED vars /\ processor' = processor
    BY <1>1 DEF playerVars, workerVars, RequestModel, W!Request, StopWorker, W!Stop, Think,
                W!TakeRequest, W!Poll, W!Load, W!Discard, W!ReportError, W!PublishThrows,
                W!Quit, W!NotifyStopped, EndCollect, W!Collect, W!LastCollect, SetBypass
  <2>2. Newest' = Newest /\ publisher' = publisher /\ heap' = heap
    BY <2>1 DEF vars, owners, Newest, ContentOf
  <2>3. Publishing => worker' = worker
    <3>1. worker.pc \in {"collect", "lastCollect"} => ~Publishing
      BY DEF WorkerPart, OneThread
    <3>. QED BY <1>1, <3>1 DEF playerVars, workerVars, RequestModel, StopWorker, Think, EndCollect,
                               W!Collect, W!LastCollect, SetBypass
  <2>. QED BY <2>1, <2>2, <2>3 DEF PublishedInv, PublishedIsNewest, Publishing
<1>2. CASE BeginPublish
  <2>1. PICK n \in Node : Allocate(n, worker.task.target)
    BY <1>2 DEF BeginPublish
  <2>2. worker' = worker
    BY <1>2 DEF BeginPublish, workerVars
  <2>3. publisher'.pc = "exchange" /\ publisher'.node = n
    BY <2>1 DEF Allocate
  <2>4. heap'[n] = worker.task.target
    BY <2>1 DEF Allocate, OwnershipInv, TypeOK
  <2>. QED BY <2>2, <2>3, <2>4 DEF PublishedInv, PublishedIsNewest, Publishing
<1>3. CASE ContinuePublish
  <2>1. CASE PublishExchange
    <3>1. publisher.node # Null /\ heap[publisher.node] = worker.task.target
      BY <2>1 DEF PublishExchange, OwnershipInv, CallsHold, PublishedInv
    <3>2. Newest' = worker.task.target
      BY <2>1, <3>1 DEF PublishExchange, Newest, ContentOf
    <3>3. CASE publisher' = NoCall
      <4>1. processor' = worker.task
        BY <1>3, <3>3 DEF ContinuePublish, W!Publish
      <4>. QED BY <3>2, <3>3, <4>1 DEF NoCall, PublishedInv, PublishedIsNewest, Publishing
    <3>4. CASE publisher' # NoCall
      <4>1. worker' = worker /\ publisher'.pc = "delete"
        BY <1>3, <2>1, <3>4 DEF ContinuePublish, PublishExchange, workerVars
      <4>. QED BY <3>2, <4>1 DEF PublishedInv, PublishedIsNewest, Publishing
    <3>. QED BY <3>3, <3>4
  <2>2. CASE DeleteReplaced
    <3>1. Newest' = Newest /\ Newest = worker.task.target
      BY <1>a, <2>2 DEF DeleteReplaced, PublishExchange, Publisher, PublishedInv
    <3>2. publisher' = NoCall /\ processor' = worker.task
      BY <1>3, <2>2 DEF DeleteReplaced, ContinuePublish, W!Publish
    <3>. QED BY <3>1, <3>2 DEF NoCall, PublishedInv, PublishedIsNewest, Publishing
  <2>. QED BY <1>3, <2>1, <2>2 DEF ContinuePublish
<1>4. CASE CollectOne
  <2>1. publisher' = publisher /\ processor' = processor
    BY <1>4 DEF CollectOne, CollectPop, CollectDelete, workerVars
  <2>2. ~Publishing /\ ~PublishExchange
    BY <1>4 DEF CollectOne, WorkerPart, OneThread, Publishing, PublishExchange
  <2>3. Newest' = Newest
    BY <1>4, <1>a, <2>2 DEF CollectOne, Collector
  <2>. QED BY <1>b, <2>1, <2>2, <2>3 DEF Publishing
<1>5. CASE AudioThread
  <2>1. worker' = worker /\ processor' = processor
    BY <1>5 DEF AudioThread, workerVars
  <2>. QED BY <1>5, <2>1, AudioKeepsNewest
           DEF PublishedInv, PublishedIsNewest, Publishing
<1>6. CASE RebuildModelWorker
  <2>1. Newest' = Null /\ publisher' = publisher /\ publisher.pc = "idle"
    BY <1>6 DEF RebuildModelWorker, PrepareProcessor, Prepare, Quiescent, ClearNonRealtime, Newest,
                ContentOf
  <2>2. processor'.target = Null
    BY <1>6 DEF RebuildModelWorker, StartWorker, W!NoTask
  <2>. QED BY <2>1, <2>2 DEF PublishedInv, PublishedIsNewest, Publishing
<1>. QED
  BY <1>1, <1>2, <1>3, <1>4, <1>5, <1>6 DEF PlayerNext, WorkerThread

\* Between publications the slot's newest content is the worker's record of it.
THEOREM AudioHoldsTheLastPublication == PlayerSpec => []PublishedIsNewest
<1>1. PlayerInit => OwnershipInv /\ WorkerPart /\ PublishedInv
  BY InitOwnership, InitWorkerPart, InitPublished DEF PlayerInit
<1>2. OwnershipInv /\ WorkerPart /\ PublishedInv /\ [PlayerNext]_playerVars
        => (OwnershipInv /\ WorkerPart /\ PublishedInv)'
  BY SlotStep, OwnershipStep, WorkerPartStep, PublishedStep
<1>. QED BY <1>1, <1>2, PTL DEF PlayerSpec, PublishedInv
-----------------------------------------------------------------------------
(***************************************************************************)
(* What is published is what is selected: the worker's newest request is    *)
(* the selection as long as there is a worker, and a task with the newest   *)
(* generation is for that request.                                          *)
(***************************************************************************)
SelectedInv ==
    /\ worker.pc \in {"notify", "ended"} => status.state = "stopped"
    /\ worker.pc # "ended" => latestRequest = selected
    /\ worker.pc \in {"load", "decide"} =>
           /\ status.state # "published"
           /\ worker.task.generation <= latestGeneration
           /\ W!TaskIsNewest => worker.task.target = latestRequest
    /\ status.state = "published" => processor.target = selected /\ selected # Null

LEMMA InitSelected == PlayerInit => SelectedInv
BY DEF PlayerInit, SelectedInv

LEMMA SelectedStep ==
    WorkerPart /\ SelectedInv /\ [PlayerNext]_playerVars => SelectedInv'
<1> SUFFICES ASSUME WorkerPart, SelectedInv, [PlayerNext]_playerVars PROVE SelectedInv'
  OBVIOUS
<1>0. /\ latestGeneration \in Nat
      /\ status \in W!StatusRecord /\ worker \in W!WorkerRecord
  BY DEF WorkerPart, PlayerTypeOK, W!WorkerTypeOK, W!Generation
<1> USE DEF SelectedInv, shellVars, workerVars
<1>1. CASE RequestModel
  <2>1. PICK path \in Model :
          /\ selected' = path
          /\ IF worker.pc = "ended" THEN UNCHANGED workerVars ELSE W!Request(path)
    BY <1>1 DEF RequestModel
  <2>2. CASE worker.pc = "ended"
    BY <2>1, <2>2 DEF W!TaskIsNewest
  <2>3. CASE worker.pc # "ended"
    <3>1. /\ worker' = worker /\ latestRequest' = path /\ status'.state = "queued"
          /\ status.state # "stopped" /\ latestGeneration' = latestGeneration + 1
      BY <1>0, <2>1, <2>3 DEF W!Request, W!StatusRecord
    <3>2. worker.pc \in {"load", "decide"} =>
            worker'.task.generation <= latestGeneration' /\ ~W!TaskIsNewest'
      <4>1. worker.task.generation \in Nat
        BY <1>0 DEF W!WorkerRecord, W!Task, W!Generation
      <4>. QED BY <1>0, <3>1, <4>1 DEF W!TaskIsNewest
    <3>. QED BY <2>1, <3>1, <3>2
  <2>. QED BY <2>2, <2>3
<1>2. CASE StopWorker
  BY <1>2 DEF StopWorker, W!Stop, W!TaskIsNewest
<1>3. CASE Think
  <2>0. UNCHANGED selected
    BY <1>3 DEF Think
  <2>1. CASE W!TakeRequest
    BY <1>0, <2>0, <2>1 DEF W!TakeRequest, W!TaskIsNewest, W!StatusRecord
  <2>2. CASE W!Poll
    BY <1>0, <2>0, <2>2 DEF W!Poll, W!WorkerRecord
  <2>3. ASSUME NEW fails \in BOOLEAN, W!Load(fails) PROVE SelectedInv'
    BY <1>0, <2>0, <2>3 DEF W!Load, W!WorkerRecord, W!TaskIsNewest
  <2>4. CASE W!Discard
    BY <2>0, <2>4 DEF W!Discard
  <2>5. CASE W!ReportError \/ W!PublishThrows
    <3>1. status'.state = "error"
      BY <1>0, <2>5 DEF W!ReportError, W!PublishThrows, W!Complete, W!StatusRecord
    <3>. QED BY <2>0, <2>5, <3>1 DEF W!ReportError, W!PublishThrows
  <2>6. CASE W!Quit
    BY <1>0, <2>0, <2>6 DEF W!Quit, W!WorkerRecord
  <2>7. CASE W!NotifyStopped
    BY <1>0, <2>0, <2>7 DEF W!NotifyStopped, W!WorkerRecord
  <2>. QED BY <1>3, <2>1, <2>2, <2>3, <2>4, <2>5, <2>6, <2>7 DEF Think
<1>4. CASE ContinuePublish
  <2>1. CASE publisher' = NoCall
    <3>1. W!Publish /\ selected' = selected
      BY <1>4, <2>1 DEF ContinuePublish
    <3>2. worker.task.target = selected /\ selected # Null
      <4>1. worker.pc = "decide" /\ W!TaskIsNewest
        BY <3>1 DEF W!Publish
      <4>. QED BY <4>1 DEF WorkerPart, Requested, Content
    <3>. QED BY <3>1, <3>2 DEF W!Publish
  <2>2. CASE publisher' # NoCall
    BY <1>4, <2>2 DEF ContinuePublish, W!TaskIsNewest
  <2>. QED BY <2>1, <2>2
<1>5. CASE BeginPublish \/ CollectOne \/ AudioThread \/ SetBypass \/ UNCHANGED playerVars
  <2>1. UNCHANGED <<workerVars, selected>>
    BY <1>5 DEF BeginPublish, CollectOne, AudioThread, SetBypass, playerVars
  <2>. QED BY <2>1 DEF W!TaskIsNewest
<1>6. CASE EndCollect
  <2>1. /\ worker'.pc \in {"wait", "notify"}
        /\ worker'.pc = "notify" => status'.state = "stopped"
        /\ status'.state # "stopped" => status'.state = status.state
    BY <1>0, <1>6 DEF EndCollect, W!Collect, W!LastCollect, W!StatusRecord, W!WorkerRecord
  <2>2. UNCHANGED <<selected, latestRequest, processor>> /\ worker.pc # "ended"
    BY <1>6 DEF EndCollect, W!Collect, W!LastCollect
  <2>. QED BY <2>1, <2>2
<1>7. CASE RebuildModelWorker
  BY <1>7 DEF RebuildModelWorker, StartWorker, AskAgain
<1>. QED
  BY <1>1, <1>2, <1>3, <1>4, <1>5, <1>6, <1>7 DEF PlayerNext, WorkerThread

\* While the worker says "published", the audio has the selected model.
THEOREM PublishedModelIsTheSelected == PlayerSpec => []PublishedIsSelected
<1>1. PlayerInit => OwnershipInv /\ WorkerPart /\ PublishedInv /\ SelectedInv
  BY InitOwnership, InitWorkerPart, InitPublished, InitSelected DEF PlayerInit
<1>2. OwnershipInv /\ WorkerPart /\ PublishedInv /\ SelectedInv /\ [PlayerNext]_playerVars
        => (OwnershipInv /\ WorkerPart /\ PublishedInv /\ SelectedInv)'
  BY SlotStep, OwnershipStep, WorkerPartStep, PublishedStep, SelectedStep
<1>3. WorkerPart /\ PublishedInv /\ SelectedInv => PublishedIsSelected
  BY DEF WorkerPart, OneThread, Publishing, PublishedInv, PublishedIsNewest, SelectedInv,
         PublishedIsSelected
<1>. QED BY <1>1, <1>2, <1>3, PTL DEF PlayerSpec

\* In the composed system the worker's record, what the audio holds or is offered,
\* and the model selected agree, across requests, failures, the bypass and resets.
THEOREM PlayerIsSound == PlayerSpec => []PlayerSound
<1>. QED BY PlayerTypeCorrect, AudioHoldsTheLastPublication, PublishedModelIsTheSelected, PTL DEF PlayerSound

-----------------------------------------------------------------------------
(* The shell restricts the player *)

LEMMA PlayerStep == [PluginNext]_pluginVars => [PlayerNext]_playerVars
BY DEF PluginNext, pluginVars, PlayerNext, SelectModel, ShowSelected, OnIdle, BeginReset,
       EndReset

\* Every behaviour of the plug-in is one of PlayerSystem, so that each theorem
\* about the composed audio side holds under the shell.
THEOREM ShellRespectsPlayer == PluginSpec => PlayerSpec
<1>1. ShellInit => PlayerInit
  BY DEF ShellInit
<1>. QED BY <1>1, PlayerStep, PTL DEF PluginSpec, PlayerSpec

-----------------------------------------------------------------------------
(***************************************************************************)
(* The worker comes to rest before the line can say so: a published status  *)
(* means that nothing is left to take or to publish, and it stays so until  *)
(* the UI thread itself selects another model.                              *)
(***************************************************************************)
AtRest == worker.pc \notin {"load", "decide"} /\ consumed = latestGeneration

RestInv ==
    /\ worker.pc \in {"load", "decide"} => worker.task.generation = consumed
    /\ worker.pc \in {"lastCollect", "notify", "ended"} => stopping
    /\ status.state = "stopped" => worker.pc \in {"notify", "ended"}
    /\ status.state = "published" => AtRest

LineInv ==
    /\ shown = "published" =>
           /\ selected # Null /\ processor.target = selected
           /\ AtRest /\ status.state \in {"published", "stopped"}
    /\ selecting => ~InReset

ShellPart == OwnershipInv /\ WorkerPart /\ PublishedInv /\ SelectedInv

LEMMA InitShell == ShellInit => ShellPart /\ RestInv /\ LineInv /\ ShellTypeOK
<1> SUFFICES ASSUME ShellInit PROVE ShellPart /\ RestInv /\ LineInv /\ ShellTypeOK
  OBVIOUS
<1>1. PlayerInit
  BY DEF ShellInit
<1>2. ShellPart
  BY <1>1, InitOwnership, InitWorkerPart, InitPublished, InitSelected
  DEF PlayerInit, ShellPart
<1>3. RestInv
  BY <1>1 DEF PlayerInit, RestInv
<1>4. shown = "dry" /\ selecting = FALSE /\ shownGeneration = 0 /\ hostLatency = 0
  BY DEF ShellInit
<1>5. LineInv
  BY <1>4 DEF LineInv
<1>6. ShellTypeOK
  <2>1. 0 \in 0..MaxGeneration
    OBVIOUS
  <2>. QED BY <1>4, <2>1 DEF ShellTypeOK
<1>. QED BY <1>2, <1>3, <1>5, <1>6

LEMMA ShellPartStep == ShellPart /\ [PluginNext]_pluginVars => ShellPart'
BY PlayerStep, SlotStep, OwnershipStep, WorkerPartStep, PublishedStep, SelectedStep
DEF ShellPart

LEMMA RestStep == WorkerPart /\ RestInv /\ [PlayerNext]_playerVars => RestInv'
<1> SUFFICES ASSUME WorkerPart, RestInv, [PlayerNext]_playerVars PROVE RestInv'
  OBVIOUS
<1>0. status \in W!StatusRecord /\ worker \in W!WorkerRecord
  BY DEF WorkerPart, PlayerTypeOK, W!WorkerTypeOK
<1> USE DEF RestInv, AtRest, workerVars
<1>1. CASE RequestModel
  <2>1. PICK path \in Model :
          IF worker.pc = "ended" THEN UNCHANGED workerVars ELSE W!Request(path)
    BY <1>1 DEF RequestModel
  <2>2. CASE W!Request(path)
    <3>1. status'.state = "queued" /\ UNCHANGED <<worker, consumed, stopping>>
      BY <1>0, <2>2 DEF W!Request, W!StatusRecord
    <3>. QED BY <3>1
  <2>. QED BY <2>1, <2>2
<1>2. CASE StopWorker
  BY <1>2 DEF StopWorker, W!Stop
<1>3. CASE Think
  <2>1. CASE W!TakeRequest
    <3>1. /\ worker'.task.generation = consumed' /\ status'.state = "loading"
          /\ worker'.pc \in {"load", "decide"}
      BY <1>0, <2>1 DEF W!TakeRequest, W!StatusRecord
    <3>. QED BY <3>1
  <2>2. CASE W!Poll
    BY <1>0, <2>2 DEF W!Poll, W!WorkerRecord
  <2>3. ASSUME NEW fails \in BOOLEAN, W!Load(fails) PROVE RestInv'
    BY <1>0, <2>3 DEF W!Load, W!WorkerRecord
  <2>4. CASE W!Discard
    BY <2>4 DEF W!Discard
  <2>5. CASE W!ReportError \/ W!PublishThrows
    <3>1. status'.state = "error"
      BY <1>0, <2>5 DEF W!ReportError, W!PublishThrows, W!Complete, W!StatusRecord
    <3>. QED BY <2>5, <3>1 DEF W!ReportError, W!PublishThrows
  <2>6. CASE W!Quit
    BY <1>0, <2>6 DEF W!Quit, W!WorkerRecord
  <2>7. CASE W!NotifyStopped
    BY <1>0, <2>7 DEF W!NotifyStopped, W!WorkerRecord
  <2>. QED BY <1>3, <2>1, <2>2, <2>3, <2>4, <2>5, <2>6, <2>7 DEF Think
<1>4. CASE ContinuePublish
  <2>1. CASE W!Publish
    <3>1. /\ worker'.pc = "collect" /\ consumed' = latestGeneration'
          /\ status'.state # "stopped"
      BY <1>0, <2>1 DEF W!Publish, W!TaskIsNewest, W!Complete, W!StatusRecord
    <3>. QED BY <3>1
  <2>. QED BY <1>4, <2>1 DEF ContinuePublish
<1>5. CASE BeginPublish \/ CollectOne \/ AudioThread \/ SetBypass \/ UNCHANGED playerVars
  <2>1. UNCHANGED workerVars
    BY <1>5 DEF BeginPublish, CollectOne, AudioThread, SetBypass, playerVars
  <2>. QED BY <2>1
<1>6. CASE EndCollect
  <2>1. CASE W!Collect
    BY <1>0, <2>1 DEF W!Collect, W!WorkerRecord
  <2>2. CASE W!LastCollect
    <3>1. worker'.pc = "notify" /\ status'.state = "stopped" /\ stopping'
      BY <1>0, <2>2 DEF W!LastCollect, W!WorkerRecord, W!StatusRecord
    <3>. QED BY <3>1
  <2>. QED BY <1>6, <2>1, <2>2 DEF EndCollect
<1>7. CASE RebuildModelWorker
  BY <1>7 DEF RebuildModelWorker, StartWorker, AskAgain
<1>. QED
  BY <1>1, <1>2, <1>3, <1>4, <1>5, <1>6, <1>7 DEF PlayerNext, WorkerThread

\* A look at the worker outside a reset shows what is so.
LEMMA LookIsTrue ==
    ASSUME WorkerPart, SelectedInv, RestInv, LineInv, ShellTypeOK, ~InReset,
           UpdateStatusControls, UNCHANGED playerVars
    PROVE  /\ shown' \in {"dry", "reloading", "idle", "queued", "loading", "published",
                          "error"}
           /\ shownGeneration' \in 0..MaxGeneration
           /\ shown' = "published" =>
                  /\ selected' # Null /\ processor'.target = selected'
                  /\ AtRest' /\ status'.state \in {"published", "stopped"}
<1> USE DEF playerVars, workerVars, shellVars, lineVars, AtRest
<1>1. CASE UNCHANGED lineVars
  BY <1>1 DEF ShellTypeOK, LineInv
<1>2. CASE HasWorker /\ shown' = status.state /\ shownGeneration' = status.requested
  <2>1. status.state # "stopped"
    BY <1>2 DEF InReset, HasWorker, RestInv
  <2>2. /\ status.state \in {"idle", "queued", "loading", "published", "error"}
        /\ status.requested \in 0..MaxGeneration
    BY <2>1 DEF WorkerPart, PlayerTypeOK, W!WorkerTypeOK, W!StatusRecord, W!Generation
  <2>. QED BY <1>2, <2>2 DEF RestInv, SelectedInv
<1>. QED BY <1>1, <1>2 DEF UpdateStatusControls

LEMMA LineStep ==
    ShellPart /\ RestInv /\ LineInv /\ ShellTypeOK /\ [PluginNext]_pluginVars
        => LineInv' /\ ShellTypeOK'
<1> SUFFICES ASSUME ShellPart, RestInv, LineInv, ShellTypeOK, [PluginNext]_pluginVars
             PROVE  LineInv' /\ ShellTypeOK'
  OBVIOUS
<1>0. /\ WorkerPart /\ SelectedInv /\ latestGeneration' \in 0..MaxGeneration
      /\ reportedLatency \in Nat
  <2>1. WorkerPart' /\ WorkerPart /\ SelectedInv
    BY ShellPartStep DEF ShellPart
  <2>. QED BY <2>1 DEF ShellPart, OwnershipInv, TypeOK, WorkerPart, PlayerTypeOK, W!WorkerTypeOK,
                       W!Generation
<1> USE DEF InReset, HasWorker
<1>1. CASE SelectModel
  <2>1. /\ shown' = "queued" /\ shownGeneration' \in 0..MaxGeneration
        /\ hostLatency' \in Nat /\ selecting' = TRUE
    BY <1>0, <1>1 DEF SelectModel, ShellTypeOK
  <2>2. ~InReset'
    BY <1>1 DEF SelectModel, RequestModel, workerVars, W!Request
  <2>. QED BY <2>1, <2>2 DEF LineInv, ShellTypeOK
<1>2. CASE ShowSelected \/ OnIdle
  <2>1. /\ ~InReset /\ UpdateStatusControls /\ UNCHANGED playerVars
        /\ selecting' \in BOOLEAN
    BY <1>2 DEF ShowSelected, OnIdle, LineInv, ShellTypeOK
  <2>2. hostLatency' \in Nat
    BY <1>0, <1>2 DEF ShowSelected, OnIdle, LatencySamples, ShellTypeOK
  <2>3. ~InReset'
    BY <2>1 DEF playerVars, workerVars
  <2>. QED BY <1>0, <2>1, <2>2, <2>3, LookIsTrue DEF LineInv, ShellTypeOK
<1>3. CASE BeginReset
  BY <1>3 DEF BeginReset, StopWorker, W!Stop, shellState, shellVars, LineInv, ShellTypeOK,
              AtRest
<1>4. CASE EndReset
  <2>1. /\ shown' \in {"dry", "reloading"} /\ selecting' = FALSE
        /\ shownGeneration' = shownGeneration /\ hostLatency' = 0
    BY <1>4 DEF EndReset, LineAfterReset
  <2>. QED BY <2>1 DEF LineInv, ShellTypeOK
<1>5. CASE WorkerThread /\ UNCHANGED shellState
  <2>1. /\ stopping' = stopping /\ selected' = selected
        /\ worker.pc # "ended"
        /\ shown = "published" =>
               /\ UNCHANGED <<processor, consumed, latestGeneration>>
               /\ worker'.pc \notin {"load", "decide"}
               /\ status'.state \in {"published", "stopped"}
    <3> USE DEF LineInv, AtRest, workerVars, shellVars
    <3>0. status \in W!StatusRecord /\ worker \in W!WorkerRecord
      BY <1>0 DEF WorkerPart, PlayerTypeOK, W!WorkerTypeOK
    <3>1. CASE Think
      <4>1. selected' = selected
        BY <3>1 DEF Think
      <4>2. CASE \/ W!TakeRequest \/ (\E fails \in BOOLEAN : W!Load(fails))
                 \/ W!Discard \/ W!ReportError \/ W!PublishThrows
        <5>1. shown # "published"
          BY <4>2 DEF W!TakeRequest, W!NewRequest, W!Load, W!Discard, W!ReportError,
                      W!PublishThrows
        <5>. QED BY <4>1, <4>2, <5>1
                 DEF W!TakeRequest, W!Load, W!Discard, W!ReportError, W!PublishThrows
      <4>3. CASE W!Poll \/ W!Quit \/ W!NotifyStopped
        BY <3>0, <4>1, <4>3 DEF W!Poll, W!Quit, W!NotifyStopped, W!WorkerRecord
      <4>. QED BY <3>1, <4>2, <4>3 DEF Think
    <3>2. CASE BeginPublish \/ ContinuePublish
      <4>1. worker.pc = "decide"
        BY <1>0, <3>2 DEF BeginPublish, ContinuePublish, PublishExchange, DeleteReplaced,
                          WorkerPart, OneThread, Publishing
      <4>2. stopping' = stopping /\ selected' = selected
        BY <3>2 DEF BeginPublish, ContinuePublish, W!Publish
      <4>. QED BY <4>1, <4>2
    <3>3. CASE CollectOne
      BY <3>3 DEF CollectOne
    <3>4. CASE EndCollect
      <4>1. CASE W!Collect
        BY <3>0, <3>4, <4>1 DEF EndCollect, W!Collect, W!WorkerRecord
      <4>2. CASE W!LastCollect
        BY <3>0, <3>4, <4>2 DEF EndCollect, W!LastCollect, W!WorkerRecord, W!StatusRecord
      <4>. QED BY <3>4, <4>1, <4>2 DEF EndCollect
    <3>. QED BY <1>5, <3>1, <3>2, <3>3, <3>4 DEF WorkerThread
  <2>2. UNCHANGED <<shown, shownGeneration, hostLatency, selecting>>
    BY <1>5 DEF shellState
  <2>. QED BY <2>1, <2>2 DEF LineInv, ShellTypeOK, AtRest
<1>6. CASE \/ (AudioThread \/ SetBypass) /\ UNCHANGED shellState
           \/ UNCHANGED pluginVars
  <2>1. UNCHANGED <<workerVars, selected, shellState>>
    BY <1>6 DEF AudioThread, SetBypass, shellVars, pluginVars, playerVars
  <2>. QED BY <2>1 DEF workerVars, shellState, LineInv, ShellTypeOK, AtRest
<1>. QED
  BY <1>1, <1>2, <1>3, <1>4, <1>5, <1>6 DEF PluginNext

LEMMA ShellInvariant ==
    PluginSpec => [](ShellPart /\ RestInv /\ LineInv /\ ShellTypeOK)
<1>1. ShellPart /\ RestInv /\ LineInv /\ ShellTypeOK /\ [PluginNext]_pluginVars
        => (ShellPart /\ RestInv /\ LineInv /\ ShellTypeOK)'
  BY ShellPartStep, PlayerStep, RestStep, LineStep DEF ShellPart
<1>. QED BY InitShell, <1>1, PTL DEF PluginSpec

\* The status line is never "stopped", and its variables have their types.
THEOREM ShellTypeCorrect == PluginSpec => []ShellTypeOK
<1>. QED BY ShellInvariant, PTL

\* A status line that reads "published" is true of the audio, however long it lags.
THEOREM ShownPublicationIsTrue == PluginSpec => []ShownIsTrue
<1>1. ShellPart /\ LineInv => ShownIsTrue
  BY DEF ShellPart, WorkerPart, OneThread, Publishing, PublishedInv, PublishedIsNewest,
         LineInv, AtRest, ShownIsTrue
<1>. QED BY ShellInvariant, <1>1, PTL

\* The status line keeps its type, and is true where it says that a model is published.
THEOREM ShellIsSound == PluginSpec => []ShellSound
<1>. QED BY ShellTypeCorrect, ShownPublicationIsTrue, PTL DEF ShellSound
=============================================================================
