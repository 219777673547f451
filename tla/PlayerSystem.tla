---------------------------- MODULE PlayerSystem ----------------------------
(***************************************************************************)
(* The plug-in put together: OneSlotProcessor with its model slot and its   *)
(* bypass switch, the load worker that feeds it, and the UI thread, which   *)
(* requests the model the user selects and replaces the worker when the     *)
(* host resets.                                                             *)
(*                                                                         *)
(* The worker thread is the slot's only publisher and its only collector.   *)
(* It publishes while it holds its mutex, so nobody makes a request, and no *)
(* destructor begins, in the middle of a publication; the audio thread,     *)
(* which never takes the mutex, runs on.  Allocation takes the lowest free  *)
(* address: RealtimeModelSlot itself is checked with every choice.          *)
(***************************************************************************)
EXTENDS RealtimeModelSlot

CONSTANT MaxGeneration  \* bound: how many requests are made to one worker

VARIABLES stopping, latestGeneration, latestRequest, status, worker, consumed,
          processor,    \* the load worker; processor is its last publication
          selected,     \* selected_model_path_
          bypassed      \* model_bypassed

workerVars == <<stopping, latestGeneration, latestRequest, status, worker,
                consumed, processor>>
shellVars == <<selected, bypassed>>
playerVars == <<vars, workerVars, shellVars>>

ASSUME PlayerAssumption == Node \subseteq Nat /\ MaxGeneration \in Nat \ {0}

W == INSTANCE ModelLoadWorker WITH
         Path <- Model, Detach <- Dry, Nothing <- Null,
         Waiter <- {}, waiters <- <<>>   \* nobody waits for a request to settle

-----------------------------------------------------------------------------
\* The plug-in is constructed: the processor is not prepared, no worker exists.
PlayerInit ==
    /\ Init
    /\ stopping = TRUE
    /\ latestGeneration = 0
    /\ latestRequest = Null
    /\ status = [state |-> "stopped", requested |-> 0, completed |-> 0,
                 target |-> Null, error |-> FALSE]
    /\ worker = [pc |-> "ended", task |-> W!NoTask, failed |-> FALSE]
    /\ consumed = 0
    /\ processor = W!NoTask
    /\ selected = Null
    /\ bypassed = FALSE

\* The worker holds its mutex while publish_prepared_model runs.
Publishing == publisher.pc # "idle"

\* request_model: without a worker the selection waits for the next one.
RequestModel ==
    /\ ~Publishing
    /\ \E path \in Model :
          /\ selected' = path
          /\ IF worker.pc = "ended" THEN UNCHANGED workerVars ELSE W!Request(path)
    /\ UNCHANGED <<vars, bypassed>>

\* OnReset begins with model_worker_.reset(): it stops the worker and joins it.
StopWorker == /\ ~Publishing
              /\ W!Stop
              /\ UNCHANGED <<vars, shellVars>>

\* What the worker does without the processor.
Think == /\ ~Publishing
         /\ \/ W!TakeRequest \/ W!Poll
            \/ \E fails \in BOOLEAN : W!Load(fails)
            \/ W!Discard \/ W!ReportError \/ W!PublishThrows
            \/ W!Quit \/ W!NotifyStopped
         /\ UNCHANGED <<vars, shellVars>>

LowestFree(n) == \A k \in Node : heap[k] = Free => n <= k

BeginPublish ==
    /\ worker.pc = "decide" /\ W!TaskIsNewest /\ ~worker.failed
    /\ \E n \in Node : LowestFree(n) /\ Allocate(n, worker.task.target)
    /\ UNCHANGED <<workerVars, shellVars>>

\* The worker's own state changes when publish_prepared_model has returned.
ContinuePublish ==
    /\ PublishExchange \/ DeleteReplaced
    /\ IF publisher' = NoCall THEN W!Publish ELSE UNCHANGED workerVars
    /\ UNCHANGED shellVars

CollectOne == /\ worker.pc \in {"collect", "lastCollect"}
              /\ CollectPop \/ CollectDelete
              /\ UNCHANGED <<workerVars, shellVars>>

\* Variant: collect_retired is left after the first model.
CollectedOne == collector.pc = "idle"

\* collect_retired goes on until pop returns nullptr.
CollectedAll == collector.pc = "idle" /\ retired = <<>>

EndCollect == /\ CollectedAll
              /\ W!Collect \/ W!LastCollect
              /\ UNCHANGED <<vars, shellVars>>

WorkerThread == Think \/ BeginPublish \/ ContinuePublish \/ CollectOne \/ EndCollect

-----------------------------------------------------------------------------
\* process reads the switch once per block.  A bypassed block copies its input
\* to its output and does not come to the slot.
ProcessBlock(frames) == ~bypassed /\ ProcessFlush(frames)

AudioThread ==
    /\ \/ \E frames \in UNION {1..b : b \in BlockSizes} : ProcessBlock(frames)
       \/ AcceptNothing \/ AcceptPending \/ RaiseLatency \/ ShowFade
       \/ Render \/ FinishCrossfade \/ SettleLatency \/ HideFade
    /\ UNCHANGED <<workerVars, shellVars>>

SetBypass == /\ bypassed' = ~bypassed
             /\ UNCHANGED <<vars, workerVars, selected>>

\* Variant: prepare does not drop what the slot holds.
KeepModels(b, f) ==
    /\ Quiescent
    /\ config' = [prepared |-> TRUE, maxBlock |-> b, fadeFrames |-> f]
    /\ UNCHANGED <<heap, owners, fadeActive, position, observed, audio,
                   publisher, collector>>

PrepareProcessor(b, f) == Prepare(b, f)

StartWorker ==
    /\ stopping' = FALSE
    /\ consumed' = 0
    /\ worker' = [pc |-> "wait", task |-> W!NoTask, failed |-> FALSE]
    /\ processor' = W!NoTask

\* Variant: the new worker is not told of the selection.
AskNothing ==
    /\ latestGeneration' = 0
    /\ latestRequest' = Null
    /\ status' = [state |-> "idle", requested |-> 0, completed |-> 0,
                  target |-> Null, error |-> FALSE]

\* A new worker is asked at once for the model that is selected, if any.
AskAgain ==
    /\ latestGeneration' = IF selected = Null THEN 0 ELSE 1
    /\ latestRequest' = selected
    /\ status' = [state |-> IF selected = Null THEN "idle" ELSE "queued",
                  requested |-> latestGeneration', completed |-> 0,
                  target |-> selected, error |-> FALSE]

\* rebuild_model_worker, when the old worker is joined: the processor is
\* prepared and a new worker starts.
RebuildModelWorker ==
    /\ worker.pc = "ended"
    /\ \E b \in BlockSizes, f \in FadeLengths : PrepareProcessor(b, f)
    /\ StartWorker
    /\ AskAgain
    /\ UNCHANGED shellVars

PlayerNext == \/ RequestModel \/ StopWorker \/ WorkerThread \/ AudioThread
              \/ SetBypass \/ RebuildModelWorker

PlayerSpec == PlayerInit /\ [][PlayerNext]_playerVars

(***************************************************************************)
(* The worker thread runs and its loader returns; the host keeps calling    *)
(* process.  Nobody has to select a model, or to lift the bypass.           *)
(***************************************************************************)
PlayerFairSpec == /\ PlayerSpec
                  /\ WF_playerVars(WorkerThread)
                  /\ WF_playerVars(AudioThread)

-----------------------------------------------------------------------------
(* Properties *)

\* The variables of the worker and of the plug-in have their types.
PlayerTypeOK == W!WorkerTypeOK /\ selected \in Model \cup {Null} /\ bypassed \in BOOLEAN

\* The newest content the audio holds or is offered.
Newest == IF pending # Null THEN ContentOf(pending) ELSE ContentOf(current)

\* The worker's record of what it published is what the audio has been handed:
\* neither a request, nor a failed load, nor the host's reset lets the two part.
PublishedIsNewest ==
    ~Publishing => Newest = processor.target

\* What the user reads is true of what is heard: while the worker says
\* "published", the newest content the audio holds or is offered is the model
\* that is selected, also when the host has reset in between.
PublishedIsSelected ==
    status.state = "published" => selected # Null /\ Newest = selected

\* Worker, slot and user agree: what the worker has published last is what the
\* audio holds or is offered, and when it says so, what the user has selected.
PlayerSound == PlayerTypeOK /\ PublishedIsNewest /\ PublishedIsSelected

\* Because the worker collects after every publication, at most three models
\* wait for it: with the queue the code has, back-pressure never sets in and no
\* swap is ever refused for it.
QueueNeverFills == Capacity >= 3 => Len(retired) <= 3 /\ retireWaiting = Null

\* For the same reason the slot never keeps more than four models in memory,
\* however fast the user clicks through a library.
MemoryBounded == Cardinality({n \in Node : heap[n] # Free}) <= 4

Heard(path) == ContentOf(current) = path /\ ~fadeActive

\* End to end: with the bypass off, the model that is selected comes to be heard
\* alone, unless it fails to load, another is selected, or the worker is stopped;
\* and after a reset of the host the new worker brings it back.
SelectionIsHeard ==
    <>[](~bypassed) =>
        \A path \in Model :
            selected = path /\ ~stopping ~>
                Heard(path) \/ status.state = "error" \/ selected # path \/ stopping
=============================================================================
