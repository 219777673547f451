--------------------------- MODULE ModelLoadWorker ---------------------------
(***************************************************************************)
(* ModelLoadWorker: one thread that loads the requested models, off the     *)
(* audio thread, and publishes only the newest.                             *)
(*                                                                         *)
(* Control threads call request and wait_until_settled, the owner destroys  *)
(* the worker, and the worker thread runs its loop.  A critical section     *)
(* under the mutex is one step; the loader and the retired-model collection *)
(* run without the mutex, so any request can come between them.  The        *)
(* condition variable settled is modelled by who sleeps on it: a sleeping   *)
(* waiter wakes when it is notified or when its timeout ends, and then      *)
(* looks at its condition.  The worker's own wait needs no such care: it    *)
(* looks again every 10 ms.                                                 *)
(***************************************************************************)
EXTENDS Integers

CONSTANTS Path,           \* the model files that can be requested
          Detach,         \* the request for dry
          Nothing,        \* no request has been made or published yet
          Waiter,         \* the calls of wait_until_settled
          MaxGeneration   \* bound: how many requests are made

ASSUME RequestAssumption == /\ Detach \notin Path
                            /\ Nothing \notin Path \cup {Detach}
ASSUME MaxGenerationAssumption == MaxGeneration \in Nat

VARIABLES
    stopping,          \* stopping
    latestGeneration,  \* latest_generation
    latestRequest,     \* latest_request: what is to be loaded
    status,            \* status
    worker,            \* the worker thread: pc, task, and the loader's outcome
    consumed,          \* consumed_generation
    processor,         \* what was last published to the processor
    waiters            \* the calls of wait_until_settled

workerVars == <<stopping, latestGeneration, latestRequest, status, worker, consumed,
                processor, waiters>>

-----------------------------------------------------------------------------
Target == Path \cup {Detach}

Generation == 0..MaxGeneration

NoTask == [generation |-> 0, target |-> Nothing]

WorkerInit == /\ stopping = FALSE
              /\ latestGeneration = 0
              /\ latestRequest = Nothing
              /\ status = [state |-> "idle", requested |-> 0, completed |-> 0,
                           target |-> Nothing, error |-> FALSE]
              /\ worker = [pc |-> "wait", task |-> NoTask, failed |-> FALSE]
              /\ consumed = 0
              /\ processor = NoTask
              /\ waiters = [w \in Waiter |-> [pc |-> "idle", generation |-> 0,
                                              result |-> FALSE]]

-----------------------------------------------------------------------------
(* Control threads *)

\* request: throws, changing nothing, once the worker is stopping.
Request(target) ==
    /\ ~stopping
    /\ status.state # "stopped"
    /\ latestGeneration < MaxGeneration
    /\ latestGeneration' = latestGeneration + 1
    /\ latestRequest' = target
    /\ status' = [status EXCEPT !.state = "queued",
                                !.requested = latestGeneration',
                                !.target = target,
                                !.error = FALSE]
    /\ UNCHANGED <<stopping, worker, consumed, processor, waiters>>

\* ~Impl: tells the worker to stop, then joins it.
Stop ==
    /\ ~stopping
    /\ stopping' = TRUE
    /\ UNCHANGED <<latestGeneration, latestRequest, status, worker, consumed,
                   processor, waiters>>

\* The condition wait_until_settled waits for.
Settled(generation) ==
    status.completed >= generation \/ status.state = "stopped"

Returned(generation, result) ==
    [pc |-> "done", generation |-> generation, result |-> result]

\* No member function is called once the destructor has begun; a call made
\* before can still be asleep then.
WaitCall(w, generation) ==
    /\ ~stopping
    /\ waiters[w].pc \in {"idle", "done"}
    /\ waiters' = [waiters EXCEPT ![w] =
                     IF Settled(generation) THEN Returned(generation, TRUE)
                     ELSE [pc |-> "asleep", generation |-> generation, result |-> FALSE]]
    /\ UNCHANGED <<stopping, latestGeneration, latestRequest, status, worker,
                   consumed, processor>>

\* Woken by a notification: look again, and sleep on if it was for another.
WaitWake(w) ==
    /\ waiters[w].pc = "awake"
    /\ waiters' = [waiters EXCEPT ![w] =
                     IF Settled(@.generation) THEN Returned(@.generation, TRUE)
                     ELSE [@ EXCEPT !.pc = "asleep"]]
    /\ UNCHANGED <<stopping, latestGeneration, latestRequest, status, worker,
                   consumed, processor>>

\* The timeout ends: the result is what the condition is then.
WaitTimeout(w) ==
    /\ waiters[w].pc \in {"asleep", "awake"}
    /\ waiters' = [waiters EXCEPT ![w] = Returned(@.generation, Settled(@.generation))]
    /\ UNCHANGED <<stopping, latestGeneration, latestRequest, status, worker,
                   consumed, processor>>

Control == \/ \E target \in Target : Request(target)
           \/ Stop
           \/ \E w \in Waiter, g \in Generation : WaitCall(w, g)
           \/ \E w \in Waiter : WaitTimeout(w)

-----------------------------------------------------------------------------
(* The worker thread *)

\* Variant: one client is notified, not all.
NotifyOne ==
    IF \E w \in Waiter : waiters[w].pc = "asleep"
    THEN \E w \in Waiter : /\ waiters[w].pc = "asleep"
                           /\ waiters' = [waiters EXCEPT ![w].pc = "awake"]
    ELSE UNCHANGED waiters

\* settled.notify_all()
NotifyAll ==
    waiters' = [w \in Waiter |->
                  IF waiters[w].pc = "asleep" THEN [waiters[w] EXCEPT !.pc = "awake"]
                  ELSE waiters[w]]

\* Variant: one request behind.
NewRequestBehind == latestGeneration > consumed + 1

NewRequest == latestGeneration # consumed

\* The worker takes the newest request; those between are skipped.
TakeRequest ==
    /\ worker.pc = "wait"
    /\ ~stopping
    /\ NewRequest
    /\ worker' = [pc |-> IF latestRequest = Detach THEN "decide" ELSE "load",
                  task |-> [generation |-> latestGeneration, target |-> latestRequest],
                  failed |-> FALSE]
    /\ consumed' = latestGeneration
    /\ status' = [status EXCEPT !.state = "loading",
                                !.requested = latestGeneration,
                                !.target = latestRequest,
                                !.error = FALSE]
    /\ UNCHANGED <<stopping, latestGeneration, latestRequest, processor, waiters>>

\* Nothing new for 10 ms: collect the models the audio has retired.
Poll ==
    /\ worker.pc = "wait"
    /\ ~stopping
    /\ ~NewRequest
    /\ worker' = [worker EXCEPT !.pc = "collect"]
    /\ UNCHANGED <<stopping, latestGeneration, latestRequest, status, consumed,
                   processor, waiters>>

\* The loader returns a model that then prepares, or one of them fails.
Load(fails) ==
    /\ worker.pc = "load"
    /\ worker' = [worker EXCEPT !.pc = "decide", !.failed = fails]
    /\ UNCHANGED <<stopping, latestGeneration, latestRequest, status, consumed,
                   processor, waiters>>

\* Variant: the task is compared with what was the newest when it was taken.
TaskWasNewest == worker.task.generation = consumed

TaskIsNewest == worker.task.generation = latestGeneration

\* Variant: dropping an obsolete task counts the newer requests as taken.
DiscardAsTaken ==
    /\ worker.pc = "decide"
    /\ ~TaskIsNewest
    /\ consumed' = latestGeneration
    /\ worker' = [pc |-> "wait", task |-> NoTask, failed |-> FALSE]
    /\ UNCHANGED <<stopping, latestGeneration, latestRequest, status, processor, waiters>>

\* A newer request came meanwhile: the model, or the error, is dropped.
Discard ==
    /\ worker.pc = "decide"
    /\ ~TaskIsNewest
    /\ worker' = [pc |-> "wait", task |-> NoTask, failed |-> FALSE]
    /\ UNCHANGED <<stopping, latestGeneration, latestRequest, status, consumed,
                   processor, waiters>>

Complete(state) ==
    status' = [status EXCEPT !.state = state,
                             !.completed = worker.task.generation,
                             !.error = (state = "error")]

ReportError ==
    /\ worker.pc = "decide"
    /\ TaskIsNewest
    /\ worker.failed
    /\ Complete("error")
    /\ NotifyAll
    /\ worker' = [pc |-> "wait", task |-> NoTask, failed |-> FALSE]
    /\ UNCHANGED <<stopping, latestGeneration, latestRequest, consumed, processor>>

Publish ==
    /\ worker.pc = "decide"
    /\ TaskIsNewest
    /\ ~worker.failed
    /\ processor' = worker.task
    /\ Complete("published")
    /\ NotifyAll
    /\ worker' = [pc |-> "collect", task |-> NoTask, failed |-> FALSE]
    /\ UNCHANGED <<stopping, latestGeneration, latestRequest, consumed>>

\* The processor was not prepared, or the node could not be allocated.
PublishThrows ==
    /\ worker.pc = "decide"
    /\ TaskIsNewest
    /\ ~worker.failed
    /\ Complete("error")
    /\ NotifyAll
    /\ worker' = [pc |-> "collect", task |-> NoTask, failed |-> FALSE]
    /\ UNCHANGED <<stopping, latestGeneration, latestRequest, consumed, processor>>

Collect ==
    /\ worker.pc = "collect"
    /\ worker' = [worker EXCEPT !.pc = "wait"]
    /\ UNCHANGED <<stopping, latestGeneration, latestRequest, status, consumed,
                   processor, waiters>>

\* The loop ends; a request taken and not published is complete by then.
Quit ==
    /\ worker.pc = "wait"
    /\ stopping
    /\ worker' = [worker EXCEPT !.pc = "lastCollect"]
    /\ UNCHANGED <<stopping, latestGeneration, latestRequest, status, consumed,
                   processor, waiters>>

LastCollect ==
    /\ worker.pc = "lastCollect"
    /\ worker' = [worker EXCEPT !.pc = "notify"]
    /\ status' = [status EXCEPT !.state = "stopped"]
    /\ UNCHANGED <<stopping, latestGeneration, latestRequest, consumed,
                   processor, waiters>>

\* The last notification is sent after the mutex is released.
NotifyStopped ==
    /\ worker.pc = "notify"
    /\ NotifyAll
    /\ worker' = [worker EXCEPT !.pc = "ended"]
    /\ UNCHANGED <<stopping, latestGeneration, latestRequest, status, consumed,
                   processor>>

Worker == \/ TakeRequest \/ Poll
          \/ \E fails \in BOOLEAN : Load(fails)
          \/ Discard \/ ReportError \/ Publish \/ PublishThrows
          \/ Collect \/ Quit \/ LastCollect \/ NotifyStopped

Wake == \E w \in Waiter : WaitWake(w)

WorkerNext == Control \/ Worker \/ Wake

WorkerSpec == WorkerInit /\ [][WorkerNext]_workerVars

(***************************************************************************)
(* The worker thread runs and its loader returns; a notified thread gets    *)
(* to look.  Nothing makes a client call, and no timeout has to end.        *)
(***************************************************************************)
WorkerFairSpec == /\ WorkerSpec
                  /\ WF_workerVars(Worker)
                  /\ \A w \in Waiter : WF_workerVars(WaitWake(w))

-----------------------------------------------------------------------------
(* Properties *)

Task == [generation : Generation, target : Target \cup {Nothing}]

StatusRecord ==
    [state : {"idle", "queued", "loading", "published", "error", "stopped"},
     requested : Generation, completed : Generation,
     target : Target \cup {Nothing}, error : BOOLEAN]

WorkerRecord ==
    [pc : {"wait", "load", "decide", "collect", "lastCollect", "notify", "ended"},
     task : Task, failed : BOOLEAN]

WaiterRecord ==
    [pc : {"idle", "asleep", "awake", "done"}, generation : Generation, result : BOOLEAN]

\* Every variable has its type.
WorkerTypeOK ==
    /\ stopping \in BOOLEAN
    /\ latestGeneration \in Generation
    /\ consumed \in Generation
    /\ latestRequest \in Target \cup {Nothing}
    /\ status \in StatusRecord
    /\ worker \in WorkerRecord
    /\ processor \in Task
    /\ waiters \in [Waiter -> WaiterRecord]

Busy == worker.pc \in {"load", "decide"}

\* The newest request is never forgotten: while it is not complete, the worker
\* has yet to look at it or is working on exactly that one.
NoRequestForgotten ==
    status.completed < latestGeneration =>
        \/ consumed < latestGeneration
        \/ Busy /\ worker.task = [generation |-> latestGeneration, target |-> latestRequest]

\* A client that reads the status can trust it: it speaks of the newest request,
\* "published" means that this very request was the processor's last
\* publication, "error" that it was not published, and "loading" that the
\* worker is at it.
StatusTrue ==
    /\ status.requested = latestGeneration /\ status.target = latestRequest
    /\ status.state = "published" =>
           /\ processor = [generation |-> latestGeneration, target |-> latestRequest]
           /\ status.completed = latestGeneration
    /\ status.state = "error" =>
           /\ processor.generation < latestGeneration
           /\ status.completed = latestGeneration
    /\ status.state = "loading" => Busy /\ worker.task.generation = latestGeneration
    /\ status.state = "queued" => consumed < latestGeneration
    /\ status.error => status.state \in {"error", "stopped"}

\* The state behind the worker's mutex: the newest request is not forgotten, and
\* the status a client copies is true of it.
WorkerSound == WorkerTypeOK /\ NoRequestForgotten /\ StatusTrue

\* Publications follow the order of the requests, and nothing obsolete is ever
\* published, however long its load took.
LastRequestWins ==
    [][processor' # processor =>
          /\ processor'.generation = latestGeneration'
          /\ processor'.target = latestRequest'
          /\ processor'.generation > processor.generation]_workerVars

\* No wake-up is lost: a call of wait_until_settled sleeps on while its
\* condition holds only in the instant between the end of the worker's last
\* critical section and the notification that follows it.
NoLostWakeup ==
    \A w \in Waiter :
        waiters[w].pc = "asleep" /\ Settled(waiters[w].generation)
            => worker.pc = "notify"

\* A request is completed unless a newer one or the end of the worker comes.
RequestCompletes ==
    \A g \in Generation :
        latestGeneration = g ~>
            status.completed >= g \/ latestGeneration > g \/ stopping

\* A client that waits for a request that was made is let go, without help of
\* its timeout, unless a newer request comes.
WaiterReleased ==
    \A w \in Waiter, g \in Generation :
        waiters[w].pc = "asleep" /\ waiters[w].generation <= g /\ latestGeneration = g
            ~> waiters[w].pc = "done" \/ latestGeneration > g

\* Whoever asks is served: the newest request is completed, and every client
\* that waits for it is let go.
RequestServed == RequestCompletes /\ WaiterReleased

\* The destructor's join returns, and no client sleeps on after it.
ShutdownCompletes ==
    /\ stopping ~> worker.pc = "ended"
    /\ \A w \in Waiter : stopping /\ waiters[w].pc = "asleep" ~> waiters[w].pc = "done"
=============================================================================
