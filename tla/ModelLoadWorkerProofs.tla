------------------------ MODULE ModelLoadWorkerProofs ------------------------
(***************************************************************************)
(* Proofs about ModelLoadWorker, for every set of files and of clients and  *)
(* any number of requests.                                                  *)
(***************************************************************************)
EXTENDS ModelLoadWorker, TLAPS

USE RequestAssumption, MaxGenerationAssumption
USE DEF NewRequest, TaskIsNewest, Complete, Task, StatusRecord, WorkerRecord, WaiterRecord

-----------------------------------------------------------------------------
(***************************************************************************)
(* The inductive invariant.  The generations are ordered: what was last     *)
(* published, what was last completed, what the worker took last, what was  *)
(* requested last.  While the worker is busy, its task is what it took last *)
(* and is not complete; when it is not, everything it took is complete or   *)
(* has been superseded.                                                     *)
(***************************************************************************)
Ordered ==
    /\ processor.generation <= status.completed
    /\ status.completed <= consumed
    /\ consumed <= latestGeneration

TaskCurrent ==
    Busy => /\ worker.task.generation = consumed
            /\ status.completed < consumed
            /\ consumed = latestGeneration => worker.task.target = latestRequest

Stopped ==
    /\ worker.pc \in {"lastCollect", "notify", "ended"} => stopping
    /\ worker.pc \in {"notify", "ended"} <=> status.state = "stopped"

Inv == Ordered /\ TaskCurrent /\ Stopped /\ NoRequestForgotten /\ StatusTrue /\ NoLostWakeup

WorkerInv == WorkerTypeOK /\ Inv

LEMMA InitInv == WorkerInit => WorkerInv
<1> SUFFICES ASSUME WorkerInit PROVE WorkerInv
  OBVIOUS
<1>1. WorkerTypeOK
  <2>1. 0 \in Generation
    BY DEF Generation
  <2>2. /\ status \in StatusRecord
        /\ worker \in WorkerRecord
    BY <2>1 DEF WorkerInit, NoTask
  <2>3. waiters \in [Waiter -> WaiterRecord]
    BY <2>1 DEF WorkerInit
  <2>. QED BY <2>1, <2>2, <2>3 DEF WorkerInit, NoTask, WorkerTypeOK
<1>2. Ordered /\ TaskCurrent /\ Stopped /\ NoRequestForgotten /\ StatusTrue
  BY DEF WorkerInit, NoTask, Ordered, TaskCurrent, Stopped, Busy, NoRequestForgotten, StatusTrue
<1>3. NoLostWakeup
  BY DEF WorkerInit, NoLostWakeup
<1>. QED BY <1>1, <1>2, <1>3 DEF WorkerInv, Inv

\* What a notification does to the clients.
LEMMA NotifyWakes ==
    ASSUME WorkerTypeOK, NotifyAll
    PROVE  /\ waiters' \in [Waiter -> WaiterRecord]
           /\ \A w \in Waiter : waiters'[w].pc # "asleep"
<1>1. \A w \in Waiter : waiters[w] \in WaiterRecord
  BY DEF WorkerTypeOK
<1>2. \A w \in Waiter :
        waiters'[w] = IF waiters[w].pc = "asleep" THEN [waiters[w] EXCEPT !.pc = "awake"]
                      ELSE waiters[w]
  BY DEF NotifyAll
<1>3. \A w \in Waiter : /\ waiters'[w].pc # "asleep"
                        /\ waiters'[w] \in WaiterRecord
  BY <1>1, <1>2
<1>. QED BY <1>3 DEF NotifyAll

-----------------------------------------------------------------------------
(* Control threads *)

\* A step of a client leaves every other thread's state alone.
LEMMA ClientInv ==
    ASSUME WorkerInv,
           UNCHANGED <<stopping, latestGeneration, latestRequest, status, worker,
                       consumed, processor>>,
           waiters' \in [Waiter -> WaiterRecord],
           NoLostWakeup'
    PROVE  WorkerInv'
BY DEF WorkerInv, WorkerTypeOK, Inv, Ordered, TaskCurrent, Stopped, Busy, NoRequestForgotten,
       StatusTrue

LEMMA ControlInv == WorkerInv /\ (Control \/ Wake) => WorkerInv'
<1> SUFFICES ASSUME WorkerInv, Control \/ Wake PROVE WorkerInv'
  OBVIOUS
<1> USE DEF WorkerInv, WorkerTypeOK, Generation
<1>1. ASSUME NEW target \in Target, Request(target) PROVE WorkerInv'
  <2>1. WorkerTypeOK'
    <3>1. latestGeneration' \in Generation
      BY <1>1 DEF Request
    <3>2. status' \in StatusRecord
      BY <1>1, <3>1 DEF Request
    <3>. QED BY <1>1, <3>1, <3>2 DEF Request
  <2>2. (Ordered /\ TaskCurrent /\ Stopped /\ NoRequestForgotten /\ StatusTrue)'
    BY <1>1 DEF Request, Inv, Ordered, TaskCurrent, Stopped, Busy, NoRequestForgotten,
                StatusTrue
  <2>3. NoLostWakeup'
    BY <1>1 DEF Request, Inv, NoLostWakeup, Settled
  <2>. QED BY <2>1, <2>2, <2>3 DEF Inv
<1>2. CASE Stop
  <2>1. (Ordered /\ TaskCurrent /\ Stopped /\ NoRequestForgotten /\ StatusTrue)'
    BY <1>2 DEF Stop, Inv, Ordered, TaskCurrent, Stopped, Busy, NoRequestForgotten,
                StatusTrue
  <2>2. WorkerTypeOK' /\ NoLostWakeup'
    BY <1>2 DEF Stop, Inv, NoLostWakeup, Settled
  <2>. QED BY <2>1, <2>2 DEF Inv
<1>3. ASSUME NEW w \in Waiter, NEW r \in WaiterRecord,
             UNCHANGED <<stopping, latestGeneration, latestRequest, status, worker,
                         consumed, processor>>,
             waiters' = [waiters EXCEPT ![w] = r],
             r.pc = "asleep" => ~Settled(r.generation)
      PROVE  WorkerInv'
  <2>1. \A v \in Waiter : waiters'[v] = IF v = w THEN r ELSE waiters[v]
    BY <1>3
  <2>2. NoLostWakeup'
    BY <1>3, <2>1 DEF Inv, NoLostWakeup, Settled
  <2>. QED BY <1>3, <2>2, ClientInv
<1>4. ASSUME NEW w \in Waiter, NEW g \in Generation, WaitCall(w, g) PROVE WorkerInv'
  <2>. DEFINE r == IF Settled(g) THEN Returned(g, TRUE)
                   ELSE [pc |-> "asleep", generation |-> g, result |-> FALSE]
  <2>1. /\ r \in WaiterRecord
        /\ r.pc = "asleep" => ~Settled(r.generation)
    BY DEF Returned
  <2>2. waiters' = [waiters EXCEPT ![w] = r]
    BY <1>4 DEF WaitCall
  <2>. QED BY <1>3, <1>4, <2>1, <2>2 DEF WaitCall
<1>5. ASSUME NEW w \in Waiter, WaitWake(w) PROVE WorkerInv'
  <2>. DEFINE g == waiters[w].generation
              r == IF Settled(g) THEN Returned(g, TRUE)
                   ELSE [waiters[w] EXCEPT !.pc = "asleep"]
  <2>1. /\ r \in WaiterRecord
        /\ r.pc = "asleep" => ~Settled(r.generation)
    BY DEF Returned
  <2>2. waiters' = [waiters EXCEPT ![w] = r]
    BY <1>5 DEF WaitWake
  <2>. QED BY <1>3, <1>5, <2>1, <2>2 DEF WaitWake
<1>6. ASSUME NEW w \in Waiter, WaitTimeout(w) PROVE WorkerInv'
  <2>. DEFINE g == waiters[w].generation
              r == Returned(g, Settled(g))
  <2>1. Settled(g) \in BOOLEAN
    BY DEF Settled
  <2>2. /\ r \in WaiterRecord
        /\ r.pc # "asleep"
    BY <2>1 DEF Returned
  <2>3. waiters' = [waiters EXCEPT ![w] = r]
    BY <1>6 DEF WaitTimeout
  <2>. QED BY <1>3, <1>6, <2>2, <2>3 DEF WaitTimeout
<1>. QED BY <1>1, <1>2, <1>4, <1>5, <1>6 DEF Control, Wake

-----------------------------------------------------------------------------
(* The worker thread *)

LEMMA WorkerStepInv == WorkerInv /\ Worker => WorkerInv'
<1> SUFFICES ASSUME WorkerInv, Worker PROVE WorkerInv'
  OBVIOUS
<1>0. WorkerTypeOK /\ Inv
  BY DEF WorkerInv
<1> USE <1>0 DEF Busy
<1>2. CASE TakeRequest
  <2>1. WorkerTypeOK'
    BY <1>2 DEF TakeRequest, WorkerTypeOK, Target, Generation
  <2>2. (Ordered /\ TaskCurrent /\ Stopped /\ NoRequestForgotten /\ StatusTrue)'
    BY <1>2 DEF TakeRequest, WorkerTypeOK, Generation, Inv, Ordered, TaskCurrent, Stopped,
                NoRequestForgotten, StatusTrue
  <2>3. NoLostWakeup'
    BY <1>2 DEF TakeRequest, WorkerTypeOK, Inv, NoLostWakeup, Settled, Stopped
  <2>. QED BY <2>1, <2>2, <2>3 DEF WorkerInv, Inv
<1>3. CASE Poll
  <2>1. WorkerTypeOK'
    BY <1>3 DEF Poll, WorkerTypeOK
  <2>2. (Ordered /\ TaskCurrent /\ Stopped /\ NoRequestForgotten /\ StatusTrue)'
    BY <1>3 DEF Poll, WorkerTypeOK, Inv, Ordered, TaskCurrent, Stopped, NoRequestForgotten,
                StatusTrue
  <2>3. NoLostWakeup'
    BY <1>3 DEF Poll, WorkerTypeOK, Inv, NoLostWakeup, Settled
  <2>. QED BY <2>1, <2>2, <2>3 DEF WorkerInv, Inv
<1>4. ASSUME NEW fails \in BOOLEAN, Load(fails) PROVE WorkerInv'
  <2>1. WorkerTypeOK'
    BY <1>4 DEF Load, WorkerTypeOK
  <2>2. (Ordered /\ TaskCurrent /\ Stopped /\ NoRequestForgotten /\ StatusTrue)'
    BY <1>4 DEF Load, WorkerTypeOK, Inv, Ordered, TaskCurrent, Stopped, NoRequestForgotten,
                StatusTrue
  <2>3. NoLostWakeup'
    BY <1>4 DEF Load, WorkerTypeOK, Inv, NoLostWakeup, Settled
  <2>. QED BY <2>1, <2>2, <2>3 DEF WorkerInv, Inv
<1>5. CASE Discard
  <2>1. WorkerTypeOK'
    BY <1>5 DEF Discard, NoTask, WorkerTypeOK, Generation
  <2>2. (Ordered /\ TaskCurrent /\ Stopped /\ NoRequestForgotten /\ StatusTrue)'
    BY <1>5 DEF Discard, WorkerTypeOK, Generation, Inv, Ordered, TaskCurrent, Stopped,
                NoRequestForgotten, StatusTrue
  <2>3. NoLostWakeup'
    BY <1>5 DEF Discard, WorkerTypeOK, Inv, NoLostWakeup, Settled
  <2>. QED BY <2>1, <2>2, <2>3 DEF WorkerInv, Inv
<1>6. CASE ReportError
  <2>1. WorkerTypeOK'
    <3>1. waiters' \in [Waiter -> WaiterRecord]
      BY <1>6, NotifyWakes DEF ReportError
    <3>2. worker' \in WorkerRecord
      BY <1>6 DEF ReportError, NoTask, WorkerTypeOK, Generation
    <3>3. status' \in StatusRecord
      BY <1>6 DEF ReportError, WorkerTypeOK
    <3>. QED BY <1>6, <3>1, <3>2, <3>3 DEF ReportError, WorkerTypeOK
  <2>0. /\ worker.task.generation = latestGeneration /\ consumed = latestGeneration
        /\ worker.task = [generation |-> latestGeneration, target |-> latestRequest]
        /\ status.completed < latestGeneration /\ ~Busy'
        /\ worker'.pc \in {"wait", "collect"} /\ status.state # "stopped"
    <3>1. /\ worker.task.generation = latestGeneration /\ consumed = latestGeneration
          /\ worker.task.target = latestRequest /\ status.completed < latestGeneration
      BY <1>6 DEF ReportError, WorkerTypeOK, Generation, Inv, Ordered, TaskCurrent
    <3>2. worker.task = [generation |-> worker.task.generation,
                         target |-> worker.task.target]
      BY DEF WorkerTypeOK
    <3>3. worker'.pc \in {"wait", "collect"} /\ status.state # "stopped"
      BY <1>6 DEF ReportError, WorkerTypeOK, Inv, Stopped
    <3>. QED BY <3>1, <3>2, <3>3
  <2>2. (Ordered /\ TaskCurrent /\ Stopped /\ NoRequestForgotten /\ StatusTrue)'
    <3>1. (Ordered /\ TaskCurrent /\ NoRequestForgotten)'
      BY <1>6, <2>0, <2>1 DEF ReportError, WorkerTypeOK, Generation, Inv, Ordered, TaskCurrent,
                              NoRequestForgotten
    <3>2. (Stopped /\ StatusTrue)'
      BY <1>6, <2>0 DEF ReportError, WorkerTypeOK, Generation, Inv, Ordered, Stopped, StatusTrue
    <3>. QED BY <3>1, <3>2
  <2>3. NoLostWakeup'
    BY <1>6, NotifyWakes DEF ReportError, NoLostWakeup
  <2>. QED BY <2>1, <2>2, <2>3 DEF WorkerInv, Inv
<1>7. CASE Publish
  <2>1. WorkerTypeOK'
    <3>1. waiters' \in [Waiter -> WaiterRecord]
      BY <1>7, NotifyWakes DEF Publish
    <3>2. worker' \in WorkerRecord
      BY <1>7 DEF Publish, NoTask, WorkerTypeOK, Generation
    <3>3. status' \in StatusRecord
      BY <1>7 DEF Publish, WorkerTypeOK
    <3>. QED BY <1>7, <3>1, <3>2, <3>3 DEF Publish, WorkerTypeOK
  <2>0. /\ worker.task.generation = latestGeneration /\ consumed = latestGeneration
        /\ worker.task = [generation |-> latestGeneration, target |-> latestRequest]
        /\ status.completed < latestGeneration /\ ~Busy'
        /\ worker'.pc \in {"wait", "collect"} /\ status.state # "stopped"
    <3>1. /\ worker.task.generation = latestGeneration /\ consumed = latestGeneration
          /\ worker.task.target = latestRequest /\ status.completed < latestGeneration
      BY <1>7 DEF Publish, WorkerTypeOK, Generation, Inv, Ordered, TaskCurrent
    <3>2. worker.task = [generation |-> worker.task.generation,
                         target |-> worker.task.target]
      BY DEF WorkerTypeOK
    <3>3. worker'.pc \in {"wait", "collect"} /\ status.state # "stopped"
      BY <1>7 DEF Publish, WorkerTypeOK, Inv, Stopped
    <3>. QED BY <3>1, <3>2, <3>3
  <2>2. (Ordered /\ TaskCurrent /\ Stopped /\ NoRequestForgotten /\ StatusTrue)'
    <3>1. (Ordered /\ TaskCurrent /\ NoRequestForgotten)'
      BY <1>7, <2>0, <2>1 DEF Publish, WorkerTypeOK, Generation, Inv, Ordered, TaskCurrent,
                              NoRequestForgotten
    <3>2. (Stopped /\ StatusTrue)'
      BY <1>7, <2>0 DEF Publish, WorkerTypeOK, Generation, Inv, Ordered, Stopped, StatusTrue
    <3>. QED BY <3>1, <3>2
  <2>3. NoLostWakeup'
    BY <1>7, NotifyWakes DEF Publish, NoLostWakeup
  <2>. QED BY <2>1, <2>2, <2>3 DEF WorkerInv, Inv
<1>8. CASE PublishThrows
  <2>1. WorkerTypeOK'
    <3>1. waiters' \in [Waiter -> WaiterRecord]
      BY <1>8, NotifyWakes DEF PublishThrows
    <3>2. worker' \in WorkerRecord
      BY <1>8 DEF PublishThrows, NoTask, WorkerTypeOK, Generation
    <3>3. status' \in StatusRecord
      BY <1>8 DEF PublishThrows, WorkerTypeOK
    <3>. QED BY <1>8, <3>1, <3>2, <3>3 DEF PublishThrows, WorkerTypeOK
  <2>0. /\ worker.task.generation = latestGeneration /\ consumed = latestGeneration
        /\ worker.task = [generation |-> latestGeneration, target |-> latestRequest]
        /\ status.completed < latestGeneration /\ ~Busy'
        /\ worker'.pc \in {"wait", "collect"} /\ status.state # "stopped"
    <3>1. /\ worker.task.generation = latestGeneration /\ consumed = latestGeneration
          /\ worker.task.target = latestRequest /\ status.completed < latestGeneration
      BY <1>8 DEF PublishThrows, WorkerTypeOK, Generation, Inv, Ordered, TaskCurrent
    <3>2. worker.task = [generation |-> worker.task.generation,
                         target |-> worker.task.target]
      BY DEF WorkerTypeOK
    <3>3. worker'.pc \in {"wait", "collect"} /\ status.state # "stopped"
      BY <1>8 DEF PublishThrows, WorkerTypeOK, Inv, Stopped
    <3>. QED BY <3>1, <3>2, <3>3
  <2>2. (Ordered /\ TaskCurrent /\ Stopped /\ NoRequestForgotten /\ StatusTrue)'
    <3>1. (Ordered /\ TaskCurrent /\ NoRequestForgotten)'
      BY <1>8, <2>0, <2>1 DEF PublishThrows, WorkerTypeOK, Generation, Inv, Ordered, TaskCurrent,
                              NoRequestForgotten
    <3>2. (Stopped /\ StatusTrue)'
      BY <1>8, <2>0 DEF PublishThrows, WorkerTypeOK, Generation, Inv, Ordered, Stopped, StatusTrue
    <3>. QED BY <3>1, <3>2
  <2>3. NoLostWakeup'
    BY <1>8, NotifyWakes DEF PublishThrows, NoLostWakeup
  <2>. QED BY <2>1, <2>2, <2>3 DEF WorkerInv, Inv
<1>9. CASE Collect \/ Quit
  <2>1. WorkerTypeOK'
    BY <1>9 DEF Collect, Quit, WorkerTypeOK
  <2>2. (Ordered /\ TaskCurrent /\ Stopped /\ NoRequestForgotten /\ StatusTrue)'
    BY <1>9 DEF Collect, Quit, WorkerTypeOK, Inv, Ordered, TaskCurrent, Stopped,
                NoRequestForgotten, StatusTrue
  <2>3. NoLostWakeup'
    BY <1>9 DEF Collect, Quit, WorkerTypeOK, Inv, NoLostWakeup, Settled
  <2>. QED BY <2>1, <2>2, <2>3 DEF WorkerInv, Inv
<1>10. CASE LastCollect
  <2>1. WorkerTypeOK'
    BY <1>10 DEF LastCollect, WorkerTypeOK
  <2>2. (Ordered /\ TaskCurrent /\ Stopped /\ NoRequestForgotten /\ StatusTrue)'
    BY <1>10 DEF LastCollect, WorkerTypeOK, Inv, Ordered, TaskCurrent, Stopped,
                 NoRequestForgotten, StatusTrue
  <2>3. NoLostWakeup'
    BY <1>10 DEF LastCollect, WorkerTypeOK, NoLostWakeup
  <2>. QED BY <2>1, <2>2, <2>3 DEF WorkerInv, Inv
<1>11. CASE NotifyStopped
  <2>1. WorkerTypeOK'
    BY <1>11, NotifyWakes DEF NotifyStopped, WorkerTypeOK
  <2>2. (Ordered /\ TaskCurrent /\ Stopped /\ NoRequestForgotten /\ StatusTrue)'
    BY <1>11 DEF NotifyStopped, WorkerTypeOK, Inv, Ordered, TaskCurrent, Stopped,
                 NoRequestForgotten, StatusTrue
  <2>3. NoLostWakeup'
    BY <1>11, NotifyWakes DEF NotifyStopped, NoLostWakeup
  <2>. QED BY <2>1, <2>2, <2>3 DEF WorkerInv, Inv
<1>. QED BY <1>2, <1>3, <1>4, <1>5, <1>6, <1>7, <1>8, <1>9, <1>10, <1>11 DEF Worker

LEMMA WorkerInvariant == WorkerSpec => []WorkerInv
<1>1. WorkerInv /\ [WorkerNext]_workerVars => WorkerInv'
  <2> SUFFICES ASSUME WorkerInv, UNCHANGED workerVars PROVE WorkerInv'
    BY ControlInv, WorkerStepInv DEF WorkerNext
  <2>. QED BY DEF workerVars, WorkerInv, WorkerTypeOK, Inv, Ordered, TaskCurrent, Stopped, Busy,
                  NoRequestForgotten, StatusTrue, NoLostWakeup, Settled
<1>. QED BY <1>1, InitInv, PTL DEF WorkerSpec

-----------------------------------------------------------------------------
(* Theorems *)

\* Every reachable state of the worker is well typed.
THEOREM TypeCorrect == WorkerSpec => []WorkerTypeOK
<1>1. WorkerInv => WorkerTypeOK
  BY DEF WorkerInv
<1>. QED BY <1>1, WorkerInvariant, PTL

\* The newest request is complete, waiting to be taken, or being loaded.
THEOREM NewestRequestKept == WorkerSpec => []NoRequestForgotten
<1>1. WorkerInv => NoRequestForgotten
  BY DEF WorkerInv, Inv
<1>. QED BY <1>1, WorkerInvariant, PTL

\* The status a client reads says what has happened to the newest request.
THEOREM StatusCanBeTrusted == WorkerSpec => []StatusTrue
<1>1. WorkerInv => StatusTrue
  BY DEF WorkerInv, Inv
<1>. QED BY <1>1, WorkerInvariant, PTL

\* No client of wait_until_settled sleeps through the event it waits for.
THEOREM WakeupsReachClients == WorkerSpec => []NoLostWakeup
<1>1. WorkerInv => NoLostWakeup
  BY DEF WorkerInv, Inv
<1>. QED BY <1>1, WorkerInvariant, PTL

\* Only the newest request is ever published, and each at most once.
THEOREM NewestPublished == WorkerSpec => LastRequestWins
<1>1. ASSUME WorkerInv, [WorkerNext]_workerVars, processor' # processor
      PROVE  /\ processor'.generation = latestGeneration'
             /\ processor'.target = latestRequest'
             /\ processor'.generation > processor.generation
  <2>1. Publish
    BY <1>1 DEF workerVars, WorkerNext, Control, Worker, Wake, Request, Stop, WaitCall, WaitTimeout,
                WaitWake, TakeRequest, Poll, Load, Discard, ReportError, PublishThrows,
                Collect, Quit, LastCollect, NotifyStopped
  <2>. QED BY <1>1, <2>1 DEF Publish, WorkerInv, WorkerTypeOK, Generation, Inv, Ordered,
                             TaskCurrent, Busy
<1>2. WorkerInv /\ [WorkerNext]_workerVars =>
        [processor' # processor =>
           /\ processor'.generation = latestGeneration'
           /\ processor'.target = latestRequest'
           /\ processor'.generation > processor.generation]_workerVars
  BY <1>1
<1>. QED BY <1>2, WorkerInvariant, PTL DEF WorkerSpec, LastRequestWins

\* Whatever requests, failures and waits come together, the worker forgets no
\* newest request, and its status is true of it.
THEOREM WorkerIsSound == WorkerSpec => []WorkerSound
<1>. QED BY TypeCorrect, NewestRequestKept, StatusCanBeTrusted, PTL DEF WorkerSound
=============================================================================
