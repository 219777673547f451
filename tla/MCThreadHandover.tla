-------------------------- MODULE MCThreadHandover --------------------------
(***************************************************************************)
(* The two structures through which threads hand each other work, each on   *)
(* its own, one in each behaviour: the ring of the retired queue with two   *)
(* usable entries (an array of three) and four nodes, so that the indices   *)
(* wrap, the queue fills, and an address comes back; and the worker with    *)
(* three requests, so that a request can supersede one being loaded and     *)
(* then be superseded itself, two files, and two clients that wait for      *)
(* different generations.                                                   *)
(***************************************************************************)
EXTENDS RetiredQueue, ModelLoadWorker, TLC

CONSTANTS n1, n2, n3, n4, clean, lead, w1, w2

VARIABLE subject

MCItem == {n1, n2, n3, n4}

MCPath == {clean, lead}

MCWaiter == {w1, w2}

MCVars == <<ringVars, workerVars, subject>>

MCInit == RingInit /\ WorkerInit /\ subject \in {"ring", "worker"}

MCNext == /\ \/ /\ subject = "ring"
                /\ RingNext
                /\ UNCHANGED workerVars
             \/ /\ subject = "worker"
                /\ WorkerNext
                /\ UNCHANGED ringVars
          /\ UNCHANGED subject

\* The fairness of RingFairSpec and of WorkerFairSpec, each for its own part.
MCSpec ==
    /\ MCInit
    /\ [][MCNext]_MCVars
    /\ WF_ringVars(subject = "ring" /\ (PushFull \/ PushRoom \/ PushWrite \/ PushRelease))
    /\ WF_ringVars(subject = "ring" /\ PopSeen /\ writeView' = writeIndex)
    /\ WF_ringVars(subject = "ring" /\ (PopTake \/ PopErase \/ PopRelease \/ Delete))
    /\ WF_workerVars(subject = "worker" /\ Worker)
    /\ \A w \in Waiter : WF_workerVars(subject = "worker" /\ WaitWake(w))
=============================================================================
