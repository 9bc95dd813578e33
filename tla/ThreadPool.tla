----------------------------- MODULE ThreadPool -----------------------------
(***************************************************************************)
(* The pool that runs the PHY workers: class thread_pool of                *)
(* lib/src/common/thread_pool.cc.                                          *)
(*                                                                         *)
(* Every method is one critical section of mutex_queue, cut in two by a    *)
(* wait on a condition variable; a section is one action.  A thread that   *)
(* waits is "asleep", and only a notify makes it "woken", ready to take    *)
(* the mutex and to test its condition again: a notify that is missing     *)
(* leaves it asleep for ever.                                              *)
(***************************************************************************)
EXTENDS Naturals

CONSTANTS
  NofWorkers,    \* max_workers
  Users          \* threads that take workers from the pool

ASSUME PoolAssumption == NofWorkers \in Nat

Workers == 0 .. NofWorkers - 1
Any == NofWorkers              \* a user that waits for whichever worker is free
NoWorker == NofWorkers

VARIABLES
  running,
  nof_workers,
  status,        \* worker |-> worker_status
  thread,        \* worker |-> where its thread is: see run_thread below
  user,          \* user |-> [at, w]
  joined         \* stop() has returned

poolVars == <<running, nof_workers, status, thread, user, joined>>

WorkerStatus == {"STOP", "IDLE", "START_WORK", "WORKER_READY", "WORKING"}
ThreadAt == {"none", "loop", "asleep", "woken", "ready", "work", "done"}
UserAt == {"out", "asleep", "woken", "hold"}
Out == [at |-> "out", w |-> NoWorker]

(* One type per variable. *)
PoolTypeOK ==
  /\ running \in BOOLEAN /\ joined \in BOOLEAN
  /\ nof_workers \in 0 .. NofWorkers
  /\ status \in [Workers -> WorkerStatus]
  /\ thread \in [Workers -> ThreadAt]
  /\ user \in [Users -> [at : UserAt, w : 0 .. NofWorkers]]

PoolInit ==
  /\ running = TRUE /\ joined = FALSE
  /\ nof_workers = 0
  /\ status = [i \in Workers |-> "IDLE"]
  /\ thread = [i \in Workers |-> "none"]
  /\ user = [u \in Users |-> Out]

-----------------------------------------------------------------------------
(* The condition variables: cvar_queue holds the users, cvar_worker[i] the
   thread of worker i.                                                      *)

NotifyQueue(us) == [u \in Users |-> IF us[u].at = "asleep" THEN [us[u] EXCEPT !.at = "woken"]
                                                           ELSE us[u]]
Wake(pc) == IF pc = "asleep" THEN "woken" ELSE pc

(* The callers create the workers in the order of their numbers, before stop *)
InitWorker(i) ==
  /\ running /\ i = nof_workers /\ i \in Workers
  /\ nof_workers' = i + 1
  /\ thread' = [thread EXCEPT ![i] = "loop"]
  /\ user' = NotifyQueue(user)
  /\ UNCHANGED <<running, status, joined>>

-----------------------------------------------------------------------------
(* The users. *)

FindFinishedWorker(i) ==
  /\ i < nof_workers /\ status[i] = "IDLE"
  /\ \A j \in Workers : j < i => status[j] # "IDLE"

Finds(w, i) == IF w = Any THEN FindFinishedWorker(i) ELSE i = w /\ status[i] = "IDLE"

(* Mutant: the worker is handed out and stays IDLE until it is started. *)
TakeNotReserved(u, w) ==
  /\ \/ /\ ~running
        /\ user' = [user EXCEPT ![u] = Out]
     \/ /\ running
        /\ \E i \in Workers : Finds(w, i) /\ user' = [user EXCEPT ![u] = [at |-> "hold", w |-> i]]
     \/ /\ running /\ \A i \in Workers : ~Finds(w, i)
        /\ user' = [user EXCEPT ![u] = [at |-> "asleep", w |-> w]]
  /\ UNCHANGED <<running, nof_workers, status, thread, joined>>

(* From the first or the repeated test of the condition: a worker, a null
   pointer because the pool is closing, or a wait on cvar_queue              *)
Take(u, w) ==
  /\ \/ /\ ~running
        /\ user' = [user EXCEPT ![u] = Out]
        /\ UNCHANGED status
     \/ /\ running
        /\ \E i \in Workers :
             /\ Finds(w, i)
             /\ user' = [user EXCEPT ![u] = [at |-> "hold", w |-> i]]
             /\ status' = [status EXCEPT ![i] = "WORKER_READY"]
     \/ /\ running /\ \A i \in Workers : ~Finds(w, i)
        /\ user' = [user EXCEPT ![u] = [at |-> "asleep", w |-> w]]
        /\ UNCHANGED status
  /\ UNCHANGED <<running, nof_workers, thread, joined>>

WaitWorker(u) == user[u].at = "out" /\ Take(u, Any)
WaitWorkerId(u, i) == user[u].at = "out" /\ i < nof_workers /\ Take(u, i)
Retry(u) == user[u].at = "woken" /\ Take(u, user[u].w)

(* A null pointer when no worker is free: the caller goes on, nothing changes *)
WaitWorkerNb(u) ==
  /\ user[u].at = "out" /\ running
  /\ \E i \in Workers : Finds(Any, i)
  /\ Take(u, Any)

(* Mutant: a worker that was stopped meanwhile is started all the same. *)
StartWorkerStopped(u) ==
  LET i == user[u].w IN
  /\ user[u].at = "hold"
  /\ status' = [status EXCEPT ![i] = "START_WORK"]
  /\ thread' = [thread EXCEPT ![i] = Wake(@)]
  /\ user' = NotifyQueue([user EXCEPT ![u] = Out])
  /\ UNCHANGED <<running, nof_workers, joined>>

StartWorker(u) ==
  LET i == user[u].w  stopped == status[i] = "STOP" IN
  /\ user[u].at = "hold"
  /\ status' = [status EXCEPT ![i] = IF stopped THEN @ ELSE "START_WORK"]
  /\ thread' = [thread EXCEPT ![i] = IF stopped THEN @ ELSE Wake(@)]
  /\ user' = LET us == [user EXCEPT ![u] = Out] IN IF stopped THEN us ELSE NotifyQueue(us)
  /\ UNCHANGED <<running, nof_workers, joined>>

(* Mutant: notify_one instead of notify_all when a worker becomes free. *)
FinishedNotifyOne(i, us) ==
  /\ \/ /\ status[i] = "STOP"
        /\ user' = us /\ UNCHANGED status
     \/ /\ status[i] # "STOP"
        /\ status' = [status EXCEPT ![i] = "IDLE"]
        /\ \/ \E v \in Users : us[v].at = "asleep" /\ user' = [us EXCEPT ![v].at = "woken"]
           \/ (\A v \in Users : us[v].at # "asleep") /\ user' = us

(* worker::finished, for a caller that leaves the users in us *)
Finished(i, us) ==
  IF status[i] = "STOP"
  THEN user' = us /\ UNCHANGED status
  ELSE /\ status' = [status EXCEPT ![i] = "IDLE"]
       /\ user' = NotifyQueue(us)

(* worker::release, from the user that holds it.  The thread of the worker is
   notified too: it finds neither START_WORK nor STOP and waits again.         *)
Release(u) ==
  LET i == user[u].w IN
  /\ user[u].at = "hold"
  /\ Finished(i, [user EXCEPT ![u] = Out])
  /\ thread' = [thread EXCEPT ![i] = IF status[i] = "STOP" THEN @ ELSE Wake(@)]
  /\ UNCHANGED <<running, nof_workers, joined>>

-----------------------------------------------------------------------------
(* The thread of a worker: run_thread.  It reads `running' of its own, which
   stop() clears together with its status.                                    *)

(* Mutant: the loop does not end when the pool stops. *)
WaitToStartForever(i) ==
  LET go == status[i] \in {"START_WORK", "STOP"} IN
  /\ thread[i] \in {"loop", "woken"}
  /\ thread' = [thread EXCEPT ![i] = IF go THEN "ready" ELSE "asleep"]
  /\ status' = [status EXCEPT ![i] = IF @ = "START_WORK" THEN "WORKING" ELSE @]
  /\ UNCHANGED <<running, nof_workers, user, joined>>

(* The test of the loop and wait_to_start: nothing happens between the two *)
WaitToStart(i) ==
  LET go == status[i] \in {"START_WORK", "STOP"} IN
  /\ thread[i] \in {"loop", "woken"}
  /\ \/ /\ thread[i] = "loop" /\ ~running
        /\ thread' = [thread EXCEPT ![i] = "done"]
        /\ UNCHANGED status
     \/ /\ thread[i] = "woken" \/ running
        /\ thread' = [thread EXCEPT ![i] = IF go THEN "ready" ELSE "asleep"]
        /\ status' = [status EXCEPT ![i] = IF @ = "START_WORK" THEN "WORKING" ELSE @]
  /\ UNCHANGED <<running, nof_workers, user, joined>>

(* The second test of `running' *)
TestRunning(i) ==
  /\ thread[i] = "ready"
  /\ thread' = [thread EXCEPT ![i] = IF running THEN "work" ELSE "loop"]
  /\ UNCHANGED <<running, nof_workers, status, user, joined>>

(* The end of work_imp, and finished() *)
WorkEnds(i) ==
  /\ thread[i] = "work"
  /\ Finished(i, user)
  /\ thread' = [thread EXCEPT ![i] = "loop"]
  /\ UNCHANGED <<running, nof_workers, joined>>

-----------------------------------------------------------------------------
(* stop(): one critical section, and then the joins. *)

Stop ==
  /\ running
  /\ running' = FALSE
  /\ status' = [i \in Workers |-> IF i < nof_workers THEN "STOP" ELSE status[i]]
  /\ thread' = [i \in Workers |-> IF i < nof_workers THEN Wake(thread[i]) ELSE thread[i]]
  /\ user' = IF nof_workers > 0 THEN NotifyQueue(user) ELSE user
  /\ UNCHANGED <<nof_workers, joined>>

Join ==
  /\ ~running /\ ~joined
  /\ \A i \in Workers : i < nof_workers => thread[i] = "done"
  /\ joined' = TRUE
  /\ UNCHANGED <<running, nof_workers, status, thread, user>>

-----------------------------------------------------------------------------
ThreadSteps(i) == WaitToStart(i) \/ TestRunning(i) \/ WorkEnds(i)

(* The threads that use the pool are created after its first worker: stop()
   notifies cvar_queue once per worker, and a pool without any would leave them
   asleep.                                                                      *)
Calls(u) ==
  /\ nof_workers > 0
  /\ WaitWorker(u) \/ WaitWorkerNb(u) \/ \E i \in Workers : WaitWorkerId(u, i)
Returns(u) == StartWorker(u) \/ Release(u)

PoolNext ==
  \/ \E i \in Workers : InitWorker(i) \/ ThreadSteps(i)
  \/ \E u \in Users : Calls(u) \/ Retry(u) \/ Returns(u)
  \/ Stop \/ Join

PoolSpec == PoolInit /\ [][PoolNext]_poolVars

(* Threads are scheduled, work_imp ends, a user that has a worker starts or
   releases it; nobody has to call the pool, and stop() may never come.      *)
PoolFairness ==
  /\ \A i \in Workers : WF_poolVars(ThreadSteps(i))
  /\ \A u \in Users : WF_poolVars(Retry(u)) /\ WF_poolVars(Returns(u))
  /\ WF_poolVars(Join)

FairPoolSpec == PoolSpec /\ PoolFairness
-----------------------------------------------------------------------------
(* Properties. *)

(* No thread sleeps through what it waits for (the waits of wait_worker,
   wait_worker_id and wait_to_start): a user is asleep only while the pool runs
   and no worker it would take is idle, a worker only while it is neither
   started nor stopped.                                                        *)
NoLostWakeup ==
  /\ \A u \in Users : user[u].at = "asleep" =>
       running /\ \A i \in Workers : ~Finds(user[u].w, i)
  /\ \A i \in Workers : thread[i] = "asleep" => status[i] \notin {"START_WORK", "STOP"}

(* A worker has one owner: the user that wait_worker or wait_worker_id gave it
   to, which may touch its buffers and its configuration, or its own thread
   inside work_imp, also when stop() overwrote its status meanwhile.           *)
OneOwner ==
  \A u \in Users : user[u].at = "hold" =>
    /\ \A v \in Users \ {u} : ~(user[v].at = "hold" /\ user[v].w = user[u].w)
    /\ thread[user[u].w] # "work"

(* start_worker, release and a worker that finishes late never revive a worker
   that stop() has stopped.                                                    *)
StopIsFinal == [][\A i \in Workers : status[i] = "STOP" => status'[i] = "STOP"]_poolVars

(* stop() returns, and every call of wait_worker or wait_worker_id that it finds
   asleep returns too, whatever the users and the workers were doing.           *)
StopReturns == ~running ~> (joined /\ \A u \in Users : user[u].at = "out")
=============================================================================
