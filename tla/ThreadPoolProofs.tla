-------------------------- MODULE ThreadPoolProofs --------------------------
(***************************************************************************)
(* The thread pool is correct for any number of workers and of users: no   *)
(* wake-up is lost, a worker has one owner and a stopped worker stays      *)
(* stopped.                                                                *)
(***************************************************************************)
EXTENDS ThreadPool, TLAPS, WellFoundedInduction

-----------------------------------------------------------------------------
(* Sets of numbers. *)
(* A non-empty set of natural numbers has a least element. *)
LEMMA LeastElement ==
  ASSUME NEW S \in SUBSET Nat, NEW e \in S
  PROVE  \E x \in S : \A y \in S : x <= y
  <1>1. IsWellFoundedOn(OpToRel(<, Nat), Nat)
    BY NatLessThanWellFounded
  <1>2. PICK x \in S : \A y \in S : ~(<<y, x>> \in OpToRel(<, Nat))
    BY <1>1, WFMin
  <1>3. \A y \in S : ~(y < x)
    BY <1>2 DEF OpToRel
  <1> QED
    BY <1>3

-----------------------------------------------------------------------------
(* The inductive invariant. *)

(* Workers are created in order; only those that exist have a thread, and a
   worker that does not exist is never taken.                                *)
CreatedInOrder ==
  /\ \A i \in Workers : thread[i] = "none" <=> i >= nof_workers
  /\ \A i \in Workers : i >= nof_workers => status[i] = "IDLE"

(* stop() overwrites the status of every worker that exists, nothing else does *)
StoppedTogether == \A i \in Workers : status[i] = "STOP" <=> (~running /\ i < nof_workers)

(* A thread on its way to work_imp, or in it, left its worker WORKING *)
ThreadOwns ==
  \A i \in Workers : thread[i] \in {"ready", "work"} /\ running => status[i] = "WORKING"

(* What a user holds is reserved for it, and no thread works with it. *)
HeldIsReserved ==
  \A u \in Users : user[u].at = "hold" =>
    /\ user[u].w \in Workers /\ user[u].w < nof_workers
    /\ running => status[user[u].w] = "WORKER_READY"
    /\ thread[user[u].w] # "work"

HeldOnce ==
  \A u, v \in Users : u # v /\ user[u].at = "hold" /\ user[v].at = "hold" => user[u].w # user[v].w

(* What a user waits for: a worker that exists, or whichever is free. *)
WaitsForCreated ==
  \A u \in Users : user[u].at \in {"asleep", "woken"} =>
    nof_workers > 0 /\ (user[u].w # Any => user[u].w < nof_workers)

(* Stronger than the first part of NoLostWakeup: no worker that exists is idle,
   not even one that find_finished_worker would not be the first to find.      *)
SleepsOnBusy ==
  \A u \in Users : user[u].at = "asleep" =>
    /\ running
    /\ \A i \in Workers : i < nof_workers /\ user[u].w \in {i, Any} => status[i] # "IDLE"

ThreadSleepsUnstarted ==
  \A i \in Workers : thread[i] = "asleep" => status[i] \notin {"START_WORK", "STOP"}

PoolInv ==
  /\ PoolTypeOK
  /\ CreatedInOrder
  /\ StoppedTogether
  /\ ThreadOwns
  /\ HeldIsReserved
  /\ HeldOnce
  /\ WaitsForCreated
  /\ SleepsOnBusy
  /\ ThreadSleepsUnstarted

-----------------------------------------------------------------------------
(* Lemmas on the operators. *)

(* find_finished_worker looks through the workers in order: when it returns
   none, no worker that exists is idle.                                      *)
LEMMA NoneFound ==
  ASSUME PoolTypeOK, \A i \in Workers : ~Finds(Any, i)
  PROVE  \A i \in Workers : i < nof_workers => status[i] # "IDLE"
  <1> SUFFICES ASSUME NEW i \in Workers, i < nof_workers, status[i] = "IDLE"
               PROVE  FALSE
    OBVIOUS
  <1> DEFINE S == {j \in Workers : status[j] = "IDLE"}
  <1>1. S \in SUBSET Nat /\ i \in S
    BY DEF Workers
  <1> HIDE DEF S
  <1>2. PICK x \in S : \A y \in S : x <= y
    BY <1>1, LeastElement
  <1>3. x <= i /\ x \in Workers /\ status[x] = "IDLE"
    BY <1>1, <1>2 DEF S
  <1>4. \A j \in Workers : j < x => status[j] # "IDLE"
    BY <1>2, <1>3 DEF S, Workers
  <1>5. x < nof_workers
    BY <1>3 DEF Workers, PoolTypeOK
  <1>6. Finds(Any, x)
    BY <1>3, <1>4, <1>5 DEF Finds, FindFinishedWorker
  <1> QED
    BY <1>3, <1>6

(* notify_all wakes every user that sleeps and moves nobody else. *)
LEMMA NotifyAll ==
  ASSUME NEW us \in [Users -> [at : UserAt, w : 0 .. NofWorkers]]
  PROVE  /\ NotifyQueue(us) \in [Users -> [at : UserAt, w : 0 .. NofWorkers]]
         /\ \A u \in Users : /\ NotifyQueue(us)[u].w = us[u].w
                            /\ NotifyQueue(us)[u].at = IF us[u].at = "asleep" THEN "woken" ELSE us[u].at
  BY DEF NotifyQueue, UserAt

(* A user that got nothing is out, and the others are where they were. *)
LEMMA GoesOut ==
  ASSUME NEW u \in Users, user \in [Users -> [at : UserAt, w : 0 .. NofWorkers]]
  PROVE  LET us == [user EXCEPT ![u] = Out] IN
         /\ us \in [Users -> [at : UserAt, w : 0 .. NofWorkers]]
         /\ us[u].at = "out"
         /\ \A v \in Users : v # u => us[v] = user[v]
  BY PoolAssumption DEF UserAt, Out, NoWorker

-----------------------------------------------------------------------------
(* Every action preserves the invariant. *)

(* init_worker *)
LEMMA InitWorkerInv ==
  ASSUME PoolInv, NEW i \in Workers, InitWorker(i)
  PROVE  PoolInv'
  <1> USE DEF InitWorker, PoolInv, PoolTypeOK
  <1>1. PoolTypeOK'
    BY NotifyAll, PoolAssumption DEF Workers, ThreadAt
  <1>2. CreatedInOrder' /\ StoppedTogether' /\ ThreadOwns' /\ ThreadSleepsUnstarted'
    BY DEF Workers, CreatedInOrder, StoppedTogether, ThreadOwns, ThreadSleepsUnstarted
  <1>3. HeldIsReserved' /\ HeldOnce'
    BY NotifyAll DEF Workers, HeldIsReserved, HeldOnce
  <1>4. WaitsForCreated' /\ SleepsOnBusy'
    BY NotifyAll DEF Workers, WaitsForCreated, SleepsOnBusy
  <1> QED
    BY <1>1, <1>2, <1>3, <1>4

(* wait_worker, wait_worker_id and wait_worker_nb, from their first test of the
   condition or from a later one.                                              *)
LEMMA TakeInv ==
  ASSUME PoolInv, NEW u \in Users, NEW w \in 0 .. NofWorkers,
         user[u].at \in {"out", "woken"}, nof_workers > 0, w # Any => w < nof_workers,
         Take(u, w)
  PROVE  PoolInv'
  <1> USE DEF PoolInv, PoolTypeOK
  <1>0. UNCHANGED <<running, nof_workers, thread, joined>>
    BY DEF Take
  <1>1. ASSUME ~running, user' = [user EXCEPT ![u] = Out], UNCHANGED status
        PROVE  PoolInv'
    <2>1. PoolTypeOK'
      BY <1>0, <1>1, GoesOut
    <2>2. CreatedInOrder' /\ StoppedTogether' /\ ThreadOwns' /\ ThreadSleepsUnstarted'
      BY <1>0, <1>1 DEF CreatedInOrder, StoppedTogether, ThreadOwns, ThreadSleepsUnstarted
    <2>3. HeldIsReserved' /\ HeldOnce'
      BY <1>0, <1>1, GoesOut DEF HeldIsReserved, HeldOnce
    <2>4. WaitsForCreated' /\ SleepsOnBusy'
      BY <1>0, <1>1, GoesOut DEF WaitsForCreated, SleepsOnBusy
    <2> QED
      BY <2>1, <2>2, <2>3, <2>4
  <1>2. ASSUME running, NEW i \in Workers, Finds(w, i),
               user' = [user EXCEPT ![u] = [at |-> "hold", w |-> i]],
               status' = [status EXCEPT ![i] = "WORKER_READY"]
        PROVE  PoolInv'
    <2>1. PoolTypeOK'
      BY <1>0, <1>2, PoolAssumption DEF Workers, UserAt, WorkerStatus
    <2>2. status[i] = "IDLE" /\ i < nof_workers
      BY <1>2 DEF Finds, FindFinishedWorker
    <2>3. CreatedInOrder' /\ StoppedTogether' /\ ThreadOwns' /\ ThreadSleepsUnstarted'
      BY <1>0, <1>2, <2>2 DEF CreatedInOrder, StoppedTogether, ThreadOwns, ThreadSleepsUnstarted, Workers
    <2>4. user'[u] = [at |-> "hold", w |-> i] /\ \A v \in Users : v # u => user'[v] = user[v]
      BY <1>2
    <2>5. thread[i] # "work"
      BY <1>2, <2>2 DEF ThreadOwns
    <2>6. HeldIsReserved'
      BY <1>0, <1>2, <2>2, <2>4, <2>5 DEF HeldIsReserved
    <2>7. HeldOnce'
      BY <1>0, <1>2, <2>2, <2>4 DEF HeldIsReserved, HeldOnce
    <2>8. WaitsForCreated' /\ SleepsOnBusy'
      BY <1>0, <1>2, <2>4 DEF WaitsForCreated, SleepsOnBusy
    <2> QED
      BY <2>1, <2>3, <2>6, <2>7, <2>8
  <1>3. ASSUME running, \A i \in Workers : ~Finds(w, i),
               user' = [user EXCEPT ![u] = [at |-> "asleep", w |-> w]], UNCHANGED status
        PROVE  PoolInv'
    <2>1. PoolTypeOK'
      BY <1>0, <1>3 DEF UserAt
    <2>2. CreatedInOrder' /\ StoppedTogether' /\ ThreadOwns' /\ ThreadSleepsUnstarted'
      BY <1>0, <1>3 DEF CreatedInOrder, StoppedTogether, ThreadOwns, ThreadSleepsUnstarted
    <2>3. user'[u] = [at |-> "asleep", w |-> w] /\ \A v \in Users : v # u => user'[v] = user[v]
      BY <1>3
    <2>4. HeldIsReserved' /\ HeldOnce'
      BY <1>0, <1>3, <2>3 DEF HeldIsReserved, HeldOnce
    <2>5. WaitsForCreated'
      BY <1>0, <1>3, <2>3 DEF WaitsForCreated
    <2>6. \A i \in Workers : i < nof_workers /\ w \in {i, Any} => status[i] # "IDLE"
      <3>1. CASE w = Any
        BY <1>3, <3>1, NoneFound
      <3>2. CASE w # Any
        BY <1>3, <3>2 DEF Finds
      <3> QED
        BY <3>1, <3>2
    <2>7. SleepsOnBusy'
      BY <1>0, <1>3, <2>3, <2>6 DEF SleepsOnBusy
    <2> QED
      BY <2>1, <2>2, <2>4, <2>5, <2>7
  <1> QED
    BY <1>1, <1>2, <1>3 DEF Take

(* start_worker *)
LEMMA StartWorkerInv ==
  ASSUME PoolInv, NEW u \in Users, StartWorker(u)
  PROVE  PoolInv'
  <1> USE DEF PoolInv, PoolTypeOK
  <1> DEFINE i == user[u].w
             us == [user EXCEPT ![u] = Out]
  <1>0. /\ UNCHANGED <<running, nof_workers, joined>> /\ user[u].at = "hold"
        /\ i \in Workers /\ i < nof_workers
    BY DEF StartWorker, HeldIsReserved
  <1>1. /\ us \in [Users -> [at : UserAt, w : 0 .. NofWorkers]]
        /\ us[u].at = "out"
        /\ \A v \in Users : v # u => us[v] = user[v]
    BY GoesOut
  <1>2. CASE status[i] = "STOP"
    <2>1. UNCHANGED <<status, thread>> /\ user' = us
      BY <1>0, <1>2 DEF StartWorker
    <2> HIDE DEF us, i
    <2>2. CreatedInOrder' /\ StoppedTogether' /\ ThreadOwns' /\ ThreadSleepsUnstarted'
      BY <1>0, <2>1 DEF CreatedInOrder, StoppedTogether, ThreadOwns, ThreadSleepsUnstarted
    <2>3. HeldIsReserved' /\ HeldOnce'
      BY <1>0, <1>1, <2>1 DEF HeldIsReserved, HeldOnce
    <2>4. WaitsForCreated' /\ SleepsOnBusy'
      BY <1>0, <1>1, <2>1 DEF WaitsForCreated, SleepsOnBusy
    <2> QED
      BY <1>0, <1>1, <2>1, <2>2, <2>3, <2>4
  <1>3. CASE status[i] # "STOP"
    <2>1. /\ status' = [status EXCEPT ![i] = "START_WORK"]
          /\ thread' = [thread EXCEPT ![i] = Wake(@)]
          /\ user' = NotifyQueue(us)
      BY <1>0, <1>3 DEF StartWorker
    <2>2. running /\ status[i] = "WORKER_READY" /\ thread[i] \notin {"ready", "work"}
      BY <1>0, <1>3 DEF StoppedTogether, HeldIsReserved, ThreadOwns
    <2>3. \A v \in Users : v # u /\ user[v].at = "hold" => user[v].w # i
      BY <1>0 DEF HeldOnce
    <2> HIDE DEF us, i
    <2>4. /\ user' \in [Users -> [at : UserAt, w : 0 .. NofWorkers]]
          /\ user'[u].at = "out"
          /\ \A v \in Users : v # u => /\ user'[v].w = user[v].w
                                      /\ user'[v].at = IF user[v].at = "asleep" THEN "woken" ELSE user[v].at
      BY <1>1, <2>1, NotifyAll
    <2>5. PoolTypeOK'
      BY <1>0, <2>1, <2>4 DEF WorkerStatus, ThreadAt, Wake
    <2>6. CreatedInOrder' /\ StoppedTogether' /\ ThreadOwns' /\ ThreadSleepsUnstarted'
      BY <1>0, <2>1, <2>2 DEF CreatedInOrder, StoppedTogether, ThreadOwns, ThreadSleepsUnstarted, Wake, Workers
    <2>7. HeldIsReserved' /\ HeldOnce'
      <3>1. \A j \in Workers : j # i => status'[j] = status[j] /\ thread'[j] = thread[j]
        BY <2>1
      <3>2. HeldIsReserved'
        BY <1>0, <2>3, <2>4, <3>1 DEF HeldIsReserved
      <3>3. HeldOnce'
        BY <2>4 DEF HeldOnce
      <3> QED
        BY <3>2, <3>3
    <2>8. WaitsForCreated' /\ SleepsOnBusy'
      BY <1>0, <2>4 DEF WaitsForCreated, SleepsOnBusy
    <2> QED
      BY <2>5, <2>6, <2>7, <2>8
  <1> QED
    BY <1>2, <1>3

(* worker::finished, for users us of which none holds worker i, by a caller that
   leaves the thread of the worker at t.                                        *)
LEMMA FinishedInv ==
  ASSUME PoolInv, NEW i \in Workers, i < nof_workers,
         NEW us \in [Users -> [at : UserAt, w : 0 .. NofWorkers]],
         \A v \in Users : us[v] = user[v] \/ us[v].at = "out",
         \A v \in Users : us[v].at = "hold" => us[v].w # i,
         NEW t \in ThreadAt \ {"none", "asleep"}, t \in {"ready", "work"} => ~running,
         thread' = [thread EXCEPT ![i] = t],
         Finished(i, us),
         UNCHANGED <<running, nof_workers, joined>>
  PROVE  PoolInv'
  <1> USE DEF PoolInv, PoolTypeOK
  <1>1. CASE status[i] = "STOP"
    <2>1. UNCHANGED status /\ user' = us
      BY <1>1 DEF Finished
    <2>2. CreatedInOrder' /\ StoppedTogether' /\ ThreadOwns' /\ ThreadSleepsUnstarted'
      BY <2>1 DEF CreatedInOrder, StoppedTogether, ThreadOwns, ThreadSleepsUnstarted, Workers
    <2>3. HeldIsReserved' /\ HeldOnce'
      BY <2>1 DEF HeldIsReserved, HeldOnce
    <2>4. WaitsForCreated' /\ SleepsOnBusy'
      BY <2>1 DEF WaitsForCreated, SleepsOnBusy
    <2> QED
      BY <2>1, <2>2, <2>3, <2>4
  <1>2. CASE status[i] # "STOP"
    <2>1. status' = [status EXCEPT ![i] = "IDLE"] /\ user' = NotifyQueue(us)
      BY <1>2 DEF Finished
    <2>2. /\ user' \in [Users -> [at : UserAt, w : 0 .. NofWorkers]]
          /\ \A v \in Users : /\ user'[v].w = us[v].w
                             /\ user'[v].at = IF us[v].at = "asleep" THEN "woken" ELSE us[v].at
      BY <2>1, NotifyAll
    <2>3. running
      BY <1>2 DEF StoppedTogether
    <2>4. \A j \in Workers : j # i => status'[j] = status[j] /\ thread'[j] = thread[j]
      BY <2>1
    <2>5. PoolTypeOK'
      BY <2>1, <2>2 DEF WorkerStatus
    <2>6. CreatedInOrder' /\ StoppedTogether' /\ ThreadOwns' /\ ThreadSleepsUnstarted'
      BY <2>1, <2>3, <2>4 DEF CreatedInOrder, StoppedTogether, ThreadOwns, ThreadSleepsUnstarted, Workers
    <2>7. HeldIsReserved'
      BY <2>2, <2>4 DEF HeldIsReserved
    <2>8. HeldOnce'
      BY <2>2 DEF HeldOnce
    <2>9. WaitsForCreated' /\ SleepsOnBusy'
      BY <2>2 DEF WaitsForCreated, SleepsOnBusy
    <2> QED
      BY <2>5, <2>6, <2>7, <2>8, <2>9
  <1> QED
    BY <1>1, <1>2

(* worker::release *)
LEMMA ReleaseInv ==
  ASSUME PoolInv, NEW u \in Users, Release(u)
  PROVE  PoolInv'
  <1> DEFINE i == user[u].w
             us == [user EXCEPT ![u] = Out]
             t == IF status[i] = "STOP" THEN thread[i] ELSE Wake(thread[i])
  <1>1. /\ UNCHANGED <<running, nof_workers, joined>>
        /\ i \in Workers /\ i < nof_workers /\ user[u].at = "hold"
        /\ Finished(i, us)
    BY DEF Release, PoolInv, HeldIsReserved
  <1>2. thread' = [thread EXCEPT ![i] = t]
    BY DEF Release, PoolInv, PoolTypeOK
  <1>3. /\ us \in [Users -> [at : UserAt, w : 0 .. NofWorkers]]
        /\ us[u].at = "out"
        /\ \A v \in Users : v # u => us[v] = user[v]
    BY GoesOut DEF PoolInv, PoolTypeOK
  <1>4. \A v \in Users : us[v].at = "hold" => us[v].w # i
    BY <1>1, <1>3 DEF PoolInv, HeldOnce
  <1>5. thread[i] \in ThreadAt /\ thread[i] # "none"
    BY <1>1 DEF PoolInv, PoolTypeOK, CreatedInOrder, Workers
  <1>6. t \in ThreadAt \ {"none", "asleep"}
    BY <1>1, <1>5 DEF PoolInv, ThreadSleepsUnstarted, ThreadAt, Wake
  <1>7. t \in {"ready", "work"} => ~running
    BY <1>1 DEF PoolInv, ThreadOwns, HeldIsReserved, StoppedTogether, Wake
  <1> HIDE DEF i, us, t
  <1> QED
    BY <1>1, <1>2, <1>3, <1>4, <1>6, <1>7, FinishedInv

(* The end of work_imp *)
LEMMA WorkEndsInv ==
  ASSUME PoolInv, NEW i \in Workers, WorkEnds(i)
  PROVE  PoolInv'
  <1>1. i < nof_workers
    BY DEF WorkEnds, PoolInv, PoolTypeOK, CreatedInOrder, Workers
  <1>2. \A v \in Users : user[v].at = "hold" => user[v].w # i
    BY DEF WorkEnds, PoolInv, HeldIsReserved
  <1>3. "loop" \in ThreadAt \ {"none", "asleep"}
    BY DEF ThreadAt
  <1> QED
    BY <1>1, <1>2, <1>3, FinishedInv DEF WorkEnds, PoolInv, PoolTypeOK

(* wait_to_start and the test of the loop before it *)
LEMMA WaitToStartInv ==
  ASSUME PoolInv, NEW i \in Workers, WaitToStart(i)
  PROVE  PoolInv'
  <1> USE DEF PoolInv, PoolTypeOK
  <1>0. UNCHANGED <<running, nof_workers, user, joined>> /\ thread[i] \in {"loop", "woken"}
    BY DEF WaitToStart
  <1>1. \A j \in Workers : j # i => status'[j] = status[j] /\ thread'[j] = thread[j]
    BY DEF WaitToStart
  <1>2. /\ thread'[i] \in ThreadAt \ {"none", "work"}
        /\ status'[i] = status[i] \/ (status[i] = "START_WORK" /\ status'[i] = "WORKING")
        /\ thread'[i] = "ready" => status'[i] \in {"WORKING", "STOP"}
        /\ thread'[i] = "asleep" => status'[i] \notin {"START_WORK", "STOP"}
    BY DEF WaitToStart, ThreadAt
  <1>3. PoolTypeOK'
    BY <1>0, <1>2 DEF WaitToStart, WorkerStatus, ThreadAt
  <1>4. CreatedInOrder'
    BY <1>0, <1>1, <1>2 DEF CreatedInOrder
  <1>5. StoppedTogether'
    BY <1>0, <1>1, <1>2 DEF StoppedTogether
  <1>6. ThreadOwns'
    BY <1>0, <1>1, <1>2 DEF ThreadOwns, StoppedTogether
  <1>7. HeldIsReserved' /\ HeldOnce'
    BY <1>0, <1>1, <1>2 DEF HeldIsReserved, HeldOnce
  <1>8. WaitsForCreated' /\ SleepsOnBusy'
    BY <1>0, <1>1, <1>2 DEF WaitsForCreated, SleepsOnBusy
  <1>9. ThreadSleepsUnstarted'
    BY <1>0, <1>1, <1>2 DEF ThreadSleepsUnstarted
  <1> QED
    BY <1>3, <1>4, <1>5, <1>6, <1>7, <1>8, <1>9

(* The second test of `running' *)
LEMMA TestRunningInv ==
  ASSUME PoolInv, NEW i \in Workers, TestRunning(i)
  PROVE  PoolInv'
  <1> USE DEF PoolInv, PoolTypeOK, TestRunning
  <1>1. PoolTypeOK'
    BY DEF ThreadAt
  <1>2. CreatedInOrder' /\ StoppedTogether' /\ ThreadOwns' /\ ThreadSleepsUnstarted'
    BY DEF CreatedInOrder, StoppedTogether, ThreadOwns, ThreadSleepsUnstarted
  <1>3. \A u \in Users : user[u].at = "hold" /\ running => user[u].w # i
    BY DEF HeldIsReserved, ThreadOwns
  <1>4. HeldIsReserved' /\ HeldOnce'
    BY <1>3 DEF HeldIsReserved, HeldOnce
  <1>5. WaitsForCreated' /\ SleepsOnBusy'
    BY DEF WaitsForCreated, SleepsOnBusy
  <1> QED
    BY <1>1, <1>2, <1>4, <1>5

(* stop, up to the joins *)
LEMMA StopInv ==
  ASSUME PoolInv, Stop
  PROVE  PoolInv'
  <1> USE DEF PoolInv, PoolTypeOK
  <1>0. /\ running' = FALSE
        /\ UNCHANGED <<nof_workers, joined>>
        /\ \A i \in Workers : /\ status'[i] = IF i < nof_workers THEN "STOP" ELSE status[i]
                             /\ thread'[i] = IF i < nof_workers THEN Wake(thread[i]) ELSE thread[i]
    BY DEF Stop
  <1>1. /\ user' \in [Users -> [at : UserAt, w : 0 .. NofWorkers]]
        /\ \A v \in Users : /\ user'[v].w = user[v].w
                           /\ user'[v].at = IF user[v].at = "asleep" THEN "woken" ELSE user[v].at
    BY NotifyAll DEF Stop, WaitsForCreated
  <1>2. PoolTypeOK'
    BY <1>0, <1>1 DEF Stop, WorkerStatus, ThreadAt, Wake
  <1>3. CreatedInOrder' /\ StoppedTogether' /\ ThreadOwns' /\ ThreadSleepsUnstarted'
    BY <1>0 DEF Stop, CreatedInOrder, StoppedTogether, ThreadOwns, ThreadSleepsUnstarted, Wake, Workers
  <1>4. HeldIsReserved' /\ HeldOnce'
    BY <1>0, <1>1 DEF HeldIsReserved, HeldOnce, Wake
  <1>5. WaitsForCreated' /\ SleepsOnBusy'
    BY <1>0, <1>1 DEF WaitsForCreated, SleepsOnBusy
  <1> QED
    BY <1>2, <1>3, <1>4, <1>5

(* Every step of the pool preserves the invariant. *)
LEMMA PoolStepInv == PoolInv /\ [PoolNext]_poolVars => PoolInv'
  <1> SUFFICES ASSUME PoolInv, [PoolNext]_poolVars
               PROVE  PoolInv'
    OBVIOUS
  <1>1. ASSUME NEW i \in Workers, InitWorker(i)
        PROVE  PoolInv'
    BY <1>1, InitWorkerInv
  <1>2. ASSUME NEW i \in Workers, ThreadSteps(i)
        PROVE  PoolInv'
    BY <1>2, WaitToStartInv, TestRunningInv, WorkEndsInv DEF ThreadSteps
  <1>3. ASSUME NEW u \in Users, Calls(u)
        PROVE  PoolInv'
    <2>1. Any \in 0 .. NofWorkers /\ Workers \subseteq 0 .. NofWorkers
      BY PoolAssumption DEF Any, Workers
    <2>2. CASE WaitWorker(u) \/ WaitWorkerNb(u)
      BY <1>3, <2>1, <2>2, TakeInv DEF Calls, WaitWorker, WaitWorkerNb
    <2>3. CASE \E i \in Workers : WaitWorkerId(u, i)
      BY <1>3, <2>1, <2>3, TakeInv DEF Calls, WaitWorkerId
    <2> QED
      BY <1>3, <2>2, <2>3 DEF Calls
  <1>4. ASSUME NEW u \in Users, Retry(u)
        PROVE  PoolInv'
    <2>1. user[u].w \in 0 .. NofWorkers
      BY DEF PoolInv, PoolTypeOK
    <2>2. nof_workers > 0 /\ (user[u].w # Any => user[u].w < nof_workers)
      BY <1>4 DEF PoolInv, WaitsForCreated, Retry
    <2> QED
      BY <1>4, <2>1, <2>2, TakeInv DEF Retry
  <1>5. ASSUME NEW u \in Users, Returns(u)
        PROVE  PoolInv'
    BY <1>5, StartWorkerInv, ReleaseInv DEF Returns
  <1>6. CASE Stop
    BY <1>6, StopInv
  <1>7. CASE Join
    BY <1>7 DEF Join, PoolInv, PoolTypeOK, CreatedInOrder, StoppedTogether, ThreadOwns,
       HeldIsReserved, HeldOnce, WaitsForCreated, SleepsOnBusy, ThreadSleepsUnstarted
  <1>8. CASE UNCHANGED poolVars
    BY <1>8 DEF poolVars, PoolInv, PoolTypeOK, CreatedInOrder, StoppedTogether, ThreadOwns,
       HeldIsReserved, HeldOnce, WaitsForCreated, SleepsOnBusy, ThreadSleepsUnstarted, Finds
  <1> QED
    BY <1>1, <1>2, <1>3, <1>4, <1>5, <1>6, <1>7, <1>8 DEF PoolNext

(* The invariant holds when the pool is constructed. *)
LEMMA PoolInitInv == PoolInit => PoolInv
  <1> SUFFICES ASSUME PoolInit PROVE PoolInv
    OBVIOUS
  <1> USE DEF PoolInit
  <1>1. PoolTypeOK
    <2>1. Out \in [at : UserAt, w : 0 .. NofWorkers]
      BY PoolAssumption DEF UserAt, Out, NoWorker
    <2>2. user \in [Users -> [at : UserAt, w : 0 .. NofWorkers]]
      BY <2>1
    <2>3. running \in BOOLEAN /\ joined \in BOOLEAN
      BY Zenon
    <2>4. nof_workers \in 0 .. NofWorkers
      BY PoolAssumption
    <2>5. status \in [Workers -> WorkerStatus] /\ thread \in [Workers -> ThreadAt]
      BY DEF WorkerStatus, ThreadAt
    <2> QED
      BY <2>2, <2>3, <2>4, <2>5 DEF PoolTypeOK
  <1>2. CreatedInOrder /\ StoppedTogether /\ ThreadOwns /\ ThreadSleepsUnstarted
    BY DEF CreatedInOrder, StoppedTogether, ThreadOwns, ThreadSleepsUnstarted, Workers
  <1>3. HeldIsReserved /\ HeldOnce /\ WaitsForCreated /\ SleepsOnBusy
    BY DEF HeldIsReserved, HeldOnce, WaitsForCreated, SleepsOnBusy, Out
  <1> QED
    BY <1>1, <1>2, <1>3 DEF PoolInv

-----------------------------------------------------------------------------
(* The theorems. *)

(* The inductive invariant, the types of the variables among it, holds in every
   behaviour of the pool.                                                       *)
THEOREM PoolInvariance == PoolSpec => []PoolInv
  <1> QED
    BY PoolInitInv, PoolStepInv, PTL DEF PoolSpec

(* wait_worker, wait_worker_id and wait_to_start never sleep through what they
   wait for, with any number of workers and users.                             *)
THEOREM NoLostWakeupHolds == PoolSpec => []NoLostWakeup
  <1>1. PoolInv => NoLostWakeup
    <2> SUFFICES ASSUME PoolInv PROVE NoLostWakeup
      OBVIOUS
    <2>1. ASSUME NEW u \in Users, user[u].at = "asleep", NEW i \in Workers
          PROVE  running /\ ~Finds(user[u].w, i)
      <3>1. running
        BY <2>1 DEF PoolInv, SleepsOnBusy
      <3>2. CASE user[u].w = Any
        BY <2>1, <3>2 DEF PoolInv, SleepsOnBusy, Finds, FindFinishedWorker
      <3>3. CASE user[u].w # Any
        BY <2>1, <3>3 DEF PoolInv, SleepsOnBusy, WaitsForCreated, Finds
      <3> QED
        BY <3>1, <3>2, <3>3
    <2>2. ASSUME NEW u \in Users, user[u].at = "asleep"
          PROVE  running
      BY <2>2 DEF PoolInv, SleepsOnBusy
    <2> QED
      BY <2>1, <2>2 DEF NoLostWakeup, PoolInv, ThreadSleepsUnstarted
  <1> QED
    BY <1>1, PoolInvariance, PTL

(* A worker belongs to one user or to its own thread inside work_imp, never to
   two of them, also while the pool stops.                                     *)
THEOREM OneOwnerHolds == PoolSpec => []OneOwner
  <1>1. PoolInv => OneOwner
    BY DEF PoolInv, HeldIsReserved, HeldOnce, OneOwner
  <1> QED
    BY <1>1, PoolInvariance, PTL

(* No step of start_worker, release or finished revives a stopped worker. *)
THEOREM StopIsFinalHolds == PoolSpec => StopIsFinal
  <1> DEFINE Keeps == \A i \in Workers : status[i] = "STOP" => status'[i] = "STOP"
  <1>1. PoolInv /\ PoolInv' /\ [PoolNext]_poolVars => [Keeps]_poolVars
    <2> SUFFICES ASSUME PoolInv, PoolInv', [PoolNext]_poolVars
                 PROVE  Keeps \/ UNCHANGED poolVars
      OBVIOUS
    <2>1. ~running => ~running' /\ nof_workers' = nof_workers
      BY DEF PoolNext, InitWorker, ThreadSteps, WaitToStart, TestRunning, WorkEnds, Calls, Retry,
         Returns, WaitWorker, WaitWorkerNb, WaitWorkerId, Take, StartWorker, Release, Stop, Join, poolVars
    <2> QED
      BY <2>1 DEF PoolInv, StoppedTogether
  <1> QED
    BY <1>1, PoolInvariance, PTL DEF PoolSpec, StopIsFinal
-----------------------------------------------------------------------------
(* What a component that composes pools sees of them: which workers have been
   started and will begin work_imp, and which are inside it.                 *)

Starting(i) == running /\ (status[i] = "START_WORK" \/ thread[i] = "ready")
Working(i) == thread[i] = "work"

SameWork == \A i \in Workers : (Starting(i)' <=> Starting(i)) /\ (Working(i)' <=> Working(i))
SameRun == running' = running /\ joined' = joined

(* A worker is not started again while it works. *)
LEMMA StartedOnce ==
  ASSUME PoolInv, NEW i \in Workers
  PROVE  ~(Starting(i) /\ Working(i))
  BY DEF PoolInv, ThreadOwns, Starting, Working

(* A worker that a user holds is at rest. *)
LEMMA HeldAtRest ==
  ASSUME PoolInv, NEW u \in Users, user[u].at = "hold"
  PROVE  user[u].w \in Workers /\ ~Starting(user[u].w) /\ ~Working(user[u].w)
  <1>1. /\ user[u].w \in Workers /\ (running => status[user[u].w] = "WORKER_READY")
        /\ thread[user[u].w] # "work"
    BY DEF PoolInv, HeldIsReserved
  <1> QED
    BY <1>1 DEF PoolInv, ThreadOwns, Starting, Working

(* Taking and giving back a worker, the wait of its thread and join start no work
   and end none.                                                            *)
LEMMA TakeWork ==
  ASSUME PoolInv, NEW u, NEW w, Take(u, w)
  PROVE  SameWork /\ SameRun
  <1>0. SameRun /\ UNCHANGED thread
    BY DEF Take, SameRun
  <1>1. CASE UNCHANGED status
    BY <1>0, <1>1 DEF SameWork, SameRun, Starting, Working
  <1>2. CASE running /\ \E i \in Workers : status[i] = "IDLE" /\ status' = [status EXCEPT ![i] = "WORKER_READY"]
    <2>1. PICK i \in Workers : status[i] = "IDLE" /\ status' = [status EXCEPT ![i] = "WORKER_READY"]
      BY <1>2
    <2>2. status \in [Workers -> WorkerStatus]
      BY DEF PoolInv, PoolTypeOK
    <2>3. \A j \in Workers : status'[j] = "START_WORK" <=> status[j] = "START_WORK"
      BY <2>1, <2>2
    <2> QED
      BY <1>0, <2>3 DEF SameWork, SameRun, Starting, Working
  <1> QED
    BY <1>1, <1>2 DEF Take, Finds, FindFinishedWorker

LEMMA ReleaseWork ==
  ASSUME PoolInv, NEW u \in Users, Release(u)
  PROVE  SameWork /\ SameRun
  <1> DEFINE i == user[u].w
  <1>0. SameRun /\ user[u].at = "hold"
    BY DEF Release, SameRun
  <1>1. i \in Workers /\ ~Starting(i) /\ ~Working(i)
    BY <1>0, HeldAtRest
  <1>2. status \in [Workers -> WorkerStatus] /\ thread \in [Workers -> ThreadAt]
    BY DEF PoolInv, PoolTypeOK
  <1>3. /\ thread' = [thread EXCEPT ![i] = IF status[i] = "STOP" THEN @ ELSE Wake(@)]
        /\ status' = status \/ status' = [status EXCEPT ![i] = "IDLE"]
    BY DEF Release, Finished
  <1> HIDE DEF i
  <1>4. ASSUME NEW j \in Workers
        PROVE  /\ status'[j] = "START_WORK" <=> (status[j] = "START_WORK" /\ (j = i => status' = status))
               /\ thread'[j] = "ready" <=> thread[j] = "ready"
               /\ thread'[j] = "work" <=> thread[j] = "work"
    BY <1>1, <1>2, <1>3 DEF Wake
  <1> QED
    BY <1>0, <1>1, <1>4 DEF SameWork, SameRun, Starting, Working

LEMMA WaitToStartWork ==
  ASSUME PoolInv, NEW i \in Workers, WaitToStart(i)
  PROVE  SameWork /\ SameRun
  <1>0. SameRun
    BY DEF WaitToStart, SameRun
  <1>1. status \in [Workers -> WorkerStatus] /\ thread \in [Workers -> ThreadAt]
    BY DEF PoolInv, PoolTypeOK
  <1>2. thread[i] \in {"loop", "woken"}
    BY DEF WaitToStart
  <1>3. running => status[i] # "STOP"
    BY DEF PoolInv, StoppedTogether
  <1>4. ASSUME NEW j \in Workers, j # i
        PROVE  status'[j] = status[j] /\ thread'[j] = thread[j]
    BY <1>1, <1>4 DEF WaitToStart
  <1>5. Working(i)' <=> Working(i)
    BY <1>1, <1>2 DEF WaitToStart, Working
  <1>6. Starting(i)' <=> Starting(i)
    BY <1>0, <1>1, <1>2, <1>3 DEF WaitToStart, Starting, SameRun
  <1> QED
    BY <1>0, <1>4, <1>5, <1>6 DEF SameWork, SameRun, Starting, Working

LEMMA StillWork ==
  ASSUME UNCHANGED <<running, status, thread>>
  PROVE  SameWork
  BY DEF SameWork, Starting, Working

(* start_worker in a pool that runs *)
LEMMA StartWorkerWork ==
  ASSUME PoolInv, running, NEW u \in Users, StartWorker(u)
  PROVE  /\ SameRun
         /\ \A i \in Workers : /\ Starting(i)' <=> Starting(i) \/ i = user[u].w
                               /\ Working(i)' <=> Working(i)
  <1> DEFINE k == user[u].w
  <1>0. SameRun /\ user[u].at = "hold"
    BY DEF StartWorker, SameRun
  <1>1. k \in Workers
    BY <1>0, HeldAtRest
  <1>2. status \in [Workers -> WorkerStatus] /\ thread \in [Workers -> ThreadAt]
    BY DEF PoolInv, PoolTypeOK
  <1>3. status[k] # "STOP"
    BY <1>1 DEF PoolInv, StoppedTogether
  <1>4. status' = [status EXCEPT ![k] = "START_WORK"] /\ thread' = [thread EXCEPT ![k] = Wake(@)]
    BY <1>3 DEF StartWorker
  <1> HIDE DEF k
  <1>5. ASSUME NEW j \in Workers
        PROVE  /\ status'[j] = "START_WORK" <=> status[j] = "START_WORK" \/ j = k
               /\ thread'[j] = "ready" <=> thread[j] = "ready"
               /\ thread'[j] = "work" <=> thread[j] = "work"
    BY <1>1, <1>2, <1>4 DEF Wake
  <1> QED
    BY <1>0, <1>5 DEF SameRun, Starting, Working, k

(* The second test of `running': work_imp begins, or the pool has been stopped. *)
LEMMA TestRunningWork ==
  ASSUME PoolInv, NEW i \in Workers, TestRunning(i)
  PROVE  /\ SameRun
         /\ running => /\ Starting(i) /\ ~Starting(i)' /\ Working(i)'
                       /\ \A j \in Workers : j # i => /\ Starting(j)' <=> Starting(j)
                                                      /\ Working(j)' <=> Working(j)
         /\ ~running => SameWork
  <1>0. SameRun /\ thread[i] = "ready" /\ UNCHANGED status
        /\ thread' = [thread EXCEPT ![i] = IF running THEN "work" ELSE "loop"]
    BY DEF TestRunning, SameRun
  <1>1. status \in [Workers -> WorkerStatus] /\ thread \in [Workers -> ThreadAt]
    BY DEF PoolInv, PoolTypeOK
  <1>2. running => status[i] = "WORKING"
    BY <1>0 DEF PoolInv, ThreadOwns
  <1> QED
    BY <1>0, <1>1, <1>2 DEF SameRun, SameWork, Starting, Working

(* work_imp ends. *)
LEMMA WorkEndsWork ==
  ASSUME PoolInv, NEW i \in Workers, WorkEnds(i)
  PROVE  /\ SameRun
         /\ Working(i) /\ ~Working(i)'
         /\ \A j \in Workers : /\ Starting(j)' <=> Starting(j)
                               /\ j # i => (Working(j)' <=> Working(j))
  <1>0. SameRun /\ thread[i] = "work" /\ thread' = [thread EXCEPT ![i] = "loop"]
        /\ (UNCHANGED status \/ status' = [status EXCEPT ![i] = "IDLE"])
    BY DEF WorkEnds, Finished, SameRun
  <1>1. status \in [Workers -> WorkerStatus] /\ thread \in [Workers -> ThreadAt]
    BY DEF PoolInv, PoolTypeOK
  <1>2. running => status[i] = "WORKING"
    BY <1>0 DEF PoolInv, ThreadOwns
  <1> QED
    BY <1>0, <1>1, <1>2 DEF SameRun, Starting, Working

(* stop() keeps the workers that have not begun from beginning. *)
LEMMA StopWork ==
  ASSUME PoolInv, Stop
  PROVE  /\ ~running' /\ joined' = joined
         /\ \A i \in Workers : ~Starting(i)' /\ (Working(i)' <=> Working(i))
  <1>1. thread \in [Workers -> ThreadAt]
    BY DEF PoolInv, PoolTypeOK
  <1> QED
    BY <1>1 DEF Stop, Starting, Working, Wake

(* A user that loses the worker it holds: the worker is never given back, and
   nothing else is disturbed.                                               *)
LEMMA ForgetInv ==
  ASSUME PoolInv, NEW u \in Users, user' = [user EXCEPT ![u] = Out],
         UNCHANGED <<running, nof_workers, status, thread, joined>>
  PROVE  PoolInv'
  <1>1. /\ user' \in [Users -> [at : UserAt, w : 0 .. NofWorkers]]
        /\ user'[u].at = "out"
        /\ \A v \in Users : v # u => user'[v] = user[v]
    BY GoesOut DEF PoolInv, PoolTypeOK
  <1>2. PoolTypeOK' /\ CreatedInOrder' /\ StoppedTogether' /\ ThreadOwns' /\ ThreadSleepsUnstarted'
    BY <1>1 DEF PoolInv, PoolTypeOK, CreatedInOrder, StoppedTogether, ThreadOwns, ThreadSleepsUnstarted
  <1>3. HeldIsReserved' /\ HeldOnce' /\ WaitsForCreated' /\ SleepsOnBusy'
    BY <1>1 DEF PoolInv, HeldIsReserved, HeldOnce, WaitsForCreated, SleepsOnBusy
  <1> QED
    BY <1>2, <1>3 DEF PoolInv

(* A pool whose workers have all been created and wait for work *)
AllAsleep ==
  /\ running = TRUE /\ joined = FALSE /\ nof_workers = NofWorkers
  /\ status = [i \in Workers |-> "IDLE"] /\ thread = [i \in Workers |-> "asleep"]
  /\ user = [u \in Users |-> Out]

LEMMA AllAsleepInv ==
  ASSUME AllAsleep
  PROVE  PoolInv /\ \A i \in Workers : ~Starting(i) /\ ~Working(i)
  <1> USE DEF AllAsleep
  <1>1. PoolTypeOK
    <2>1. Out \in [at : UserAt, w : 0 .. NofWorkers]
      BY PoolAssumption DEF UserAt, Out, NoWorker
    <2>2. user \in [Users -> [at : UserAt, w : 0 .. NofWorkers]]
      BY <2>1
    <2>3. running \in BOOLEAN /\ joined \in BOOLEAN
      BY Zenon
    <2>4. nof_workers \in 0 .. NofWorkers
      BY PoolAssumption
    <2>5. status \in [Workers -> WorkerStatus] /\ thread \in [Workers -> ThreadAt]
      BY DEF WorkerStatus, ThreadAt
    <2> QED
      BY <2>2, <2>3, <2>4, <2>5 DEF PoolTypeOK
  <1>2. CreatedInOrder /\ StoppedTogether /\ ThreadOwns /\ ThreadSleepsUnstarted
    BY PoolAssumption DEF CreatedInOrder, StoppedTogether, ThreadOwns, ThreadSleepsUnstarted, Workers
  <1>3. HeldIsReserved /\ HeldOnce /\ WaitsForCreated /\ SleepsOnBusy
    BY DEF HeldIsReserved, HeldOnce, WaitsForCreated, SleepsOnBusy, Out
  <1>4. \A i \in Workers : ~Starting(i) /\ ~Working(i)
    BY DEF Starting, Working
  <1> QED
    BY <1>1, <1>2, <1>3, <1>4 DEF PoolInv
=============================================================================
