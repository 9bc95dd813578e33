---------------------------- MODULE UePhyWorkers ----------------------------
(***************************************************************************)
(* The subframe pipeline of the UE: the sync thread (srsue/src/phy/sync.cc)*)
(* takes an LTE and, with an NR carrier, an NR worker from their pools for *)
(* each TTI and starts them; they meet in phy_common::worker_end, ordered  *)
(* by a tti_semaphore, where the LTE worker transmits what both have put   *)
(* in tx_buffer.  A command thread reserves LTE workers one by one to      *)
(* configure them, and phy::stop closes everything in an order of its own. *)
(*                                                                         *)
(* tx_buffer refers to the buffers of the workers.  buf[w] is the TTI whose*)
(* signal is in the buffer of worker w.                                    *)
(***************************************************************************)
EXTENDS Naturals, Sequences, SequencesExt

CONSTANTS
  NofThreads,       \* nof_phy_threads: workers of each pool
  MaxTti,           \* bound: TTIs in which the UE camps; then the FSM is idle
  MaxCmds,          \* bound: commands that reserve the LTE workers
  LosesSyncWithNr   \* may ue_sync lose the signal while an NR carrier is configured

ASSUME PhyAssumption ==
  NofThreads \in Nat \ {0} /\ MaxTti \in Nat /\ MaxCmds \in Nat /\ LosesSyncWithNr \in BOOLEAN

Ids == 0 .. NofThreads - 1
Lte(i) == <<"lte", i>>
Nr(i) == <<"nr", i>>
Ptrs == {"lte", "nr"} \X Ids
Threads == {"sync", "cmd"}

VARIABLES
  lteRunning, lteStatus, lteThread, lteUser, lteJoined,    \* the pool of LTE workers
  nrRunning, nrStatus, nrThread, nrUser, nrJoined,         \* the pool of NR workers
  nof_workers,      \* workers that were created in each pool: all of them
  nof_nr_carriers,
  semaphore,        \* fifo of worker pointers, in the order of transmission
  dl_ul_semaphore,  \* fifo of NR worker pointers
  stage,            \* worker |-> where its work_imp is
  context,          \* worker |-> sf_idx
  buf,              \* worker |-> TTI of the signal in its buffer
  tx_buffer,        \* workers whose buffers are combined in it
  tx_hold,
  sync,             \* the sync thread: [pc, tti, running]
  cmd,              \* the command thread: [next, left], next the worker it reserves next
  main,             \* where phy::stop is
  started, sent     \* histories: TTIs started; transmissions [tti, signals]

lteVars == <<nof_workers, lteRunning, lteStatus, lteThread, lteUser, lteJoined>>
nrVars == <<nof_workers, nrRunning, nrStatus, nrThread, nrUser, nrJoined>>
workVars == <<semaphore, dl_ul_semaphore, stage, buf, tx_buffer, tx_hold, sent>>
ctlVars == <<nof_nr_carriers, context, sync, cmd, main, started>>
phyVars == <<lteVars, nrVars, workVars, ctlVars>>

lte == INSTANCE ThreadPool WITH NofWorkers <- NofThreads, Users <- Threads,
         running <- lteRunning, status <- lteStatus,
         thread <- lteThread, user <- lteUser, joined <- lteJoined

nr == INSTANCE ThreadPool WITH NofWorkers <- NofThreads, Users <- Threads,
         running <- nrRunning, status <- nrStatus,
         thread <- nrThread, user <- nrUser, joined <- nrJoined

PhyInit ==
  /\ lteRunning = TRUE /\ nrRunning = TRUE /\ lteJoined = FALSE /\ nrJoined = FALSE
  /\ lteStatus = [i \in Ids |-> "IDLE"] /\ nrStatus = [i \in Ids |-> "IDLE"]
  /\ lteThread = [i \in Ids |-> "asleep"] /\ nrThread = [i \in Ids |-> "asleep"]
  /\ lteUser = [t \in Threads |-> lte!Out] /\ nrUser = [t \in Threads |-> nr!Out]
  /\ nof_workers = NofThreads /\ nof_nr_carriers \in {0, 1}
  /\ semaphore = <<>> /\ dl_ul_semaphore = <<>>
  /\ stage = [w \in Ptrs |-> "off"]
  /\ context = [w \in Ptrs |-> 0] /\ buf = [w \in Ptrs |-> 0]
  /\ tx_buffer = {} /\ tx_hold = FALSE
  /\ sync = [pc |-> "top", tti |-> 1, running |-> TRUE]
  /\ cmd = [next |-> NofThreads, left |-> MaxCmds]
  /\ main = "run"
  /\ started = <<>> /\ sent = <<>>

-----------------------------------------------------------------------------
(* tti_semaphore.  The threads that sleep in wait() are the workers at
   `asleep'; release() notifies all of them.                                *)

Passes(fifo, w) == fifo = <<>> \/ Head(fifo) = w
Popped(fifo) == IF fifo = <<>> THEN fifo ELSE Tail(fifo)

(* Mutant: release notifies one thread. *)
NotifyOne(st, asleep, woken) ==
  LET ws == {w \in Ptrs : st[w] = asleep}
  IN IF ws = {} THEN st ELSE [st EXCEPT ![CHOOSE w \in ws : TRUE] = woken]

NotifyAll(st, asleep, woken) == [w \in Ptrs |-> IF st[w] = asleep THEN woken ELSE st[w]]

-----------------------------------------------------------------------------
(* The sync thread in CAMPING. *)

Camps == sync.running /\ sync.tti <= MaxTti
NextTti == [sync EXCEPT !.pc = "top", !.tti = @ + 1]

(* run_camping_state: the LTE worker *)
WaitLteWorker ==
  /\ sync.pc = "top" /\ Camps
  /\ lte!WaitWorker("sync")
  /\ sync' = [sync EXCEPT !.pc = "lte"]
  /\ UNCHANGED <<nrVars, workVars, nof_nr_carriers, context, cmd, main, started>>

(* The NR worker *)
WaitNrWorker ==
  /\ sync.pc = "lte" /\ lteUser["sync"].at = "hold" /\ nof_nr_carriers > 0
  /\ nr!WaitWorker("sync")
  /\ sync' = [sync EXCEPT !.pc = "nr"]
  /\ UNCHANGED <<lteVars, workVars, nof_nr_carriers, context, cmd, main, started>>

SyncRetries ==
  /\ \/ lte!Retry("sync") /\ UNCHANGED nrVars
     \/ nr!Retry("sync") /\ UNCHANGED lteVars
  /\ UNCHANGED <<workVars, ctlVars>>

HasWorkers ==
  IF nof_nr_carriers = 0 THEN sync.pc = "lte" /\ lteUser["sync"].at = "hold"
                         ELSE sync.pc = "nr" /\ nrUser["sync"].at = "hold"

(* run_camping_in_sync_state starts the NR worker.  A push and the start that
   follows are one step: nobody but the started worker can use the new entry. *)
StartNrWorker ==
  LET w == Nr(nrUser["sync"].w) IN
  /\ HasWorkers /\ nof_nr_carriers > 0
  /\ context' = [context EXCEPT ![w] = sync.tti]
  /\ semaphore' = Append(semaphore, w)
  /\ dl_ul_semaphore' = Append(dl_ul_semaphore, w)
  /\ nr!StartWorker("sync")
  /\ sync' = [sync EXCEPT !.pc = "start"]
  /\ UNCHANGED <<lteVars, stage, buf, tx_buffer, tx_hold, sent, nof_nr_carriers, cmd, main, started>>

(* ... and then the LTE worker, the last of the subframe *)
StartLteWorker ==
  LET w == Lte(lteUser["sync"].w) IN
  /\ sync.pc = "start" \/ (HasWorkers /\ nof_nr_carriers = 0)
  /\ context' = [context EXCEPT ![w] = sync.tti]
  /\ semaphore' = Append(semaphore, w)
  /\ lte!StartWorker("sync")
  /\ sync' = NextTti
  /\ started' = Append(started, sync.tti)
  /\ UNCHANGED <<nrVars, dl_ul_semaphore, stage, buf, tx_buffer, tx_hold, sent,
                 nof_nr_carriers, cmd, main>>

(* Out of sync, or an error of the radio: the LTE worker is released; the pointer
   to the NR worker is lost, and with it the worker, which stays WORKER_READY.    *)
OutOfSync ==
  /\ HasWorkers /\ (nof_nr_carriers > 0 => LosesSyncWithNr)
  /\ lte!Release("sync")
  /\ nrUser' = [nrUser EXCEPT !["sync"] = nr!Out]
  /\ sync' = NextTti
  /\ UNCHANGED <<nrRunning, nrStatus, nrThread, nrJoined, workVars, nof_nr_carriers, context, cmd, main, started>>

(* The loop of run_thread ends.  wait_worker never returns a null pointer here:
   the pools are stopped after this thread has ended.                           *)
SyncEnds ==
  /\ sync.pc = "top" /\ ~sync.running
  /\ sync' = [sync EXCEPT !.pc = "exit"]
  /\ UNCHANGED <<lteVars, nrVars, workVars, nof_nr_carriers, context, cmd, main, started>>

-----------------------------------------------------------------------------
(* The workers. *)

PoolStep(w, L(_), N(_)) ==
  IF w[1] = "lte" THEN L(w[2]) /\ UNCHANGED nrVars ELSE N(w[2]) /\ UNCHANGED lteVars

WorkerWaits(w) == PoolStep(w, lte!WaitToStart, nr!WaitToStart) /\ UNCHANGED <<workVars, ctlVars>>

(* work_imp begins.  The LTE worker processes the subframe and writes its
   buffer; the NR worker first waits for the ones before it.               *)
WorkBegins(w) ==
  LET runs == IF w[1] = "lte" THEN lteRunning ELSE nrRunning IN
  /\ PoolStep(w, lte!TestRunning, nr!TestRunning)
  /\ stage' = IF runs THEN [stage EXCEPT ![w] = IF w[1] = "lte" THEN "end" ELSE "dl"] ELSE stage
  /\ buf' = IF runs /\ w[1] = "lte" THEN [buf EXCEPT ![w] = context[w]] ELSE buf
  /\ UNCHANGED <<semaphore, dl_ul_semaphore, tx_buffer, tx_hold, sent, ctlVars>>

(* nr::sf_worker::work_imp: dl_ul_semaphore.wait and release, then the uplink *)
DlUl(w) ==
  /\ stage[w] = "dl"
  /\ IF Passes(dl_ul_semaphore, w)
     THEN /\ dl_ul_semaphore' = Popped(dl_ul_semaphore)
          /\ stage' = NotifyAll([stage EXCEPT ![w] = "end"], "dl_asleep", "dl")
          /\ buf' = [buf EXCEPT ![w] = context[w]]
     ELSE /\ stage' = [stage EXCEPT ![w] = "dl_asleep"]
          /\ UNCHANGED <<dl_ul_semaphore, buf>>
  /\ UNCHANGED <<lteVars, nrVars, semaphore, tx_buffer, tx_hold, sent, ctlVars>>

(* worker_end: semaphore.wait.  A worker that may pass goes on until it calls
   release: between the two it is alone.                                     *)
EndWaits(w) ==
  /\ stage[w] = "end" /\ ~Passes(semaphore, w)
  /\ stage' = [stage EXCEPT ![w] = "asleep"]
  /\ UNCHANGED <<lteVars, nrVars, semaphore, dl_ul_semaphore, buf, tx_buffer, tx_hold, sent, ctlVars>>

SemaphoreReleased(st) ==
  /\ semaphore' = Popped(semaphore)
  /\ stage' = NotifyAll(st, "asleep", "end")

(* Mutant: the NR worker does not wait for the transmission. *)
NrTurnNoHold(w) ==
  /\ stage[w] = "end" /\ Passes(semaphore, w) /\ w[1] = "nr"
  /\ tx_buffer' = tx_buffer \cup {w}
  /\ SemaphoreReleased([stage EXCEPT ![w] = "ended"])
  /\ UNCHANGED <<lteVars, nrVars, dl_ul_semaphore, buf, tx_hold, sent, ctlVars>>

(* The NR worker, not the last one, always with a signal *)
NrTurn(w) ==
  /\ stage[w] = "end" /\ Passes(semaphore, w) /\ w[1] = "nr"
  /\ tx_buffer' = tx_buffer \cup {w}
  /\ tx_hold' = TRUE
  /\ SemaphoreReleased([stage EXCEPT ![w] = "hold"])
  /\ UNCHANGED <<lteVars, nrVars, dl_ul_semaphore, buf, sent, ctlVars>>

(* wait_last_worker *)
WaitLastWorker(w) ==
  /\ stage[w] = "hold"
  /\ stage' = [stage EXCEPT ![w] = IF tx_hold THEN "held" ELSE "ended"]
  /\ UNCHANGED <<lteVars, nrVars, semaphore, dl_ul_semaphore, buf, tx_buffer, tx_hold, sent, ctlVars>>

(* The LTE worker, the last one: tx, with or without a signal of its own, and
   last_worker                                                                *)
Transmit(w) ==
  /\ stage[w] = "end" /\ Passes(semaphore, w) /\ w[1] = "lte"
  /\ \E tx_enable \in BOOLEAN :
       LET txb == IF tx_enable THEN tx_buffer \cup {w} ELSE tx_buffer
       IN /\ tx_buffer' = txb
          /\ sent' = Append(sent, [tti |-> context[w], signals |-> {<<v[1], buf[v]>> : v \in txb}])
  /\ tx_hold' = FALSE
  /\ stage' = NotifyAll([stage EXCEPT ![w] = "sent"], "held", "hold")
  /\ UNCHANGED <<lteVars, nrVars, semaphore, dl_ul_semaphore, buf, ctlVars>>

(* Mutant: tx_buffer is not reset. *)
ResetNothing(w) ==
  /\ stage[w] = "sent"
  /\ SemaphoreReleased([stage EXCEPT ![w] = "ended"])
  /\ UNCHANGED <<lteVars, nrVars, dl_ul_semaphore, buf, tx_buffer, tx_hold, sent, ctlVars>>

(* Reset of tx_buffer, and the next TTI may transmit *)
ResetAndRelease(w) ==
  /\ stage[w] = "sent"
  /\ tx_buffer' = {}
  /\ SemaphoreReleased([stage EXCEPT ![w] = "ended"])
  /\ UNCHANGED <<lteVars, nrVars, dl_ul_semaphore, buf, tx_hold, sent, ctlVars>>

WorkerEnds(w) ==
  /\ stage[w] = "ended"
  /\ PoolStep(w, lte!WorkEnds, nr!WorkEnds)
  /\ stage' = [stage EXCEPT ![w] = "off"]
  /\ UNCHANGED <<semaphore, dl_ul_semaphore, buf, tx_buffer, tx_hold, sent, ctlVars>>

WorkerSteps(w) ==
  WorkerWaits(w) \/ WorkBegins(w) \/ DlUl(w) \/ EndWaits(w) \/ NrTurn(w) \/ WaitLastWorker(w)
  \/ Transmit(w) \/ ResetAndRelease(w) \/ WorkerEnds(w)

-----------------------------------------------------------------------------
(* The command thread: set_scell_cmd, set_config_tdd. *)

Command ==
  /\ main = "run" /\ cmd.next = NofThreads /\ cmd.left > 0
  /\ cmd' = [next |-> 0, left |-> cmd.left - 1]
  /\ UNCHANGED <<lteVars, nrVars, workVars, nof_nr_carriers, context, sync, main, started>>

ReserveWorker ==
  /\ cmd.next < NofThreads
  /\ lte!WaitWorkerId("cmd", cmd.next)
  /\ UNCHANGED <<nrVars, workVars, ctlVars>>

CmdRetries == lte!Retry("cmd") /\ UNCHANGED <<nrVars, workVars, ctlVars>>

ConfigureAndRelease ==
  /\ lte!Release("cmd")
  /\ cmd' = [cmd EXCEPT !.next = @ + 1]
  /\ UNCHANGED <<nrVars, workVars, nof_nr_carriers, context, sync, main, started>>

-----------------------------------------------------------------------------
(* phy::stop. *)

Goes(from, to) == main = from /\ main' = to

(* cmd_worker.stop: the thread ends after the commands in its queue *)
StopCommands ==
  /\ Goes("run", "cmd")
  /\ UNCHANGED <<lteVars, nrVars, workVars, nof_nr_carriers, context, sync, cmd, started>>

StopSync ==
  /\ Goes("cmd", "sync") /\ cmd.next = NofThreads
  /\ sync' = [sync EXCEPT !.running = FALSE]
  /\ UNCHANGED <<lteVars, nrVars, workVars, nof_nr_carriers, context, cmd, started>>

(* Mutant: the workers are stopped before they have transmitted. *)
StopLteWorkersEarly ==
  /\ Goes("sync", "lte") /\ sync.pc = "exit"
  /\ lte!Stop
  /\ UNCHANGED <<nrVars, workVars, nof_nr_carriers, context, sync, cmd, started>>

(* The sync thread is joined; semaphore.wait_all; then the LTE pool stops *)
StopLteWorkers ==
  /\ Goes("sync", "lte") /\ sync.pc = "exit" /\ semaphore = <<>>
  /\ lte!Stop
  /\ UNCHANGED <<nrVars, workVars, nof_nr_carriers, context, sync, cmd, started>>

StopNrWorkers ==
  /\ Goes("lte", "nr")
  /\ lteJoined /\ nr!Stop
  /\ UNCHANGED <<lteVars, workVars, nof_nr_carriers, context, sync, cmd, started>>

JoinPools ==
  /\ \/ lte!Join /\ UNCHANGED nrVars
     \/ nr!Join /\ UNCHANGED lteVars
  /\ UNCHANGED <<workVars, ctlVars>>

SyncSteps == WaitLteWorker \/ WaitNrWorker \/ SyncRetries \/ StartNrWorker \/ StartLteWorker
             \/ OutOfSync \/ SyncEnds
CmdSteps == ReserveWorker \/ CmdRetries \/ ConfigureAndRelease
StopSteps == StopSync \/ StopLteWorkers \/ StopNrWorkers \/ JoinPools

PhyNext ==
  \/ SyncSteps \/ CmdSteps \/ StopSteps \/ Command \/ StopCommands
  \/ \E w \in Ptrs : WorkerSteps(w)

(* Every thread is scheduled; the radio returns a subframe or an error every
   millisecond; nobody has to send a command or to call phy::stop.            *)
PhyFairness ==
  /\ WF_phyVars(SyncSteps) /\ WF_phyVars(CmdSteps) /\ WF_phyVars(StopSteps)
  /\ \A w \in Ptrs : WF_phyVars(WorkerSteps(w))

PhySpec == PhyInit /\ [][PhyNext]_phyVars /\ PhyFairness

-----------------------------------------------------------------------------
(* Properties. *)

(* The subframes are transmitted in the order in which they were started, none
   twice, and each one with the signals of its own TTI: the NR signal whenever
   there is an NR carrier, never the signal of another subframe that a worker
   has written over it (worker_end and wait_last_worker).                      *)
SentInSequence ==
  /\ Len(sent) <= Len(started) + 1
  /\ \A k \in 1 .. Len(sent) :
       /\ k <= Len(started) => sent[k].tti = started[k]
       /\ \A s \in sent[k].signals : s[2] = sent[k].tti
       /\ nof_nr_carriers > 0 => <<"nr", sent[k].tti>> \in sent[k].signals

(* The command thread configures a worker only when its work_imp is over and its
   buffer is not in the subframe being transmitted ("set_cell is not protected").  *)
ConfiguredAtRest ==
  lteUser["cmd"].at = "hold" =>
    LET w == Lte(lteUser["cmd"].w) IN stage[w] = "off" /\ w \notin tx_buffer

(* Every subframe that was started is transmitted, also when phy::stop comes in
   between: a worker that is stopped before its turn would leave the next ones
   waiting in the semaphore.  (The UE camps for MaxTti subframes only.)          *)
StartedIsSent == (Len(started) > Len(sent)) ~> (Len(started) = Len(sent))

(* phy::stop returns ("let the sync FSM finish before waiting for workers
   semaphores to avoid workers locking", sync.cc).                              *)
PhyStopReturns == (main # "run") ~> nrJoined
=============================================================================
