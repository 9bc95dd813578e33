------------------------------- MODULE RlcMux -------------------------------
(***************************************************************************)
(* Who waits for whom around the RLC of one UE: class rlc of               *)
(* lib/src/rlc/rlc.cc, a table of bearers behind a read/write lock, and the*)
(* two mutexes of each LTE AM bearer.                                      *)
(*                                                                         *)
(* The PHY workers read PDUs and buffer states.  The stack thread writes   *)
(* PDUs and SDUs and configures the bearers; what it receives goes up      *)
(* through PDCP to RRC with the mutex of the receiver held, and RRC answers*)
(* at once or defers what it has to do (defer_task).                       *)
(*                                                                         *)
(* A method is the sequence of what it does to the locks and to the table, *)
(* a call the rest of that sequence.                                       *)
(***************************************************************************)
EXTENDS Naturals, Sequences, SequencesExt, FiniteSets

CONSTANTS
  Phy,           \* threads of PHY workers
  Lcids,         \* logical channels
  Srbs,          \* those that RRC never deletes
  HasBsr,        \* bsr_callback is set (it is in the eNB)
  MaxTasks       \* bound: deferred tasks of RRC that wait at the same time

Stack == "stack"
None == "none"
Thread == Phy \cup {Stack}

ASSUME MuxAssumption ==
  /\ Stack \notin Phy /\ None \notin Phy
  /\ Srbs \subseteq Lcids /\ HasBsr \in BOOLEAN /\ MaxTasks \in Nat

VARIABLES
  rlc_array,     \* LCIDs that have a bearer
  readers,       \* thread |-> how many times it holds rwlock for reading
  writer,        \* thread that holds rwlock for writing, or None
  mutex,         \* <<"tx" or "rx", lcid>> |-> thread or None
  call,          \* thread |-> what is left of the method it is in
  tasks          \* deferred tasks: a sequence of method bodies

muxVars == <<rlc_array, readers, writer, mutex, call, tasks>>

Locks == {"tx", "rx"} \X Lcids
Op(o, l) == [op |-> o, lock |-> l]
RdLock == <<Op("rdlock", None)>>
RdUnlock == <<Op("rdunlock", None)>>
WrLock == <<Op("wrlock", None)>>
WrUnlock == <<Op("wrunlock", None)>>
With(l, body) == <<Op("lock", l)>> \o body \o <<Op("unlock", l)>>

(* valid_lcid: the body is done for a bearer that exists *)
If(lcid, body) == <<[op |-> "valid_lcid", lcid |-> lcid, skip |-> Len(body)]>> \o body

(* unique_lock with try_to_lock: a failed attempt skips the body *)
TryWith(l, body) == <<[op |-> "try", lock |-> l, skip |-> Len(body) + 1]>> \o body \o <<Op("unlock", l)>>

-----------------------------------------------------------------------------
(* The methods of the AM bearer. *)

(* Mutant: the receiver is locked, not tried. *)
StatusLocked(lcid) == With(<<"rx", lcid>>, <<>>)

(* get_status_pdu and get_status_pdu_length *)
Status(lcid) == TryWith(<<"rx", lcid>>, <<>>)

AmReadPdu(lcid) == With(<<"tx", lcid>>, Status(lcid))
AmBufferState(lcid) == With(<<"tx", lcid>>, Status(lcid))
AmWriteSdu(lcid) == With(<<"tx", lcid>>, <<>>)

(* Several critical sections with nothing in between, and PDCP is notified
   after the last of them                                                   *)
HandleControlPdu(lcid) == With(<<"tx", lcid>>, <<>>)

(* write_pdu of PDCP and what RRC does at once, with the mutex held *)
HandleDataPdu(lcid) == With(<<"rx", lcid>>, <<[op |-> "deliver", lcid |-> lcid]>>)

(* stop of the transmitter, then of the receiver *)
AmReestablish(lcid) == With(<<"tx", lcid>>, <<>>) \o With(<<"rx", lcid>>, <<>>)

-----------------------------------------------------------------------------
(* The methods of rlc. *)

get_buffer_state(lcid) == RdLock \o If(lcid, AmBufferState(lcid)) \o RdUnlock

(* It takes rwlock for reading again when its caller has it already *)
update_bsr(lcid) == IF HasBsr THEN get_buffer_state(lcid) ELSE <<>>

read_pdu(lcid) == RdLock \o If(lcid, AmReadPdu(lcid) \o update_bsr(lcid)) \o RdUnlock
write_sdu(lcid) == If(lcid, AmWriteSdu(lcid) \o update_bsr(lcid))
write_pdu(lcid) ==
  {If(lcid, body \o update_bsr(lcid)) : body \in {HandleControlPdu(lcid), HandleDataPdu(lcid)}}
reestablish(lcid) == If(lcid, AmReestablish(lcid))
add_bearer(lcid) == WrLock \o <<[op |-> "emplace", lcid |-> lcid]>> \o WrUnlock

(* Mutant: the bearer is deleted without the write lock. *)
DelBearerUnlocked(lcid) == If(lcid, AmReestablish(lcid) \o <<[op |-> "erase", lcid |-> lcid]>>)

(* stop() takes the same two mutexes as reestablish *)
del_bearer(lcid) ==
  WrLock \o If(lcid, AmReestablish(lcid) \o <<[op |-> "erase", lcid |-> lcid]>>) \o WrUnlock

-----------------------------------------------------------------------------
(* RRC of the UE on a message from SRB lcid: it answers at once
   (SecurityModeComplete, a NAS message), or defers a reconfiguration, a
   handover or a release to a task of its own.                            *)
Answers(lcid) == {<<>>, write_sdu(lcid)}
Deferred ==
  {add_bearer(d) : d \in Lcids \ Srbs} \cup {del_bearer(d) : d \in Lcids \ Srbs}
  \cup {reestablish(l) : l \in Lcids}

MuxInit ==
  /\ rlc_array = Srbs
  /\ readers = [t \in Thread |-> 0] /\ writer = None
  /\ mutex = [l \in Locks |-> None]
  /\ call = [t \in Thread |-> <<>>]
  /\ tasks = <<>>

-----------------------------------------------------------------------------
(* pthread_rwlock with its default kind: a reader passes a writer that waits.
   A thread that holds the lock for reading may take it again.               *)
CanRead(t) == writer = None
CanWrite(t) == writer = None /\ \A u \in Thread : readers[u] = 0

Here(t) == Head(call[t])
Goes(t, rest) == call' = [call EXCEPT ![t] = rest]
GoesOn(t) == Goes(t, Tail(call[t]))
Skips(t, n) == Goes(t, SubSeq(call[t], n + 2, Len(call[t])))

RwStep(t) ==
  /\ \/ /\ Here(t).op = "rdlock" /\ CanRead(t)
        /\ readers' = [readers EXCEPT ![t] = @ + 1] /\ UNCHANGED writer
     \/ /\ Here(t).op = "rdunlock"
        /\ readers' = [readers EXCEPT ![t] = @ - 1] /\ UNCHANGED writer
     \/ /\ Here(t).op = "wrlock" /\ CanWrite(t)
        /\ writer' = t /\ UNCHANGED readers
     \/ /\ Here(t).op = "wrunlock"
        /\ writer' = None /\ UNCHANGED readers
  /\ GoesOn(t)
  /\ UNCHANGED <<rlc_array, mutex, tasks>>

MutexStep(t) ==
  /\ \/ /\ Here(t).op \in {"lock", "try"} /\ mutex[Here(t).lock] = None
        /\ mutex' = [mutex EXCEPT ![Here(t).lock] = t]
        /\ GoesOn(t)
     \/ /\ Here(t).op = "try" /\ mutex[Here(t).lock] # None
        /\ Skips(t, Here(t).skip)
        /\ UNCHANGED mutex
     \/ /\ Here(t).op = "unlock"
        /\ mutex' = [mutex EXCEPT ![Here(t).lock] = None]
        /\ GoesOn(t)
  /\ UNCHANGED <<rlc_array, readers, writer, tasks>>

TableStep(t) ==
  /\ \/ /\ Here(t).op = "valid_lcid"
        /\ Skips(t, IF Here(t).lcid \in rlc_array THEN 0 ELSE Here(t).skip)
        /\ UNCHANGED rlc_array
     \/ /\ Here(t).op = "emplace"
        /\ rlc_array' = rlc_array \cup {Here(t).lcid}
        /\ GoesOn(t)
     \/ /\ Here(t).op = "erase"
        /\ rlc_array' = rlc_array \ {Here(t).lcid}
        /\ GoesOn(t)
  /\ UNCHANGED <<readers, writer, mutex, tasks>>

(* A message of an SRB goes to RRC, a packet of a DRB to the gateway *)
Deliver(t) ==
  /\ Here(t).op = "deliver"
  /\ \/ \E a \in Answers(Here(t).lcid) :
          /\ Here(t).lcid \in Srbs \/ a = <<>>
          /\ Goes(t, a \o Tail(call[t]))
          /\ UNCHANGED tasks
     \/ /\ Here(t).lcid \in Srbs /\ Len(tasks) < MaxTasks
        /\ \E d \in Deferred : tasks' = Append(tasks, d)
        /\ GoesOn(t)
  /\ UNCHANGED <<rlc_array, readers, writer, mutex>>

Step(t) == call[t] # <<>> /\ (RwStep(t) \/ MutexStep(t) \/ TableStep(t) \/ Deliver(t))

PhyCalls(t) ==
  /\ t \in Phy /\ call[t] = <<>>
  /\ \E l \in Lcids, m \in {"read_pdu", "get_buffer_state"} :
       Goes(t, IF m = "read_pdu" THEN read_pdu(l) ELSE get_buffer_state(l))
  /\ UNCHANGED <<rlc_array, readers, writer, mutex, tasks>>

(* A PDU from MAC, a timer of the bearer, an SDU from the gateway *)
StackCalls ==
  /\ call[Stack] = <<>>
  /\ \E l \in Lcids : \E m \in write_pdu(l) \cup {write_sdu(l)} : Goes(Stack, m)
  /\ UNCHANGED <<rlc_array, readers, writer, mutex, tasks>>

RunTask ==
  /\ call[Stack] = <<>> /\ tasks # <<>>
  /\ Goes(Stack, Head(tasks)) /\ tasks' = Tail(tasks)
  /\ UNCHANGED <<rlc_array, readers, writer, mutex>>

MuxNext == StackCalls \/ RunTask \/ \E t \in Thread : Step(t) \/ PhyCalls(t)

MuxSpec == MuxInit /\ [][MuxNext]_muxVars

-----------------------------------------------------------------------------
(* Properties. *)

(* The threads that t waits for *)
WaitsFor(t) ==
  IF call[t] = <<>> THEN {}
  ELSE CASE Here(t).op = "lock" -> {mutex[Here(t).lock]} \ {None}
         [] Here(t).op = "rdlock" /\ ~CanRead(t) -> {writer}
         [] Here(t).op = "wrlock" -> ({writer} \ {None}) \cup {u \in Thread : readers[u] > 0}
         [] OTHER -> {}

(* No set of threads is such that each waits for another of the set or for
   itself: read_pdu holds rwlock and the transmitter and needs the receiver,
   the stack holds the receiver and needs the transmitter and rwlock.        *)
NoCircularWait ==
  \A s \in (SUBSET Thread) \ {{}} : \E t \in s : WaitsFor(t) \cap s = {}

(* A bearer is deleted only when no thread is inside it or about to enter it:
   del_bearer waits for the readers, and the stack thread, which takes no lock
   to find a bearer, is the one that deletes.                                  *)
NoUseAfterFree ==
  /\ \A t \in Thread : call[t] # <<>> =>
       (Here(t).op \in {"lock", "try", "unlock"} => Here(t).lock[2] \in rlc_array)
  /\ \A l \in Locks : mutex[l] # None => l[2] \in rlc_array
=============================================================================
