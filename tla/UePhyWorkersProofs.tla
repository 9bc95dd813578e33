------------------------- MODULE UePhyWorkersProofs -------------------------
(***************************************************************************)
(* The subframes of the UE leave in the order in which they were started,  *)
(* each once and with its own signals, for any number of workers, TTIs and *)
(* commands, with and without an NR carrier, also when workers leak or     *)
(* phy::stop comes in between.                                             *)
(***************************************************************************)
EXTENDS UePhyWorkers, TLAPS, SequenceTheorems

(* The proofs on the two pools. *)
ltep == INSTANCE ThreadPoolProofs WITH NofWorkers <- NofThreads, Users <- Threads,
          running <- lteRunning, status <- lteStatus,
          thread <- lteThread, user <- lteUser, joined <- lteJoined

nrp == INSTANCE ThreadPoolProofs WITH NofWorkers <- NofThreads, Users <- Threads,
          running <- nrRunning, status <- nrStatus,
          thread <- nrThread, user <- nrUser, joined <- nrJoined

-----------------------------------------------------------------------------
(* The order of the semaphore: by TTI, the NR worker before the LTE worker. *)

Side(w) == IF w[1] = "lte" THEN 1 ELSE 0
Key(ctx, w) == 2 * ctx[w] + Side(w)
Sorted(s, ctx) == \A j, k \in 1 .. Len(s) : j < k => Key(ctx, s[j]) < Key(ctx, s[k])

LEMMA PtrTypes ==
  /\ \A i \in Ids : Lte(i) \in Ptrs /\ Nr(i) \in Ptrs
  /\ \A w \in Ptrs : (\E i \in Ids : w = Lte(i) /\ w[1] = "lte" /\ w[2] = i)
                     \/ (\E i \in Ids : w = Nr(i) /\ w[1] = "nr" /\ w[2] = i)
  /\ \A i \in Ids : Lte(i)[1] = "lte" /\ Lte(i)[2] = i /\ Nr(i)[1] = "nr" /\ Nr(i)[2] = i
  /\ \A i, j \in Ids : Lte(i) # Nr(j)
  BY DEF Lte, Nr, Ptrs

LEMMA KeyType ==
  ASSUME NEW ctx \in [Ptrs -> Nat], NEW w \in Ptrs
  PROVE  Key(ctx, w) \in Nat /\ Side(w) \in {0, 1}
  BY DEF Key, Side

(* The first of the queue has the least key. *)
LEMMA SortedHead ==
  ASSUME NEW s \in Seq(Ptrs), NEW ctx \in [Ptrs -> Nat], Sorted(s, ctx), s # <<>>
  PROVE  /\ Head(s) \in Ptrs /\ Contains(s, Head(s))
         /\ \A v : Contains(s, v) => v = Head(s) \/ Key(ctx, Head(s)) < Key(ctx, v)
  <1>1. Len(s) \in Nat /\ Len(s) > 0 /\ Head(s) = s[1] /\ 1 \in 1 .. Len(s)
    BY EmptySeq, LenProperties, HeadTailProperties
  <1>2. Head(s) \in Ptrs /\ Contains(s, Head(s))
    BY <1>1, ElementOfSeq DEF Contains
  <1>3. ASSUME NEW v, Contains(s, v) PROVE v = Head(s) \/ Key(ctx, Head(s)) < Key(ctx, v)
    <2>1. PICK k \in 1 .. Len(s) : s[k] = v
      BY <1>3 DEF Contains
    <2>2. k = 1 \/ 1 < k
      BY <1>1
    <2> QED
      BY <1>1, <2>1, <2>2 DEF Sorted
  <1> QED
    BY <1>2, <1>3

(* A key belongs to one worker of the queue. *)
LEMMA SortedInjective ==
  ASSUME NEW s \in Seq(Ptrs), NEW ctx \in [Ptrs -> Nat], Sorted(s, ctx),
         NEW u, NEW v, Contains(s, u), Contains(s, v), Key(ctx, u) = Key(ctx, v)
  PROVE  u = v
  <1>1. PICK j \in 1 .. Len(s) : s[j] = u
    BY DEF Contains
  <1>2. PICK k \in 1 .. Len(s) : s[k] = v
    BY DEF Contains
  <1>3. j < k \/ k < j \/ j = k
    OBVIOUS
  <1>4. u \in Ptrs /\ v \in Ptrs
    BY <1>1, <1>2, ElementOfSeq
  <1>5. Key(ctx, u) \in Nat /\ Key(ctx, v) \in Nat
    BY <1>4, KeyType
  <1> QED
    BY <1>1, <1>2, <1>3, <1>5 DEF Sorted

(* release() *)
LEMMA SortedTail ==
  ASSUME NEW s \in Seq(Ptrs), NEW ctx \in [Ptrs -> Nat], Sorted(s, ctx), s # <<>>
  PROVE  /\ Tail(s) \in Seq(Ptrs) /\ Sorted(Tail(s), ctx)
         /\ \A v : Contains(Tail(s), v) <=> Contains(s, v) /\ v # Head(s)
  <1>1. Len(s) \in Nat /\ Len(s) > 0 /\ Head(s) = s[1] /\ 1 \in 1 .. Len(s)
    BY EmptySeq, LenProperties, HeadTailProperties
  <1>2. Tail(s) \in Seq(Ptrs) /\ Len(Tail(s)) = Len(s) - 1
        /\ \A k \in 1 .. Len(s) - 1 : Tail(s)[k] = s[k + 1] /\ k + 1 \in 1 .. Len(s)
    BY <1>1, HeadTailProperties
  <1>3. Sorted(Tail(s), ctx)
    <2> SUFFICES ASSUME NEW j \in 1 .. Len(s) - 1, NEW k \in 1 .. Len(s) - 1, j < k
                 PROVE  Key(ctx, Tail(s)[j]) < Key(ctx, Tail(s)[k])
      BY <1>2 DEF Sorted
    <2>1. j + 1 < k + 1 /\ j + 1 \in 1 .. Len(s) /\ k + 1 \in 1 .. Len(s)
      BY <1>1
    <2> QED
      BY <1>2, <2>1 DEF Sorted
  <1>4. ASSUME NEW v PROVE Contains(Tail(s), v) <=> Contains(s, v) /\ v # Head(s)
    <2>1. ASSUME Contains(Tail(s), v) PROVE Contains(s, v) /\ v # Head(s)
      <3>1. PICK k \in 1 .. Len(s) - 1 : s[k + 1] = v /\ k + 1 \in 1 .. Len(s) /\ 1 < k + 1
        BY <1>1, <1>2, <2>1 DEF Contains
      <3>2. Key(ctx, s[1]) < Key(ctx, s[k + 1])
        BY <1>1, <3>1 DEF Sorted
      <3>3. Key(ctx, s[1]) \in Nat
        BY <1>1, KeyType, ElementOfSeq
      <3>4. s[1] # s[k + 1]
        BY <3>2, <3>3
      <3> QED
        BY <1>1, <3>1, <3>4 DEF Contains
    <2>2. ASSUME Contains(s, v), v # Head(s) PROVE Contains(Tail(s), v)
      <3>1. PICK k \in 1 .. Len(s) : s[k] = v
        BY <2>2 DEF Contains
      <3>2. k # 1
        BY <1>1, <2>2, <3>1
      <3>3. k - 1 \in 1 .. Len(s) - 1 /\ (k - 1) + 1 = k
        BY <1>1, <3>2
      <3>4. Tail(s)[k - 1] = v
        BY <1>2, <3>1, <3>3
      <3> QED
        BY <1>2, <3>3, <3>4 DEF Contains
    <2> QED
      BY <2>1, <2>2
  <1> QED
    BY <1>2, <1>3, <1>4

(* push() of a worker that is not in the queue, with a key beyond all others *)
Beyond(s, ctx, w, n) ==
  ~Contains(s, w) /\ \A v \in Ptrs : Contains(s, v) => Key(ctx, v) < 2 * n + Side(w)

PushedTo(s, q, w) ==
  /\ q \in Seq(Ptrs) /\ q # <<>>
  /\ \A v : Contains(q, v) <=> Contains(s, v) \/ v = w
  /\ Head(q) = IF s = <<>> THEN w ELSE Head(s)

LEMMA SortedAppend ==
  ASSUME NEW s \in Seq(Ptrs), NEW ctx \in [Ptrs -> Nat], Sorted(s, ctx),
         NEW w \in Ptrs, NEW n \in Nat, Beyond(s, ctx, w, n)
  PROVE  PushedTo(s, Append(s, w), w) /\ Sorted(Append(s, w), [ctx EXCEPT ![w] = n])
  <1> USE DEF Beyond
  <1> DEFINE q == Append(s, w)
             c == [ctx EXCEPT ![w] = n]
  <1>1. /\ q \in Seq(Ptrs) /\ Len(s) \in Nat /\ Len(q) = Len(s) + 1
        /\ \A k \in 1 .. Len(s) : q[k] = s[k]
        /\ q[Len(s) + 1] = w
    BY LenProperties, AppendProperties
  <1>2. \A k \in 1 .. Len(s) : s[k] \in Ptrs /\ s[k] # w /\ Contains(s, s[k])
    BY ElementOfSeq DEF Contains
  <1>3. \A k \in 1 .. Len(s) : Key(c, s[k]) = Key(ctx, s[k])
    BY <1>2 DEF Key
  <1>4. Key(c, w) = 2 * n + Side(w)
    BY DEF Key
  <1> HIDE DEF q, c
  <1>5. \A k \in 1 .. Len(q) : k \in 1 .. Len(s) \/ k = Len(s) + 1
    BY <1>1
  <1>6. Sorted(q, c)
    <2> SUFFICES ASSUME NEW j \in 1 .. Len(q), NEW k \in 1 .. Len(q), j < k
                 PROVE  Key(c, q[j]) < Key(c, q[k])
      BY DEF Sorted
    <2>1. j \in 1 .. Len(s)
      BY <1>1
    <2>2. CASE k \in 1 .. Len(s)
      BY <1>1, <1>3, <2>1, <2>2 DEF Sorted
    <2>3. CASE k = Len(s) + 1
      BY <1>1, <1>2, <1>3, <1>4, <2>1, <2>3
    <2> QED
      BY <1>5, <2>2, <2>3
  <1>7. \A v : Contains(q, v) <=> Contains(s, v) \/ v = w
    <2>1. Len(s) + 1 \in 1 .. Len(q) /\ \A k \in 1 .. Len(s) : k \in 1 .. Len(q)
      BY <1>1
    <2> QED
      BY <1>1, <1>5, <2>1 DEF Contains
  <1>8. q # <<>> /\ Head(q) = q[1]
    <2>1. Len(q) # 0
      BY <1>1
    <2> QED
      BY <1>1, <2>1, EmptySeq, HeadTailProperties
  <1>9. Head(q) = IF s = <<>> THEN w ELSE Head(s)
    <2>1. CASE s = <<>>
      BY <1>1, <1>8, <2>1, EmptySeq
    <2>2. CASE s # <<>>
      <3>1. Len(s) # 0 /\ Head(s) = s[1]
        BY <2>2, EmptySeq, HeadTailProperties
      <3>2. 1 \in 1 .. Len(s)
        BY <1>1, <3>1
      <3> QED
        BY <1>1, <1>8, <2>2, <3>1, <3>2
    <2> QED
      BY <2>1, <2>2
  <1> QED
    BY <1>1, <1>6, <1>7, <1>8, <1>9 DEF q, c, PushedTo

-----------------------------------------------------------------------------
(* The inductive invariant. *)

PhyTypes ==
  /\ nof_workers = NofThreads /\ nof_nr_carriers \in {0, 1}
  /\ semaphore \in Seq(Ptrs)
  /\ stage \in [Ptrs -> {"off", "dl", "dl_asleep", "end", "asleep", "hold", "held", "sent", "ended"}]
  /\ context \in [Ptrs -> Nat] /\ buf \in [Ptrs -> Nat]
  /\ tx_buffer \in SUBSET Ptrs
  /\ sync \in [pc : {"top", "lte", "nr", "start", "exit"}, tti : Nat, running : BOOLEAN]
  /\ cmd \in [next : Nat, left : Nat]
  /\ started \in Seq(Nat)
  /\ sent \in Seq([tti : Nat, signals : SUBSET ({"lte", "nr"} \X Nat)])

(* A worker was started and has not begun; it is inside work_imp. *)
Starts(w) == IF w[1] = "lte" THEN ltep!Starting(w[2]) ELSE nrp!Starting(w[2])
Works(w) == IF w[1] = "lte" THEN ltep!Working(w[2]) ELSE nrp!Working(w[2])

(* The pools are stopped when everything has been sent and nothing new can start. *)
StopsLast ==
  /\ ~lteRunning \/ ~nrRunning => sync.pc = "exit" /\ semaphore = <<>>
  /\ lteJoined => ~lteRunning

PoolsInv == ltep!PoolInv /\ nrp!PoolInv /\ StopsLast

(* The stage of a worker is that of its thread, and only LTE workers transmit. *)
StageOfThread ==
  /\ \A w \in Ptrs : Works(w) <=> stage[w] # "off"
  /\ \A i \in Ids : stage[Nr(i)] # "sent"

(* The workers that were started and have not had their turn yet are those in the
   semaphore, in order.                                                     *)
Pending(w) == Starts(w) \/ stage[w] \in {"dl", "dl_asleep", "end", "asleep", "sent"}

Queued(w) == Contains(semaphore, w)

QueuedArePending == \A w \in Ptrs : Queued(w) <=> Pending(w)

InOrder == Sorted(semaphore, context)

BelowSync ==
  \A w \in Ptrs : Queued(w) =>
    \/ context[w] < sync.tti
    \/ sync.pc = "start" /\ w[1] = "nr" /\ context[w] = sync.tti

WritesOwnTti == \A w \in Ptrs : stage[w] \in {"end", "asleep", "sent"} => buf[w] = context[w]

(* The worker whose subframe is on the air is the first in the semaphore, and
   from then on nobody holds.                                              *)
SentIsFirst ==
  \A w \in Ptrs : stage[w] = "sent" => semaphore # <<>> /\ Head(semaphore) = w /\ ~tx_hold

(* Who belongs to TTI n: its NR signal, and nothing else, is in tx_buffer, and
   the NR worker waits; the NR worker has not had its turn; the LTE worker has
   not transmitted; it has not, or is about to be started.                  *)
Buffered(n) ==
  /\ tx_hold
  /\ \E i \in Ids : tx_buffer = {Nr(i)} /\ stage[Nr(i)] \in {"hold", "held"} /\ buf[Nr(i)] = n

NrQueued(n) == \E i \in Ids : Queued(Nr(i)) /\ context[Nr(i)] = n
LteUnsent(n) == \E i \in Ids : Queued(Lte(i)) /\ stage[Lte(i)] # "sent" /\ context[Lte(i)] = n
LteComes(n) == LteUnsent(n) \/ (sync.pc = "start" /\ n = sync.tti)

(* With an NR carrier each LTE worker has its NR worker before it, in the semaphore
   or in tx_buffer, and an NR worker its LTE worker behind it.              *)
NrBefore ==
  /\ sync.pc = "start" => nof_nr_carriers > 0
  /\ nof_nr_carriers > 0 => \A n \in Nat : LteComes(n) => NrQueued(n) \/ Buffered(n)

LteAfter == \A n \in Nat : NrQueued(n) => nof_nr_carriers > 0 /\ LteComes(n)

(* tx_buffer is empty but between the turns of a subframe. *)
IsNext(n) ==
  \/ semaphore # <<>> /\ Head(semaphore)[1] = "lte" /\ context[Head(semaphore)] = n
  \/ semaphore = <<>> /\ sync.pc = "start" /\ n = sync.tti

BufferedForFirst ==
  \/ tx_buffer = {}
  \/ \E w \in Ptrs : stage[w] = "sent"
  \/ nof_nr_carriers > 0 /\ \E n \in Nat : Buffered(n) /\ IsNext(n)

LteInBuffer == \A i \in Ids : Lte(i) \in tx_buffer => stage[Lte(i)] = "sent"

StartedInOrder ==
  /\ \A k \in 1 .. Len(started) : started[k] < sync.tti
  /\ \A j, k \in 1 .. Len(started) : j < k => started[j] < started[k]

(* What was started and not sent is in the semaphore, and nothing else. *)
UnsentAreQueued ==
  /\ Len(sent) <= Len(started)
  /\ \A n \in Nat : LteUnsent(n) <=> \E k \in Len(sent) + 1 .. Len(started) : started[k] = n

SentRight ==
  \A k \in 1 .. Len(sent) :
    /\ sent[k].tti = started[k]
    /\ \A s \in sent[k].signals : s[2] = sent[k].tti
    /\ nof_nr_carriers > 0 => <<"nr", sent[k].tti>> \in sent[k].signals

(* What depends on the order of the semaphore ... *)
OrderInv ==
  /\ InOrder /\ BelowSync /\ SentIsFirst
  /\ NrBefore /\ LteAfter /\ BufferedForFirst /\ LteInBuffer
  /\ StartedInOrder /\ UnsentAreQueued /\ SentRight

(* ... and all. *)
PhyInv ==
  /\ PhyTypes /\ PoolsInv /\ StageOfThread /\ QueuedArePending /\ WritesOwnTti
  /\ OrderInv

-----------------------------------------------------------------------------
(* Steps that leave the semaphore and the transmissions alone. *)

(* The sync thread goes on to another TTI only between two subframes. *)
SyncMoves ==
  /\ sync'.tti >= sync.tti
  /\ sync.pc = "start" \/ sync'.pc = "start" => sync'.pc = sync.pc /\ sync'.tti = sync.tti

LEMMA OrderKept ==
  ASSUME PhyTypes, PhyTypes', OrderInv, SyncMoves,
         UNCHANGED <<semaphore, context, tx_buffer, tx_hold, sent, started, nof_nr_carriers>>,
         \A w \in Ptrs : stage'[w] = "sent" <=> stage[w] = "sent",
         tx_hold => \A w \in Ptrs : stage[w] \in {"hold", "held"} =>
                                      stage'[w] \in {"hold", "held"} /\ buf'[w] = buf[w]
  PROVE  OrderInv'
  <1>1. ASSUME NEW w PROVE Queued(w)' <=> Queued(w)
    BY DEF Queued
  <1>2. ASSUME NEW n
        PROVE  /\ NrQueued(n)' <=> NrQueued(n)
               /\ LteUnsent(n)' <=> LteUnsent(n)
               /\ LteComes(n)' <=> LteComes(n)
    <2>1. NrQueued(n)' <=> NrQueued(n)
      BY <1>1 DEF NrQueued
    <2>2. LteUnsent(n)' <=> LteUnsent(n)
      BY <1>1, PtrTypes DEF LteUnsent
    <2>3. (sync'.pc = "start" /\ n = sync'.tti) <=> (sync.pc = "start" /\ n = sync.tti)
      BY DEF SyncMoves
    <2> QED
      BY <2>1, <2>2, <2>3 DEF LteComes
  <1>3. ASSUME NEW n, Buffered(n) PROVE Buffered(n)'
    BY <1>3, PtrTypes DEF Buffered
  <1>4. ASSUME NEW n, IsNext(n) PROVE IsNext(n)'
    BY <1>4 DEF IsNext, SyncMoves
  <1>5. sync.tti \in Nat /\ sync'.tti \in Nat /\ context \in [Ptrs -> Nat] /\ started \in Seq(Nat)
    BY DEF PhyTypes
  <1>6. InOrder' /\ SentRight'
    BY DEF OrderInv, InOrder, SentRight
  <1>7. BelowSync'
    <2> SUFFICES ASSUME NEW w \in Ptrs, Queued(w)
                 PROVE  \/ context[w] < sync'.tti
                        \/ sync'.pc = "start" /\ w[1] = "nr" /\ context[w] = sync'.tti
      BY <1>1 DEF BelowSync
    <2>1. context[w] \in Nat
      BY <1>5
    <2>2. context[w] < sync.tti \/ (sync.pc = "start" /\ w[1] = "nr" /\ context[w] = sync.tti)
      BY DEF OrderInv, BelowSync
    <2> QED
      BY <1>5, <2>1, <2>2 DEF SyncMoves
  <1>8. SentIsFirst' /\ LteInBuffer'
    BY PtrTypes DEF OrderInv, SentIsFirst, LteInBuffer
  <1>9. NrBefore'
    BY <1>2, <1>3 DEF OrderInv, NrBefore, SyncMoves
  <1>10. LteAfter'
    BY <1>2 DEF OrderInv, LteAfter
  <1>11. BufferedForFirst'
    BY <1>3, <1>4 DEF OrderInv, BufferedForFirst
  <1>12. StartedInOrder'
    <2>1. \A k \in 1 .. Len(started) : started[k] \in Nat
      BY <1>5, ElementOfSeq
    <2>2. \A k \in 1 .. Len(started) : started[k] < sync'.tti
      BY <1>5, <2>1 DEF OrderInv, StartedInOrder, SyncMoves
    <2> QED
      BY <2>2 DEF OrderInv, StartedInOrder
  <1>13. UnsentAreQueued'
    BY <1>2 DEF OrderInv, UnsentAreQueued
  <1> QED
    BY <1>6, <1>7, <1>8, <1>9, <1>10, <1>11, <1>12, <1>13 DEF OrderInv

-----------------------------------------------------------------------------
(* The steps of the pools. *)

LEMMA LteSameTake ==
  ASSUME NEW u, NEW w, lte!Take(u, w)
  PROVE  ltep!Take(u, w)
  BY Zenon DEF lte!Take, ltep!Take, lte!Finds, ltep!Finds, lte!FindFinishedWorker,
     ltep!FindFinishedWorker, lte!Workers, ltep!Workers, lte!Out, ltep!Out, lte!NoWorker,
     ltep!NoWorker, lte!Any, ltep!Any

LEMMA LteTakeStep ==
  ASSUME ltep!PoolInv, nof_workers = NofThreads, NEW u \in Threads, NEW w \in 0 .. NofThreads,
         lteUser[u].at \in {"out", "woken"}, lte!Take(u, w)
  PROVE  ltep!PoolInv' /\ ltep!SameWork /\ ltep!SameRun
  <1>1. ltep!Take(u, w)
    BY LteSameTake
  <1>2. nof_workers > 0 /\ (w # ltep!Any => w < nof_workers)
    BY PhyAssumption DEF ltep!Any
  <1>3. ltep!PoolInv'
    BY PhyAssumption, <1>1, <1>2, ltep!TakeInv
  <1> QED
    BY PhyAssumption, <1>1, <1>3, ltep!TakeWork

LEMMA LteCalls ==
  ASSUME ltep!PoolInv, nof_workers = NofThreads, NEW u \in Threads,
         lte!WaitWorker(u) \/ lte!Retry(u) \/ \E i \in Ids : lte!WaitWorkerId(u, i)
  PROVE  ltep!PoolInv' /\ ltep!SameWork /\ ltep!SameRun
  <1>1. CASE lte!WaitWorker(u)
    <2>1. lte!Any \in 0 .. NofThreads
      BY PhyAssumption DEF lte!Any
    <2> QED
      BY <1>1, <2>1, LteTakeStep DEF lte!WaitWorker
  <1>2. CASE lte!Retry(u)
    <2>1. PICK w \in 0 .. NofThreads : lteUser[u].w = w
      BY DEF ltep!PoolInv, ltep!PoolTypeOK
    <2> QED
      BY <1>2, <2>1, LteTakeStep DEF lte!Retry
  <1>3. CASE \E i \in Ids : lte!WaitWorkerId(u, i)
    <2>1. PICK i \in Ids : lte!WaitWorkerId(u, i)
      BY <1>3
    <2>2. i \in 0 .. NofThreads
      BY PhyAssumption DEF Ids
    <2> QED
      BY <2>1, <2>2, LteTakeStep DEF lte!WaitWorkerId
  <1> QED
    BY <1>1, <1>2, <1>3

LEMMA NrSameTake ==
  ASSUME NEW u, NEW w, nr!Take(u, w)
  PROVE  nrp!Take(u, w)
  BY Zenon DEF nr!Take, nrp!Take, nr!Finds, nrp!Finds, nr!FindFinishedWorker,
     nrp!FindFinishedWorker, nr!Workers, nrp!Workers, nr!Out, nrp!Out, nr!NoWorker,
     nrp!NoWorker, nr!Any, nrp!Any

LEMMA NrTakeStep ==
  ASSUME nrp!PoolInv, nof_workers = NofThreads, NEW u \in Threads, NEW w \in 0 .. NofThreads,
         nrUser[u].at \in {"out", "woken"}, nr!Take(u, w)
  PROVE  nrp!PoolInv' /\ nrp!SameWork /\ nrp!SameRun
  <1>1. nrp!Take(u, w)
    BY NrSameTake
  <1>2. nof_workers > 0 /\ (w # nrp!Any => w < nof_workers)
    BY PhyAssumption DEF nrp!Any
  <1>3. nrp!PoolInv'
    BY PhyAssumption, <1>1, <1>2, nrp!TakeInv
  <1> QED
    BY PhyAssumption, <1>1, <1>3, nrp!TakeWork

LEMMA NrCalls ==
  ASSUME nrp!PoolInv, nof_workers = NofThreads, NEW u \in Threads,
         nr!WaitWorker(u) \/ nr!Retry(u) \/ \E i \in Ids : nr!WaitWorkerId(u, i)
  PROVE  nrp!PoolInv' /\ nrp!SameWork /\ nrp!SameRun
  <1>1. CASE nr!WaitWorker(u)
    <2>1. nr!Any \in 0 .. NofThreads
      BY PhyAssumption DEF nr!Any
    <2> QED
      BY <1>1, <2>1, NrTakeStep DEF nr!WaitWorker
  <1>2. CASE nr!Retry(u)
    <2>1. PICK w \in 0 .. NofThreads : nrUser[u].w = w
      BY DEF nrp!PoolInv, nrp!PoolTypeOK
    <2> QED
      BY <1>2, <2>1, NrTakeStep DEF nr!Retry
  <1>3. CASE \E i \in Ids : nr!WaitWorkerId(u, i)
    <2>1. PICK i \in Ids : nr!WaitWorkerId(u, i)
      BY <1>3
    <2>2. i \in 0 .. NofThreads
      BY PhyAssumption DEF Ids
    <2> QED
      BY <2>1, <2>2, NrTakeStep DEF nr!WaitWorkerId
  <1> QED
    BY <1>1, <1>2, <1>3

LEMMA LteRelease ==
  ASSUME ltep!PoolInv, NEW u \in Threads, lte!Release(u)
  PROVE  ltep!PoolInv' /\ ltep!SameWork /\ ltep!SameRun
  <1>1. ltep!Release(u)
    BY Zenon DEF lte!Release, ltep!Release, lte!Finished, ltep!Finished, lte!NotifyQueue,
       ltep!NotifyQueue, lte!Wake, ltep!Wake, lte!Out, ltep!Out, lte!NoWorker, ltep!NoWorker
  <1> QED
    BY PhyAssumption, <1>1, ltep!ReleaseInv, ltep!ReleaseWork

LEMMA LteStartWorker ==
  ASSUME ltep!PoolInv, lteRunning, NEW u \in Threads, lte!StartWorker(u)
  PROVE  /\ ltep!PoolInv' /\ ltep!SameRun
         /\ lteUser[u].w \in Ids /\ ~ltep!Starting(lteUser[u].w) /\ ~ltep!Working(lteUser[u].w)
         /\ \A i \in Ids : /\ ltep!Starting(i)' <=> ltep!Starting(i) \/ i = lteUser[u].w
                           /\ ltep!Working(i)' <=> ltep!Working(i)
  <1>1. ltep!StartWorker(u)
    BY Zenon DEF lte!StartWorker, ltep!StartWorker, lte!NotifyQueue, ltep!NotifyQueue,
       lte!Wake, ltep!Wake, lte!Out, ltep!Out, lte!NoWorker, ltep!NoWorker
  <1>2. ltep!PoolInv'
    BY PhyAssumption, <1>1, ltep!StartWorkerInv
  <1>3. lteUser[u].at = "hold"
    BY DEF lte!StartWorker
  <1>4. Ids = ltep!Workers
    BY DEF ltep!Workers, Ids
  <1>5. lteUser[u].w \in Ids /\ ~ltep!Starting(lteUser[u].w) /\ ~ltep!Working(lteUser[u].w)
    BY PhyAssumption, <1>3, <1>4, ltep!HeldAtRest
  <1>6. /\ ltep!SameRun
        /\ \A i \in Ids : /\ ltep!Starting(i)' <=> ltep!Starting(i) \/ i = lteUser[u].w
                          /\ ltep!Working(i)' <=> ltep!Working(i)
    BY PhyAssumption, <1>1, <1>4, ltep!StartWorkerWork
  <1> QED
    BY <1>2, <1>5, <1>6

LEMMA LteWaitToStart ==
  ASSUME ltep!PoolInv, NEW i \in Ids, lte!WaitToStart(i)
  PROVE  ltep!PoolInv' /\ ltep!SameWork /\ ltep!SameRun
  <1>1. ltep!WaitToStart(i) /\ i \in ltep!Workers
    BY Zenon DEF lte!WaitToStart, ltep!WaitToStart, ltep!Workers, Ids
  <1> QED
    BY PhyAssumption, <1>1, ltep!WaitToStartInv, ltep!WaitToStartWork

LEMMA LteTestRunning ==
  ASSUME ltep!PoolInv, NEW i \in Ids, lte!TestRunning(i)
  PROVE  /\ ltep!PoolInv' /\ ltep!SameRun
         /\ lteRunning => ltep!Starting(i) /\ ~ltep!Starting(i)' /\ ltep!Working(i)'
         /\ lteRunning => \A j \in Ids : j # i =>
              (ltep!Starting(j)' <=> ltep!Starting(j)) /\ (ltep!Working(j)' <=> ltep!Working(j))
         /\ ~lteRunning => ltep!SameWork
  <1>1. ltep!TestRunning(i) /\ Ids = ltep!Workers
    BY Zenon DEF lte!TestRunning, ltep!TestRunning, ltep!Workers, Ids
  <1>2. i \in ltep!Workers
    BY <1>1
  <1>3. ltep!PoolInv'
    BY PhyAssumption, <1>1, <1>2, ltep!TestRunningInv
  <1>4. /\ ltep!SameRun
        /\ lteRunning => ltep!Starting(i) /\ ~ltep!Starting(i)' /\ ltep!Working(i)'
        /\ lteRunning => \A j \in ltep!Workers : j # i =>
             (ltep!Starting(j)' <=> ltep!Starting(j)) /\ (ltep!Working(j)' <=> ltep!Working(j))
        /\ ~lteRunning => ltep!SameWork
    BY PhyAssumption, <1>1, <1>2, ltep!TestRunningWork
  <1> QED
    BY <1>1, <1>3, <1>4

LEMMA LteWorkEnds ==
  ASSUME ltep!PoolInv, NEW i \in Ids, lte!WorkEnds(i)
  PROVE  /\ ltep!PoolInv' /\ ltep!SameRun
         /\ ltep!Working(i) /\ ~ltep!Working(i)'
         /\ \A j \in Ids : /\ ltep!Starting(j)' <=> ltep!Starting(j)
                           /\ j # i => (ltep!Working(j)' <=> ltep!Working(j))
  <1>1. ltep!WorkEnds(i) /\ Ids = ltep!Workers
    BY Zenon DEF lte!WorkEnds, ltep!WorkEnds, lte!Finished, ltep!Finished, lte!NotifyQueue,
       ltep!NotifyQueue, ltep!Workers, Ids
  <1> QED
    BY PhyAssumption, <1>1, ltep!WorkEndsInv, ltep!WorkEndsWork

LEMMA LteStop ==
  ASSUME ltep!PoolInv, lte!Stop
  PROVE  /\ ltep!PoolInv' /\ ~lteRunning' /\ lteJoined' = lteJoined
         /\ \A i \in Ids : ~ltep!Starting(i)' /\ (ltep!Working(i)' <=> ltep!Working(i))
  <1>1. ltep!Stop /\ Ids = ltep!Workers
    BY Zenon DEF lte!Stop, ltep!Stop, lte!Workers, ltep!Workers, lte!Wake, ltep!Wake,
       lte!NotifyQueue, ltep!NotifyQueue, Ids
  <1> QED
    BY PhyAssumption, <1>1, ltep!StopInv, ltep!StopWork

LEMMA LteJoin ==
  ASSUME ltep!PoolInv, lte!Join
  PROVE  ltep!PoolInv' /\ ltep!SameWork /\ UNCHANGED lteRunning /\ ~lteRunning
  <1>1. ltep!PoolNext /\ UNCHANGED <<lteRunning, lteStatus, lteThread>> /\ ~lteRunning
    BY Zenon DEF lte!Join, ltep!Join, lte!Workers, ltep!Workers, ltep!PoolNext
  <1> QED
    BY PhyAssumption, <1>1, ltep!PoolStepInv, ltep!StillWork

LEMMA LteStill ==
  ASSUME ltep!PoolInv, UNCHANGED lteVars
  PROVE  ltep!PoolInv' /\ ltep!SameWork /\ ltep!SameRun
  <1>1. UNCHANGED ltep!poolVars /\ UNCHANGED <<lteRunning, lteStatus, lteThread, lteJoined>>
    BY DEF lteVars, ltep!poolVars
  <1>2. ltep!PoolInv'
    BY PhyAssumption, <1>1, ltep!PoolStepInv
  <1> QED
    BY PhyAssumption, <1>1, <1>2, ltep!StillWork DEF ltep!SameRun

LEMMA NrRelease ==
  ASSUME nrp!PoolInv, NEW u \in Threads, nr!Release(u)
  PROVE  nrp!PoolInv' /\ nrp!SameWork /\ nrp!SameRun
  <1>1. nrp!Release(u)
    BY Zenon DEF nr!Release, nrp!Release, nr!Finished, nrp!Finished, nr!NotifyQueue,
       nrp!NotifyQueue, nr!Wake, nrp!Wake, nr!Out, nrp!Out, nr!NoWorker, nrp!NoWorker
  <1> QED
    BY PhyAssumption, <1>1, nrp!ReleaseInv, nrp!ReleaseWork

LEMMA NrStartWorker ==
  ASSUME nrp!PoolInv, nrRunning, NEW u \in Threads, nr!StartWorker(u)
  PROVE  /\ nrp!PoolInv' /\ nrp!SameRun
         /\ nrUser[u].w \in Ids /\ ~nrp!Starting(nrUser[u].w) /\ ~nrp!Working(nrUser[u].w)
         /\ \A i \in Ids : /\ nrp!Starting(i)' <=> nrp!Starting(i) \/ i = nrUser[u].w
                           /\ nrp!Working(i)' <=> nrp!Working(i)
  <1>1. nrp!StartWorker(u)
    BY Zenon DEF nr!StartWorker, nrp!StartWorker, nr!NotifyQueue, nrp!NotifyQueue, nr!Wake,
       nrp!Wake, nr!Out, nrp!Out, nr!NoWorker, nrp!NoWorker
  <1>2. nrp!PoolInv'
    BY PhyAssumption, <1>1, nrp!StartWorkerInv
  <1>3. nrUser[u].at = "hold"
    BY DEF nr!StartWorker
  <1>4. Ids = nrp!Workers
    BY DEF nrp!Workers, Ids
  <1>5. nrUser[u].w \in Ids /\ ~nrp!Starting(nrUser[u].w) /\ ~nrp!Working(nrUser[u].w)
    BY PhyAssumption, <1>3, <1>4, nrp!HeldAtRest
  <1>6. /\ nrp!SameRun
        /\ \A i \in Ids : /\ nrp!Starting(i)' <=> nrp!Starting(i) \/ i = nrUser[u].w
                          /\ nrp!Working(i)' <=> nrp!Working(i)
    BY PhyAssumption, <1>1, <1>4, nrp!StartWorkerWork
  <1> QED
    BY <1>2, <1>5, <1>6

LEMMA NrWaitToStart ==
  ASSUME nrp!PoolInv, NEW i \in Ids, nr!WaitToStart(i)
  PROVE  nrp!PoolInv' /\ nrp!SameWork /\ nrp!SameRun
  <1>1. nrp!WaitToStart(i) /\ i \in nrp!Workers
    BY Zenon DEF nr!WaitToStart, nrp!WaitToStart, nrp!Workers, Ids
  <1> QED
    BY PhyAssumption, <1>1, nrp!WaitToStartInv, nrp!WaitToStartWork

LEMMA NrTestRunning ==
  ASSUME nrp!PoolInv, NEW i \in Ids, nr!TestRunning(i)
  PROVE  /\ nrp!PoolInv' /\ nrp!SameRun
         /\ nrRunning => nrp!Starting(i) /\ ~nrp!Starting(i)' /\ nrp!Working(i)'
         /\ nrRunning => \A j \in Ids : j # i =>
              (nrp!Starting(j)' <=> nrp!Starting(j)) /\ (nrp!Working(j)' <=> nrp!Working(j))
         /\ ~nrRunning => nrp!SameWork
  <1>1. nrp!TestRunning(i) /\ Ids = nrp!Workers
    BY Zenon DEF nr!TestRunning, nrp!TestRunning, nrp!Workers, Ids
  <1>2. i \in nrp!Workers
    BY <1>1
  <1>3. nrp!PoolInv'
    BY PhyAssumption, <1>1, <1>2, nrp!TestRunningInv
  <1>4. /\ nrp!SameRun
        /\ nrRunning => nrp!Starting(i) /\ ~nrp!Starting(i)' /\ nrp!Working(i)'
        /\ nrRunning => \A j \in nrp!Workers : j # i =>
             (nrp!Starting(j)' <=> nrp!Starting(j)) /\ (nrp!Working(j)' <=> nrp!Working(j))
        /\ ~nrRunning => nrp!SameWork
    BY PhyAssumption, <1>1, <1>2, nrp!TestRunningWork
  <1> QED
    BY <1>1, <1>3, <1>4

LEMMA NrWorkEnds ==
  ASSUME nrp!PoolInv, NEW i \in Ids, nr!WorkEnds(i)
  PROVE  /\ nrp!PoolInv' /\ nrp!SameRun
         /\ nrp!Working(i) /\ ~nrp!Working(i)'
         /\ \A j \in Ids : /\ nrp!Starting(j)' <=> nrp!Starting(j)
                           /\ j # i => (nrp!Working(j)' <=> nrp!Working(j))
  <1>1. nrp!WorkEnds(i) /\ Ids = nrp!Workers
    BY Zenon DEF nr!WorkEnds, nrp!WorkEnds, nr!Finished, nrp!Finished, nr!NotifyQueue,
       nrp!NotifyQueue, nrp!Workers, Ids
  <1> QED
    BY PhyAssumption, <1>1, nrp!WorkEndsInv, nrp!WorkEndsWork

LEMMA NrStop ==
  ASSUME nrp!PoolInv, nr!Stop
  PROVE  /\ nrp!PoolInv' /\ ~nrRunning' /\ nrJoined' = nrJoined
         /\ \A i \in Ids : ~nrp!Starting(i)' /\ (nrp!Working(i)' <=> nrp!Working(i))
  <1>1. nrp!Stop /\ Ids = nrp!Workers
    BY Zenon DEF nr!Stop, nrp!Stop, nr!Workers, nrp!Workers, nr!Wake, nrp!Wake,
       nr!NotifyQueue, nrp!NotifyQueue, Ids
  <1> QED
    BY PhyAssumption, <1>1, nrp!StopInv, nrp!StopWork

LEMMA NrJoin ==
  ASSUME nrp!PoolInv, nr!Join
  PROVE  nrp!PoolInv' /\ nrp!SameWork /\ UNCHANGED nrRunning /\ ~nrRunning
  <1>1. nrp!PoolNext /\ UNCHANGED <<nrRunning, nrStatus, nrThread>> /\ ~nrRunning
    BY Zenon DEF nr!Join, nrp!Join, nr!Workers, nrp!Workers, nrp!PoolNext
  <1> QED
    BY PhyAssumption, <1>1, nrp!PoolStepInv, nrp!StillWork

LEMMA NrStill ==
  ASSUME nrp!PoolInv, UNCHANGED nrVars
  PROVE  nrp!PoolInv' /\ nrp!SameWork /\ nrp!SameRun
  <1>1. UNCHANGED nrp!poolVars /\ UNCHANGED <<nrRunning, nrStatus, nrThread, nrJoined>>
    BY DEF nrVars, nrp!poolVars
  <1>2. nrp!PoolInv'
    BY PhyAssumption, <1>1, nrp!PoolStepInv
  <1> QED
    BY PhyAssumption, <1>1, <1>2, nrp!StillWork DEF nrp!SameRun

(* The pointer to an NR worker is lost. *)
LEMMA NrForget ==
  ASSUME nrp!PoolInv, nrUser' = [nrUser EXCEPT !["sync"] = nr!Out],
         UNCHANGED <<nrRunning, nof_workers, nrStatus, nrThread, nrJoined>>
  PROVE  nrp!PoolInv' /\ nrp!SameWork /\ nrp!SameRun
  <1>1. nr!Out = nrp!Out /\ "sync" \in Threads
    BY Zenon DEF nr!Out, nrp!Out, nr!NoWorker, nrp!NoWorker, Threads
  <1>2. nrp!PoolInv'
    BY PhyAssumption, <1>1, nrp!ForgetInv
  <1> QED
    BY PhyAssumption, <1>2, nrp!StillWork DEF nrp!SameRun

(* Both pools *)
SameWorkers == \A w \in Ptrs : (Starts(w)' <=> Starts(w)) /\ (Works(w)' <=> Works(w))

LEMMA BothSame ==
  ASSUME ltep!SameWork, nrp!SameWork
  PROVE  SameWorkers
  <1> SUFFICES ASSUME NEW w \in Ptrs
               PROVE  (Starts(w)' <=> Starts(w)) /\ (Works(w)' <=> Works(w))
    BY DEF SameWorkers
  <1>1. ltep!Workers = Ids /\ nrp!Workers = Ids /\ w[2] \in Ids
    BY DEF ltep!Workers, nrp!Workers, Ids, Ptrs
  <1>2. (ltep!Starting(w[2])' <=> ltep!Starting(w[2])) /\ (ltep!Working(w[2])' <=> ltep!Working(w[2]))
    BY <1>1 DEF ltep!SameWork
  <1>3. (nrp!Starting(w[2])' <=> nrp!Starting(w[2])) /\ (nrp!Working(w[2])' <=> nrp!Working(w[2]))
    BY <1>1 DEF nrp!SameWork
  <1> QED
    BY <1>2, <1>3, Zenon DEF Starts, Works

-----------------------------------------------------------------------------
(* Steps that change no worker's stage: only the control moves. *)

SyncType == [pc : {"top", "lte", "nr", "start", "exit"}, tti : Nat, running : BOOLEAN]
CmdType == [next : Nat, left : Nat]

LEMMA ControlStep ==
  ASSUME PhyInv, ltep!PoolInv', nrp!PoolInv', SameWorkers,
         UNCHANGED <<lteRunning, nrRunning>>, lteJoined' => ~lteRunning,
         sync' \in SyncType, cmd' \in CmdType, SyncMoves, sync.pc = "exit" => sync'.pc = "exit",
         UNCHANGED <<nof_workers, workVars, nof_nr_carriers, context, started>>
  PROVE  PhyInv'
  <1>1. UNCHANGED <<semaphore, stage, buf, tx_buffer, tx_hold, sent>>
    BY DEF workVars
  <1>2. PhyTypes'
    BY <1>1 DEF PhyInv, PhyTypes, SyncType, CmdType
  <1>3. PoolsInv'
    BY <1>1 DEF PhyInv, PoolsInv, StopsLast
  <1>4. StageOfThread'
    BY <1>1 DEF PhyInv, StageOfThread, SameWorkers
  <1>5. QueuedArePending'
    BY <1>1 DEF PhyInv, QueuedArePending, Queued, Pending, SameWorkers
  <1>6. WritesOwnTti'
    BY <1>1 DEF PhyInv, WritesOwnTti
  <1>7. OrderInv'
    BY <1>1, <1>2, OrderKept DEF PhyInv
  <1> QED
    BY <1>2, <1>3, <1>4, <1>5, <1>6, <1>7 DEF PhyInv

LEMMA TypesOfControl ==
  ASSUME PhyInv
  PROVE  /\ sync \in SyncType /\ cmd \in CmdType /\ nof_workers = NofThreads
         /\ ltep!PoolInv /\ nrp!PoolInv /\ (lteJoined => ~lteRunning)
  BY DEF PhyInv, PhyTypes, PoolsInv, StopsLast, SyncType, CmdType

LEMMA SyncSame ==
  ASSUME PhyInv, UNCHANGED sync
  PROVE  sync' \in SyncType /\ SyncMoves
  BY TypesOfControl DEF SyncMoves, SyncType

LEMMA NextTtiStep ==
  ASSUME sync \in SyncType, sync' = NextTti
  PROVE  sync'.pc = "top" /\ sync'.tti = sync.tti + 1 /\ sync.tti \in Nat /\ sync' \in SyncType
  <1> DEFINE n == sync.tti + 1
  <1>1. sync.tti \in Nat /\ n \in Nat
    BY DEF SyncType
  <1>2. sync' = [sync EXCEPT !.pc = "top", !.tti = n]
    BY DEF NextTti, SyncType
  <1> HIDE DEF n
  <1>3. sync'.pc = "top" /\ sync'.tti = n /\ sync' \in SyncType
    BY <1>1, <1>2 DEF SyncType
  <1> QED
    BY <1>1, <1>3 DEF n

(* The sync thread takes workers, loses them, or ends. *)
LEMMA WaitLteWorkerInv ==
  ASSUME PhyInv, WaitLteWorker
  PROVE  PhyInv'
  <1>1. ltep!PoolInv' /\ ltep!SameWork /\ ltep!SameRun
    BY TypesOfControl, LteCalls DEF WaitLteWorker, Threads
  <1>2. nrp!PoolInv' /\ nrp!SameWork /\ nrp!SameRun
    BY TypesOfControl, NrStill DEF WaitLteWorker
  <1>3. sync' \in SyncType /\ SyncMoves /\ (sync.pc = "exit" => sync'.pc = "exit")
    BY TypesOfControl DEF WaitLteWorker, SyncType, SyncMoves
  <1>4. UNCHANGED <<nof_workers, workVars, nof_nr_carriers, context, cmd, started>>
    BY DEF WaitLteWorker, nrVars
  <1> QED
    BY <1>1, <1>2, <1>3, <1>4, TypesOfControl, BothSame, ControlStep DEF ltep!SameRun, nrp!SameRun

LEMMA WaitNrWorkerInv ==
  ASSUME PhyInv, WaitNrWorker
  PROVE  PhyInv'
  <1>1. nrp!PoolInv' /\ nrp!SameWork /\ nrp!SameRun
    BY TypesOfControl, NrCalls DEF WaitNrWorker, Threads
  <1>2. ltep!PoolInv' /\ ltep!SameWork /\ ltep!SameRun
    BY TypesOfControl, LteStill DEF WaitNrWorker
  <1>3. sync' \in SyncType /\ SyncMoves /\ (sync.pc = "exit" => sync'.pc = "exit")
    BY TypesOfControl DEF WaitNrWorker, SyncType, SyncMoves
  <1>4. UNCHANGED <<nof_workers, workVars, nof_nr_carriers, context, cmd, started>>
    BY DEF WaitNrWorker, lteVars
  <1> QED
    BY <1>1, <1>2, <1>3, <1>4, TypesOfControl, BothSame, ControlStep DEF ltep!SameRun, nrp!SameRun

(* What the sync thread, the command thread and phy::stop do without moving the
   sync thread                                                              *)
LEMMA PoolsOnly ==
  ASSUME PhyInv, ltep!PoolInv', nrp!PoolInv', ltep!SameWork, nrp!SameWork,
         UNCHANGED <<lteRunning, nrRunning>>, lteJoined' => ~lteRunning, cmd' \in CmdType,
         UNCHANGED <<nof_workers, workVars, nof_nr_carriers, context, sync, started>>
  PROVE  PhyInv'
  BY SyncSame, BothSame, ControlStep

LEMMA SyncRetriesInv ==
  ASSUME PhyInv, SyncRetries
  PROVE  PhyInv'
  <1>1. UNCHANGED <<workVars, nof_nr_carriers, context, sync, cmd, started>>
    BY DEF SyncRetries, ctlVars
  <1>2. /\ ltep!PoolInv' /\ ltep!SameWork /\ ltep!SameRun
        /\ nrp!PoolInv' /\ nrp!SameWork /\ nrp!SameRun
        /\ UNCHANGED nof_workers
    <2>1. CASE lte!Retry("sync") /\ UNCHANGED nrVars
      BY <2>1, TypesOfControl, LteCalls, NrStill DEF Threads, nrVars
    <2>2. CASE nr!Retry("sync") /\ UNCHANGED lteVars
      BY <2>2, TypesOfControl, NrCalls, LteStill DEF Threads, lteVars
    <2> QED
      BY <2>1, <2>2 DEF SyncRetries
  <1> QED
    BY <1>1, <1>2, TypesOfControl, PoolsOnly DEF ltep!SameRun, nrp!SameRun

LEMMA OutOfSyncInv ==
  ASSUME PhyInv, OutOfSync
  PROVE  PhyInv'
  <1>1. ltep!PoolInv' /\ ltep!SameWork /\ ltep!SameRun
    BY TypesOfControl, LteRelease DEF OutOfSync, Threads
  <1>2. UNCHANGED nof_workers
    BY DEF OutOfSync, lte!Release
  <1>3. nrp!PoolInv' /\ nrp!SameWork /\ nrp!SameRun
    BY <1>2, TypesOfControl, NrForget DEF OutOfSync
  <1>4. sync' \in SyncType /\ SyncMoves /\ (sync.pc = "exit" => sync'.pc = "exit")
    <2>1. sync.pc \in {"lte", "nr"}
      BY DEF OutOfSync, HasWorkers
    <2>2. sync \in SyncType /\ sync' = NextTti
      BY TypesOfControl DEF OutOfSync
    <2>3. sync'.pc = "top" /\ sync'.tti = sync.tti + 1 /\ sync.tti \in Nat /\ sync' \in SyncType
      BY <2>2, NextTtiStep
    <2> QED
      BY <2>1, <2>3 DEF SyncMoves
  <1>5. UNCHANGED <<workVars, nof_nr_carriers, context, cmd, started>>
    BY DEF OutOfSync
  <1> QED
    BY <1>1, <1>2, <1>3, <1>4, <1>5, TypesOfControl, BothSame, ControlStep DEF ltep!SameRun,
       nrp!SameRun

LEMMA SyncEndsInv ==
  ASSUME PhyInv, SyncEnds
  PROVE  PhyInv'
  <1>1. ltep!PoolInv' /\ ltep!SameWork /\ ltep!SameRun /\ nrp!PoolInv' /\ nrp!SameWork /\ nrp!SameRun
    BY TypesOfControl, LteStill, NrStill DEF SyncEnds
  <1>2. sync' \in SyncType /\ SyncMoves /\ (sync.pc = "exit" => sync'.pc = "exit")
    BY TypesOfControl DEF SyncEnds, SyncType, SyncMoves
  <1>3. UNCHANGED <<nof_workers, workVars, nof_nr_carriers, context, cmd, started>>
    BY DEF SyncEnds, lteVars
  <1> QED
    BY <1>1, <1>2, <1>3, TypesOfControl, BothSame, ControlStep DEF ltep!SameRun, nrp!SameRun

(* The command thread *)
LEMMA CommandInv ==
  ASSUME PhyInv, Command \/ CmdSteps
  PROVE  PhyInv'
  <1> USE DEF ltep!SameRun, nrp!SameRun
  <1>0. "cmd" \in Threads /\ cmd \in CmdType
    BY TypesOfControl DEF Threads
  <1>1. CASE Command
    <2>1. ltep!PoolInv' /\ ltep!SameWork /\ ltep!SameRun /\ nrp!PoolInv' /\ nrp!SameWork /\ nrp!SameRun
      BY <1>1, TypesOfControl, LteStill, NrStill DEF Command
    <2>2. cmd' \in CmdType
      BY <1>0, <1>1 DEF Command, CmdType
    <2>3. UNCHANGED <<nof_workers, workVars, nof_nr_carriers, context, sync, started>>
      BY <1>1 DEF Command, lteVars
    <2> QED
      BY <2>1, <2>2, <2>3, TypesOfControl, PoolsOnly
  <1>2. CASE ReserveWorker
    <2>1. cmd.next \in Ids
      BY <1>0, <1>2, PhyAssumption DEF ReserveWorker, CmdType, Ids
    <2>2. \E i \in Ids : lte!WaitWorkerId("cmd", i)
      BY <1>2, <2>1 DEF ReserveWorker
    <2>3. ltep!PoolInv' /\ ltep!SameWork /\ ltep!SameRun
      BY <1>0, <2>2, TypesOfControl, LteCalls
    <2>4. nrp!PoolInv' /\ nrp!SameWork /\ nrp!SameRun
      BY <1>2, TypesOfControl, NrStill DEF ReserveWorker
    <2>5. UNCHANGED <<nof_workers, workVars, nof_nr_carriers, context, sync, cmd, started>>
      BY <1>2 DEF ReserveWorker, nrVars, ctlVars
    <2> QED
      BY <1>0, <2>3, <2>4, <2>5, TypesOfControl, PoolsOnly
  <1>3. CASE CmdRetries
    <2>1. ltep!PoolInv' /\ ltep!SameWork /\ ltep!SameRun
      BY <1>0, <1>3, TypesOfControl, LteCalls DEF CmdRetries
    <2>2. nrp!PoolInv' /\ nrp!SameWork /\ nrp!SameRun
      BY <1>3, TypesOfControl, NrStill DEF CmdRetries
    <2>3. UNCHANGED <<nof_workers, workVars, nof_nr_carriers, context, sync, cmd, started>>
      BY <1>3 DEF CmdRetries, nrVars, ctlVars
    <2> QED
      BY <1>0, <2>1, <2>2, <2>3, TypesOfControl, PoolsOnly
  <1>4. CASE ConfigureAndRelease
    <2>1. ltep!PoolInv' /\ ltep!SameWork /\ ltep!SameRun
      BY <1>0, <1>4, TypesOfControl, LteRelease DEF ConfigureAndRelease
    <2>2. nrp!PoolInv' /\ nrp!SameWork /\ nrp!SameRun
      BY <1>4, TypesOfControl, NrStill DEF ConfigureAndRelease
    <2>3. cmd' \in CmdType
      BY <1>0, <1>4 DEF ConfigureAndRelease, CmdType
    <2>4. UNCHANGED <<nof_workers, workVars, nof_nr_carriers, context, sync, started>>
      BY <1>4 DEF ConfigureAndRelease, nrVars
    <2> QED
      BY <2>1, <2>2, <2>3, <2>4, TypesOfControl, PoolsOnly
  <1> QED
    BY <1>1, <1>2, <1>3, <1>4 DEF CmdSteps

(* phy::stop: what comes before the pools stop, and the joins *)
LEMMA StopSyncInv ==
  ASSUME PhyInv, StopCommands \/ StopSync
  PROVE  PhyInv'
  <1>1. ltep!PoolInv' /\ ltep!SameWork /\ ltep!SameRun /\ nrp!PoolInv' /\ nrp!SameWork /\ nrp!SameRun
    BY TypesOfControl, LteStill, NrStill DEF StopCommands, StopSync
  <1>2. sync' \in SyncType /\ SyncMoves /\ (sync.pc = "exit" => sync'.pc = "exit")
    <2>1. CASE StopCommands
      BY <2>1, SyncSame DEF StopCommands
    <2>2. CASE StopSync
      <3>1. sync \in SyncType /\ sync' = [sync EXCEPT !.running = FALSE]
        BY <2>2, TypesOfControl DEF StopSync
      <3>2. sync'.pc = sync.pc /\ sync'.tti = sync.tti /\ sync.tti \in Nat /\ sync' \in SyncType
        BY <3>1 DEF SyncType
      <3> QED
        BY <3>2 DEF SyncMoves
    <2> QED
      BY <2>1, <2>2
  <1>3. UNCHANGED <<nof_workers, workVars, nof_nr_carriers, context, cmd, started>>
    BY DEF StopCommands, StopSync, lteVars
  <1> QED
    BY <1>1, <1>2, <1>3, TypesOfControl, BothSame, ControlStep DEF ltep!SameRun, nrp!SameRun

LEMMA JoinPoolsInv ==
  ASSUME PhyInv, JoinPools
  PROVE  PhyInv'
  <1>1. UNCHANGED <<workVars, nof_nr_carriers, context, sync, cmd, started>>
    BY DEF JoinPools, ctlVars
  <1>2. CASE lte!Join /\ UNCHANGED nrVars
    <2>1. ltep!PoolInv' /\ ltep!SameWork /\ UNCHANGED lteRunning /\ ~lteRunning
      BY <1>2, TypesOfControl, LteJoin
    <2>2. nrp!PoolInv' /\ nrp!SameWork /\ nrp!SameRun /\ UNCHANGED nof_workers
      BY <1>2, TypesOfControl, NrStill DEF nrVars
    <2> QED
      BY <1>1, <2>1, <2>2, TypesOfControl, PoolsOnly DEF nrp!SameRun
  <1>3. CASE nr!Join /\ UNCHANGED lteVars
    <2>1. nrp!PoolInv' /\ nrp!SameWork /\ UNCHANGED nrRunning
      BY <1>3, TypesOfControl, NrJoin
    <2>2. ltep!PoolInv' /\ ltep!SameWork /\ ltep!SameRun /\ UNCHANGED nof_workers
      BY <1>3, TypesOfControl, LteStill DEF lteVars
    <2> QED
      BY <1>1, <2>1, <2>2, TypesOfControl, PoolsOnly DEF ltep!SameRun
  <1> QED
    BY <1>2, <1>3 DEF JoinPools

(* The pools stop when the semaphore is empty: nobody was about to begin. *)
LEMMA StopPoolsInv ==
  ASSUME PhyInv, StopLteWorkers \/ StopNrWorkers
  PROVE  PhyInv'
  <1>1. sync.pc = "exit" /\ semaphore = <<>>
    BY TypesOfControl DEF StopLteWorkers, StopNrWorkers, PhyInv, PoolsInv, StopsLast
  <1>2. \A w \in Ptrs : ~Starts(w)
    <2>1. \A w : ~Queued(w)
      BY <1>1, EmptySeq DEF Queued, Contains
    <2> QED
      BY <2>1 DEF PhyInv, QueuedArePending, Pending
  <1>3. /\ ltep!PoolInv' /\ nrp!PoolInv' /\ SameWorkers
        /\ lteJoined' => ~lteRunning'
        /\ UNCHANGED nof_workers
    <2>1. CASE StopLteWorkers
      <3>1. /\ ltep!PoolInv' /\ ~lteRunning'
            /\ \A i \in Ids : ~ltep!Starting(i)' /\ (ltep!Working(i)' <=> ltep!Working(i))
        BY <2>1, TypesOfControl, LteStop DEF StopLteWorkers
      <3>2. nrp!PoolInv' /\ nrp!SameWork /\ UNCHANGED nof_workers
        BY <2>1, TypesOfControl, NrStill DEF StopLteWorkers, nrVars
      <3>3. ASSUME NEW w \in Ptrs
            PROVE  (Starts(w)' <=> Starts(w)) /\ (Works(w)' <=> Works(w))
        <4>1. w[2] \in Ids /\ nrp!Workers = Ids
          BY DEF Ptrs, nrp!Workers, Ids
        <4>2. (nrp!Starting(w[2])' <=> nrp!Starting(w[2])) /\ (nrp!Working(w[2])' <=> nrp!Working(w[2]))
          BY <3>2, <4>1 DEF nrp!SameWork
        <4>3. ~ltep!Starting(w[2])' /\ (ltep!Working(w[2])' <=> ltep!Working(w[2]))
          BY <3>1, <4>1
        <4> QED
          BY <1>2, <4>2, <4>3, Zenon DEF Starts, Works
      <3> QED
        BY <3>1, <3>2, <3>3 DEF SameWorkers
    <2>2. CASE StopNrWorkers
      <3>1. /\ nrp!PoolInv' /\ ~nrRunning'
            /\ \A i \in Ids : ~nrp!Starting(i)' /\ (nrp!Working(i)' <=> nrp!Working(i))
        BY <2>2, TypesOfControl, NrStop DEF StopNrWorkers
      <3>2. ltep!PoolInv' /\ ltep!SameWork /\ ltep!SameRun /\ UNCHANGED nof_workers
        BY <2>2, TypesOfControl, LteStill DEF StopNrWorkers, lteVars
      <3>3. ASSUME NEW w \in Ptrs
            PROVE  (Starts(w)' <=> Starts(w)) /\ (Works(w)' <=> Works(w))
        <4>1. w[2] \in Ids /\ ltep!Workers = Ids
          BY DEF Ptrs, ltep!Workers, Ids
        <4>2. (ltep!Starting(w[2])' <=> ltep!Starting(w[2])) /\ (ltep!Working(w[2])' <=> ltep!Working(w[2]))
          BY <3>2, <4>1 DEF ltep!SameWork
        <4>3. ~nrp!Starting(w[2])' /\ (nrp!Working(w[2])' <=> nrp!Working(w[2]))
          BY <3>1, <4>1
        <4> QED
          BY <1>2, <4>2, <4>3, Zenon DEF Starts, Works
      <3> QED
        BY <3>1, <3>2, <3>3, TypesOfControl DEF SameWorkers, ltep!SameRun
    <2> QED
      BY <2>1, <2>2
  <1>4. UNCHANGED <<workVars, nof_nr_carriers, context, sync, cmd, started>>
    BY DEF StopLteWorkers, StopNrWorkers
  <1>5. UNCHANGED <<semaphore, stage, buf, tx_buffer, tx_hold, sent>>
    BY <1>4 DEF workVars
  <1>6. PhyTypes'
    BY <1>3, <1>4, <1>5 DEF PhyInv, PhyTypes
  <1>7. PoolsInv'
    BY <1>1, <1>3, <1>4, <1>5 DEF PoolsInv, StopsLast
  <1>8. StageOfThread' /\ QueuedArePending' /\ WritesOwnTti'
    BY <1>3, <1>4, <1>5 DEF PhyInv, StageOfThread, QueuedArePending, Queued, Pending,
       SameWorkers, WritesOwnTti
  <1>9. OrderInv'
    BY <1>4, <1>5, <1>6, SyncSame, OrderKept DEF PhyInv
  <1> QED
    BY <1>6, <1>7, <1>8, <1>9 DEF PhyInv

-----------------------------------------------------------------------------
(* The workers before and after their turn. *)

Stages == {"off", "dl", "dl_asleep", "end", "asleep", "hold", "held", "sent", "ended"}

LEMMA TypesOfWork ==
  ASSUME PhyInv
  PROVE  /\ semaphore \in Seq(Ptrs) /\ stage \in [Ptrs -> Stages]
         /\ context \in [Ptrs -> Nat] /\ buf \in [Ptrs -> Nat] /\ tx_buffer \in SUBSET Ptrs
         /\ \A w \in Ptrs : (Works(w) <=> stage[w] # "off") /\ (Queued(w) <=> Pending(w))
         /\ \A i \in Ids : stage[Nr(i)] # "sent"
  BY DEF PhyInv, PhyTypes, Stages, StageOfThread, QueuedArePending

(* A step of a worker that leaves the semaphore, tx_buffer and tx_hold alone *)
LEMMA StageStep ==
  ASSUME PhyInv, ltep!PoolInv', nrp!PoolInv', UNCHANGED <<lteRunning, nrRunning, lteJoined>>,
         UNCHANGED <<nof_workers, semaphore, tx_buffer, tx_hold, sent, ctlVars>>,
         stage' \in [Ptrs -> Stages], buf' \in [Ptrs -> Nat],
         \A w \in Ptrs :
           /\ Works(w)' <=> stage'[w] # "off"
           /\ Pending(w)' <=> Pending(w)
           /\ stage'[w] \in {"end", "asleep", "sent"} => buf'[w] = context[w]
           /\ stage'[w] = "sent" <=> stage[w] = "sent"
           /\ tx_hold /\ stage[w] \in {"hold", "held"} => stage'[w] \in {"hold", "held"} /\ buf'[w] = buf[w]
  PROVE  PhyInv'
  <1>1. UNCHANGED <<nof_nr_carriers, context, sync, cmd, started>>
    BY DEF ctlVars
  <1>2. PhyTypes'
    BY <1>1 DEF PhyInv, PhyTypes, Stages
  <1>3. PoolsInv'
    BY <1>1 DEF PhyInv, PoolsInv, StopsLast
  <1>4. StageOfThread'
    BY PtrTypes DEF PhyInv, StageOfThread
  <1>5. QueuedArePending'
    BY DEF PhyInv, QueuedArePending, Queued
  <1>6. WritesOwnTti'
    BY <1>1 DEF WritesOwnTti
  <1>7. OrderInv'
    BY <1>1, <1>2, SyncSame, OrderKept DEF PhyInv
  <1> QED
    BY <1>2, <1>3, <1>4, <1>5, <1>6, <1>7 DEF PhyInv

(* ... and of no pool *)
LEMMA NoPoolStep ==
  ASSUME PhyInv, UNCHANGED <<lteVars, nrVars>>
  PROVE  /\ ltep!PoolInv' /\ nrp!PoolInv' /\ UNCHANGED <<lteRunning, nrRunning, lteJoined, nof_workers>>
         /\ SameWorkers
  <1>1. ltep!PoolInv' /\ ltep!SameWork /\ nrp!PoolInv' /\ nrp!SameWork
    BY TypesOfControl, LteStill, NrStill
  <1> QED
    BY <1>1, BothSame DEF lteVars, nrVars

LEMMA WorkerWaitsInv ==
  ASSUME PhyInv, NEW w \in Ptrs, WorkerWaits(w)
  PROVE  PhyInv'
  <1>0. w[2] \in Ids
    BY DEF Ptrs
  <1>1. UNCHANGED <<workVars, nof_nr_carriers, context, sync, cmd, started>>
    BY DEF WorkerWaits, ctlVars
  <1>2. CASE w[1] = "lte"
    <2>1. lte!WaitToStart(w[2]) /\ UNCHANGED nrVars
      BY <1>2 DEF WorkerWaits, PoolStep
    <2>2. ltep!PoolInv' /\ ltep!SameWork /\ ltep!SameRun
      BY <1>0, <2>1, TypesOfControl, LteWaitToStart
    <2>3. nrp!PoolInv' /\ nrp!SameWork /\ nrp!SameRun /\ UNCHANGED nof_workers
      BY <2>1, TypesOfControl, NrStill DEF nrVars
    <2> QED
      BY <1>1, <2>2, <2>3, TypesOfControl, PoolsOnly DEF ltep!SameRun, nrp!SameRun
  <1>3. CASE w[1] # "lte"
    <2>1. nr!WaitToStart(w[2]) /\ UNCHANGED lteVars
      BY <1>3 DEF WorkerWaits, PoolStep
    <2>2. nrp!PoolInv' /\ nrp!SameWork /\ nrp!SameRun
      BY <1>0, <2>1, TypesOfControl, NrWaitToStart
    <2>3. ltep!PoolInv' /\ ltep!SameWork /\ ltep!SameRun /\ UNCHANGED nof_workers
      BY <2>1, TypesOfControl, LteStill DEF lteVars
    <2> QED
      BY <1>1, <2>2, <2>3, TypesOfControl, PoolsOnly DEF ltep!SameRun, nrp!SameRun
  <1> QED
    BY <1>2, <1>3

(* work_imp begins, unless the pool has been stopped. *)
LEMMA WorkBegun ==
  ASSUME PhyInv, NEW w \in Ptrs, WorkBegins(w)
  PROVE  LET runs == IF w[1] = "lte" THEN lteRunning ELSE nrRunning IN
         /\ ltep!PoolInv' /\ nrp!PoolInv' /\ UNCHANGED <<lteRunning, nrRunning, lteJoined, nof_workers>>
         /\ runs => /\ Starts(w) /\ ~Starts(w)' /\ Works(w)'
                    /\ \A v \in Ptrs : v # w => (Starts(v)' <=> Starts(v)) /\ (Works(v)' <=> Works(v))
         /\ ~runs => SameWorkers
  <1>0. w[2] \in Ids
    BY DEF Ptrs
  <1>1. CASE w[1] = "lte"
    <2>1. lte!TestRunning(w[2]) /\ UNCHANGED nrVars
      BY <1>1 DEF WorkBegins, PoolStep
    <2>2. /\ ltep!PoolInv' /\ ltep!SameRun
          /\ lteRunning => ltep!Starting(w[2]) /\ ~ltep!Starting(w[2])' /\ ltep!Working(w[2])'
          /\ lteRunning => \A j \in Ids : j # w[2] =>
               (ltep!Starting(j)' <=> ltep!Starting(j)) /\ (ltep!Working(j)' <=> ltep!Working(j))
          /\ ~lteRunning => ltep!SameWork
      BY <1>0, <2>1, TypesOfControl, LteTestRunning
    <2>3. nrp!PoolInv' /\ nrp!SameWork /\ nrp!SameRun /\ UNCHANGED nof_workers
      BY <2>1, TypesOfControl, NrStill DEF nrVars
    <2>4. CASE lteRunning
      <3>1. Starts(w) /\ ~Starts(w)' /\ Works(w)'
        BY <1>1, <2>2, <2>4, Zenon DEF Starts, Works
      <3>2. ASSUME NEW v \in Ptrs, v # w
            PROVE  (Starts(v)' <=> Starts(v)) /\ (Works(v)' <=> Works(v))
        <4>1. v[2] \in Ids /\ nrp!Workers = Ids /\ (v[1] = w[1] => v[2] # w[2])
          BY <3>2 DEF Ptrs, nrp!Workers, Ids
        <4>2. (nrp!Starting(v[2])' <=> nrp!Starting(v[2])) /\ (nrp!Working(v[2])' <=> nrp!Working(v[2]))
          BY <2>3, <4>1 DEF nrp!SameWork
        <4>3. v[1] = w[1] =>
                (ltep!Starting(v[2])' <=> ltep!Starting(v[2])) /\ (ltep!Working(v[2])' <=> ltep!Working(v[2]))
          BY <2>2, <2>4, <4>1
        <4>4. v[1] \in {"lte", "nr"} /\ w[1] \in {"lte", "nr"}
          BY DEF Ptrs
        <4> QED
          BY <1>1, <4>2, <4>3, <4>4, Zenon DEF Starts, Works
      <3> QED
        BY <1>1, <2>2, <2>3, <2>4, <3>1, <3>2 DEF ltep!SameRun, nrp!SameRun
    <2>5. CASE ~lteRunning
      BY <1>1, <2>2, <2>3, <2>5, BothSame DEF ltep!SameRun, nrp!SameRun
    <2> QED
      BY <2>4, <2>5
  <1>2. CASE w[1] # "lte"
    <2>1. nr!TestRunning(w[2]) /\ UNCHANGED lteVars
      BY <1>2 DEF WorkBegins, PoolStep
    <2>2. /\ nrp!PoolInv' /\ nrp!SameRun
          /\ nrRunning => nrp!Starting(w[2]) /\ ~nrp!Starting(w[2])' /\ nrp!Working(w[2])'
          /\ nrRunning => \A j \in Ids : j # w[2] =>
               (nrp!Starting(j)' <=> nrp!Starting(j)) /\ (nrp!Working(j)' <=> nrp!Working(j))
          /\ ~nrRunning => nrp!SameWork
      BY <1>0, <2>1, TypesOfControl, NrTestRunning
    <2>3. ltep!PoolInv' /\ ltep!SameWork /\ ltep!SameRun /\ UNCHANGED nof_workers
      BY <2>1, TypesOfControl, LteStill DEF lteVars
    <2>4. CASE nrRunning
      <3>1. Starts(w) /\ ~Starts(w)' /\ Works(w)'
        BY <1>2, <2>2, <2>4, Zenon DEF Starts, Works
      <3>2. ASSUME NEW v \in Ptrs, v # w
            PROVE  (Starts(v)' <=> Starts(v)) /\ (Works(v)' <=> Works(v))
        <4>1. v[2] \in Ids /\ ltep!Workers = Ids /\ (v[1] = w[1] => v[2] # w[2])
          BY <3>2 DEF Ptrs, ltep!Workers, Ids
        <4>2. (ltep!Starting(v[2])' <=> ltep!Starting(v[2])) /\ (ltep!Working(v[2])' <=> ltep!Working(v[2]))
          BY <2>3, <4>1 DEF ltep!SameWork
        <4>3. v[1] = w[1] =>
                (nrp!Starting(v[2])' <=> nrp!Starting(v[2])) /\ (nrp!Working(v[2])' <=> nrp!Working(v[2]))
          BY <2>2, <2>4, <4>1
        <4>4. v[1] \in {"lte", "nr"} /\ w[1] \in {"lte", "nr"}
          BY DEF Ptrs
        <4> QED
          BY <1>2, <4>2, <4>3, <4>4, Zenon DEF Starts, Works
      <3> QED
        BY <1>2, <2>2, <2>3, <2>4, <3>1, <3>2 DEF ltep!SameRun, nrp!SameRun
    <2>5. CASE ~nrRunning
      BY <1>2, <2>2, <2>3, <2>5, BothSame DEF ltep!SameRun, nrp!SameRun
    <2> QED
      BY <2>4, <2>5
  <1> QED
    BY <1>1, <1>2

LEMMA WorkBeginsInv ==
  ASSUME PhyInv, NEW w \in Ptrs, WorkBegins(w)
  PROVE  PhyInv'
  <1> DEFINE runs == IF w[1] = "lte" THEN lteRunning ELSE nrRunning
             begun == IF w[1] = "lte" THEN "end" ELSE "dl"
  <1>1. /\ ltep!PoolInv' /\ nrp!PoolInv' /\ UNCHANGED <<lteRunning, nrRunning, lteJoined, nof_workers>>
        /\ runs => /\ Starts(w) /\ ~Starts(w)' /\ Works(w)'
                   /\ \A v \in Ptrs : v # w => (Starts(v)' <=> Starts(v)) /\ (Works(v)' <=> Works(v))
        /\ ~runs => SameWorkers
    BY WorkBegun
  <1>2. /\ stage' = IF runs THEN [stage EXCEPT ![w] = begun] ELSE stage
        /\ buf' = IF runs /\ w[1] = "lte" THEN [buf EXCEPT ![w] = context[w]] ELSE buf
        /\ UNCHANGED <<semaphore, dl_ul_semaphore, tx_buffer, tx_hold, sent, ctlVars>>
    BY DEF WorkBegins
  <1> HIDE DEF runs
  <1>3. stage \in [Ptrs -> Stages] /\ context \in [Ptrs -> Nat] /\ buf \in [Ptrs -> Nat]
    BY TypesOfWork
  <1>4. CASE runs
    <2>1. ~Works(w)
      <3>1. ltep!PoolInv /\ nrp!PoolInv /\ w[2] \in ltep!Workers /\ w[2] \in nrp!Workers
        BY TypesOfControl DEF Ptrs, Ids, ltep!Workers, nrp!Workers
      <3>2. ~(ltep!Starting(w[2]) /\ ltep!Working(w[2])) /\ ~(nrp!Starting(w[2]) /\ nrp!Working(w[2]))
        BY PhyAssumption, <3>1, ltep!StartedOnce, nrp!StartedOnce
      <3> QED
        BY <1>1, <1>4, <3>2, Zenon DEF Starts, Works
    <2>2. stage[w] = "off"
      BY <2>1, TypesOfWork
    <2>3. stage' = [stage EXCEPT ![w] = begun] /\ begun \in {"end", "dl"} /\ begun \in Stages
      BY <1>2, <1>4 DEF Stages
    <2>4. stage' \in [Ptrs -> Stages] /\ buf' \in [Ptrs -> Nat]
      BY <1>2, <1>3, <2>3
    <2>5. stage'[w] = begun /\ (w[1] = "lte" => buf'[w] = context[w]) /\ (w[1] # "lte" => begun = "dl")
      BY <1>2, <1>3, <1>4, <2>3
    <2>6. \A v \in Ptrs : v # w => stage'[v] = stage[v] /\ buf'[v] = buf[v]
      BY <1>2, <1>3, <2>3
    <2> HIDE DEF begun
    <2>7. \A v \in Ptrs : stage[v] \in {"end", "asleep", "sent"} => buf[v] = context[v]
      BY DEF PhyInv, WritesOwnTti
    <2>8. ASSUME NEW v \in Ptrs
          PROVE  /\ Works(v)' <=> stage'[v] # "off"
                 /\ Pending(v)' <=> Pending(v)
                 /\ stage'[v] \in {"end", "asleep", "sent"} => buf'[v] = context[v]
                 /\ stage'[v] = "sent" <=> stage[v] = "sent"
                 /\ tx_hold /\ stage[v] \in {"hold", "held"} =>
                      stage'[v] \in {"hold", "held"} /\ buf'[v] = buf[v]
      <3>1. CASE v = w
        BY <1>1, <1>4, <2>2, <2>3, <2>5, <3>1 DEF Pending
      <3>2. CASE v # w
        BY <1>1, <1>4, <2>6, <2>7, <3>2, TypesOfWork DEF Pending
      <3> QED
        BY <3>1, <3>2
    <2> QED
      BY <1>1, <1>2, <2>4, <2>8, StageStep
  <1>5. CASE ~runs
    <2>1. UNCHANGED <<workVars, nof_nr_carriers, context, sync, cmd, started>>
      BY <1>2, <1>5 DEF workVars, ctlVars
    <2> QED
      BY <1>1, <1>5, <2>1, TypesOfControl, SyncSame, ControlStep
  <1> QED
    BY <1>4, <1>5

(* nr::sf_worker::work_imp up to worker_end *)
LEMMA DlUlInv ==
  ASSUME PhyInv, NEW w \in Ptrs, DlUl(w)
  PROVE  PhyInv'
  <1>1. /\ ltep!PoolInv' /\ nrp!PoolInv' /\ UNCHANGED <<lteRunning, nrRunning, lteJoined, nof_workers>>
        /\ SameWorkers
    BY NoPoolStep DEF DlUl
  <1>2. stage \in [Ptrs -> Stages] /\ context \in [Ptrs -> Nat] /\ buf \in [Ptrs -> Nat] /\ stage[w] = "dl"
    BY TypesOfWork DEF DlUl
  <1>3. /\ stage' \in [Ptrs -> Stages] /\ buf' \in [Ptrs -> Nat]
        /\ (stage'[w] = "end" /\ buf'[w] = context[w]) \/ stage'[w] = "dl_asleep"
        /\ \A v \in Ptrs : v # w => /\ buf'[v] = buf[v]
                                    /\ \/ stage'[v] = stage[v]
                                       \/ stage[v] = "dl_asleep" /\ stage'[v] = "dl"
    <2>1. CASE Passes(dl_ul_semaphore, w)
      <3>1. stage' = NotifyAll([stage EXCEPT ![w] = "end"], "dl_asleep", "dl")
            /\ buf' = [buf EXCEPT ![w] = context[w]]
        BY <2>1 DEF DlUl
      <3> QED
        BY <1>2, <3>1 DEF NotifyAll, Stages
    <2>2. CASE ~Passes(dl_ul_semaphore, w)
      <3>1. stage' = [stage EXCEPT ![w] = "dl_asleep"] /\ buf' = buf
        BY <2>2 DEF DlUl
      <3> QED
        BY <1>2, <3>1 DEF Stages
    <2> QED
      BY <2>1, <2>2
  <1>4. UNCHANGED <<semaphore, tx_buffer, tx_hold, sent, ctlVars>>
    BY DEF DlUl
  <1>5. \A v \in Ptrs : stage[v] \in {"end", "asleep", "sent"} => buf[v] = context[v]
    BY DEF PhyInv, WritesOwnTti
  <1>6. ASSUME NEW v \in Ptrs
        PROVE  /\ Works(v)' <=> stage'[v] # "off"
               /\ Pending(v)' <=> Pending(v)
               /\ stage'[v] \in {"end", "asleep", "sent"} => buf'[v] = context[v]
               /\ stage'[v] = "sent" <=> stage[v] = "sent"
               /\ tx_hold /\ stage[v] \in {"hold", "held"} =>
                    stage'[v] \in {"hold", "held"} /\ buf'[v] = buf[v]
    <2>1. (Works(v)' <=> stage[v] # "off") /\ (Starts(v)' <=> Starts(v))
      BY <1>1, TypesOfWork DEF SameWorkers
    <2> QED
      BY <1>2, <1>3, <1>5, <2>1 DEF Pending
  <1> QED
    BY <1>1, <1>3, <1>4, <1>6, StageStep

(* The waits of worker_end and wait_last_worker *)
LEMMA WaitsInv ==
  ASSUME PhyInv, NEW w \in Ptrs, EndWaits(w) \/ WaitLastWorker(w)
  PROVE  PhyInv'
  <1>1. /\ ltep!PoolInv' /\ nrp!PoolInv' /\ UNCHANGED <<lteRunning, nrRunning, lteJoined, nof_workers>>
        /\ SameWorkers
    BY NoPoolStep DEF EndWaits, WaitLastWorker
  <1>2. stage \in [Ptrs -> Stages] /\ buf \in [Ptrs -> Nat]
    BY TypesOfWork
  <1>3. \/ stage[w] = "end" /\ stage' = [stage EXCEPT ![w] = "asleep"]
        \/ stage[w] = "hold" /\ tx_hold /\ stage' = [stage EXCEPT ![w] = "held"]
        \/ stage[w] = "hold" /\ ~tx_hold /\ stage' = [stage EXCEPT ![w] = "ended"]
    BY DEF EndWaits, WaitLastWorker
  <1>4. UNCHANGED <<semaphore, buf, tx_buffer, tx_hold, sent, ctlVars>>
    BY DEF EndWaits, WaitLastWorker
  <1>5. stage' \in [Ptrs -> Stages] /\ \A v \in Ptrs : v # w => stage'[v] = stage[v]
    BY <1>2, <1>3 DEF Stages
  <1>6. \/ stage[w] = "end" /\ stage'[w] = "asleep"
        \/ stage[w] = "hold" /\ tx_hold /\ stage'[w] = "held"
        \/ stage[w] = "hold" /\ ~tx_hold /\ stage'[w] = "ended"
    BY <1>2, <1>3
  <1>7. \A v \in Ptrs : stage[v] \in {"end", "asleep", "sent"} => buf[v] = context[v]
    BY DEF PhyInv, WritesOwnTti
  <1>8. ASSUME NEW v \in Ptrs
        PROVE  /\ Works(v)' <=> stage'[v] # "off"
               /\ Pending(v)' <=> Pending(v)
               /\ stage'[v] \in {"end", "asleep", "sent"} => buf'[v] = context[v]
               /\ stage'[v] = "sent" <=> stage[v] = "sent"
               /\ tx_hold /\ stage[v] \in {"hold", "held"} =>
                    stage'[v] \in {"hold", "held"} /\ buf'[v] = buf[v]
    <2>1. (Works(v)' <=> stage[v] # "off") /\ (Starts(v)' <=> Starts(v))
      BY <1>1, TypesOfWork DEF SameWorkers
    <2> QED
      BY <1>4, <1>5, <1>6, <1>7, <2>1 DEF Pending
  <1> QED
    BY <1>1, <1>2, <1>4, <1>5, <1>8, StageStep

(* work_imp ends. *)
LEMMA WorkEnded ==
  ASSUME PhyInv, NEW w \in Ptrs, WorkerEnds(w)
  PROVE  /\ ltep!PoolInv' /\ nrp!PoolInv' /\ UNCHANGED <<lteRunning, nrRunning, lteJoined, nof_workers>>
         /\ \A v \in Ptrs : (Starts(v)' <=> Starts(v)) /\ (Works(v)' <=> Works(v) /\ v # w)
  <1>0. w[2] \in Ids
    BY DEF Ptrs
  <1>1. CASE w[1] = "lte"
    <2>1. lte!WorkEnds(w[2]) /\ UNCHANGED nrVars
      BY <1>1 DEF WorkerEnds, PoolStep
    <2>2. /\ ltep!PoolInv' /\ ltep!SameRun /\ ~ltep!Working(w[2])'
          /\ \A j \in Ids : /\ ltep!Starting(j)' <=> ltep!Starting(j)
                            /\ j # w[2] => (ltep!Working(j)' <=> ltep!Working(j))
      BY <1>0, <2>1, TypesOfControl, LteWorkEnds
    <2>3. nrp!PoolInv' /\ nrp!SameWork /\ nrp!SameRun /\ UNCHANGED nof_workers
      BY <2>1, TypesOfControl, NrStill DEF nrVars
    <2>4. ASSUME NEW v \in Ptrs
          PROVE  (Starts(v)' <=> Starts(v)) /\ (Works(v)' <=> Works(v) /\ v # w)
      <3>1. v[2] \in Ids /\ nrp!Workers = Ids /\ (v[1] = w[1] /\ v # w => v[2] # w[2])
        BY DEF Ptrs, nrp!Workers, Ids
      <3>2. (nrp!Starting(v[2])' <=> nrp!Starting(v[2])) /\ (nrp!Working(v[2])' <=> nrp!Working(v[2]))
        BY <2>3, <3>1 DEF nrp!SameWork
      <3>3. ltep!Starting(v[2])' <=> ltep!Starting(v[2])
        BY <2>2, <3>1
      <3>4. v[1] = w[1] /\ v # w => (ltep!Working(v[2])' <=> ltep!Working(v[2]))
        BY <2>2, <3>1
      <3>5. v = w => ~ltep!Working(v[2])' /\ v[1] = w[1]
        BY <2>2
      <3>6. v[1] \in {"lte", "nr"} /\ w[1] \in {"lte", "nr"}
        BY DEF Ptrs
      <3> QED
        BY <1>1, <3>2, <3>3, <3>4, <3>5, <3>6, Zenon DEF Starts, Works
    <2> QED
      BY <2>2, <2>3, <2>4 DEF ltep!SameRun, nrp!SameRun
  <1>2. CASE w[1] # "lte"
    <2>1. nr!WorkEnds(w[2]) /\ UNCHANGED lteVars
      BY <1>2 DEF WorkerEnds, PoolStep
    <2>2. /\ nrp!PoolInv' /\ nrp!SameRun /\ ~nrp!Working(w[2])'
          /\ \A j \in Ids : /\ nrp!Starting(j)' <=> nrp!Starting(j)
                            /\ j # w[2] => (nrp!Working(j)' <=> nrp!Working(j))
      BY <1>0, <2>1, TypesOfControl, NrWorkEnds
    <2>3. ltep!PoolInv' /\ ltep!SameWork /\ ltep!SameRun /\ UNCHANGED nof_workers
      BY <2>1, TypesOfControl, LteStill DEF lteVars
    <2>4. ASSUME NEW v \in Ptrs
          PROVE  (Starts(v)' <=> Starts(v)) /\ (Works(v)' <=> Works(v) /\ v # w)
      <3>1. v[2] \in Ids /\ ltep!Workers = Ids /\ (v[1] = w[1] /\ v # w => v[2] # w[2])
        BY DEF Ptrs, ltep!Workers, Ids
      <3>2. (ltep!Starting(v[2])' <=> ltep!Starting(v[2])) /\ (ltep!Working(v[2])' <=> ltep!Working(v[2]))
        BY <2>3, <3>1 DEF ltep!SameWork
      <3>3. nrp!Starting(v[2])' <=> nrp!Starting(v[2])
        BY <2>2, <3>1
      <3>4. v[1] = w[1] /\ v # w => (nrp!Working(v[2])' <=> nrp!Working(v[2]))
        BY <2>2, <3>1
      <3>5. v = w => ~nrp!Working(v[2])' /\ v[1] = w[1]
        BY <2>2
      <3>6. v[1] \in {"lte", "nr"} /\ w[1] \in {"lte", "nr"}
        BY DEF Ptrs
      <3> QED
        BY <1>2, <3>2, <3>3, <3>4, <3>5, <3>6, Zenon DEF Starts, Works
    <2> QED
      BY <2>2, <2>3, <2>4 DEF ltep!SameRun, nrp!SameRun
  <1> QED
    BY <1>1, <1>2

LEMMA WorkerEndsInv ==
  ASSUME PhyInv, NEW w \in Ptrs, WorkerEnds(w)
  PROVE  PhyInv'
  <1>1. /\ ltep!PoolInv' /\ nrp!PoolInv' /\ UNCHANGED <<lteRunning, nrRunning, lteJoined, nof_workers>>
        /\ \A v \in Ptrs : (Starts(v)' <=> Starts(v)) /\ (Works(v)' <=> Works(v) /\ v # w)
    BY WorkEnded
  <1>2. /\ stage \in [Ptrs -> Stages] /\ buf \in [Ptrs -> Nat]
        /\ stage[w] = "ended" /\ stage' = [stage EXCEPT ![w] = "off"]
        /\ UNCHANGED <<semaphore, buf, tx_buffer, tx_hold, sent, ctlVars>>
    BY TypesOfWork DEF WorkerEnds
  <1>3. stage' \in [Ptrs -> Stages] /\ stage'[w] = "off" /\ \A v \in Ptrs : v # w => stage'[v] = stage[v]
    BY <1>2 DEF Stages
  <1>4. \A v \in Ptrs : stage[v] \in {"end", "asleep", "sent"} => buf[v] = context[v]
    BY DEF PhyInv, WritesOwnTti
  <1>5. ASSUME NEW v \in Ptrs
        PROVE  /\ Works(v)' <=> stage'[v] # "off"
               /\ Pending(v)' <=> Pending(v)
               /\ stage'[v] \in {"end", "asleep", "sent"} => buf'[v] = context[v]
               /\ stage'[v] = "sent" <=> stage[v] = "sent"
               /\ tx_hold /\ stage[v] \in {"hold", "held"} =>
                    stage'[v] \in {"hold", "held"} /\ buf'[v] = buf[v]
    <2>1. (Works(v)' <=> stage[v] # "off" /\ v # w) /\ (Starts(v)' <=> Starts(v))
      BY <1>1, TypesOfWork
    <2> QED
      BY <1>2, <1>3, <1>4, <2>1 DEF Pending
  <1> QED
    BY <1>1, <1>2, <1>3, <1>5, StageStep

-----------------------------------------------------------------------------
(* The start of a subframe. *)

(* The start of an NR worker makes a worker at rest pending. *)
LEMMA NrStarted ==
  ASSUME PhyInv, StartNrWorker, NEW k, k = nrUser["sync"].w
  PROVE  /\ ltep!PoolInv' /\ nrp!PoolInv' /\ UNCHANGED <<lteRunning, nrRunning, lteJoined, nof_workers>>
         /\ k \in Ids /\ stage[Nr(k)] = "off" /\ ~Queued(Nr(k))
         /\ \A v \in Ptrs : (Starts(v)' <=> Starts(v) \/ v = Nr(k)) /\ (Works(v)' <=> Works(v))
         /\ sync.pc \in {"lte", "nr", "start"} /\ lteRunning /\ nrRunning
  <1>1. sync.pc \in {"lte", "nr", "start"}
    BY DEF StartNrWorker, HasWorkers
  <1>2. lteRunning /\ nrRunning
    BY <1>1 DEF PhyInv, PoolsInv, StopsLast
  <1>3. nr!StartWorker("sync") /\ UNCHANGED lteVars
    BY DEF StartNrWorker
  <1>4. /\ nrp!PoolInv' /\ nrp!SameRun
        /\ k \in Ids /\ ~nrp!Starting(k) /\ ~nrp!Working(k)
        /\ \A i \in Ids : /\ nrp!Starting(i)' <=> nrp!Starting(i) \/ i = k
                          /\ nrp!Working(i)' <=> nrp!Working(i)
    BY <1>2, <1>3, TypesOfControl, NrStartWorker DEF Threads
  <1>5. ltep!PoolInv' /\ ltep!SameWork /\ ltep!SameRun /\ UNCHANGED nof_workers
    BY <1>3, TypesOfControl, LteStill DEF lteVars
  <1>6. Nr(k) \in Ptrs /\ Nr(k)[1] = "nr" /\ Nr(k)[2] = k
    BY <1>4, PtrTypes
  <1>7. ~Starts(Nr(k)) /\ ~Works(Nr(k))
    BY <1>4, <1>6, Zenon DEF Starts, Works
  <1>8. stage[Nr(k)] = "off" /\ ~Queued(Nr(k))
    BY <1>6, <1>7, TypesOfWork DEF Pending
  <1>9. ASSUME NEW v \in Ptrs
        PROVE  (Starts(v)' <=> Starts(v) \/ v = Nr(k)) /\ (Works(v)' <=> Works(v))
    <2>1. v[2] \in Ids /\ ltep!Workers = Ids /\ (v = Nr(k) <=> v[1] = "nr" /\ v[2] = k)
      BY DEF Ptrs, ltep!Workers, Ids, Nr
    <2>2. (ltep!Starting(v[2])' <=> ltep!Starting(v[2])) /\ (ltep!Working(v[2])' <=> ltep!Working(v[2]))
      BY <1>5, <2>1 DEF ltep!SameWork
    <2>3. /\ nrp!Starting(v[2])' <=> nrp!Starting(v[2]) \/ v[2] = k
          /\ nrp!Working(v[2])' <=> nrp!Working(v[2])
      BY <1>4, <2>1
    <2>4. v[1] \in {"lte", "nr"} /\ "lte" # "nr"
      BY DEF Ptrs
    <2> QED
      BY <2>1, <2>2, <2>3, <2>4, Zenon DEF Starts, Works
  <1> QED
    BY <1>1, <1>2, <1>4, <1>5, <1>8, <1>9 DEF ltep!SameRun, nrp!SameRun

(* The start of an LTE worker makes a worker at rest pending. *)
LEMMA LteStarted ==
  ASSUME PhyInv, StartLteWorker, NEW k, k = lteUser["sync"].w
  PROVE  /\ ltep!PoolInv' /\ nrp!PoolInv' /\ UNCHANGED <<lteRunning, nrRunning, lteJoined, nof_workers>>
         /\ k \in Ids /\ stage[Lte(k)] = "off" /\ ~Queued(Lte(k))
         /\ \A v \in Ptrs : (Starts(v)' <=> Starts(v) \/ v = Lte(k)) /\ (Works(v)' <=> Works(v))
         /\ sync.pc \in {"lte", "nr", "start"} /\ lteRunning /\ nrRunning
  <1>1. sync.pc \in {"lte", "nr", "start"}
    BY DEF StartLteWorker, HasWorkers
  <1>2. lteRunning /\ nrRunning
    BY <1>1 DEF PhyInv, PoolsInv, StopsLast
  <1>3. lte!StartWorker("sync") /\ UNCHANGED nrVars
    BY DEF StartLteWorker
  <1>4. /\ ltep!PoolInv' /\ ltep!SameRun
        /\ k \in Ids /\ ~ltep!Starting(k) /\ ~ltep!Working(k)
        /\ \A i \in Ids : /\ ltep!Starting(i)' <=> ltep!Starting(i) \/ i = k
                          /\ ltep!Working(i)' <=> ltep!Working(i)
    BY <1>2, <1>3, TypesOfControl, LteStartWorker DEF Threads
  <1>5. nrp!PoolInv' /\ nrp!SameWork /\ nrp!SameRun /\ UNCHANGED nof_workers
    BY <1>3, TypesOfControl, NrStill DEF nrVars
  <1>6. Lte(k) \in Ptrs /\ Lte(k)[1] = "lte" /\ Lte(k)[2] = k
    BY <1>4, PtrTypes
  <1>7. ~Starts(Lte(k)) /\ ~Works(Lte(k))
    BY <1>4, <1>6, Zenon DEF Starts, Works
  <1>8. stage[Lte(k)] = "off" /\ ~Queued(Lte(k))
    BY <1>6, <1>7, TypesOfWork DEF Pending
  <1>9. ASSUME NEW v \in Ptrs
        PROVE  (Starts(v)' <=> Starts(v) \/ v = Lte(k)) /\ (Works(v)' <=> Works(v))
    <2>1. v[2] \in Ids /\ nrp!Workers = Ids /\ (v = Lte(k) <=> v[1] = "lte" /\ v[2] = k)
      BY DEF Ptrs, nrp!Workers, Ids, Lte
    <2>2. (nrp!Starting(v[2])' <=> nrp!Starting(v[2])) /\ (nrp!Working(v[2])' <=> nrp!Working(v[2]))
      BY <1>5, <2>1 DEF nrp!SameWork
    <2>3. /\ ltep!Starting(v[2])' <=> ltep!Starting(v[2]) \/ v[2] = k
          /\ ltep!Working(v[2])' <=> ltep!Working(v[2])
      BY <1>4, <2>1
    <2>4. v[1] \in {"lte", "nr"} /\ "lte" # "nr"
      BY DEF Ptrs
    <2> QED
      BY <2>1, <2>2, <2>3, <2>4, Zenon DEF Starts, Works
  <1> QED
    BY <1>1, <1>2, <1>4, <1>5, <1>8, <1>9 DEF ltep!SameRun, nrp!SameRun

(* push() of a worker at rest, as the last of the semaphore *)
LEMMA Pushed ==
  ASSUME PhyInv, NEW w \in Ptrs, stage[w] = "off", ~Queued(w),
         context' = [context EXCEPT ![w] = sync.tti], semaphore' = Append(semaphore, w),
         UNCHANGED <<stage, buf, tx_buffer, tx_hold, sent, nof_workers, nof_nr_carriers, cmd>>,
         sync' \in SyncType, started' \in Seq(Nat),
         \A v \in Ptrs : (Starts(v)' <=> Starts(v) \/ v = w) /\ (Works(v)' <=> Works(v)),
         \A v \in Ptrs : Queued(v) => Key(context, v) < 2 * sync.tti + Side(w)
  PROVE  /\ PhyTypes' /\ StageOfThread' /\ QueuedArePending' /\ WritesOwnTti'
         /\ InOrder' /\ SentIsFirst' /\ LteInBuffer'
         /\ semaphore' # <<>> /\ Head(semaphore') = IF semaphore = <<>> THEN w ELSE Head(semaphore)
         /\ semaphore # <<>> =>
              Head(semaphore) \in Ptrs /\ context'[Head(semaphore)] = context[Head(semaphore)]
         /\ \A v : Queued(v)' <=> Queued(v) \/ v = w
         /\ \A v \in Ptrs : Queued(v) => context'[v] = context[v]
         /\ context'[w] = sync.tti
  <1>1. /\ semaphore \in Seq(Ptrs) /\ context \in [Ptrs -> Nat] /\ sync.tti \in Nat
        /\ stage \in [Ptrs -> Stages] /\ Sorted(semaphore, context)
    BY TypesOfWork, TypesOfControl DEF SyncType, PhyInv, OrderInv, InOrder
  <1>2. PICK n \in Nat : n = sync.tti
    BY <1>1
  <1>3. /\ semaphore' \in Seq(Ptrs) /\ semaphore' # <<>> /\ Sorted(semaphore', context')
        /\ \A v : Contains(semaphore', v) <=> Contains(semaphore, v) \/ v = w
        /\ Head(semaphore') = IF semaphore = <<>> THEN w ELSE Head(semaphore)
    <2>1. Beyond(semaphore, context, w, n)
      BY <1>2 DEF Queued, Beyond
    <2>2. context' = [context EXCEPT ![w] = n]
      BY <1>2
    <2>3. PushedTo(semaphore, Append(semaphore, w), w)
          /\ Sorted(Append(semaphore, w), [context EXCEPT ![w] = n])
      BY <1>1, <2>1, SortedAppend
    <2>4. PushedTo(semaphore, semaphore', w) /\ Sorted(semaphore', context')
      BY <2>2, <2>3
    <2> QED
      BY <2>4 DEF PushedTo
  <1>4. \A v : Queued(v)' <=> Queued(v) \/ v = w
    BY <1>3 DEF Queued
  <1>5. /\ context'[w] = sync.tti /\ context' \in [Ptrs -> Nat]
        /\ \A v \in Ptrs : v # w => context'[v] = context[v]
    BY <1>1
  <1>6. \A v \in Ptrs : Queued(v) => context'[v] = context[v]
    BY <1>5
  <1>7. semaphore # <<>> => Head(semaphore) \in Ptrs /\ Queued(Head(semaphore))
    BY <1>1, SortedHead DEF Queued
  <1>8. PhyTypes'
    BY <1>3, <1>5 DEF PhyInv, PhyTypes, SyncType
  <1>9. StageOfThread'
    BY PtrTypes DEF PhyInv, StageOfThread
  <1>10. QueuedArePending'
    BY <1>4 DEF PhyInv, QueuedArePending, Pending
  <1>11. WritesOwnTti'
    BY <1>5 DEF PhyInv, WritesOwnTti
  <1>12. InOrder' /\ LteInBuffer'
    BY <1>3 DEF PhyInv, OrderInv, InOrder, LteInBuffer
  <1>13. SentIsFirst'
    BY <1>3 DEF PhyInv, OrderInv, SentIsFirst
  <1> QED
    BY <1>3, <1>4, <1>5, <1>6, <1>7, <1>8, <1>9, <1>10, <1>11, <1>12, <1>13

LEMMA StartNrWorkerInv ==
  ASSUME PhyInv, StartNrWorker
  PROVE  PhyInv'
  <1>0. PICK k : k = nrUser["sync"].w
    OBVIOUS
  <1> DEFINE w == Nr(k)
  <1>1. /\ ltep!PoolInv' /\ nrp!PoolInv' /\ UNCHANGED <<lteRunning, nrRunning, lteJoined, nof_workers>>
        /\ k \in Ids /\ stage[w] = "off" /\ ~Queued(w)
        /\ \A v \in Ptrs : (Starts(v)' <=> Starts(v) \/ v = w) /\ (Works(v)' <=> Works(v))
        /\ lteRunning /\ nrRunning
    BY <1>0, NrStarted
  <1>2. /\ context' = [context EXCEPT ![w] = sync.tti] /\ semaphore' = Append(semaphore, w)
        /\ sync' = [sync EXCEPT !.pc = "start"] /\ nof_nr_carriers > 0 /\ sync.pc = "nr"
        /\ UNCHANGED <<stage, buf, tx_buffer, tx_hold, sent, nof_nr_carriers, cmd, started>>
    BY <1>0 DEF StartNrWorker, HasWorkers
  <1>3. w \in Ptrs /\ w[1] = "nr" /\ Side(w) = 0
    BY <1>1, PtrTypes DEF Side
  <1>4. \A i \in Ids : Lte(i) \in Ptrs /\ Nr(i) \in Ptrs /\ Lte(i) # w
    BY <1>1, PtrTypes
  <1> HIDE DEF w
  <1>5. sync' \in SyncType /\ sync'.pc = "start" /\ sync'.tti = sync.tti /\ sync.tti \in Nat
    BY <1>2, TypesOfControl DEF SyncType
  <1>6. \A v \in Ptrs : Queued(v) => context[v] \in Nat /\ context[v] < sync.tti
    BY <1>2, TypesOfWork DEF PhyInv, OrderInv, BelowSync
  <1>7. \A v \in Ptrs : Queued(v) => Key(context, v) < 2 * sync.tti + Side(w)
    BY <1>3, <1>5, <1>6 DEF Key, Side
  <1>8. started' \in Seq(Nat)
    BY <1>2 DEF PhyInv, PhyTypes
  <1>9. /\ PhyTypes' /\ StageOfThread' /\ QueuedArePending' /\ WritesOwnTti'
        /\ InOrder' /\ SentIsFirst' /\ LteInBuffer'
        /\ semaphore' # <<>> /\ Head(semaphore') = IF semaphore = <<>> THEN w ELSE Head(semaphore)
        /\ semaphore # <<>> =>
             Head(semaphore) \in Ptrs /\ context'[Head(semaphore)] = context[Head(semaphore)]
        /\ \A v : Queued(v)' <=> Queued(v) \/ v = w
        /\ \A v \in Ptrs : Queued(v) => context'[v] = context[v]
        /\ context'[w] = sync.tti
    BY <1>1, <1>2, <1>3, <1>5, <1>7, <1>8, Pushed
  <1>10. PoolsInv'
    BY <1>1 DEF PhyInv, PoolsInv, StopsLast
  <1>11. BelowSync'
    BY <1>3, <1>5, <1>6, <1>9 DEF BelowSync
  <1>12. \A n : NrQueued(n)' <=> NrQueued(n) \/ n = sync.tti
    <2>1. w = Nr(k) /\ k \in Ids
      BY <1>1 DEF w
    <2> QED
      BY <1>4, <1>9, <2>1 DEF NrQueued
  <1>13. \A n : LteUnsent(n)' <=> LteUnsent(n)
    BY <1>2, <1>4, <1>9 DEF LteUnsent
  <1>14. \A n : LteComes(n)' <=> LteUnsent(n) \/ n = sync.tti
    BY <1>5, <1>13 DEF LteComes
  <1>15. \A n : LteComes(n) <=> LteUnsent(n)
    BY <1>2 DEF LteComes
  <1>16. \A n : Buffered(n)' <=> Buffered(n)
    BY <1>2 DEF Buffered
  <1>17. NrBefore'
    BY <1>2, <1>5, <1>12, <1>14, <1>15, <1>16 DEF PhyInv, OrderInv, NrBefore
  <1>18. LteAfter'
    BY <1>2, <1>12, <1>14, <1>15 DEF PhyInv, OrderInv, LteAfter
  <1>19. BufferedForFirst'
    <2>1. \A n : IsNext(n) => IsNext(n)'
      BY <1>2, <1>9 DEF IsNext
    <2> QED
      BY <1>2, <1>16, <2>1 DEF PhyInv, OrderInv, BufferedForFirst
  <1>20. StartedInOrder' /\ SentRight'
    BY <1>2, <1>5 DEF PhyInv, OrderInv, StartedInOrder, SentRight
  <1>21. UnsentAreQueued'
    BY <1>2, <1>13 DEF PhyInv, OrderInv, UnsentAreQueued
  <1> QED
    BY <1>9, <1>10, <1>11, <1>17, <1>18, <1>19, <1>20, <1>21 DEF PhyInv, OrderInv

LEMMA StartLteWorkerInv ==
  ASSUME PhyInv, StartLteWorker
  PROVE  PhyInv'
  <1>0. PICK k : k = lteUser["sync"].w
    OBVIOUS
  <1> DEFINE w == Lte(k)
  <1>1. /\ ltep!PoolInv' /\ nrp!PoolInv' /\ UNCHANGED <<lteRunning, nrRunning, lteJoined, nof_workers>>
        /\ k \in Ids /\ stage[w] = "off" /\ ~Queued(w)
        /\ \A v \in Ptrs : (Starts(v)' <=> Starts(v) \/ v = w) /\ (Works(v)' <=> Works(v))
        /\ lteRunning /\ nrRunning
    BY <1>0, LteStarted
  <1>2. /\ context' = [context EXCEPT ![w] = sync.tti] /\ semaphore' = Append(semaphore, w)
        /\ sync' = NextTti /\ started' = Append(started, sync.tti)
        /\ sync.pc = "start" \/ nof_nr_carriers = 0
        /\ UNCHANGED <<stage, buf, tx_buffer, tx_hold, sent, nof_nr_carriers, cmd>>
    BY <1>0 DEF StartLteWorker
  <1>3. w \in Ptrs /\ w[1] = "lte" /\ Side(w) = 1
    BY <1>1, PtrTypes DEF Side
  <1>4. \A i \in Ids : Lte(i) \in Ptrs /\ Nr(i) \in Ptrs /\ Nr(i) # w
    BY <1>1, PtrTypes
  <1>5. w = Lte(k) /\ k \in Ids
    BY <1>1
  <1> HIDE DEF w
  <1>6. sync' \in SyncType /\ sync'.pc = "top" /\ sync'.tti = sync.tti + 1 /\ sync.tti \in Nat
    BY <1>2, TypesOfControl, NextTtiStep
  <1>7. \A v \in Ptrs : Queued(v) => /\ context[v] \in Nat /\ context[v] <= sync.tti
                                     /\ context[v] = sync.tti => v[1] = "nr"
    BY <1>6, TypesOfWork DEF PhyInv, OrderInv, BelowSync
  <1>8. \A v \in Ptrs : Queued(v) => Key(context, v) < 2 * sync.tti + Side(w)
    BY <1>3, <1>6, <1>7 DEF Key, Side
  <1>9. /\ started \in Seq(Nat) /\ started' \in Seq(Nat) /\ Len(started) \in Nat
        /\ Len(started') = Len(started) + 1 /\ started'[Len(started) + 1] = sync.tti
        /\ \A j \in 1 .. Len(started) : started'[j] = started[j]
    <2>1. started \in Seq(Nat)
      BY DEF PhyInv, PhyTypes
    <2> QED
      BY <1>2, <1>6, <2>1, AppendProperties, LenProperties
  <1>10. /\ PhyTypes' /\ StageOfThread' /\ QueuedArePending' /\ WritesOwnTti'
         /\ InOrder' /\ SentIsFirst' /\ LteInBuffer'
         /\ semaphore' # <<>> /\ Head(semaphore') = IF semaphore = <<>> THEN w ELSE Head(semaphore)
         /\ semaphore # <<>> =>
              Head(semaphore) \in Ptrs /\ context'[Head(semaphore)] = context[Head(semaphore)]
         /\ \A v : Queued(v)' <=> Queued(v) \/ v = w
         /\ \A v \in Ptrs : Queued(v) => context'[v] = context[v]
         /\ context'[w] = sync.tti
    BY <1>1, <1>2, <1>3, <1>6, <1>8, <1>9, Pushed
  <1>11. PoolsInv'
    BY <1>1 DEF PhyInv, PoolsInv, StopsLast
  <1>12. BelowSync'
    BY <1>6, <1>7, <1>10 DEF BelowSync
  <1>13. \A n : NrQueued(n)' <=> NrQueued(n)
    BY <1>4, <1>10 DEF NrQueued
  <1>14. \A n : LteUnsent(n)' <=> LteUnsent(n) \/ n = sync.tti
    <2>1. stage'[w] # "sent"
      BY <1>1, <1>2
    <2> QED
      BY <1>2, <1>4, <1>5, <1>10, <2>1 DEF LteUnsent
  <1>15. \A n : LteComes(n)' <=> LteUnsent(n) \/ n = sync.tti
    BY <1>6, <1>14 DEF LteComes
  <1>16. nof_nr_carriers > 0 => \A n : LteComes(n) <=> LteUnsent(n) \/ n = sync.tti
    BY <1>2 DEF LteComes
  <1>17. \A n : LteComes(n) => LteComes(n)'
    BY <1>15 DEF LteComes
  <1>18. \A n : Buffered(n)' <=> Buffered(n)
    BY <1>2 DEF Buffered
  <1>19. NrBefore'
    BY <1>2, <1>6, <1>13, <1>15, <1>16, <1>18 DEF PhyInv, OrderInv, NrBefore
  <1>20. LteAfter'
    BY <1>2, <1>13, <1>17 DEF PhyInv, OrderInv, LteAfter
  <1>21. BufferedForFirst'
    <2>1. \A n : IsNext(n) => IsNext(n)'
      BY <1>2, <1>3, <1>10 DEF IsNext
    <2> QED
      BY <1>2, <1>18, <2>1 DEF PhyInv, OrderInv, BufferedForFirst
  <1>22. \A j \in 1 .. Len(started) + 1 : j \in 1 .. Len(started) \/ j = Len(started) + 1
    BY <1>9
  <1>23. \A j \in 1 .. Len(started) : started[j] \in Nat /\ started[j] < sync.tti
    BY <1>9, ElementOfSeq DEF PhyInv, OrderInv, StartedInOrder
  <1>24. StartedInOrder'
    <2>1. \A j \in 1 .. Len(started') : started'[j] < sync'.tti
      <3> SUFFICES ASSUME NEW j \in 1 .. Len(started) + 1
                   PROVE  started'[j] < sync.tti + 1
        BY <1>6, <1>9
      <3>1. CASE j \in 1 .. Len(started)
        <4>1. started'[j] = started[j] /\ started[j] \in Nat /\ started[j] < sync.tti
          BY <1>9, <1>23, <3>1
        <4> QED
          BY <1>6, <4>1
      <3>2. CASE j = Len(started) + 1
        BY <1>6, <1>9, <3>2
      <3> QED
        BY <1>22, <3>1, <3>2
    <2>2. ASSUME NEW i \in 1 .. Len(started'), NEW j \in 1 .. Len(started'), i < j
          PROVE  started'[i] < started'[j]
      <3>1. i \in 1 .. Len(started)
        BY <1>9, <2>2
      <3>2. CASE j \in 1 .. Len(started)
        BY <1>9, <2>2, <3>1, <3>2 DEF PhyInv, OrderInv, StartedInOrder
      <3>3. CASE j = Len(started) + 1
        BY <1>9, <1>23, <3>1, <3>3
      <3> QED
        BY <1>9, <1>22, <3>2, <3>3
    <2> QED
      BY <2>1, <2>2 DEF StartedInOrder
  <1>25. Len(sent) \in Nat /\ Len(sent) <= Len(started) /\ Len(sent') = Len(sent)
    <2>1. Len(sent) \in Nat
      BY LenProperties DEF PhyInv, PhyTypes
    <2> QED
      BY <1>2, <2>1 DEF PhyInv, OrderInv, UnsentAreQueued
  <1>26. SentRight'
    <2>1. \A j \in 1 .. Len(sent) : j \in 1 .. Len(started)
      BY <1>9, <1>25
    <2> QED
      BY <1>2, <1>9, <2>1 DEF PhyInv, OrderInv, SentRight
  <1>27. UnsentAreQueued'
    <2>1. ASSUME NEW n \in Nat
          PROVE  (\E j \in Len(sent) + 1 .. Len(started) + 1 : started'[j] = n)
                 <=> (\E j \in Len(sent) + 1 .. Len(started) : started[j] = n) \/ n = sync.tti
      <3>1. /\ Len(started) + 1 \in Len(sent) + 1 .. Len(started) + 1
            /\ \A j \in Len(sent) + 1 .. Len(started) :
                 j \in Len(sent) + 1 .. Len(started) + 1 /\ started'[j] = started[j]
            /\ \A j \in Len(sent) + 1 .. Len(started) + 1 :
                 j = Len(started) + 1 \/ j \in Len(sent) + 1 .. Len(started)
        BY <1>9, <1>25
      <3> QED
        BY <1>9, <3>1
    <2>2. Len(sent) <= Len(started) + 1
      BY <1>9, <1>25
    <2> QED
      BY <1>9, <1>14, <1>25, <2>1, <2>2 DEF PhyInv, OrderInv, UnsentAreQueued
  <1> QED
    BY <1>10, <1>11, <1>12, <1>19, <1>20, <1>21, <1>24, <1>26, <1>27 DEF PhyInv, OrderInv

-----------------------------------------------------------------------------
(* The turns of the workers. *)

LEMMA NotEmpty ==
  ASSUME NEW s, NEW v, Contains(s, v)
  PROVE  s # <<>>
  BY EmptySeq DEF Contains

(* A worker that passes the semaphore is the first in it: a worker that has not
   had its turn is in the queue, so it does not pass because the queue is empty. *)
LEMMA IsFirst ==
  ASSUME PhyInv, NEW w \in Ptrs, stage[w] \in {"end", "sent"}, Passes(semaphore, w) \/ stage[w] = "sent"
  PROVE  /\ semaphore # <<>> /\ Head(semaphore) = w /\ Queued(w)
         /\ \A v : Queued(v) => v = w \/ Key(context, w) < Key(context, v)
         /\ \A v \in Ptrs : stage[v] = "sent" => v = w
  <1>1. semaphore \in Seq(Ptrs) /\ context \in [Ptrs -> Nat] /\ Sorted(semaphore, context)
    BY TypesOfWork DEF PhyInv, OrderInv, InOrder
  <1>2. Queued(w)
    BY TypesOfWork DEF Pending
  <1>3. semaphore # <<>>
    BY <1>2, EmptySeq DEF Queued, Contains
  <1>4. Head(semaphore) = w
    BY <1>3 DEF Passes, PhyInv, OrderInv, SentIsFirst
  <1>5. \A v : Queued(v) => v = w \/ Key(context, w) < Key(context, v)
    BY <1>1, <1>3, <1>4, SortedHead DEF Queued
  <1>6. \A v \in Ptrs : stage[v] = "sent" => v = w
    BY <1>4 DEF PhyInv, OrderInv, SentIsFirst
  <1> QED
    BY <1>2, <1>3, <1>4, <1>5, <1>6

(* release(): the first worker leaves the semaphore, the others are notified. *)
LEMMA Released ==
  ASSUME PhyInv, NEW w \in Ptrs, NEW x \in {"hold", "ended"},
         stage[w] \in {"end", "sent"}, Passes(semaphore, w) \/ stage[w] = "sent",
         SemaphoreReleased([stage EXCEPT ![w] = x]), tx_buffer' \in SUBSET Ptrs,
         UNCHANGED <<lteVars, nrVars, buf, sent, ctlVars>>
  PROVE  /\ PhyTypes' /\ PoolsInv' /\ StageOfThread' /\ QueuedArePending' /\ WritesOwnTti'
         /\ InOrder' /\ BelowSync' /\ SentIsFirst' /\ StartedInOrder' /\ SentRight'
         /\ semaphore' = Tail(semaphore)
         /\ UNCHANGED <<nof_nr_carriers, context, sync, started, buf>>
         /\ stage'[w] = x
         /\ \A v \in Ptrs : v # w => stage'[v] = stage[v] \/ (stage[v] = "asleep" /\ stage'[v] = "end")
         /\ \A v \in Ptrs : v # w => stage[v] # "sent"
         /\ \A v : Queued(v)' <=> Queued(v) /\ v # w
  <1>1. /\ semaphore \in Seq(Ptrs) /\ context \in [Ptrs -> Nat] /\ Sorted(semaphore, context)
        /\ stage \in [Ptrs -> Stages] /\ buf \in [Ptrs -> Nat]
    BY TypesOfWork DEF PhyInv, OrderInv, InOrder
  <1>2. /\ semaphore # <<>> /\ Head(semaphore) = w /\ Queued(w)
        /\ \A v \in Ptrs : stage[v] = "sent" => v = w
    BY IsFirst
  <1>3. semaphore' = Tail(semaphore)
    BY <1>2 DEF SemaphoreReleased, Popped
  <1>4. /\ semaphore' \in Seq(Ptrs) /\ Sorted(semaphore', context)
        /\ \A v : Queued(v)' <=> Queued(v) /\ v # w
    BY <1>1, <1>2, <1>3, SortedTail DEF Queued
  <1>5. UNCHANGED <<nof_nr_carriers, context, sync, cmd, started>>
    BY DEF ctlVars
  <1>6. /\ ltep!PoolInv' /\ nrp!PoolInv' /\ UNCHANGED <<lteRunning, nrRunning, lteJoined, nof_workers>>
        /\ SameWorkers
    BY NoPoolStep
  <1>7. /\ stage' \in [Ptrs -> Stages] /\ stage'[w] = x
        /\ \A v \in Ptrs : v # w => stage'[v] = stage[v] \/ (stage[v] = "asleep" /\ stage'[v] = "end")
    BY <1>1 DEF SemaphoreReleased, NotifyAll, Stages
  <1>8. PhyTypes'
    BY <1>4, <1>5, <1>6, <1>7 DEF PhyInv, PhyTypes, Stages
  <1>9. PoolsInv'
    BY <1>2, <1>5, <1>6 DEF PhyInv, PoolsInv, StopsLast
  <1>10. \A v \in Ptrs : stage'[v] # "sent"
    BY <1>2, <1>7
  <1>11. StageOfThread'
    <2>1. \A v \in Ptrs : Works(v)' <=> stage'[v] # "off"
      BY <1>6, <1>7, TypesOfWork DEF SameWorkers
    <2> QED
      BY <1>10, <2>1, PtrTypes DEF StageOfThread
  <1>12. QueuedArePending'
    <2>1. ~Starts(w)'
      <3>1. Works(w)
        BY TypesOfWork
      <3>2. ltep!PoolInv /\ nrp!PoolInv /\ w[2] \in ltep!Workers /\ w[2] \in nrp!Workers
        BY TypesOfControl DEF Ptrs, Ids, ltep!Workers, nrp!Workers
      <3>3. ~(ltep!Starting(w[2]) /\ ltep!Working(w[2])) /\ ~(nrp!Starting(w[2]) /\ nrp!Working(w[2]))
        BY PhyAssumption, <3>2, ltep!StartedOnce, nrp!StartedOnce
      <3>4. ~Starts(w)
        BY <3>1, <3>3, Zenon DEF Starts, Works
      <3> QED
        BY <1>6, <3>4 DEF SameWorkers
    <2>2. ~Pending(w)'
      BY <1>7, <2>1 DEF Pending
    <2>3. \A v \in Ptrs : v # w => (Pending(v)' <=> Pending(v))
      BY <1>6, <1>7 DEF Pending, SameWorkers
    <2> QED
      BY <1>4, <2>2, <2>3, TypesOfWork DEF QueuedArePending
  <1>13. WritesOwnTti'
    BY <1>5, <1>7 DEF PhyInv, WritesOwnTti
  <1>14. InOrder' /\ BelowSync' /\ StartedInOrder' /\ SentRight'
    BY <1>4, <1>5 DEF PhyInv, OrderInv, InOrder, BelowSync, StartedInOrder, SentRight
  <1>15. SentIsFirst'
    BY <1>10 DEF SentIsFirst
  <1> QED
    BY <1>2, <1>3, <1>4, <1>5, <1>7, <1>8, <1>9, <1>11, <1>12, <1>13, <1>14, <1>15

(* The NR worker finds tx_buffer empty and leaves its own signal in it, for the
   LTE worker that is next.                                                 *)
LEMMA NrTurnInv ==
  ASSUME PhyInv, NEW w \in Ptrs, NrTurn(w)
  PROVE  PhyInv'
  <1>1. /\ stage[w] = "end" /\ Passes(semaphore, w) /\ w[1] = "nr"
        /\ tx_buffer' = tx_buffer \union {w} /\ tx_hold' = TRUE
        /\ SemaphoreReleased([stage EXCEPT ![w] = "hold"])
        /\ UNCHANGED <<lteVars, nrVars, buf, sent, ctlVars>>
    BY DEF NrTurn
  <1>2. /\ semaphore # <<>> /\ Head(semaphore) = w /\ Queued(w)
        /\ \A v : Queued(v) => v = w \/ Key(context, w) < Key(context, v)
        /\ \A v \in Ptrs : stage[v] = "sent" => v = w
    BY <1>1, IsFirst
  <1>3. tx_buffer = {} /\ tx_buffer' = {w} /\ tx_buffer' \in SUBSET Ptrs
    <2>1. \A n : ~IsNext(n)
      BY <1>1, <1>2 DEF IsNext
    <2>2. tx_buffer = {}
      BY <1>1, <1>2, <2>1 DEF PhyInv, OrderInv, BufferedForFirst
    <2> QED
      BY <1>1, <2>2
  <1>4. /\ PhyTypes' /\ PoolsInv' /\ StageOfThread' /\ QueuedArePending' /\ WritesOwnTti'
        /\ InOrder' /\ BelowSync' /\ SentIsFirst' /\ StartedInOrder' /\ SentRight'
        /\ semaphore' = Tail(semaphore)
        /\ UNCHANGED <<nof_nr_carriers, context, sync, started, buf>>
        /\ stage'[w] = "hold"
        /\ \A v \in Ptrs : v # w => stage'[v] = stage[v] \/ (stage[v] = "asleep" /\ stage'[v] = "end")
        /\ \A v \in Ptrs : v # w => stage[v] # "sent"
        /\ \A v : Queued(v)' <=> Queued(v) /\ v # w
    BY <1>1, <1>3, Released
  <1>5. PICK k \in Ids : w = Nr(k)
    BY <1>1, PtrTypes
  <1>6. /\ semaphore \in Seq(Ptrs) /\ context \in [Ptrs -> Nat] /\ sync.tti \in Nat
        /\ Sorted(semaphore, context)
    BY TypesOfWork, TypesOfControl DEF SyncType, PhyInv, OrderInv, InOrder
  <1>7. PICK m \in Nat : m = context[w]
    BY <1>6
  <1>8. buf[w] = m
    BY <1>1, <1>7 DEF PhyInv, WritesOwnTti
  <1>9. Buffered(m)' /\ \A n : ~Buffered(n)
    BY <1>1, <1>3, <1>4, <1>5, <1>8 DEF Buffered
  <1>10. \A i \in Ids : Lte(i) \in Ptrs /\ Nr(i) \in Ptrs /\ Lte(i) # w
    BY <1>5, PtrTypes
  <1>11. \A n : NrQueued(n) <=> NrQueued(n)' \/ n = m
    <2>1. \A i \in Ids : Queued(Nr(i)) <=> Queued(Nr(i))' \/ i = k
      BY <1>2, <1>4, <1>5, PtrTypes
    <2> QED
      BY <1>2, <1>4, <1>5, <1>7, <2>1 DEF NrQueued
  <1>12. \A n : LteUnsent(n)' <=> LteUnsent(n)
    BY <1>4, <1>10 DEF LteUnsent
  <1>13. \A n : LteComes(n)' <=> LteComes(n)
    BY <1>4, <1>12 DEF LteComes
  <1>14. NrBefore'
    BY <1>4, <1>9, <1>11, <1>13 DEF PhyInv, OrderInv, NrBefore
  <1>15. LteAfter'
    BY <1>4, <1>11, <1>13 DEF PhyInv, OrderInv, LteAfter
  <1>16. nof_nr_carriers > 0 /\ LteComes(m)
    BY <1>11 DEF PhyInv, OrderInv, LteAfter
  <1>17. IsNext(m)'
    <2>0. Key(context, w) = 2 * m
      BY <1>1, <1>7 DEF Key, Side
    <2>1. CASE LteUnsent(m)
      <3>1. PICK i \in Ids : Queued(Lte(i)) /\ context[Lte(i)] = m
        BY <2>1 DEF LteUnsent
      <3>2. Queued(Lte(i))' /\ Contains(Tail(semaphore), Lte(i)) /\ Key(context, Lte(i)) = 2 * m + 1
        BY <1>4, <1>10, <3>1, PtrTypes DEF Queued, Key, Side
      <3>3. Tail(semaphore) # <<>>
        BY <3>2, NotEmpty
      <3>4. /\ Tail(semaphore) \in Seq(Ptrs) /\ Sorted(Tail(semaphore), context)
            /\ \A v : Contains(Tail(semaphore), v) <=> Contains(semaphore, v) /\ v # w
        BY <1>2, <1>6, SortedTail
      <3>5. PICK h \in Ptrs : h = Head(Tail(semaphore))
        BY <1>6, <3>3, <3>4, SortedHead
      <3>6. Contains(Tail(semaphore), h) /\ (Lte(i) = h \/ Key(context, h) < Key(context, Lte(i)))
        BY <1>6, <3>2, <3>3, <3>4, <3>5, SortedHead
      <3>7. Key(context, w) < Key(context, h)
        BY <1>2, <3>4, <3>6 DEF Queued
      <3>8. Key(context, h) \in Nat /\ context[h] \in Nat /\ Side(h) \in {0, 1}
        BY <1>6, KeyType
      <3>9. Key(context, h) = 2 * m + 1
        BY <1>7, <2>0, <3>2, <3>6, <3>7, <3>8
      <3>10. Side(h) = 1 /\ context[h] = m
        <4>1. PICK c \in Nat : c = context[h]
          BY <3>8
        <4>2. 2 * c + Side(h) = 2 * m + 1
          BY <3>9, <4>1 DEF Key
        <4>3. Side(h) = 0 => FALSE
          <5>1. ASSUME Side(h) = 0 PROVE FALSE
            <6>1. 2 * c = 2 * m + 1
              BY <4>2, <5>1
            <6>2. c <= m \/ c >= m + 1
              BY <1>7
            <6> QED
              BY <1>7, <6>1, <6>2
          <5> QED
            BY <5>1
        <4>4. Side(h) = 1
          BY <3>8, <4>3
        <4> QED
          BY <1>7, <4>1, <4>2, <4>4
      <3> QED
        BY <1>4, <3>3, <3>5, <3>10 DEF IsNext, Side
    <2>2. CASE ~LteUnsent(m)
      <3>1. sync.pc = "start" /\ m = sync.tti
        BY <1>16, <2>2 DEF LteComes
      <3>2. ASSUME NEW v \in Ptrs, Queued(v) PROVE v = w
        <4>1. context[v] \in Nat /\ context[v] <= m /\ (context[v] = m => v[1] = "nr")
          BY <1>6, <3>1, <3>2 DEF PhyInv, OrderInv, BelowSync
        <4>2. Key(context, v) <= 2 * m /\ Key(context, v) \in Nat
          BY <1>7, <4>1 DEF Key, Side
        <4> QED
          BY <1>2, <1>7, <2>0, <3>2, <4>2
      <3>3. \A v \in Ptrs : ~Contains(semaphore', v)
        BY <1>4, <3>2 DEF Queued
      <3>4. semaphore' = <<>>
        <4>1. semaphore' \in Seq(Ptrs)
          BY <1>4 DEF PhyTypes
        <4>2. PICK s \in Seq(Ptrs) : s = semaphore'
          BY <4>1
        <4>3. s # <<>> => Len(s) \in Nat \ {0}
          BY EmptySeq
        <4>4. s # <<>> => 1 \in 1 .. Len(s) /\ s[1] \in Ptrs
          BY <4>3, ElementOfSeq
        <4> QED
          BY <3>3, <4>2, <4>4 DEF Contains
      <3> QED
        BY <1>4, <3>1, <3>4 DEF IsNext
    <2> QED
      BY <2>1, <2>2
  <1>18. BufferedForFirst'
    BY <1>4, <1>9, <1>16, <1>17 DEF BufferedForFirst
  <1>19. LteInBuffer'
    BY <1>3, <1>10 DEF LteInBuffer
  <1>20. UnsentAreQueued'
    BY <1>1, <1>4, <1>12 DEF PhyInv, OrderInv, UnsentAreQueued
  <1> QED
    BY <1>4, <1>14, <1>15, <1>18, <1>19, <1>20 DEF PhyInv, OrderInv

(* The LTE worker has transmitted and leaves tx_buffer empty for the next subframe. *)
LEMMA ResetAndReleaseInv ==
  ASSUME PhyInv, NEW w \in Ptrs, ResetAndRelease(w)
  PROVE  PhyInv'
  <1>1. /\ stage[w] = "sent" /\ tx_buffer' = {} /\ UNCHANGED tx_hold
        /\ SemaphoreReleased([stage EXCEPT ![w] = "ended"])
        /\ UNCHANGED <<lteVars, nrVars, buf, sent, ctlVars>>
    BY DEF ResetAndRelease
  <1>2. /\ semaphore # <<>> /\ Head(semaphore) = w /\ Queued(w)
        /\ \A v : Queued(v) => v = w \/ Key(context, w) < Key(context, v)
        /\ \A v \in Ptrs : stage[v] = "sent" => v = w
    BY <1>1, IsFirst
  <1>3. /\ PhyTypes' /\ PoolsInv' /\ StageOfThread' /\ QueuedArePending' /\ WritesOwnTti'
        /\ InOrder' /\ BelowSync' /\ SentIsFirst' /\ StartedInOrder' /\ SentRight'
        /\ UNCHANGED <<nof_nr_carriers, context, sync, started, buf>>
        /\ stage'[w] = "ended"
        /\ \A v \in Ptrs : v # w => stage'[v] = stage[v] \/ (stage[v] = "asleep" /\ stage'[v] = "end")
        /\ \A v \in Ptrs : v # w => stage[v] # "sent"
        /\ \A v : Queued(v)' <=> Queued(v) /\ v # w
    BY <1>1, Released
  <1>4. PICK k \in Ids : w = Lte(k)
    <2>1. \A i \in Ids : w # Nr(i)
      BY <1>1, TypesOfWork
    <2> QED
      BY <2>1, PtrTypes
  <1>5. \A i \in Ids : Lte(i) \in Ptrs /\ Nr(i) \in Ptrs /\ Nr(i) # w
    BY <1>4, PtrTypes
  <1>6. ~tx_hold /\ \A n : ~Buffered(n)
    BY <1>1 DEF PhyInv, OrderInv, SentIsFirst, Buffered
  <1>7. \A n : NrQueued(n)' <=> NrQueued(n)
    BY <1>3, <1>5 DEF NrQueued
  <1>8. \A n : LteUnsent(n)' <=> LteUnsent(n)
    <2>1. \A i \in Ids : (Queued(Lte(i)) /\ stage[Lte(i)] # "sent")
                         <=> (Queued(Lte(i))' /\ stage'[Lte(i)] # "sent")
      BY <1>1, <1>3, <1>5
    <2> QED
      BY <1>3, <2>1 DEF LteUnsent
  <1>9. \A n : LteComes(n)' <=> LteComes(n)
    BY <1>3, <1>8 DEF LteComes
  <1>10. NrBefore'
    BY <1>3, <1>6, <1>7, <1>9 DEF PhyInv, OrderInv, NrBefore
  <1>11. LteAfter'
    BY <1>3, <1>7, <1>9 DEF PhyInv, OrderInv, LteAfter
  <1>12. BufferedForFirst' /\ LteInBuffer'
    BY <1>1 DEF BufferedForFirst, LteInBuffer
  <1>13. UnsentAreQueued'
    BY <1>1, <1>3, <1>8 DEF PhyInv, OrderInv, UnsentAreQueued
  <1> QED
    BY <1>3, <1>10, <1>11, <1>12, <1>13 DEF PhyInv, OrderInv

(* The LTE worker finds in tx_buffer the signal of the NR worker of its own TTI, if
   there is an NR carrier, and nothing else: it sends the subframe that is due.   *)
LEMMA TransmitInv ==
  ASSUME PhyInv, NEW w \in Ptrs, Transmit(w)
  PROVE  PhyInv'
  <1>1. /\ stage[w] = "end" /\ Passes(semaphore, w) /\ w[1] = "lte" /\ tx_hold' = FALSE
        /\ stage' = NotifyAll([stage EXCEPT ![w] = "sent"], "held", "hold")
        /\ UNCHANGED <<lteVars, nrVars, semaphore, buf, ctlVars>>
    BY DEF Transmit
  <1>2. PICK txb : /\ tx_buffer' = txb /\ (txb = tx_buffer \/ txb = tx_buffer \union {w})
                   /\ sent' = Append(sent, [tti |-> context[w], signals |-> {<<v[1], buf[v]>> : v \in txb}])
    BY DEF Transmit
  <1>3. /\ semaphore # <<>> /\ Head(semaphore) = w /\ Queued(w)
        /\ \A v : Queued(v) => v = w \/ Key(context, w) < Key(context, v)
        /\ \A v \in Ptrs : stage[v] # "sent"
    BY <1>1, IsFirst
  <1>4. /\ semaphore \in Seq(Ptrs) /\ context \in [Ptrs -> Nat] /\ buf \in [Ptrs -> Nat]
        /\ stage \in [Ptrs -> Stages] /\ tx_buffer \in SUBSET Ptrs /\ sync.tti \in Nat
        /\ Sorted(semaphore, context)
    BY TypesOfWork, TypesOfControl DEF SyncType, PhyInv, OrderInv, InOrder
  <1>5. PICK k \in Ids : w = Lte(k)
    BY <1>1, PtrTypes
  <1>6. \A i \in Ids : /\ Lte(i) \in Ptrs /\ Nr(i) \in Ptrs /\ Nr(i) # w
                       /\ Side(Lte(i)) = 1 /\ Side(Nr(i)) = 0 /\ Nr(i)[1] = "nr"
    BY <1>5, PtrTypes DEF Side
  <1>7. PICK m \in Nat : m = context[w]
    BY <1>4
  <1>8. buf[w] = m /\ Key(context, w) = 2 * m + 1
    BY <1>1, <1>7 DEF PhyInv, WritesOwnTti, Key, Side
  <1>9. UNCHANGED <<nof_nr_carriers, context, sync, cmd, started>>
    BY <1>1 DEF ctlVars
  <1>10. /\ stage' \in [Ptrs -> Stages] /\ stage'[w] = "sent"
         /\ \A v \in Ptrs : v # w => stage'[v] = stage[v] \/ (stage[v] = "held" /\ stage'[v] = "hold")
    BY <1>1, <1>4 DEF NotifyAll, Stages
  <1>11. \A v : Queued(v)' <=> Queued(v)
    BY <1>1 DEF Queued
  <1>12. \A n : NrQueued(n)' <=> NrQueued(n)
    BY <1>9, <1>11 DEF NrQueued
  <1>13. LteUnsent(m)
    BY <1>3, <1>5, <1>7 DEF LteUnsent
  <1>14. \A i \in Ids : Queued(Lte(i)) /\ context[Lte(i)] = m => Lte(i) = w
    <2>1. ASSUME NEW i \in Ids, Queued(Lte(i)), context[Lte(i)] = m PROVE Lte(i) = w
      <3>1. Key(context, Lte(i)) = 2 * m + 1
        BY <1>6, <2>1 DEF Key
      <3> QED
        BY <1>3, <1>4, <1>8, <2>1, <3>1, SortedInjective DEF Queued
    <2> QED
      BY <2>1
  <1>15. \A n : LteUnsent(n)' <=> LteUnsent(n) /\ n # m
    <2>1. \A i \in Ids : Queued(Lte(i)) =>
            (stage'[Lte(i)] # "sent" <=> stage[Lte(i)] # "sent" /\ context[Lte(i)] # m)
      <3>1. ASSUME NEW i \in Ids, Queued(Lte(i))
            PROVE  stage'[Lte(i)] # "sent" <=> stage[Lte(i)] # "sent" /\ context[Lte(i)] # m
        <4>1. CASE Lte(i) = w
          BY <1>7, <1>10, <4>1
        <4>2. CASE Lte(i) # w
          <5>1. context[Lte(i)] # m
            BY <1>14, <3>1, <4>2
          <5>2. stage[Lte(i)] # "sent" /\ stage'[Lte(i)] # "sent"
            BY <1>3, <1>6, <1>10, <4>2
          <5> QED
            BY <5>1, <5>2
        <4> QED
          BY <4>1, <4>2
      <3> QED
        BY <3>1
    <2> QED
      BY <1>9, <1>11, <2>1 DEF LteUnsent
  <1>16. ~NrQueued(m)
    <2>1. ASSUME NEW i \in Ids, Queued(Nr(i)), context[Nr(i)] = m PROVE FALSE
      <3>1. Key(context, Nr(i)) = 2 * m
        BY <1>6, <1>7, <2>1 DEF Key
      <3>2. 2 * m + 1 < 2 * m
        BY <1>3, <1>6, <1>8, <2>1, <3>1
      <3> QED
        BY <1>7, <3>2
    <2> QED
      BY <2>1 DEF NrQueued
  <1>17. m < sync.tti
    BY <1>1, <1>3, <1>7 DEF PhyInv, OrderInv, BelowSync
  <1>18. \A n : LteComes(n)' <=> LteComes(n) /\ n # m
    <2>1. m # sync.tti
      BY <1>4, <1>7, <1>17
    <2> QED
      BY <1>9, <1>15, <2>1 DEF LteComes
  <1>19. \A n : Buffered(n) => n = m
    <2>1. \A n : IsNext(n) => n = m
      BY <1>3, <1>7 DEF IsNext
    <2>2. tx_buffer = {} \/ Buffered(m)
      BY <1>3, <2>1 DEF PhyInv, OrderInv, BufferedForFirst
    <2>3. ASSUME NEW n, Buffered(n) PROVE n = m
      <3>1. PICK i \in Ids : tx_buffer = {Nr(i)} /\ buf[Nr(i)] = n
        BY <2>3 DEF Buffered
      <3>2. PICK j \in Ids : tx_buffer = {Nr(j)} /\ buf[Nr(j)] = m
        BY <2>2, <3>1 DEF Buffered
      <3>3. Nr(i) = Nr(j)
        BY <3>1, <3>2
      <3> QED
        BY <3>1, <3>2, <3>3
    <2> QED
      BY <2>3
  <1>20. nof_nr_carriers > 0 => Buffered(m)
    BY <1>13, <1>16 DEF PhyInv, OrderInv, NrBefore, LteComes
  <1>21. \A v \in tx_buffer : v \in Ptrs /\ buf[v] = m
    <2>1. tx_buffer = {} \/ \E n : Buffered(n)
      BY <1>3 DEF PhyInv, OrderInv, BufferedForFirst
    <2>2. tx_buffer = {} \/ Buffered(m)
      BY <1>19, <2>1
    <2> QED
      BY <1>6, <2>2 DEF Buffered
  <1>22. NrBefore'
    BY <1>9, <1>12, <1>18, <1>19 DEF PhyInv, OrderInv, NrBefore
  <1>23. LteAfter'
    BY <1>9, <1>12, <1>16, <1>18 DEF PhyInv, OrderInv, LteAfter
  <1>24. BufferedForFirst'
    BY <1>10 DEF BufferedForFirst
  <1>25. LteInBuffer'
    <2>1. \A i \in Ids : Lte(i) \notin tx_buffer
      BY <1>3, <1>6 DEF PhyInv, OrderInv, LteInBuffer
    <2> QED
      BY <1>2, <1>10, <2>1 DEF LteInBuffer
  <1>26. SentIsFirst'
    <2>1. \A v \in Ptrs : stage'[v] = "sent" => v = w
      BY <1>3, <1>10
    <2> QED
      BY <1>1, <1>3, <2>1 DEF SentIsFirst
  <1>27. InOrder' /\ BelowSync' /\ StartedInOrder'
    BY <1>1, <1>9, <1>11 DEF PhyInv, OrderInv, InOrder, BelowSync, StartedInOrder
  <1>28. WritesOwnTti'
    BY <1>1, <1>7, <1>8, <1>9, <1>10 DEF PhyInv, WritesOwnTti
  <1>29. /\ ltep!PoolInv' /\ nrp!PoolInv' /\ UNCHANGED <<lteRunning, nrRunning, lteJoined, nof_workers>>
         /\ SameWorkers
    BY <1>1, NoPoolStep
  <1>30. PoolsInv'
    BY <1>1, <1>9, <1>29 DEF PhyInv, PoolsInv, StopsLast
  <1>31. StageOfThread' /\ QueuedArePending'
    <2>1. \A v \in Ptrs : (Works(v)' <=> stage'[v] # "off") /\ (Pending(v)' <=> Pending(v))
      BY <1>1, <1>10, <1>29, TypesOfWork DEF SameWorkers, Pending
    <2>2. \A i \in Ids : stage'[Nr(i)] # "sent"
      BY <1>3, <1>6, <1>10
    <2> QED
      BY <1>11, <2>1, <2>2, TypesOfWork DEF StageOfThread, QueuedArePending
  <1> DEFINE tx == [tti |-> m, signals |-> {<<v[1], buf[v]>> : v \in txb}]
             TxType == [tti : Nat, signals : SUBSET ({"lte", "nr"} \X Nat)]
  <1>32. /\ sent \in Seq(TxType) /\ sent' = Append(sent, tx) /\ started \in Seq(Nat)
    BY <1>2, <1>7 DEF PhyInv, PhyTypes
  <1>33. txb \in SUBSET Ptrs /\ \A v \in txb : buf[v] = m
    BY <1>2, <1>4, <1>8, <1>21
  <1>34. /\ tx \in TxType /\ tx.tti = m /\ \A s \in tx.signals : s[2] = m
    <2>1. \A v \in txb : v[1] \in {"lte", "nr"} /\ buf[v] \in Nat
      BY <1>33, <1>7 DEF Ptrs
    <2>2. tx.signals \in SUBSET ({"lte", "nr"} \X Nat)
      BY <2>1
    <2> QED
      BY <1>33, <2>2
  <1>35. nof_nr_carriers > 0 => <<"nr", m>> \in tx.signals
    <2>1. ASSUME nof_nr_carriers > 0 PROVE <<"nr", m>> \in tx.signals
      <3>1. PICK i \in Ids : tx_buffer = {Nr(i)} /\ buf[Nr(i)] = m
        BY <1>20, <2>1 DEF Buffered
      <3>2. Nr(i) \in txb /\ Nr(i)[1] = "nr"
        BY <1>2, <1>6, <3>1
      <3> QED
        BY <3>1, <3>2
    <2> QED
      BY <2>1
  <1> HIDE DEF tx, TxType
  <1>36. PICK l \in Nat : l = Len(sent)
    BY <1>32, LenProperties
  <1>37. /\ sent' \in Seq(TxType) /\ Len(sent') = l + 1 /\ sent'[l + 1] = tx
         /\ \A j \in 1 .. l : sent'[j] = sent[j]
    BY <1>32, <1>34, <1>36, AppendProperties
  <1>38. Len(started) \in Nat /\ \A j \in 1 .. Len(started) : started[j] \in Nat
    BY <1>32, LenProperties, ElementOfSeq
  <1>39. /\ \A n \in Nat : LteUnsent(n) <=> \E j \in l + 1 .. Len(started) : started[j] = n
         /\ \A i, j \in 1 .. Len(started) : i < j => started[i] < started[j]
    BY <1>36 DEF PhyInv, OrderInv, UnsentAreQueued, StartedInOrder
  <1>40. l + 1 <= Len(started) /\ started[l + 1] = m
    <2>1. PICK j \in l + 1 .. Len(started) : started[j] = m
      BY <1>7, <1>13, <1>39
    <2>2. /\ l + 1 <= Len(started) /\ l + 1 \in l + 1 .. Len(started)
          /\ l + 1 \in 1 .. Len(started) /\ j \in 1 .. Len(started) /\ (j = l + 1 \/ l + 1 < j)
      BY <1>36, <1>38, <2>1
    <2>3. PICK p \in Nat : p = started[l + 1]
      BY <1>38, <2>2
    <2>4. PICK i \in Ids : Queued(Lte(i)) /\ context[Lte(i)] = p
      BY <1>39, <2>2, <2>3 DEF LteUnsent
    <2>5. Key(context, Lte(i)) = 2 * p + 1
      BY <1>6, <2>4 DEF Key
    <2>6. p = m \/ 2 * m + 1 < 2 * p + 1
      BY <1>3, <1>7, <1>8, <2>4, <2>5
    <2>7. p = m \/ p < m
      BY <1>39, <2>1, <2>2, <2>3
    <2> QED
      BY <1>7, <2>2, <2>3, <2>6, <2>7
  <1>41. UnsentAreQueued'
    <2>1. ASSUME NEW n \in Nat
          PROVE  (\E j \in l + 1 .. Len(started) : started[j] = n) /\ n # m
                 <=> \E j \in (l + 1) + 1 .. Len(started) : started[j] = n
      <3>1. ASSUME NEW j \in l + 1 .. Len(started), started[j] = n, n # m
            PROVE  j \in (l + 1) + 1 .. Len(started)
        BY <1>36, <1>38, <1>40, <3>1
      <3>2. ASSUME NEW j \in (l + 1) + 1 .. Len(started), started[j] = n
            PROVE  j \in l + 1 .. Len(started) /\ n # m
        <4>1. /\ j \in l + 1 .. Len(started) /\ j \in 1 .. Len(started)
              /\ l + 1 \in 1 .. Len(started) /\ l + 1 < j
          BY <1>36, <1>38, <1>40, <3>2
        <4>2. m < n
          BY <1>39, <1>40, <3>2, <4>1
        <4> QED
          BY <1>7, <4>1, <4>2
      <3> QED
        BY <3>1, <3>2
    <2> QED
      BY <1>9, <1>15, <1>37, <1>39, <1>40, <2>1 DEF UnsentAreQueued
  <1>42. SentRight'
    <2> SUFFICES ASSUME NEW j \in 1 .. l + 1
                 PROVE  /\ sent'[j].tti = started[j]
                        /\ \A s \in sent'[j].signals : s[2] = sent'[j].tti
                        /\ nof_nr_carriers > 0 => <<"nr", sent'[j].tti>> \in sent'[j].signals
      BY <1>9, <1>37 DEF SentRight
    <2>1. CASE j = l + 1
      BY <1>34, <1>35, <1>37, <1>40, <2>1
    <2>2. CASE j \in 1 .. l
      BY <1>36, <1>37, <2>2 DEF PhyInv, OrderInv, SentRight
    <2> QED
      BY <1>36, <2>1, <2>2
  <1>43. PhyTypes'
    BY <1>1, <1>2, <1>9, <1>10, <1>29, <1>33, <1>37 DEF PhyInv, PhyTypes, Stages, TxType
  <1> QED
    BY <1>22, <1>23, <1>24, <1>25, <1>26, <1>27, <1>28, <1>30, <1>31, <1>41, <1>42, <1>43
       DEF PhyInv, OrderInv

-----------------------------------------------------------------------------
(* The theorems. *)

(* The invariant holds before the first subframe. *)
LEMMA PhyInitInv == PhyInit => PhyInv
  <1> SUFFICES ASSUME PhyInit PROVE PhyInv
    OBVIOUS
  <1>1. ltep!PoolInv /\ \A i \in Ids : ~ltep!Starting(i) /\ ~ltep!Working(i)
    <2>1. ltep!AllAsleep /\ ltep!Workers = Ids
      BY DEF PhyInit, ltep!AllAsleep, ltep!Workers, Ids, lte!Out, ltep!Out, lte!NoWorker,
         ltep!NoWorker
    <2> QED
      BY PhyAssumption, <2>1, ltep!AllAsleepInv
  <1>2. nrp!PoolInv /\ \A i \in Ids : ~nrp!Starting(i) /\ ~nrp!Working(i)
    <2>1. nrp!AllAsleep /\ nrp!Workers = Ids
      BY DEF PhyInit, nrp!AllAsleep, nrp!Workers, Ids, nr!Out, nrp!Out, nr!NoWorker, nrp!NoWorker
    <2> QED
      BY PhyAssumption, <2>1, nrp!AllAsleepInv
  <1>3. \A w \in Ptrs : ~Starts(w) /\ ~Works(w) /\ stage[w] = "off" /\ ~Pending(w)
    <2>1. ASSUME NEW w \in Ptrs PROVE ~Starts(w) /\ ~Works(w)
      <3>1. w[2] \in Ids
        BY DEF Ptrs
      <3> QED
        BY <1>1, <1>2, <3>1, Zenon DEF Starts, Works
    <2> QED
      BY <2>1 DEF PhyInit, Pending
  <1>4. PhyTypes
    <2>1. /\ sync = [pc |-> "top", tti |-> 1, running |-> TRUE]
          /\ cmd = [next |-> NofThreads, left |-> MaxCmds]
      BY DEF PhyInit
    <2>2. sync \in SyncType /\ cmd \in CmdType
      BY PhyAssumption, <2>1 DEF SyncType, CmdType
    <2> QED
      BY <2>2 DEF PhyInit, PhyTypes, SyncType, CmdType
  <1>5. PoolsInv
    BY <1>1, <1>2 DEF PhyInit, PoolsInv, StopsLast
  <1>6. StageOfThread
    BY <1>3, PtrTypes DEF StageOfThread
  <1>7. Len(semaphore) = 0 /\ Len(started) = 0 /\ Len(sent) = 0 /\ \A w : ~Queued(w)
    BY EmptySeq DEF PhyInit, Queued, Contains
  <1>8. QueuedArePending /\ WritesOwnTti
    BY <1>3, <1>7 DEF QueuedArePending, WritesOwnTti
  <1>9. \A n : ~NrQueued(n) /\ ~LteUnsent(n) /\ ~LteComes(n)
    BY <1>7 DEF NrQueued, LteUnsent, LteComes, PhyInit
  <1>10. InOrder /\ StartedInOrder /\ SentRight
    BY <1>7 DEF InOrder, Sorted, StartedInOrder, SentRight
  <1>11. UnsentAreQueued
    BY <1>7, <1>9 DEF UnsentAreQueued
  <1>12. BelowSync /\ SentIsFirst /\ NrBefore /\ LteAfter /\ BufferedForFirst /\ LteInBuffer
    BY <1>3, <1>7, <1>9 DEF PhyInit, BelowSync, SentIsFirst, NrBefore, LteAfter,
       BufferedForFirst, LteInBuffer
  <1> QED
    BY <1>4, <1>5, <1>6, <1>8, <1>10, <1>11, <1>12 DEF PhyInv, OrderInv

(* Nothing happens. *)
LEMMA StutterInv ==
  ASSUME PhyInv, UNCHANGED phyVars
  PROVE  PhyInv'
  <1>1. UNCHANGED <<lteVars, nrVars, workVars, ctlVars>>
    BY DEF phyVars
  <1>2. /\ ltep!PoolInv' /\ nrp!PoolInv' /\ UNCHANGED <<lteRunning, nrRunning, lteJoined, nof_workers>>
        /\ SameWorkers
    BY <1>1, NoPoolStep
  <1>3. UNCHANGED <<nof_nr_carriers, context, sync, cmd, started>>
    BY <1>1 DEF ctlVars
  <1> QED
    BY <1>1, <1>2, <1>3, SyncSame, TypesOfControl, ControlStep

(* Every step keeps the invariant. *)
LEMMA PhyStepInv == PhyInv /\ [PhyNext]_phyVars => PhyInv'
  <1> SUFFICES ASSUME PhyInv, [PhyNext]_phyVars PROVE PhyInv'
    OBVIOUS
  <1>1. ASSUME SyncSteps PROVE PhyInv'
    BY <1>1, WaitLteWorkerInv, WaitNrWorkerInv, SyncRetriesInv, StartNrWorkerInv, StartLteWorkerInv,
       OutOfSyncInv, SyncEndsInv DEF SyncSteps
  <1>2. ASSUME CmdSteps \/ Command PROVE PhyInv'
    BY <1>2, CommandInv
  <1>3. ASSUME StopSteps \/ StopCommands PROVE PhyInv'
    BY <1>3, StopSyncInv, StopPoolsInv, JoinPoolsInv DEF StopSteps
  <1>4. ASSUME NEW w \in Ptrs, WorkerSteps(w) PROVE PhyInv'
    BY <1>4, WorkerWaitsInv, WorkBeginsInv, DlUlInv, WaitsInv, NrTurnInv, TransmitInv,
       ResetAndReleaseInv, WorkerEndsInv DEF WorkerSteps
  <1>5. CASE UNCHANGED phyVars
    BY <1>5, StutterInv
  <1> QED
    BY <1>1, <1>2, <1>3, <1>4, <1>5 DEF PhyNext

(* In every state the workers that were started and have not had their turn are in
   the semaphore in the order of their TTIs, the NR worker of a TTI before its LTE
   worker, and tx_buffer holds nothing but the NR signal of the LTE worker that is
   next (sync.cc, phy_common.cc).                                               *)
THEOREM PhyInvariance == PhySpec => []PhyInv
  <1> QED
    BY PhyInitInv, PhyStepInv, PTL DEF PhySpec

(* phy_common::worker_end transmits the subframes in the order in which the sync
   thread started them, none twice, each with its own signals and, with an NR
   carrier, always with that of its NR worker: for any number of workers and TTIs. *)
THEOREM SentInSequenceHolds == PhySpec => []SentInSequence
  <1>1. PhyInv => SentInSequence
    <2> SUFFICES ASSUME PhyInv PROVE SentInSequence
      OBVIOUS
    <2>1. Len(sent) \in Nat /\ Len(started) \in Nat
      BY LenProperties DEF PhyInv, PhyTypes
    <2>2. Len(sent) <= Len(started)
      BY DEF PhyInv, OrderInv, UnsentAreQueued
    <2> QED
      BY <2>1, <2>2 DEF PhyInv, OrderInv, SentRight, SentInSequence
  <1> QED
    BY <1>1, PhyInvariance, PTL

(* A worker that the command thread has reserved (wait_worker_id) is outside
   work_imp and not in the subframe being transmitted, whatever the sync thread
   and the workers do meanwhile.                                               *)
THEOREM ConfiguredAtRestHolds == PhySpec => []ConfiguredAtRest
  <1>1. PhyInv => ConfiguredAtRest
    <2> SUFFICES ASSUME PhyInv, lteUser["cmd"].at = "hold"
                 PROVE  LET w == Lte(lteUser["cmd"].w) IN stage[w] = "off" /\ w \notin tx_buffer
      BY DEF ConfiguredAtRest
    <2>1. PICK k : k = lteUser["cmd"].w
      OBVIOUS
    <2>2. k \in Ids /\ ~ltep!Working(k)
      <3>1. ltep!PoolInv /\ "cmd" \in Threads /\ ltep!Workers = Ids
        BY TypesOfControl DEF Threads, ltep!Workers, Ids
      <3> QED
        BY PhyAssumption, <2>1, <3>1, ltep!HeldAtRest
    <2>3. Lte(k) \in Ptrs /\ Lte(k)[1] = "lte" /\ Lte(k)[2] = k
      BY <2>2, PtrTypes
    <2>4. ~Works(Lte(k))
      BY <2>2, <2>3 DEF Works
    <2>5. stage[Lte(k)] = "off"
      BY <2>3, <2>4, TypesOfWork
    <2>6. Lte(k) \notin tx_buffer
      BY <2>2, <2>5 DEF PhyInv, OrderInv, LteInBuffer
    <2> QED
      BY <2>1, <2>5, <2>6
  <1> QED
    BY <1>1, PhyInvariance, PTL
=============================================================================
