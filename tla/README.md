# srsRAN 4G in TLA+

TLA+ models of the protocol core of srsRAN 4G, the TLC runs that check them on
small instances, and TLAPS proofs for every value of the constants. Paths are
relative to the repository. The models cover

- the acknowledged mode of LTE RLC (`lib/src/rlc/rlc_am_lte.cc`) and the locks
  around it (`lib/src/rlc/rlc.cc`);
- an NR bearer: PDCP NR over RLC UM NR (`pdcp_entity_nr.cc`, `rlc_um_nr.cc`);
- PDCP LTE through handovers (`pdcp_entity_lte.cc`, with `gtpu.cc` and
  `rrc_mobility.cc` of `srsenb`);
- the timers (`lib/include/srsran/common/timers.h`) and the thread pool
  (`lib/src/common/thread_pool.cc`) every layer uses;
- the subframe pipeline of the UE's PHY (`srsue/src/phy/sync.cc`,
  `phy_common.cc`): two pools of workers that transmit in turn.

## Inventory

The repository holds a UE (`srsue`), an LTE base station (`srsenb`), an
experimental NR base station (`srsgnb`), a small core network (`srsepc`) and the
library (`lib`) they share. Data flows RRC/GW - PDCP - RLC - MAC - PHY.

| Part | State | Operations | What is hard | What makes it correct |
|---|---|---|---|---|
| RLC AM LTE transmitter | SDU queue, SDU in transmission, `tx_window`, `retx_queue`, `vt_a`, `vt_s`, poll counters and timer, SDU/segment lists for notification | `write_sdu`, `discard_sdu`, `read_pdu`, `get_buffer_state`, `handle_control_pdu`, poll timer, `reestablish` | three threads; a STATUS PDU is processed SN by SN with the mutex released in between; stale queue entries; a ring one entry too small | nothing the peer may still need is dropped; an SDU is reported delivered only when it is; a bearer with unacknowledged data keeps polling |
| RLC AM LTE receiver | `rx_window`, `rx_segments`, SDU in reassembly, `vr_r`, `vr_mr`, `vr_x`, `vr_ms`, `vr_h`, reordering timer, status request | `handle_data_pdu` (full PDU, segment), reordering timer, `get_status_pdu`, `reestablish` | loss, duplicates, reordering; modular arithmetic; timer against late PDU; STATUS cut to a grant | order of the window variables; every gap is timed, then reported; a STATUS PDU tells the truth |
| Timers | wheel of intrusive lists, free list, clock | `alloc`, `set`, `run`, `stop`, `stop_all`, `deallocate`, `step_all` | callbacks run with the mutex released in the middle of a traversal; wrap-around | a running timer is in one list, expires on time, and not after it was stopped |
| RLC multiplexer | table of bearers, read/write lock, two mutexes per AM bearer | `read_pdu`, `get_buffer_state` (PHY workers); `write_pdu`, `write_sdu`, `add_bearer`, `del_bearer`, `reestablish` (stack) | up-calls into PDCP and RRC with the receiver's mutex held; a reader that reads again; look-ups without the lock | no cycle of waits; no bearer used after it was deleted |
| RLC UM NR | SDU in transmission and its offset, `TX_Next`; reassembly buffers, `RX_Next_Reassembly`, `RX_Timer_Trigger`, `RX_Next_Highest`, timer | `write_sdu`, `read_pdu`, `write_pdu`, reassembly timer, `reestablish` | segments lost, repeated and overtaken; SNs that come again; header lengths | segments say what they carry; an SDU is never put together from two |
| PDCP NR | `tx_next`, `rx_next`, `rx_deliv`, `rx_reord`, reordering queue and timer | `write_sdu`, `write_pdu`, reordering timer | the HFN is guessed; a gap, a late PDU and the timer race | deciphered with the right COUNT, in order, once; nothing waits without a timer |
| PDCP LTE | SN and HFN of both directions, undelivered SDUs and their FMS, received COUNTs | `write_sdu`, `write_pdu`, discard timers, notifications of RLC, status report, handover | discarded SNs, wrap, retransmission by another eNB | HFNs stay together; an SDU is kept until received; the report is true |
| Thread pool | status and thread of each worker, sleeping users | `wait_worker`, `wait_worker_id`, `start_worker`, `release`, `finished`, `stop` | lost notifications; shutdown against users and workers | one owner per worker; nobody sleeps through a notification; `stop` returns |
| UE PHY worker pipeline | two pools, two semaphores, `tx_buffer`, `tx_hold` | sync thread, workers, command thread, `phy::stop` | subframes in parallel that must leave in order; buffers shared by reference; shutdown | each subframe is sent once, in order, with its own signals; `phy::stop` returns |
| RLC AM NR | as AM LTE, with segment NACKs and 12/18-bit SNs | as AM LTE | as AM LTE | as AM LTE |
| RLC UM LTE, TM | reordering window; a queue | write, read, reordering timer | - | - |
| Task queues, buffer pool | queues of closures, free lists | - | - | - |
| UE MAC | random access, HARQ processes, BSR/SR, multiplexing | per TTI | timers of many procedures, races with RRC | each grant is used once |
| UE RRC, NAS | procedures, timers | messages, timers | procedures that overlap or abort each other | one procedure at a time, no dangling context |
| eNB MAC, RRC, S1AP, GTP-U | scheduler, UE contexts, tunnels | per TTI, messages | hand-over races | contexts released once |
| gNB, EPC | contexts | messages | - | - |
| PHY, RF, ASN.1, logging, examples | samples, generated codecs | - | numeric | not a model checker's subject |

`PROJECT.json` lists the same parts with the reasons for those left out, and the
hazards, each at its line.

## Modules

| Module | Models |
|---|---|
| `RlcAmSn` | sequence numbers modulo twice the window: `Add`, `Base` (`RX_MOD_BASE`, `TX_MOD_BASE`) |
| `RlcAmLteRx` | `rlc_am_lte_rx`, and `build_status_pdu` with the status prohibit timer of the same entity |
| `RlcAmLteTx` | `rlc_am_lte_tx`, with `rlc_am_base_tx` and the structures of `rlc_am_data_structs.h` |
| `RlcAmService` | abstract specification: what AM promises PDCP |
| `RlcAmLteLink` | a transmitter, the peer's receiver, MAC between them; refines `RlcAmService` |
| `TimerHandler` | `timer_handler` and its intrusive lists |
| `RlcMux` | `rlc` and the locks of the AM bearers, the threads that take them, what RRC does inside an up-call and what it defers |
| `RlcUmNr` | transmitter and receiver of `rlc_um_nr` as operators on the state of one side |
| `PdcpEntityNr` | `pdcp_entity_nr` |
| `NrUmBearer` | composes both: PDCP NR and RLC UM NR at both ends of a MAC with HARQ processes |
| `PdcpEntityLte` | `pdcp_entity_lte` of an eNB, of the UE and of the target eNB of a handover |
| `ThreadPool` | `thread_pool`, with its condition variables |
| `UePhyWorkers` | two instances of `ThreadPool`, the sync thread, `worker_end`, commands, `phy::stop` |
| `RlcAmServiceProofs` | the proof that the bearer implements `RlcAmService`, and that what it reports delivered was received |
| `RlcAmLteRxProofs`, `RlcAmLteLinkProofs`, `TimerHandlerProofs`, `ThreadPoolProofs`, `UePhyWorkersProofs`, `RlcMuxProofs`, `NrUmBearerProofs` | the theorems on the module of that name |
| `MC...` | instances for TLC |

**Receiver.** The variables carry the code's names. Each handler holds the mutex
throughout and is one action, trailing calls included: `AcceptPdu` stores the
PDU, moves `vr_h` and `vr_ms`, checks the poll bit, reassembles (which moves
`vr_r`) and updates the reordering timer, in that order. Payload bytes are
tokens with an end-of-SDU mark; length indicators and the framing field, which
encode those marks, are left out. A segment list is a set of
`[so, data, lsf]`; that the empty list of an SN stays in the map after its
reassembly is kept, because a later segment of the same SN finds it. The two
loops that skip received SNs are the predicate `SkipsHeld` (the unique number of
SNs they skip), so that no recursion stands in the way of the proofs.

**Transmitter.** `read_pdu`, `write_sdu`, `discard_sdu` and the timer callback
are atomic under the mutex. `handle_control_pdu` is not: one action for its first
section, one per SN (`NackSn`, `AckSn`), one for the end (`StatusDone`), and
`stack` is the point reached, so the other threads act in between. Between the
moment a timer is marked as expired and its callback there is a point too
(`poll_retx_expires`, `timer_expired`). A grant is given as the payload units it
takes, `g` in a PDU and `s <= g` in a segment, whose header is longer. Poll and
retransmission counters stop one above the limit they are compared with.

**Link.** `dataCh` and `statusCh` are MAC and PHY, external to the model. Loss,
reordering, a stale buffer state, a timer that expires while what it waits for
is still under way, and re-establishment are faults, at most `MaxFaults` of
them, of the kinds in `FaultKinds`. A PDU is not overtaken across an
acknowledgement that moved `vt_a`: HARQ delays a block by tens of milliseconds
at most, much less than RLC takes to turn over half its SN space (512 SNs), and
with a window of 2 or 3 any further delay would be aliasing that the real window
rules out. STATUS PDUs are lost but not reordered: two of them are in flight
together only if `t-StatusProhibit` is shorter than a HARQ process, and a status
that arrives after the windows have moved on by a whole turn would be taken for
a new one; the same bound on HARQ excludes it. `reestablish` resets both ends at once, as RRC and the MAC reset do.

**Timers.** Every method is atomic under the mutex. `step_all` is four actions:
it reads the head of the slot, handles one timer per turn (the iterator moves
first), waits for a callback with the mutex released, and advances the clock.
While it waits, every method may run, from the callback or another thread.
`Without(list, ts)`, the list after a series of `pop`s, is a recursive function on
the length of the list, which can be proved about.
Nothing is asked of callers. What they can do to `step_all` meanwhile is kept as
history (`Touch`): `meddled` says that the timer the iterator is at was stopped,
restarted or released, and `missed` holds the timers such a call, or a start for
the very tick being stepped, may have made it pass over. `StoppedStaysSilent` and
`NoOverdue` except these and nothing else; that the code does not do better is
listed under Known disagreements.

**Thread pool.** A method is one critical section, cut in two by a wait. A thread
that waits is asleep until a notify makes it "woken"; spurious wake-ups are not
needed for any behaviour, since every wait tests its condition again. Workers are
created in order, and users call the pool only once it has a worker, as the
callers do.

**UE PHY.** The sync thread, while it camps, takes an LTE worker and, with an NR
carrier, an NR worker per subframe. `buf[w]` is the TTI whose signal is in the
buffer of worker `w`; `tx_buffer` refers to workers, as the code refers to their
buffers, so a worker that is restarted too early changes what is transmitted. A
worker that passes the semaphore is alone until it releases it, which is why the
steps of `worker_end` between the two are few. `LosesSyncWithNr` says whether
synchronization may be lost while an NR carrier is configured; without an NR
carrier it may always be.

**RLC locks.** A method is the sequence of what it does to the locks and to the
table, and a call the rest of that sequence; `valid_lcid` and `try_lock` skip
their bodies. `Deliver` is the up-call from `handle_data_pdu`, with the mutex
held: RRC answers at once, or defers a reconfiguration. The read/write lock is
the default kind of `pthread_rwlock`, in which a reader passes a waiting writer.

**NR bearer.** RLC UM is a set of operators from state to state, each one call
under one mutex; `NrUmBearer` makes the actions. A PDU carries the piece of the
SDU that is in it besides its header, so a header can be compared with the data.
PDCP identifies an SDU by its COUNT; what RLC hands up is an SDU's COUNT and
whether it is whole. Deciphering is right if and only if the COUNT guessed is the
COUNT sent. HARQ lets a PDU be overtaken by fewer PDUs than there are
processes. `Paced` is an assumption on the source: COUNTs in use stay within half
the SN space, which nothing in the code enforces over UM. t-Reordering is finite,
as `configure` asks of UM bearers with a warning. A grant is at least 3 bytes
(`MIN_RLC_PDU_LEN` less the subheader).

**PDCP LTE.** The downlink of one DRB over RLC AM. RLC is the queue `rlc`, in
order and without loss until a handover empties it, and `acks`, the notifications
that have not arrived yet; both count against what RLC may hold. A handover
carries the SN state and, by GTP-U, the undelivered SDUs in order of SN to a new
entity; the UE keeps its entity and sends a status report, or not. New SDUs come
after the forwarded ones. `CrossWrap` says whether a handover may find SNs of
two HFNs in use: the passing run excludes it, and `pdcp_lte_wrap` shows what
happens otherwise.

## Runs

| Run | Checks | Bounds |
|---|---|---|
| `rx` | `RxTypeOK`, `RxWindowOrder`, `RxWindowContents`, `ReorderingTimerRange`, `GapIsTimed`, `HorizonMonotonic`, `StatusIsTrue` | window 3 (6 SNs, so every SN wraps), any PDU at any time with and without poll, two SNs also in segments, one of them cut in two overlapping ways, status grants of all sizes; unbounded length |
| `link` | `TxTypeOK`, `WindowsAgree`, `MissingIsKept`, `SegmentListsAgree`, `NoProtocolFailure`, `NotifiedWasReceived`, `ImplementsService` | window 2, three SDUs of 2, 1 and 1 units (an SDU over several PDUs, several SDUs in a PDU, and four PDUs: the SN space is used up once), a queue of 2 that overflows, two faults of any kind |
| `live` | `DeliveredUnlessStuck` under fairness | window 3, two SDUs, one fault of any kind but re-establishment |
| `timers` | `TimerTypeOK`, `WheelHoldsRunning`, `FreeListIsUnallocated`, `NoOverdue`, `StoppedStaysSilent` | three timers (the iterator's, one behind it and the one called back), one of them beyond the initial capacity, two slots, six ticks, durations for the next tick and above one turn of the wheel |
| `pool` | `NoLostWakeup`, `OneOwner`, `StopIsFinal`, `StopReturns` (fair) | two workers, three users (two can sleep when a worker becomes free), unbounded length |
| `ue_phy` | `SentInSequence`, `ConfiguredAtRest`, `StartedIsSent`, `PhyStopReturns` (both fair) | two workers in each pool (two subframes overlap), two subframes, one command over all workers, stop at any point, with and without an NR carrier |
| `rlc_mux` | `NoCircularWait`, `NoUseAfterFree` | two PHY workers and the stack thread, an SRB and a DRB that comes and goes, the BSR callback set, two deferred tasks; unbounded length |
| `nr_um` | `SegmentsDescribeData`, `DeliveredIntact`, `HeldBackIsTimed`, `DeliveredInOrder` | 4 RLC SNs (window 2), 8 PDCP SNs, nine SDUs of 6 bytes (both SNs wrap), grants for two or three segments or a whole SDU, two HARQ processes, one loss or repetition, one re-establishment |
| `pdcp_lte` | `DecipheredRight`, `KeptUntilReceived`, `FirstMissingIsTrue`, `InOrderOnce` | 8 SNs, 18 SDUs (two wraps), RLC holds 3, one discard or failure, two handovers, each between the wraps |

In `pdcp_lte`, `RlcCapacity + MaxDiscards <= NofSns / 2` stands for the window of
RLC AM (512 of 4096 PDCP SNs): with more than half of the SN space under way
the HFN of the UE goes wrong, as PDCP LTE itself says in `store_sdu`.

Views leave out history that influences nothing (`RxView`: STATUS PDUs in flight
and delivered SDUs of the receiver alone; `LinkView`: retransmission counts).
`TimerView` counts how many timers are in each state instead of naming them, where
neither lists nor the iterator tell them apart.
Deadlock is checked in `rx`, `timers` and `rlc_mux`, which never rest. The other
systems may: a bearer rests when every SDU is delivered and the faults are used
up, a pool and the PHY when they are stopped. Every property has a mutant, a
plausible bug in a mapped definition, with which TLC finds it violated; the
mutated operators stand before the definition they change.

### Known disagreements

Where the code does not do what a comment, an assertion or a test of it says.
Three are runs that are expected to end in a violation:

| Run | Property | What happens |
|---|---|---|
| `ue_phy_leak` | `PhyStopReturns` | synchronization is lost with an NR carrier: the LTE worker is released, the NR worker is not. With all of them gone the sync thread sleeps in `wait_worker`, and `phy::stop` waits for it for ever |
| `um_header` | `SegmentsDescribeData` | `head_len_segment` is measured with a 6-bit SN; with 12 bits a segment that leaves one byte behind is marked as the last one, and the byte goes out under the next SN |
| `pdcp_lte_wrap` | `KeptUntilReceived` | a status report clears all SNs numerically below FMS, also those behind a wrap, which the UE never received |

The others can be seen by checking one property of a module under the constants
given (window 3, SDUs of 2 and 1 units, `FaultKinds = {"loss"}`, no polling but at
the end of the queues unless said otherwise):

| Property | Instance | What happens |
|---|---|---|
| `RequestOnlyClearedByStatus` (`RlcAmLteRx`) | as the run `rx` | a status request is cleared although no STATUS PDU fits the grant |
| `ExpiredPollReportsData` (`RlcAmLteLink`) | `Discardable = {2}`, one fault | `timer_expired` counts the empty slot of a discarded SDU as data and schedules nothing; the bearer reports no data |
| `ExpiredPollReportsData` (`RlcAmLteLink`) | no discard, two faults | an acknowledged SN heads the retransmission queue: `get_buffer_state` is 0, so MAC never calls `read_pdu`, which would drop it |
| `LastPduIsPolled` (`RlcAmLteLink`) | one fault | a retransmitted PDU decides its poll bit before its entry leaves the queue, so the last one carries none |
| `NoRetxOverflow` (`RlcAmLteLink`) | five SDUs of 1 unit, `PollPdu = 2`, `MaxRetx = 9`, faults `loss` and `stale`, three of them | all SNs but one are NACKed, the window is full, the poll timer expires: `push` on a full ring |
| `StoppedStaysSilent` without `meddled` (`TimerHandler`) | as the run `timers` | a callback stops the timer the iterator is at, the next one of the slot; `step_all` calls it back nevertheless |
| `NoOverdue` without `missed` (`TimerHandler`) | as the run `timers` | a callback restarts a timer with duration 1 into the tick being stepped; or it stops the timer the iterator is at, which has no successor any more, and the timers behind it are passed over. Timeouts are compared for equality: they come due a whole turn of the clock later |

The second to fourth are also why `DeliveredUnlessStuck` allows for `Stuck`: the
transmitter holds unacknowledged PDUs, reports no data and runs no timer. New
SDUs from PDCP free it.

Met while modelling, and kept in the models as the code has them: RLC UM NR, on
completing an SDU, moves `RX_Next_Reassembly` to the next SN it holds and so
refuses SNs in between whose segments are still in a HARQ process; PDCP LTE's
`increment_sn` steps over the last SN of a cycle, its store tests allow one SN
more than half of the space, forwarded SDUs are ciphered with the HFN of now
whatever their SN, and the status bitmap is read without its every eighth bit;
PDCP NR verifies integrity on reception when it is enabled for transmission.

**Fairness** (`LinkFairness`). MAC gives a bearer that reports data again and
again a grant large enough for its largest PDU (strong fairness: between two
grants the buffer state may go to 0; the schedulers of `srsenb` and the
multiplexer of `srsue` serve every channel that reports data); it sends a
status that is due, and delivers what it carries and does not lose (weak
fairness). A running timer expires, because `step_all` is called every TTI. The
stack thread finishes the handler it is in. Nothing is assumed of PDCP.

`PoolFairness`: threads are scheduled, `work_imp` ends, and a user that has a
worker starts or releases it; nobody has to call the pool or to stop it.
`PhyFairness`: the same for the sync thread, the workers, the command thread and
the thread in `phy::stop`; the radio returns a subframe or an error every
millisecond; no command has to come and `phy::stop` need not be called. Weak
fairness per thread is what a scheduler gives; no notification is assumed to
reach a particular sleeper.

## Proofs

Everything here is proved for every value of the constants that satisfies the
named assumptions, and from the specification without its fairness. The
assumptions say what the constants are; none restricts what the code may do.
One component has theorems with a hypothesis besides: the NR bearer, with 6-bit SNs, or
integrity protection or a bound on what is in flight or lost in a row (`InReach`).

Two arguments return in most of them. An induction over data (a loop that skips
received SNs, the elements of a list, the PDUs of a status) is replaced by the
least or greatest element of a set of numbers with some property: `LeastElement`
and `GreatestElement` are proved from the well-foundedness of `<` on `Nat` in the
modules that use them first. And a loop of the code
appears as a predicate on its result (`SkipsHeld`, `FirstOpen`), of which a lemma shows that it has one solution, and which.

### Receiver (`RlcAmLteRxProofs`)

Assumptions: the window is positive, a PDU has an SN of the SN space and a poll
bit, a grant is a natural number (`WindowAssumption`, `PduAssumption`,
`GrantAssumption`).

- `RxInvariance`: `RxInv`, the conjunction of `RxWindowTypeOK`, `RxWindowOrder`,
  `RxWindowContents`, `ReorderingTimerRange` and `GapIsTimed`, is invariant; four
  theorems state the parts that the run `rx` checks.
- `HorizonMonotonicHolds`: an action property of the same run.
- `RxTypeCorrect`: `RxTypeOK`, with the types of the payload, which rest on
  `RxInv` because a PDU is stored under an SN of the window.
- `StatusIsTrueHolds`: a STATUS PDU, cut to a grant of any size, NACKs exactly the
  missing SNs below its ACK_SN. `CutExists` shows that the cut the code makes is
  possible, `MissingGrows` that a shorter status has fewer NACKs.

None of the parts of `RxInv` is inductive alone. That `vr_ms <= vr_h` survives the
expiry of the timer needs the range of `vr_x`; that range needs that `vr_r`, while
it moves over received SNs, does not pass `vr_x` without the timer being stopped;
`vr_ms` may already be beyond `vr_x` when the timer expires, and that the loop
then brings it at least back to where it was needs the last conjunct of
`ReorderingTimerRange` (all SNs between are held), and hence
`RxWindowContents`; `GapIsTimed` needs all of them to know that stopping the
timer leaves no gap behind. The argument is in terms of distances from `vr_r`.
Lemmas on `Add` and `Base` (`BaseLinear`, `BaseInjective`, `BaseOfAdd`,
`BaseShift`...) do the modular arithmetic once; `SkipBound` says that a loop over
received SNs ends at `vr_h` at the latest; then there is one lemma per action,
combined in `StepInv`.

### Bearer (`RlcAmLteLinkProofs`)

For every window size, any SDUs, any number of faults and of PDUs in flight:

- `WindowsAgreeHolds`: seen from `vt_a`, the receiver's `vr_r`, `vr_ms` and `vr_h` are
  in order and none is beyond `vt_s`, at most a window ahead, through losses,
  reordering, retransmission and re-establishment;
- `MissingIsKeptHolds`: what the peer misses is in `tx_window`;
- `NoProtocolFailureHolds`: `handle_control_pdu` never finds `vt_a` outside
  `tx_window`, although MAC reads PDUs between its sections;
- `TxTypeCorrect`: `TxTypeOK`, the state of a STATUS PDU that is half worked through
  included: what MAC does between its SNs leaves them SNs;
- `SegmentListsAgreeHolds`: the two lists a PDU segment is in agree whenever the
  mutex is free, and no SDU is forgotten before its last PDU is acknowledged.

`LinkInvariance` proves the inductive invariant `LinkWindowInv`. It relates the ends
through what is between them: `DataInFlight` (a PDU was sent from within the window
of its time, at most a window ago, and while it is in flight the peer has received
nothing beyond that window), `StatusInFlight` (a status acknowledges only what was
received; the SN at which it would leave `vt_a` can be sent again; it acknowledges
nothing at which a later status would leave it), and `StatusInWork`, the same
for the status that `handle_control_pdu` is in the middle of: the mutex is
released between two SNs, so the rest of that status must stay true while the
other threads move `vt_s` and the receiver moves on. `QueueOK` bounds the retransmission
queue. All distances are from `vt_a`; `AckSnAtVtA`, the step that
moves `vt_a` by one, is the hard case, since every distance shrinks by one and
one SN leaves the window. Receiver steps use `RxInv` and the lemmas of
`RlcAmLteRxProofs`.

The last two theorems come from `TxInv`, which adds `TxTypes` and `ListsInv` to
`LinkWindowInv`. `SegmentListsAgree` alone is not inductive: an SDU without a list
that is still in a PDU of the window would get a list that lacks that PDU with its
next one, so `ListsInv` says that what the window carries has a list. That a
new PDU overwrites none of the window is `WindowsAgree` (`NewPduSegments`).

### What the bearer promises (`RlcAmServiceProofs`)

For every window size, any SDUs and grants, any number of faults:

- `ImplementsServiceHolds`: the bearer refines `RlcAmService`. What the peer's PDCP
  gets is, whole, once and in order, what `write_sdu` took, less what `discard_sdu`
  took out of the queue and what `reestablish` dropped;
- `NotifiedWasReceivedHolds`, an action property: when an SDU is reported to PDCP as
  delivered, the peer has every byte of it, in its PDCP, in `rx_sdu` or in `rx_window`.

`LinkWindowInv` says where PDUs are and nothing of what they carry. `StreamInv` adds the
payload. A *cursor* `[done, part]` is a place in the bytes of the accepted SDUs, and
`Span(A, s, c, d)` says that the tokens `s` are the bytes of the SDUs `A` from cursor
`c` to cursor `d`, each end of an SDU marked and no other. The invariant is that there is a
cursor `c[sn]` for every SN: what precedes `c[vr_r]` has been delivered, but for the
begun SDU in `rx_sdu` (`AtRx`); a PDU between `vr_r` and `vt_s`, which the receiver
holds or the transmitter keeps (`MissingIsKept`), carries the span from `c[sn]` to
`c[sn + 1]`; and `tx_sdu` with the queue hold what follows `c[vt_s]` (`AtTx`). Beside
it, what is in the air, waits for retransmission or lies in `rx_segments` is true: a
segment with offset `so` is the part of the PDU of its SN that begins there
(`PdusTrue`, `SegmentsTrue`, `EntriesOK`), and the two windows agree where both have an
SN (`WindowsSame`). The SN space is the hard part here: an SN comes again, and that a
late segment is not taken for one of its successor follows from the
bounds of `LinkWindowInv`. The cursors exist but no variable holds them, so each
action that moves one names the new function: `build_data_pdu` sets `c[vt_s + 1]`
behind what it packs, `reassemble_rx_sdus` moves `vr_r` and leaves `c` as it is,
`discard_sdu` removes an SDU that no cursor has reached, `reestablish` starts from the
SDUs delivered. What the loops over SDUs, segments and tokens compute is argued by
spans that are cut and joined (`Concats`, `PacksCut`) and by least elements. Each action
then is a step of the service or stutters; only a PDU that lets `vr_r` move can deliver.

`NotifyInv` is about the lists behind `notify_delivery`: an SDU that waits for
acknowledgements has left the queue, and nothing of it is left in `tx_sdu` once it is
marked as fully sent; an SDU about to be reported has left both and is in no PDU of
`tx_window`. Each of its bytes then precedes `c[vt_s]` (`ReportedIsHeld`), so by
`StreamInv` it has been delivered, is in `rx_sdu`, or is in a PDU ahead of `vr_r`; that
PDU is not in the transmitter's window, so it is in the receiver's. That MAC reads
new PDUs between two SNs of a STATUS PDU is harmless, because an SDU that has ended
cannot enter a new PDU (`BuildNotify`).

### Timers (`TimerHandlerProofs`)

For any number of timers, slots and ticks (at least two ticks, or no duration
exists at all):

- `TimerInvariance`, `TimerTypeCorrect`, `WheelHoldsRunningHolds`,
  `FreeListIsUnallocatedHolds`: whatever the callers do, also in the middle of
  `step_all`, each list holds once each running timer of its slot and nothing else,
  the count of running timers is right, and the free list holds exactly the
  timers without an owner;
- `NoOverdueHolds`: no timer is passed over that a call during a callback did not
  start for the tick being stepped, or make `step_all` lose by touching the timer its
  iterator was at;
- `StoppedStaysSilentHolds`: a timer that is called back has an owner, and ran until
  it expired, unless it is the one the iterator was at when such a call touched it.

Neither asks anything of the callers: what the iterator can lose is what the two
histories say, for any number of timers and calls. `CallerInv` adds where `step_all`
is: every timer that is due and not missed stands at or behind the iterator
(`Before`), whatever list that is in by now; the iterator is at a running timer
unless `meddled`; and a timer with a callback has an owner. `MethodKeeps` is the step
of any method, with the set of timers it touches. `WithoutIsLeft` and
`WithoutProperties` say what is left of a list after `pop`s, and that its order is
kept.

### Thread pool (`ThreadPoolProofs`)

For any number of workers and users: `NoLostWakeupHolds`, `OneOwnerHolds` and the
action property `StopIsFinalHolds`, from `PoolInvariance`. `PoolInv` relates the
status of a worker, the place of its thread and the user that holds it; a user
sleeps only while no worker it could take is idle (`SleepsOnBusy`), which is
stronger than what `NoLostWakeup` says of the worker that
`find_finished_worker` would return, and is needed because any of them may be
taken by another user.

The last part of the module says what each operation does to the workers that
were started and have not begun (`Starting`) and to those inside `work_imp`
(`Working`): this is what a user of the pool relies on, and what the next proof
uses.

### UE PHY (`UePhyWorkersProofs`)

For any number of workers, subframes and commands, with and without an NR
carrier, whether or not workers are lost, and wherever `phy::stop` comes in:

- `SentInSequenceHolds`: subframes are transmitted in the order in which they were
  started, none twice, each with the signals of its own TTI and, with an NR
  carrier, with that of its NR worker;
- `ConfiguredAtRestHolds`: a worker that the command thread has reserved is not in
  `work_imp` and not in `tx_buffer`.

Both pools are instances of `ThreadPool`, so `ThreadPoolProofs` is instantiated
twice and its lemmas give the invariants of both. `PhyInv`
(`PhyInvariance`) adds what holds between them. The workers in
`semaphore` are those that were started and have not had their turn
(`QueuedArePending`); this is why `wait` never lets a worker pass for the reason
that the queue is empty. They stand in the order of TTI, the NR worker before
the LTE worker of the same TTI (`InOrder`, `BelowSync`). With an NR carrier every LTE
worker in the queue, or about to be started, has its NR worker in front of it or
in `tx_buffer` (`NrBefore`), and the converse (`LteAfter`). `tx_buffer` is empty but
between the two turns of a subframe, when it holds the NR signal of the TTI that
is next (`BufferedForFirst`), and that NR worker cannot write its buffer again
because it waits for `tx_hold`. `UnsentAreQueued` and `SentRight` relate the
histories to the queue. `StopsLast` is where `phy::stop` enters: a pool
stops only when the sync thread has ended and the queue is empty, so no started
worker is stopped before its turn. `NrTurnInv` and `TransmitInv` are the hard steps.

### RLC locks (`RlcMuxProofs`)

For any number of PHY workers, logical channels and deferred tasks, with and
without the BSR callback:

- `NoCircularWaitHolds`: no set of threads waits within itself;
- `NoUseAfterFreeHolds`: no thread holds, or is about to take, a mutex of a bearer
  that is not in `rlc_array`.

A call is the rest of a sequence of instructions, so an invariant cannot list the
places where a thread may be. It uses proof outlines instead: `Code(k, P, c, Q)`
says that code `c` takes a thread of kind `k` (PHY or stack) from holding `P` to
holding `Q`, through states each of which allows the next instruction, branches of
`valid_lcid` and `try_lock` included. `CodeConcat` composes outlines,
`Suffix` cuts them, and one lemma per method (`ReadPduCode`, `WritePduCode`,
`DeferredCode`...) builds its outline from those of the methods it calls. `MuxInv`
(`MuxInvariance`) says that the rest of every call has an outline from what its
thread holds now to holding nothing.

`Pre` is the discipline that the outlines establish. A thread with the mutex of a
transmitter waits for nothing; a PHY worker with any mutex waits for nothing; the
mutex of a receiver is waited for by the stack thread only, when it has none; the
write lock is asked for by the stack thread only, when it holds nothing.
`NoCircle` concludes that a thread of a circle waits for the read/write lock, and
hence for the stack thread, which does not wait for itself. Without `try_lock` in
`get_status_pdu` the first rule fails. A bearer may be used by a thread that found
it in the table while it reads, or by the stack thread, which alone erases, with
the write lock and no mutex held.

### NR bearer (`NrUmBearerProofs`)

For any SDUs, grants, numbers of SNs, HARQ processes, losses and repetitions:

- `RlcTypeCorrect`: the types of both ends of RLC, for both header lengths;
  `BearerInvariance`: the inductive invariant `BearerInv`, under the hypothesis of the
  last three;
- `HeadersAreTrue` and `SegmentsDescribeDataHolds`, with 6-bit SNs: a header says
  what the PDU carries. With 12 bits it is false (the run `um_header`);
- `HeldBackIsTimedHolds`, `DeliveredIntactHolds` and `DeliveredInOrderHolds`: while
  PDCP holds an SDU back its timer runs for the gap in front of it, and it hands up
  SDUs whole, deciphered with their COUNT, in order and once. They ask of every state
  that it is `InReach`; the first and the last of them also hold, whatever RLC
  delivers, if the bearer has integrity protection, and `DeliveredIntactHolds` does
  not ask for it.

With integrity protection a wrong guess of the COUNT, or an SDU put together from
two, is dropped, so nothing need be known of what RLC delivers. Without it three
things must be. Segments must be true, hence 6-bit SNs. No SDU may be older than
half the PDCP SN space when it arrives: what waits in RLC and in the processes must
fit into it, which is so in every configuration (the shortest PDCP SN has 12 bits,
half of them 2048; RLC queues 256 SDUs by default, and there are 8 to 16 processes).
And RLC must put together no SDU from segments of two, which nothing in the code
enforces: a receiver that gets no segment of so many SDUs in a row that their SNs
come again still holds the old segments. `LossesInReach` is what that takes of the MAC:
of the SDUs sent in segments since the latest one of which the receiver has got any
segment, the lost first and last segments and the HARQ processes are fewer than the
64 SNs. It is a condition on each state and not on the life of the bearer: losses
before the receiver last moved its window no longer count, the SNs may come again
any number of times, and repetitions never count. In `nr_um` it holds of every state.

`PdcpRxOK` (the order of `rx_deliv`, `rx_reord`, `rx_next`, what the queue holds,
and when the timer runs) is inductive alone. `RlcTrue` says that every segment in
the air or in a buffer carries what its header says, from the SDU it belongs to.
`RlcOK` relates both ends. It stays true for as long as the states are in reach; with
integrity protection `BearerInv` does without it. `WindowOK` places the reassembly window below the
transmitter's `TX_Next`; `Recent` bounds the age of a PDU in a process by the
number of PDUs that overtook it; `OneSdu` says that under one SN there is one SDU
in the window, the air and the transmitter together; `FewLost` finds, for every SN
from `RX_Next_Highest` to `TX_Next`, a first and a last segment that are still in a
process or lost, so that there are few such SNs (`UnseenAreFew`). The queue is sorted and buffers
are walked by folds, over which the proofs argue by least counterexample.

### Only model-checked

- Everything under fairness (`DeliveredUnlessStuck`, `StopReturns`,
  `StartedIsSent`, `PhyStopReturns`): TLAPS does not handle it.
- PDCP LTE. `DecipheredRight`, on which the other three invariants rest, is not true
  for all constants. A status report leaves out every eighth SN of its bitmap
  (`b % 8 # 7`), so the SDU of that SN is sent again by each eNB in turn without
  need, and each handover may leave it further behind; that it never lags
  by half the SN space depends on `RlcCapacity`, `MaxDiscards`, `MaxHandovers` and
  `NofSns` together, on more than the bound that the code gives the window of RLC.

## Not modelled

RLC AM LTE: length indicators and header bits; the pool of PDU segments (16384)
and failed buffer allocations; NACKs of segments, which the transmitter
understands but this receiver never sends; `stop` without re-establishment; the
BSR and metrics callbacks; the opposite direction of a bearer. What RRC does
after `max_retx_attempted` and `protocol_failure` is recorded as a flag only.

RLC multiplexer: suspend and resume, multicast bearers, `change_lcid`. PDCP NR:
the discard timers, which only AM bearers have. PDCP LTE: SRBs, bearers over UM,
the uplink, change of keys; the loss of an SDU that RLC has acknowledged but
still holds out of order when it is re-established. UE PHY: cell search and SFN
synchronization, which use no worker; a UE in standalone NR.

RLC AM NR would repeat the windows of AM LTE with ranges of NACKs. RLC UM LTE, TM,
the task queues and the buffer pool are left out as the smaller parts.

Most of the repository is no subject for a model checker. Of its 919 000 lines
the ASN.1 codecs, generated, are more than half; the signal processing of
`lib/src/phy` and `srsenb/src/phy`, test vectors, drivers, logging and examples
take most of the rest. The stacks' procedures (UE RRC and NAS, eNB RRC and S1AP,
MME) run on one thread each over those generated messages; their state is wide
and their interleavings few. The share of all lines that the models translate is
therefore small, and stays so; it is the part where threads, timers, loss and
wrap-around meet.

## Plan

1. Proofs for PDCP LTE: the bound on how far an SDU may lag, then
   `FirstMissingIsTrue` under it.
2. RLC AM NR; random access and HARQ of the UE MAC.
