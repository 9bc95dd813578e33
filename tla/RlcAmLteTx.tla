----------------------------- MODULE RlcAmLteTx -----------------------------
(***************************************************************************)
(* The transmitting side of one LTE RLC AM entity: class rlc_am_lte_tx of  *)
(* lib/src/rlc/rlc_am_lte.cc with the structures of rlc_am_data_structs.h. *)
(*                                                                         *)
(* Three threads meet in it.  PDCP calls write_sdu and discard_sdu; a PHY  *)
(* worker calls read_pdu, which holds the mutex throughout; the stack      *)
(* thread runs timer callbacks and handle_control_pdu, which takes and     *)
(* releases the mutex once per SN it acknowledges.  `stack' is the point   *)
(* that thread has reached, so the other two run between its sections.     *)
(*                                                                         *)
(* Payload is counted in abstract units; a byte is <<sdu, k>>, a token     *)
(* [b, e] a byte with its end-of-SDU mark (see RlcAmLteRx).                *)
(***************************************************************************)
EXTENDS RlcAmSn, Sequences, SequencesExt, FiniteSets

CONSTANTS
  NofSdus,       \* bound: PDCP writes the SDUs 1 .. NofSdus, their PDCP SNs
  SduLen,        \* SduLen[i]: length of SDU i in units
  Discardable,   \* the SDUs whose PDCP discard timer may expire
  QueueLen,      \* tx_queue_length
  Grants,        \* payload units a MAC grant takes in an AMD PDU
  PollPdu,       \* poll_pdu, 0: not configured
  PollByte,      \* poll_byte in units, 0: not configured
  PollPeriod,    \* poll_periodicity (8 in the code)
  MaxRetx,       \* max_retx_thresh
  MaxInFlight    \* bound: PDUs that MAC has in flight

ASSUME TxAssumption ==
  /\ QueueLen \in Nat \ {0}
  /\ \A i \in 1 .. NofSdus : SduLen[i] \in Nat \ {0}
  /\ NofSdus \in Nat /\ Discardable \subseteq 1 .. NofSdus /\ Grants \subseteq Nat
  /\ PollPdu \in Nat /\ PollByte \in Nat /\ PollPeriod \in Nat \ {0}
  /\ MaxRetx \in Nat /\ MaxInFlight \in Nat \ {0}

Null == 0        \* the slot of a discarded SDU in the queue
NoByte == <<0, 0>>

VARIABLES
  offered,             \* SDUs that PDCP has written so far, in order
  accepted,            \* history: those the queue took and nobody dropped since
  tx_sdu_queue,        \* SDUs, or Null
  tx_sdu,              \* tokens left of the SDU being transmitted
  vt_a,                \* lowest SN not acknowledged
  vt_s,                \* next SN
  tx_window,           \* SN |-> [data, retx_count, sdus]
  retx_queue,          \* sequence of [sn, is_segment, so_start, so_end]
  retx_overflow,       \* history: push on a full retx_queue
  poll_sn, pdu_without_poll, byte_without_poll,
  poll_retx_timer,     \* "stopped", "running" or "expired"
  undelivered,         \* PDCP SN |-> [fully_txed, sns]: SNs that carry it, unacknowledged
  notify_info_vec,     \* PDCP SNs to report when the status is processed
  max_retx_signalled,  \* history: max_retx_attempted and notify_failure were called
  protocol_failure,    \* history: rrc->protocol_failure was called
  stack,               \* what the stack thread is doing
  dataCh               \* PDUs handed to MAC, in flight: [pdu, vt_a, retx]

sduVars == <<offered, accepted, tx_sdu_queue, tx_sdu>>
retxVars == <<tx_window, retx_queue, retx_overflow, max_retx_signalled>>
pollVarsTx == <<poll_sn, pdu_without_poll, byte_without_poll, poll_retx_timer>>
ackVars == <<undelivered, notify_info_vec, protocol_failure>>
txVars == <<sduVars, vt_a, vt_s, retxVars, pollVarsTx, ackVars, stack, dataCh>>

Idle == [pc |-> "idle"]

TxInit ==
  /\ offered = 0 /\ accepted = <<>> /\ tx_sdu_queue = <<>> /\ tx_sdu = <<>>
  /\ vt_a = 0 /\ vt_s = 0 /\ tx_window = <<>>
  /\ retx_queue = <<>> /\ retx_overflow = FALSE
  /\ poll_sn = 0 /\ pdu_without_poll = 0 /\ byte_without_poll = 0
  /\ poll_retx_timer = "stopped"
  /\ undelivered = <<>> /\ notify_info_vec = {}
  /\ max_retx_signalled = FALSE /\ protocol_failure = FALSE
  /\ stack = Idle /\ dataCh = <<>>

TX_MOD_BASE(sn) == Base(sn, vt_a)

(* Mutant: off by one. *)
WindowOverfull == TX_MOD_BASE(vt_s) > WINDOW

window_full == TX_MOD_BASE(vt_s) >= WINDOW

-----------------------------------------------------------------------------
(* PDCP's side. *)

(* PDCP writes its SDUs in the order of their SNs; a full queue drops one. *)
write_sdu ==
  /\ offered < NofSdus
  /\ offered' = offered + 1
  /\ IF Len(tx_sdu_queue) < QueueLen
     THEN /\ tx_sdu_queue' = Append(tx_sdu_queue, offered + 1)
          /\ accepted' = Append(accepted, offered + 1)
     ELSE UNCHANGED <<tx_sdu_queue, accepted>>
  /\ UNCHANGED <<tx_sdu, vt_a, vt_s, retxVars, pollVarsTx, ackVars, stack, dataCh>>

(* Only an SDU that is still in the queue can be discarded; its slot stays. *)
discard_sdu(i) ==
  /\ i \in Discardable
  /\ \E k \in 1 .. Len(tx_sdu_queue) :
       /\ tx_sdu_queue[k] = i
       /\ tx_sdu_queue' = [tx_sdu_queue EXCEPT ![k] = Null]
  /\ \E p \in 1 .. Len(accepted) : accepted[p] = i /\ accepted' = RemoveAt(accepted, p)
  /\ UNCHANGED <<offered, tx_sdu, vt_a, vt_s, retxVars, pollVarsTx, ackVars, stack, dataCh>>

-----------------------------------------------------------------------------
(* The retransmission queue.  A call may count, push and drop several times,
   so the steps are functions of the record r of the variables they change. *)

RetxState == [win |-> tx_window, q |-> retx_queue, ovf |-> retx_overflow,
              max |-> max_retx_signalled]

SetRetx(r) ==
  /\ tx_window' = r.win
  /\ retx_queue' = r.q
  /\ retx_overflow' = r.ovf
  /\ max_retx_signalled' = r.max

(* pdu_retx_queue::push on a ring that is full when WINDOW - 1 entries are in
   it.  The code asserts that it is not; retx_overflow records that it was, and
   the model goes on as a build without assertions does: the write index meets
   the read index, and the ring looks empty.                               *)
Push(r, entry) ==
  IF Len(r.q) = WINDOW - 1 THEN [r EXCEPT !.q = <<>>, !.ovf = TRUE]
                           ELSE [r EXCEPT !.q = Append(@, entry)]

(* retx_count is only compared with MaxRetx: one value beyond it is enough. *)
CountRetx(r, sn) ==
  LET count == r.win[sn].retx_count + 1
  IN  [r EXCEPT !.win[sn].retx_count = IF count > MaxRetx THEN MaxRetx + 1 ELSE count,
                !.max = @ \/ count = MaxRetx]

ScheduleRetx(r, sn) ==
  Push(CountRetx(r, sn),
       [sn |-> sn, is_segment |-> FALSE, so_start |-> 0, so_end |-> Len(r.win[sn].data)])

retransmit_pdu(r, sn) == IF sn \in DOMAIN r.win THEN ScheduleRetx(r, sn) ELSE r

(* build_retx_pdu first drops the entries of SNs that left the window; if none
   remains it schedules vt_a.                                              *)
DropAcknowledged(r) ==
  LET keep == {k \in 1 .. Len(r.q) : r.q[k].sn \in DOMAIN r.win}
      first == CHOOSE k \in keep : \A j \in keep : k <= j
  IN  IF keep = {} THEN retransmit_pdu([r EXCEPT !.q = <<>>], vt_a)
                   ELSE [r EXCEPT !.q = SubSeq(@, first, Len(@))]

-----------------------------------------------------------------------------
(* Polling. *)

poll_required(pdus, bytes, sduq, retxq) ==
  \/ PollPdu > 0 /\ pdus > PollPdu
  \/ PollByte > 0 /\ bytes > PollByte
  \/ poll_retx_timer = "expired"
  \/ window_full
  \/ sduq = <<>> /\ retxq = <<>>
  \/ PollPdu = 0 /\ PollByte = 0 /\ vt_s % PollPeriod = 0

(* The two counters are only compared with their limits: one value beyond the
   limit is enough, and none if the limit is not configured.               *)
Capped(n, limit) == IF limit = 0 THEN 0 ELSE IF n > limit THEN limit + 1 ELSE n
CountPdu(pdus) == Capped(pdus + 1, PollPdu)
CountBytes(bytes, n) == Capped(bytes + n, PollByte)

(* The counters and the timer after a PDU with poll bit p. *)
UpdatePoll(p, pdus, bytes) ==
  /\ pdu_without_poll' = IF p THEN 0 ELSE pdus
  /\ byte_without_poll' = IF p THEN 0 ELSE bytes
  /\ poll_retx_timer' = IF p THEN "running" ELSE poll_retx_timer

Send(pdu, retx) == dataCh' = Append(dataCh, [pdu |-> pdu, vt_a |-> vt_a, retx |-> retx])

AmdPdu(sn, p, data) ==
  [rf |-> FALSE, sn |-> sn, p |-> p, so |-> 0, data |-> data, lsf |-> FALSE]

-----------------------------------------------------------------------------
(* MAC's side: read_pdu with a grant of g units in an AMD PDU and of s units
   in a PDU segment, whose header is longer.                               *)

(* The whole PDU fits.  Its poll bit is decided with its entry still in the
   queue.                                                                  *)
RetxWhole(r) ==
  LET head == Head(r.q)
      data == r.win[head.sn].data
      bytes == CountBytes(byte_without_poll, Len(data))
      p == poll_required(CountPdu(pdu_without_poll), bytes, tx_sdu_queue, r.q)
  IN  /\ SetRetx([r EXCEPT !.q = Tail(@)])
      /\ UpdatePoll(p, CountPdu(pdu_without_poll), bytes)
      /\ Send(AmdPdu(head.sn, p, data), TRUE)
      /\ UNCHANGED <<sduVars, vt_a, vt_s, poll_sn, ackVars, stack>>

(* build_segment: the next s units of it, and the rest stays at the head of
   the queue.  The poll bit is decided after the queue is updated.         *)
RetxSegment(r, s) ==
  LET head == Head(r.q)
      data == r.win[head.sn].data
      start == IF head.is_segment THEN head.so_start ELSE 0
      limit == IF head.is_segment THEN head.so_end ELSE Len(data)
      end == IF s < limit - start THEN start + s ELSE limit
      last == end = Len(data)
      q == IF last \/ head.so_end = end
           THEN Tail(r.q)
           ELSE [r.q EXCEPT ![1].is_segment = TRUE, ![1].so_start = end]
      bytes == CountBytes(byte_without_poll, Len(data))
      p == poll_required(CountPdu(pdu_without_poll), bytes, tx_sdu_queue, q)
  IN  /\ SetRetx([r EXCEPT !.q = q])
      /\ UpdatePoll(p, CountPdu(pdu_without_poll), bytes)
      /\ Send([rf |-> TRUE, sn |-> head.sn, p |-> p, so |-> start,
               data |-> SubSeq(data, start + 1, end), lsf |-> last], TRUE)
      /\ UNCHANGED <<sduVars, vt_a, vt_s, poll_sn, ackVars, stack>>

Tokens(i) == [k \in 1 .. SduLen[i] |-> [b |-> <<i, k>>, e |-> k = SduLen[i]]]

QueuedTokens(q) ==
  FlattenSeq([k \in 1 .. Len(q) |-> IF q[k] = Null THEN <<>> ELSE Tokens(q[k])])

(* build_data_pdu: what is left of tx_sdu, then SDUs of the queue as long as
   there is room.  Slots of discarded SDUs are only removed on the way to an
   SDU, so a queue with nothing else in it yields a PDU without payload, which
   the peer reassembles into an SDU without bytes.                         *)
BuildDataPdu(r, g, pdus, bytes0) ==
  LET stream == tx_sdu \o QueuedTokens(tx_sdu_queue)
      len == IF g < Len(stream) THEN g ELSE Len(stream)
      taken == SubSeq(stream, 1, len)
      sdus == {t.b[1] : t \in ToSet(taken)}
      ended == {t.b[1] : t \in {u \in ToSet(taken) : u.e}}
      slots == {k \in 1 .. Len(tx_sdu_queue) : tx_sdu_queue[k] \in sdus}
      readTo == IF slots = {} THEN 0 ELSE CHOOSE k \in slots : \A j \in slots : j <= k
      queue == SubSeq(tx_sdu_queue, readTo + 1, Len(tx_sdu_queue))
      begun == {k \in len + 1 .. Len(stream) : stream[k].b[1] \in sdus}
      left == SubSeq(stream, len + 1, Max(begun \union {len}))
      data == IF taken = <<>> THEN <<[b |-> NoByte, e |-> TRUE]>> ELSE taken
      bytes == CountBytes(bytes0, len)
      p == poll_required(pdus, bytes, queue, r.q)
  IN  /\ SetRetx([r EXCEPT !.win = [sn \in DOMAIN @ \union {vt_s} |->
             IF sn = vt_s THEN [data |-> data, retx_count |-> 0, sdus |-> sdus] ELSE @[sn]]])
      /\ tx_sdu_queue' = queue
      /\ tx_sdu' = left
      /\ undelivered' = [i \in DOMAIN undelivered \union sdus |->
             LET old == IF i \in DOMAIN undelivered THEN undelivered[i]
                        ELSE [fully_txed |-> FALSE, sns |-> {}]
             IN  IF i \in sdus THEN [fully_txed |-> i \in ended, sns |-> old.sns \union {vt_s}]
                               ELSE old]
      /\ poll_sn' = IF p THEN vt_s ELSE poll_sn
      /\ UpdatePoll(p, pdus, bytes)
      /\ vt_s' = Add(vt_s, 1)
      /\ Send(AmdPdu(vt_s, p, data), FALSE)
      /\ UNCHANGED <<offered, accepted, vt_a, notify_info_vec, protocol_failure, stack>>

(* No PDU is built; what was counted and scheduled before stays. *)
NoPdu(r, pdus, bytes) ==
  /\ SetRetx(r)
  /\ pdu_without_poll' = pdus
  /\ byte_without_poll' = bytes
  /\ UNCHANGED <<sduVars, vt_a, vt_s, poll_sn, poll_retx_timer, ackVars, stack, dataCh>>

read_pdu(g, s) ==
  LET r1 == IF window_full /\ retx_queue = <<>> THEN retransmit_pdu(RetxState, vt_a)
                                                ELSE RetxState
      r2 == IF r1.q = <<>> THEN r1 ELSE DropAcknowledged(r1)
      whole == r2.q # <<>> /\ ~Head(r2.q).is_segment /\ Len(r2.win[Head(r2.q).sn].data) <= g
      pdus == IF r2.q = <<>> THEN pdu_without_poll ELSE CountPdu(pdu_without_poll)
      bytes == IF r2.q = <<>> THEN byte_without_poll
               ELSE CountBytes(byte_without_poll, Len(r2.win[Head(r2.q).sn].data))
      data == tx_sdu # <<>> \/ tx_sdu_queue # <<>>
      retx == r2.q # <<>> /\ (whole \/ s > 0)
      newData == data /\ ~window_full /\ g > 0
  IN  /\ Len(dataCh) < MaxInFlight
      /\ \/ retx /\ whole /\ RetxWhole(r2)
         \/ retx /\ ~whole /\ RetxSegment(r2, s)
         \/ ~retx /\ newData /\ BuildDataPdu(r2, g, CountPdu(pdus), bytes)
         \/ ~retx /\ ~newData /\ NoPdu(r2, pdus, bytes)

(* get_buffer_state: what MAC asks before it gives a grant.  Bytes of a
   retransmission count only if the head of the queue is still in the window. *)
get_buffer_state ==
  \/ retx_queue # <<>> /\ Head(retx_queue).sn \in DOMAIN tx_window
  \/ ~window_full /\ (tx_sdu # <<>> \/ \E k \in 1 .. Len(tx_sdu_queue) : tx_sdu_queue[k] # Null)

-----------------------------------------------------------------------------
(* The stack thread: the poll retransmission timer ... *)

(* The timer is marked as expired before its callback runs. *)
poll_retx_expires ==
  /\ stack = Idle
  /\ poll_retx_timer = "running"
  /\ poll_retx_timer' = "expired"
  /\ stack' = [pc |-> "timer_expired"]
  /\ UNCHANGED <<sduVars, vt_a, vt_s, retxVars, poll_sn, pdu_without_poll,
                 byte_without_poll, ackVars, dataCh>>

timer_expired ==
  /\ stack.pc = "timer_expired"
  /\ SetRetx(IF (retx_queue = <<>> /\ tx_sdu_queue = <<>>) \/ window_full
             THEN retransmit_pdu(RetxState, vt_a)
             ELSE RetxState)
  /\ stack' = Idle
  /\ UNCHANGED <<sduVars, vt_a, vt_s, pollVarsTx, ackVars, dataCh>>

(* ... and a STATUS PDU.  Its first section checks ACK_SN, stops the timer (to
   stop an expired timer changes nothing) and flushes the queue; i and vt_s are
   copied before the mutex is released.                                    *)
ValidAck(ack) == Base(ack, vt_a) <= WINDOW /\ Base(vt_s, ack) <= WINDOW

(* Mutant: update_vt_a starts as false. *)
ControlPduNoUpdate(st) ==
  /\ stack = Idle /\ ValidAck(st.ack)
  /\ retx_queue' = IF st.nacks # {} THEN <<>> ELSE retx_queue
  /\ stack' = [pc |-> "status", ack |-> st.ack, nacks |-> st.nacks,
               i |-> vt_a, vt_s_local |-> vt_s, update_vt_a |-> FALSE]
  /\ UNCHANGED <<sduVars, vt_a, vt_s, tx_window, retx_overflow, max_retx_signalled,
                 pollVarsTx, ackVars, dataCh>>

handle_control_pdu(st) ==
  /\ stack = Idle
  /\ IF ValidAck(st.ack)
     THEN /\ poll_retx_timer' = IF /\ poll_retx_timer = "running"
                                   /\ TX_MOD_BASE(poll_sn) < TX_MOD_BASE(st.ack)
                                THEN "stopped" ELSE poll_retx_timer
          /\ retx_queue' = IF st.nacks # {} THEN <<>> ELSE retx_queue
          /\ stack' = [pc |-> "status", ack |-> st.ack, nacks |-> st.nacks,
                       i |-> vt_a, vt_s_local |-> vt_s, update_vt_a |-> TRUE]
     ELSE UNCHANGED <<poll_retx_timer, retx_queue, stack>>
  /\ UNCHANGED <<sduVars, vt_a, vt_s, tx_window, retx_overflow, max_retx_signalled,
                 poll_sn, pdu_without_poll, byte_without_poll, ackVars, dataCh>>

StatusLoops ==
  /\ stack.pc = "status"
  /\ TX_MOD_BASE(stack.i) < TX_MOD_BASE(stack.ack)
  /\ TX_MOD_BASE(stack.i) < TX_MOD_BASE(stack.vt_s_local)

(* Mutant: the NACKed PDU leaves the window. *)
NackRemoves ==
  /\ StatusLoops /\ stack.i \in stack.nacks
  /\ tx_window' = [s \in DOMAIN tx_window \ {stack.i} |-> tx_window[s]]
  /\ stack' = [stack EXCEPT !.i = Add(@, 1), !.update_vt_a = FALSE]
  /\ UNCHANGED <<sduVars, vt_a, vt_s, retx_queue, retx_overflow, max_retx_signalled,
                 pollVarsTx, ackVars, dataCh>>

(* One NACKed SN: queue it, unless it is queued or gone. *)
NackSn ==
  /\ StatusLoops /\ stack.i \in stack.nacks
  /\ SetRetx(IF /\ stack.i \in DOMAIN tx_window
                /\ \A k \in 1 .. Len(retx_queue) : retx_queue[k].sn # stack.i
             THEN ScheduleRetx(RetxState, stack.i)
             ELSE RetxState)
  /\ stack' = [stack EXCEPT !.i = Add(@, 1), !.update_vt_a = FALSE]
  /\ UNCHANGED <<sduVars, vt_a, vt_s, pollVarsTx, ackVars, dataCh>>

(* Mutant: an SDU counts as acknowledged with any one of its PDUs. *)
AckedInPart(sn) ==
  {i \in tx_window[sn].sdus \intersect DOMAIN undelivered : undelivered[i].fully_txed}

(* Mutant: checked before the PDU itself is taken off the list. *)
AckedBefore(sn) ==
  {i \in tx_window[sn].sdus \intersect DOMAIN undelivered :
     undelivered[i].fully_txed /\ undelivered[i].sns = {}}

(* update_notification_ack_info: the SDUs of which sn was the last
   unacknowledged PDU.                                                     *)
FullyAcked(sn) ==
  {i \in tx_window[sn].sdus \intersect DOMAIN undelivered :
     undelivered[i].fully_txed /\ undelivered[i].sns = {sn}}

(* One acknowledged SN: report its SDUs, remove it, advance the window. *)
AckSn ==
  LET sn == stack.i
      held == sn \in DOMAIN tx_window
      done == IF held THEN FullyAcked(sn) ELSE {}
  IN  /\ StatusLoops /\ sn \notin stack.nacks
      /\ notify_info_vec' = notify_info_vec \union done
      /\ undelivered' = [i \in DOMAIN undelivered \ done |->
                           [undelivered[i] EXCEPT !.sns = IF held THEN @ \ {sn} ELSE @]]
      /\ tx_window' = [s \in DOMAIN tx_window \ {sn} |-> tx_window[s]]
      /\ vt_a' = IF stack.update_vt_a THEN Add(vt_a, 1) ELSE vt_a
      /\ stack' = [stack EXCEPT !.i = Add(@, 1)]
      /\ UNCHANGED <<sduVars, vt_s, retx_queue, retx_overflow, max_retx_signalled,
                     pollVarsTx, protocol_failure, dataCh>>

(* The last section checks vt_a; then notify_delivery hands notify_info_vec to
   PDCP.                                                                   *)
StatusDone ==
  /\ stack.pc = "status" /\ ~StatusLoops
  /\ protocol_failure' = (protocol_failure \/ (DOMAIN tx_window # {} /\ vt_a \notin DOMAIN tx_window))
  /\ notify_info_vec' = {}
  /\ stack' = Idle
  /\ UNCHANGED <<sduVars, vt_a, vt_s, retxVars, pollVarsTx, undelivered, dataCh>>

(* reestablish, called by RRC on the stack thread, with a reset of MAC: of what
   was accepted only kept, which the peer has delivered, is not lost.  To stop
   a timer that has expired changes nothing.                               *)
tx_reestablish(kept) ==
  /\ stack = Idle
  /\ accepted' = kept /\ tx_sdu_queue' = <<>> /\ tx_sdu' = <<>>
  /\ vt_a' = 0 /\ vt_s' = 0 /\ tx_window' = <<>> /\ retx_queue' = <<>>
  /\ poll_sn' = 0 /\ pdu_without_poll' = 0 /\ byte_without_poll' = 0
  /\ poll_retx_timer' = IF poll_retx_timer = "running" THEN "stopped" ELSE poll_retx_timer
  /\ undelivered' = <<>> /\ dataCh' = <<>>
  /\ UNCHANGED <<offered, retx_overflow, notify_info_vec,
                 max_retx_signalled, protocol_failure, stack>>
=============================================================================
