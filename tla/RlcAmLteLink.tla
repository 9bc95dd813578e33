---------------------------- MODULE RlcAmLteLink ----------------------------
(***************************************************************************)
(* One direction of an AM bearer: the transmitter of one entity, the       *)
(* receiver of its peer, and MAC between them.  MAC (external) may lose a  *)
(* PDU of either kind, and HARQ may let PDUs overtake each other.          *)
(***************************************************************************)
EXTENDS RlcAmLteTx, RlcAmLteRx

CONSTANTS
  MaxFaults,          \* bound: what goes wrong in MAC and in time
  FaultKinds,         \* of "loss", "retx loss", "status loss", "overtake", "early", "stale",
                      \* "reestablish": see the actions
  MaxStatus           \* bound: STATUS PDUs in flight

VARIABLE faults

linkVars == <<txVars, rxVars, faults>>

LinkInit == TxInit /\ RxInit /\ faults = 0

(* A transmitter step leaves the receiver alone, and vice versa. *)
Tx(A) == A /\ UNCHANGED <<rxVars, faults>>
Rx(A) == A /\ UNCHANGED <<txVars, faults>>

(* What MAC and time may do at most MaxFaults times, and what they may always
   do because cond holds.                                                  *)
Fault(kind) ==
  /\ kind \in FaultKinds
  /\ faults < MaxFaults
  /\ faults' = faults + 1

Always(cond) == cond /\ UNCHANGED faults

(* MAC asks for a PDU if the buffer state it was last told is not 0; that this
   state is out of date by the time it does is a fault.                    *)
ReadPdu(g, s) ==
  /\ Always(get_buffer_state) \/ (~get_buffer_state /\ Fault("stale"))
  /\ read_pdu(g, s)
  /\ UNCHANGED rxVars

(* HARQ retransmits a transport block for a few subframes at most, RLC's status
   takes longer: a PDU is not overtaken by one that was sent after an
   acknowledgement that moved vt_a.                                        *)
DeliverPdu ==
  \E k \in 1 .. Len(dataCh) :
    /\ \A j \in 1 .. k : dataCh[j].vt_a = dataCh[k].vt_a
    /\ Always(k = 1) \/ (k > 1 /\ Fault("overtake"))
    /\ handle_data_pdu(dataCh[k].pdu)
    /\ dataCh' = RemoveAt(dataCh, k)
    /\ UNCHANGED <<sduVars, vt_a, vt_s, retxVars, pollVarsTx, ackVars, stack>>

LosePdu ==
  /\ \E k \in 1 .. Len(dataCh) : /\ Fault(IF dataCh[k].retx THEN "retx loss" ELSE "loss")
                                 /\ dataCh' = RemoveAt(dataCh, k)
  /\ UNCHANGED <<sduVars, vt_a, vt_s, retxVars, pollVarsTx, ackVars, stack, rxVars>>

(* STATUS PDUs keep their order: the next one is built after t-StatusProhibit,
   or for another poll, later than HARQ can delay this one.                *)
DeliverStatus ==
  /\ statusCh # <<>>
  /\ handle_control_pdu(Head(statusCh))
  /\ statusCh' = Tail(statusCh)
  /\ UNCHANGED <<windowVars, payloadVars, pollVars, reordering_timer,
                 status_prohibit_timer, faults>>

LoseStatus ==
  /\ Fault("status loss")
  /\ \E k \in 1 .. Len(statusCh) : statusCh' = RemoveAt(statusCh, k)
  /\ UNCHANGED <<txVars, windowVars, payloadVars, pollVars, reordering_timer,
                 status_prohibit_timer>>

(* Timers are configured longer than what they wait for; to expire while it is
   still under way is a fault.                                             *)
ReorderingTimeout ==
  /\ Always(dataCh = <<>>) \/ (dataCh # <<>> /\ Fault("early"))
  /\ reordering_timer_expired
  /\ UNCHANGED txVars

StatusUnderWay == dataCh # <<>> \/ statusCh # <<>> \/ do_status \/ reordering_timer

PollTimeout ==
  /\ Always(~StatusUnderWay) \/ (StatusUnderWay /\ Fault("early"))
  /\ poll_retx_expires
  /\ UNCHANGED rxVars

Bytes(i) == [k \in 1 .. SduLen[i] |-> <<i, k>>]

(* The SDU a sequence of bytes is, 0 if it is none: PDCP drops a PDU without
   bytes (pdcp_entity_lte::write_pdu), so it does not count.               *)
SduOf(bytes) == IF \E i \in 1 .. NofSdus : bytes = Bytes(i)
                THEN CHOOSE i \in 1 .. NofSdus : bytes = Bytes(i) ELSE 0

deliveredSdus ==
  FlattenSeq([k \in 1 .. Len(delivered) |->
                IF delivered[k] = <<NoByte>> THEN <<>> ELSE <<SduOf(delivered[k])>>])

(* RRC re-establishes both ends, and MAC is reset with them. *)
reestablish ==
  /\ Fault("reestablish")
  /\ tx_reestablish(deliveredSdus)
  /\ rx_reestablish

LinkNext ==
  \/ Tx(write_sdu)
  \/ \E i \in Discardable : Tx(discard_sdu(i))
  \/ \E g \in Grants : \E s \in {g - 1, g} \intersect Nat : ReadPdu(g, s)
  \/ PollTimeout
  \/ Tx(timer_expired)
  \/ Tx(NackSn)
  \/ Tx(AckSn)
  \/ Tx(StatusDone)
  \/ DeliverPdu
  \/ LosePdu
  \/ DeliverStatus
  \/ LoseStatus
  \/ ReorderingTimeout
  \/ \E grant \in StatusGrants : Len(statusCh) < MaxStatus /\ Rx(build_status_pdu(grant))
  \/ Rx(status_prohibit_expired)
  \/ reestablish

LinkSpec == LinkInit /\ [][LinkNext]_linkVars

(* MAC serves a bearer that keeps reporting data, now and then with a grant large
   enough for the largest PDU, and carries what it is given; a timer
   that runs expires; the stack thread finishes what it has begun.         *)
LargestGrant == CHOOSE g \in Grants : \A h \in Grants : h <= g
LargestStatus == CHOOSE g \in StatusGrants : \A h \in StatusGrants : h <= g

LinkFairness ==
  /\ SF_linkVars(get_buffer_state /\ ReadPdu(LargestGrant, LargestGrant))
  /\ WF_linkVars(Len(statusCh) < MaxStatus /\ Rx(build_status_pdu(LargestStatus)))
  /\ WF_linkVars(DeliverPdu) /\ WF_linkVars(DeliverStatus)
  /\ WF_linkVars(PollTimeout) /\ WF_linkVars(ReorderingTimeout)
  /\ WF_linkVars(Rx(status_prohibit_expired))
  /\ WF_linkVars(Tx(timer_expired) \/ Tx(NackSn) \/ Tx(AckSn) \/ Tx(StatusDone))

LinkLiveSpec == LinkSpec /\ LinkFairness

-----------------------------------------------------------------------------

(* Properties. *)

(* The types of the transmitter's state (that of the receiver is RxTypeOK): every
   SN it keeps or is about to acknowledge is one of the SN space, whose end the
   updates of vt_s in build_data_pdu and of vt_a and i in handle_control_pdu pass. *)
TxTypeOK ==
  /\ vt_a \in SN /\ vt_s \in SN /\ poll_sn \in SN
  /\ offered \in 0 .. NofSdus
  /\ DOMAIN tx_window \subseteq SN
  /\ stack.pc = "status" => stack.i \in SN /\ stack.ack \in SN /\ stack.nacks \subseteq SN
  /\ poll_retx_timer \in {"stopped", "running", "expired"}
  /\ stack.pc \in {"idle", "timer_expired", "status"}

(* Transmitter and receiver never lose step, whatever is lost, overtaken or
   retransmitted and across wrap-around: seen from vt_a, the receiver's vr_r,
   vr_ms and vr_h are in order and none is beyond vt_s, which is at most a
   window ahead; so the ring tx_window never holds two SNs in one slot.    *)
WindowsAgree ==
  /\ TX_MOD_BASE(vr_r) <= TX_MOD_BASE(vr_ms)
  /\ TX_MOD_BASE(vr_ms) <= TX_MOD_BASE(vr_h)
  /\ TX_MOD_BASE(vr_h) <= TX_MOD_BASE(vt_s)
  /\ TX_MOD_BASE(vt_s) <= WINDOW
  /\ \A sn \in DOMAIN tx_window : TX_MOD_BASE(sn) < TX_MOD_BASE(vt_s)

(* What the peer misses can still be sent: every SN from vr_r up to vt_s is in
   the transmit window until the peer has received it.                     *)
MissingIsKept ==
  \A sn \in SN : /\ TX_MOD_BASE(vr_r) <= TX_MOD_BASE(sn)
                 /\ TX_MOD_BASE(sn) < TX_MOD_BASE(vt_s)
                 => sn \in DOMAIN rx_window \/ sn \in DOMAIN tx_window

(* The two intrusive lists a PDU segment is in (that of its RLC PDU and that of
   its PDCP PDU) agree at every point another thread can see, and an SDU is
   forgotten when its last segment is acknowledged, not before.            *)
SegmentListsAgree ==
  \A i \in DOMAIN undelivered :
    /\ undelivered[i].sns = {sn \in DOMAIN tx_window : i \in tx_window[sn].sdus}
    /\ undelivered[i].fully_txed => undelivered[i].sns # {}

(* handle_control_pdu never finds vt_a outside the transmit window, the state in
   which it reports a protocol failure to RRC: not even when MAC reads PDUs
   between the sections of the handler.                                    *)
NoProtocolFailure == ~protocol_failure

PeerHas(byte) ==
  \/ \E k \in 1 .. Len(delivered) : byte \in ToSet(delivered[k])
  \/ byte \in ToSet(rx_sdu)
  \/ \E sn \in DOMAIN rx_window : \E t \in ToSet(rx_window[sn]) : t.b = byte

(* PDCP forgets an SDU when notify_delivery names it: by then the peer has every
   byte of it.                                                             *)
NotifiedWasReceived ==
  [][ notify_info_vec' = {} =>
        \A i \in notify_info_vec : \A byte \in ToSet(Bytes(i)) : PeerHas(byte) ]_linkVars

Service == INSTANCE RlcAmService WITH Sdus <- 1 .. NofSdus, delivered <- deliveredSdus

(* The bearer implements the service: PDCP's SDUs arrive whole, once and in
   order, and only those that were discarded or dropped are missing.       *)
ImplementsService == Service!Spec

(* The transmitter waits for an acknowledgement that nothing will bring: it
   reports no data to MAC and its poll timer does not run.                 *)
Stuck == /\ DOMAIN tx_window # {} /\ stack = Idle
         /\ ~get_buffer_state /\ poll_retx_timer # "running"

(* However few faults there are, either everything accepted is delivered in the
   end or the transmitter is Stuck: no livelock of retransmissions, and no gap
   that the receiver fails to report when it is polled.                    *)
DeliveredUnlessStuck == <>[](deliveredSdus = accepted) \/ <>[]Stuck

(* The assertion in pdu_retx_queue::push: the ring is not full. *)
NoRetxOverflow == ~retx_overflow

(* rlc_am_lte_test.cc, after t-PollRetransmission has expired: "RLC should try to
   retx a random PDU because it needs to request a status from the receiver", so
   that the buffer state is not 0.                                         *)
ExpiredPollReportsData ==
  poll_retx_timer = "expired" /\ stack = Idle /\ DOMAIN tx_window # {} => get_buffer_state

(* poll_required, "Cause: Empty TX and ReTX queues": the PDU that leaves both
   queues empty carries a poll.                                            *)
LastPduIsPolled ==
  [][ Len(dataCh') > Len(dataCh) /\ tx_sdu_queue' = <<>> /\ retx_queue' = <<>>
        => Last(dataCh').pdu.p ]_linkVars
=============================================================================
