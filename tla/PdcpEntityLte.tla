---------------------------- MODULE PdcpEntityLte ----------------------------
(***************************************************************************)
(* The PDCP entity of an LTE data bearer over RLC AM, downlink: the        *)
(* transmitter of an eNB with its queue of undelivered SDUs, the receiver  *)
(* of the UE with its record of received COUNTs, discard timers, and a     *)
(* handover that carries the bearer to the entity of another eNB           *)
(* (lib/src/pdcp/pdcp_entity_lte.cc, srsenb gtpu.cc and rrc_mobility.cc).  *)
(*                                                                         *)
(* An SDU is the COUNT under which it was first accepted: a COUNT is used  *)
(* up only with an SDU.  RLC AM between the two entities keeps the order   *)
(* and loses nothing until a handover, which drops what is on the way.     *)
(***************************************************************************)
EXTENDS Integers, SequencesExt, FiniteSetsExt

CONSTANTS NofSns,       \* 1 << sn_len; the capacity of the queue for 12 bits
          RlcCapacity,  \* SDUs RLC AM holds, unacknowledged or queued, before it is full
          CrossWrap,    \* a handover may find SNs of two HFNs in use
          MaxSdus,      \* bound: SDUs accepted
          MaxDiscards,  \* bound: SDUs given up by a timer or by RLC
          MaxHandovers  \* bound: handovers

ASSUME PdcpLteAssumption ==
    /\ NofSns \in Nat \ {0, 1, 2} /\ NofSns % 2 = 0
    /\ RlcCapacity \in Nat \ {0}
    /\ CrossWrap \in BOOLEAN
    /\ MaxSdus \in Nat /\ MaxDiscards \in 0..(NofSns \div 2 - 1) /\ MaxHandovers \in Nat

VARIABLES next_pdcp_tx_sn, tx_hfn,
          undelivered_sdus,  \* [sn, sdu]: what the queue holds
          fms,               \* the queue's first missing SN
          next_pdcp_rx_sn, rx_hfn, last_submitted_pdcp_rx_sn,
          fmc, largest_rx_count, rx_counts_info,
          rlc,               \* PDUs on the way: [sn, count it is ciphered with, sdu]
          acks,              \* SNs received, of which RLC has not notified the eNB yet
          forwarded,         \* [sn, sdu] on the way to the target eNB
          report,            \* status reports on the way: [fms, acked]
          gw,                \* SDUs passed to the gateway: [count deciphered with, pdu]
          given_up,          \* SDUs discarded
          discards, handovers

txVars == <<next_pdcp_tx_sn, tx_hfn, undelivered_sdus, fms>>
rxVars == <<next_pdcp_rx_sn, rx_hfn, last_submitted_pdcp_rx_sn,
            fmc, largest_rx_count, rx_counts_info, gw>>
linkVars == <<rlc, acks, forwarded, report>>
vars == <<txVars, rxVars, linkVars, given_up, discards, handovers>>

maximum_pdcp_sn == NofSns - 1
reordering_window == NofSns \div 2

HFN(count) == count \div NofSns
SN(count) == count % NofSns
COUNT(hfn, sn) == hfn * NofSns + sn

(* The SDUs passed to the gateway *)
received == {gw[i].pdu.sdu : i \in 1..Len(gw)}

Init ==
    /\ next_pdcp_tx_sn = 0 /\ tx_hfn = 0
    /\ undelivered_sdus = {} /\ fms = 0
    /\ next_pdcp_rx_sn = 0 /\ rx_hfn = 0 /\ last_submitted_pdcp_rx_sn = maximum_pdcp_sn
    /\ fmc = 0 /\ largest_rx_count = 0 /\ rx_counts_info = {}
    /\ rlc = << >> /\ acks = << >> /\ forwarded = << >> /\ report = << >>
    /\ gw = << >> /\ given_up = {}
    /\ discards = 0 /\ handovers = 0

-----------------------------------------------------------------------------
(* The queue of undelivered SDUs *)

has_sdu(sn) == \E e \in undelivered_sdus : e.sn = sn

(* sn_mod is maximum_pdcp_sn, so the last SN of the cycle is stepped over. *)
increment_sn(sn) == (sn + 1) % maximum_pdcp_sn

update_fms(sdus, first) ==
    LET steps == {i \in 0..(NofSns \div 2 - 1) :
                    \E e \in sdus : e.sn = increment_sn(first + i)}
    IN increment_sn(IF steps = {} THEN first ELSE first + Min(steps))

clear_sdu(queue, sn) ==
    LET left == {e \in queue.sdus : e.sn # sn}
    IN [sdus |-> left,
        fms  |-> IF left # queue.sdus /\ sn = queue.fms
                 THEN update_fms(left, sn) ELSE queue.fms]

(* clear_sdu for each SN of a set that is held, the smallest first *)
ClearSdus(sns) ==
    LET queue == FoldLeft(clear_sdu, [sdus |-> undelivered_sdus, fms |-> fms],
                          SetToSortSeq({sn \in sns : has_sdu(sn)}, <))
    IN undelivered_sdus' = queue.sdus /\ fms' = queue.fms

(* store_sdu and add_sdu together: SN is not in the queue and at most half  *)
(* of the SN space ahead of the first missing one.                          *)
MayStore(sn) ==
    /\ ~has_sdu(sn)
    /\ \/ undelivered_sdus = {}
       \/ sn - fms \in 1..(NofSns \div 2)
       \/ sn - fms <= -(NofSns \div 2)

StoreSdu(sn, sdu) ==
    /\ undelivered_sdus' = undelivered_sdus \cup {[sn |-> sn, sdu |-> sdu]}
    /\ fms' = IF undelivered_sdus = {} THEN sn ELSE fms

(* What RLC AM holds: the PDUs not received yet and those not acknowledged. *)
RlcIsFull == Len(rlc) + Len(acks) >= RlcCapacity

(* The early returns of write_sdu: the SDU is dropped. *)
Accepts(sn) == ~RlcIsFull /\ MayStore(sn)

(* write_sdu past them.  The COUNT to cipher with is made of the HFN of now *)
(* whatever the SN.                                                         *)
Send(sn, sdu) ==
    /\ StoreSdu(sn, sdu)
    /\ rlc' = Append(rlc, [sn |-> sn, count |-> COUNT(tx_hfn, sn), sdu |-> sdu])

NextTx ==
    IF next_pdcp_tx_sn + 1 > maximum_pdcp_sn
    THEN next_pdcp_tx_sn' = 0 /\ tx_hfn' = tx_hfn + 1
    ELSE next_pdcp_tx_sn' = next_pdcp_tx_sn + 1 /\ UNCHANGED tx_hfn

(* A report on the way was made before the SN about to be used: unless      *)
(* CrossWrap, the SN counter does not wrap meanwhile.                       *)
NoWrapAhead == report # << >> => next_pdcp_tx_sn # 0

WriteSdu ==
    LET sdu == COUNT(tx_hfn, next_pdcp_tx_sn)
    IN /\ sdu < MaxSdus
       /\ Accepts(next_pdcp_tx_sn)
       /\ forwarded = << >>
       /\ CrossWrap \/ NoWrapAhead
       /\ Send(next_pdcp_tx_sn, sdu)
       /\ NextTx
       /\ UNCHANGED <<rxVars, acks, forwarded, report, given_up, discards, handovers>>

-----------------------------------------------------------------------------
(* notify_delivery of one PDU; what was received is acknowledged in order. *)
NotifyDelivery ==
    /\ acks # << >>
    /\ acks' = Tail(acks)
    /\ ClearSdus({Head(acks)})
    /\ UNCHANGED <<next_pdcp_tx_sn, tx_hfn, rxVars, rlc, forwarded, report, given_up,
                   discards, handovers>>

GiveUp(e) ==
    /\ discards < MaxDiscards /\ discards' = discards + 1
    /\ e \in undelivered_sdus
    /\ given_up' = given_up \cup {e.sdu}
    /\ ClearSdus({e.sn})
    /\ UNCHANGED <<next_pdcp_tx_sn, tx_hfn, rxVars, acks, forwarded, report, handovers>>

(* discard_callback: RLC discards the PDU if no segment of it was sent. *)
Discard(e) ==
    /\ GiveUp(e)
    /\ rlc' \in {rlc, SelectSeq(rlc, LAMBDA p : p.sn # e.sn)}

(* notify_failure: RLC reached its maximum of retransmissions. *)
NotifyFailure(e) ==
    /\ \E i \in 1..Len(rlc) : rlc[i].sn = e.sn
    /\ GiveUp(e)
    /\ UNCHANGED rlc

-----------------------------------------------------------------------------
(* Receiver: handle_am_drb_pdu *)

(* Mutant: the last SN of the reordering window behind is not a repetition. *)
OutsideWindowShort(sn) ==
    \/ sn - last_submitted_pdcp_rx_sn > reordering_window
    \/ /\ 0 < last_submitted_pdcp_rx_sn - sn
       /\ last_submitted_pdcp_rx_sn - sn < reordering_window

OutsideWindow(sn) ==
    \/ sn - last_submitted_pdcp_rx_sn > reordering_window
    \/ /\ 0 <= last_submitted_pdcp_rx_sn - sn
       /\ last_submitted_pdcp_rx_sn - sn < reordering_window

(* Mutant: a wrap behind a discarded SDU does not move the HFN. *)
CountOfNoWrap(sn) ==
    IF sn - next_pdcp_rx_sn >= reordering_window
    THEN [count |-> COUNT(rx_hfn - 1, sn), next |-> next_pdcp_rx_sn, hfn |-> rx_hfn]
    ELSE [count |-> COUNT(rx_hfn, sn), next |-> (sn + 1) % NofSns,
          hfn |-> IF sn = maximum_pdcp_sn THEN rx_hfn + 1 ELSE rx_hfn]

(* The COUNT deciphered with, NEXT_PDCP_RX_SN and RX_HFN after it. *)
CountOf(sn) ==
    IF next_pdcp_rx_sn - sn > reordering_window
    THEN [count |-> COUNT(rx_hfn + 1, sn), next |-> sn + 1, hfn |-> rx_hfn + 1]
    ELSE IF sn - next_pdcp_rx_sn >= reordering_window
    THEN [count |-> COUNT(rx_hfn - 1, sn), next |-> next_pdcp_rx_sn, hfn |-> rx_hfn]
    ELSE IF sn < next_pdcp_rx_sn
    THEN [count |-> COUNT(rx_hfn, sn), next |-> next_pdcp_rx_sn, hfn |-> rx_hfn]
    ELSE [count |-> COUNT(rx_hfn, sn), next |-> (sn + 1) % NofSns,
          hfn |-> IF sn = maximum_pdcp_sn THEN rx_hfn + 1 ELSE rx_hfn]

(* The first COUNT from c on that is not in the set. *)
FirstFree(counts, c) == Min({d \in c..(c + Cardinality(counts)) : d \notin counts})

(* Mutant: a queue that outgrew the window gives up up to its first COUNT. *)
UpdateRxCountsNoMerge(count) ==
    IF count < fmc THEN UNCHANGED <<fmc, rx_counts_info, largest_rx_count>>
    ELSE LET counts == rx_counts_info \cup {count}
             first  == IF count = fmc THEN FirstFree(counts, fmc) ELSE fmc
             queue  == {c \in counts : c > first}
             missed == IF Cardinality(queue) > reordering_window
                       THEN Min(queue) ELSE first
         IN /\ largest_rx_count' = IF count > largest_rx_count THEN count ELSE largest_rx_count
            /\ fmc' = missed
            /\ rx_counts_info' = {c \in queue : c > missed}

(* update_rx_counts_queue; a queue longer than the window gives the first   *)
(* missing COUNT up.                                                        *)
UpdateRxCounts(count) ==
    IF count < fmc THEN UNCHANGED <<fmc, rx_counts_info, largest_rx_count>>
    ELSE LET counts == rx_counts_info \cup {count}
             first  == IF count = fmc THEN FirstFree(counts, fmc) ELSE fmc
             queue  == {c \in counts : c > first}
             missed == IF Cardinality(queue) > reordering_window
                       THEN FirstFree(queue, Min(queue)) ELSE first
         IN /\ largest_rx_count' = IF count > largest_rx_count THEN count ELSE largest_rx_count
            /\ fmc' = missed
            /\ rx_counts_info' = {c \in queue : c > missed}

(* RLC hands the next PDU to the UE's entity; the acknowledgement that will *)
(* notify the eNB is on its way from then on.                               *)
WritePdu ==
    LET pdu == Head(rlc)
        est == CountOf(pdu.sn)
    IN /\ rlc # << >>
       /\ rlc' = Tail(rlc)
       /\ acks' = Append(acks, pdu.sn)
       /\ IF OutsideWindow(pdu.sn) THEN UNCHANGED rxVars
          ELSE /\ next_pdcp_rx_sn' = est.next /\ rx_hfn' = est.hfn
               /\ last_submitted_pdcp_rx_sn' = pdu.sn
               /\ UpdateRxCounts(est.count)
               /\ gw' = Append(gw, [count |-> est.count, pdu |-> pdu])
       /\ UNCHANGED <<txVars, forwarded, report, given_up, discards, handovers>>

-----------------------------------------------------------------------------
(* Handover: the source's state and its undelivered SDUs, in order of SN,   *)
(* go to the target; RLC starts afresh on both sides; the UE sends a status *)
(* report (send_status_report).                                             *)

BySn(queue) == SetToSortSeq(queue, LAMBDA a, b : a.sn < b.sn)

(* Mutant: the report acknowledges the first missing COUNT too. *)
StatusReportOneMore ==
    IF rx_counts_info # {} /\ largest_rx_count < fmc - 1 THEN << >>
    ELSE << [fms |-> SN(fmc + 1), acked |-> {c - fmc - 1 : c \in rx_counts_info}] >>

StatusReport ==
    IF rx_counts_info # {} /\ largest_rx_count < fmc - 1 THEN << >>
    ELSE << [fms |-> SN(fmc), acked |-> {c - fmc - 1 : c \in rx_counts_info}] >>

OneHfn ==
    \A c \in {e.sdu : e \in undelivered_sdus} \cup {fmc, COUNT(tx_hfn, next_pdcp_tx_sn)} :
        HFN(c) = tx_hfn

Handover ==
    /\ handovers < MaxHandovers /\ forwarded = << >> /\ report = << >>
    /\ CrossWrap \/ OneHfn
    /\ handovers' = handovers + 1
    /\ forwarded' = BySn(undelivered_sdus)
    /\ undelivered_sdus' = {} /\ fms' = 0
    /\ rlc' = << >> /\ acks' = << >>
    /\ report' \in {StatusReport, << >>}   \* status_report_required or not
    /\ UNCHANGED <<next_pdcp_tx_sn, tx_hfn, rxVars, given_up, discards>>

(* The target writes a forwarded SDU under its SN; the SN counter stays. *)
WriteForwarded ==
    LET e == Head(forwarded)
    IN /\ forwarded # << >>
       /\ forwarded' = Tail(forwarded)
       /\ IF Accepts(e.sn) THEN Send(e.sn, e.sdu)
          ELSE UNCHANGED <<undelivered_sdus, fms, rlc>>
       /\ UNCHANGED <<next_pdcp_tx_sn, tx_hfn, rxVars, acks, report, given_up, discards, handovers>>

(* handle_status_report_pdu: SNs numerically below FMS, and those of the    *)
(* bitmap, of which the last bit of each byte is not looked at.             *)
HandleStatusReport ==
    LET r == Head(report)
    IN /\ report # << >>
       /\ report' = Tail(report)
       /\ ClearSdus(0..(r.fms - 1) \cup {r.fms + k + 1 : k \in {b \in r.acked : b % 8 # 7}})
       /\ UNCHANGED <<next_pdcp_tx_sn, tx_hfn, rxVars, rlc, acks, forwarded, given_up, discards, handovers>>

Next ==
    \/ WriteSdu
    \/ NotifyDelivery
    \/ \E e \in undelivered_sdus : Discard(e) \/ NotifyFailure(e)
    \/ WritePdu
    \/ Handover
    \/ WriteForwarded
    \/ HandleStatusReport

Spec == Init /\ [][Next]_vars

-----------------------------------------------------------------------------
(* The UE deciphers every SDU it passes up with the COUNT the eNB ciphered  *)
(* it with: the two HFNs, never sent, stay together across discarded SDUs,  *)
(* wraps and handovers (handle_am_drb_pdu, write_sdu).                      *)
DecipheredRight ==
    \A i \in 1..Len(gw) : gw[i].count = gw[i].pdu.count /\ gw[i].count = gw[i].pdu.sdu

(* The gateway gets the SDUs in the order they were written, and none       *)
(* twice though a handover sends again what was received already.           *)
InOrderOnce == \A i \in 1..(Len(gw) - 1) : gw[i].pdu.sdu < gw[i + 1].pdu.sdu

(* An SDU the eNB took stays in the undelivered queue, or on its way to the *)
(* target eNB, until the UE has it or it was given up.                      *)
KeptUntilReceived ==
    \A s \in 0..(COUNT(tx_hfn, next_pdcp_tx_sn) - 1) :
        \/ s \in received \cup given_up
        \/ \E e \in undelivered_sdus : e.sdu = s
        \/ \E i \in 1..Len(forwarded) : forwarded[i].sdu = s

(* The UE's record of received COUNTs, from which the status report is      *)
(* made: the first missing one was not received, nothing before it can come *)
(* any more, and what was received after it is listed, also when the list   *)
(* outgrows the window (update_rx_counts_queue).                            *)
FirstMissingIsTrue ==
    /\ fmc \notin received
    /\ 0..(fmc - 1) \subseteq received \cup given_up
    /\ rx_counts_info = {c \in received : c > fmc}

=============================================================================
