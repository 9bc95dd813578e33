----------------------------- MODULE NrUmBearer -----------------------------
(***************************************************************************)
(* One direction of an NR data bearer: PDCP over RLC UM at the sender, a   *)
(* MAC that loses PDUs and, with its HARQ processes, lets them overtake    *)
(* each other, and RLC UM under PDCP at the receiver.  The receiving RLC   *)
(* calls PDCP with its mutex held, in the same step.                       *)
(***************************************************************************)
EXTENDS RlcUmNr, PdcpEntityNr

CONSTANTS SduLen,     \* length of an SDU in bytes
          Grants,     \* what the MAC may offer RLC, in bytes
          Processes,  \* HARQ processes: a PDU is overtaken by fewer PDUs than that
          MaxSdus,    \* bound: SDUs written
          MaxFaults,  \* bound: PDUs the MAC loses or delivers twice
          MaxReest    \* bound: re-establishments

ASSUME BearerAssumption ==
    /\ SduLen \in Nat \ {0} /\ Processes \in Nat \ {0}
    /\ Grants \subseteq {n \in Nat : n >= 3}
    /\ MaxSdus \in 0..(CountMod - 1)
    /\ MaxFaults \in Nat /\ MaxReest \in Nat

VARIABLES umTx, umRx,
          air,      \* the HARQ processes, oldest first: a PDU, or NoPdu when it is done
          faults, reests,
          last      \* COUNT of the SDU passed up last, or -1

rlcVars == <<umTx, umRx, air, faults, reests>>
vars == <<rlcVars, pdcpTx, pdcpRx, gw, last>>

Init ==
    /\ PdcpInit
    /\ umTx = TxInit /\ umRx = RxInit
    /\ air = << >> /\ faults = 0 /\ reests = 0 /\ last = -1

(* The processes that are done are free again once the older ones are. *)
Free(procs) ==
    LET busy == {i \in 1..Len(procs) : procs[i] # NoPdu}
    IN IF busy = {} THEN << >> ELSE SubSeq(procs, Min(busy), Len(procs))

PassedUp == last' = IF gw' = << >> THEN last ELSE gw'[Len(gw')].pdu.count

Silent == gw' = << >> /\ UNCHANGED last

(* The source is slow enough for t-Reordering: the COUNTs in use stay       *)
(* within the window of the receiver's RX_DELIV.  Nothing in the code       *)
(* enforces it.                                                             *)
Paced == tx_next < rx_deliv + window_size

WriteSdu ==
    /\ tx_next < MaxSdus /\ Paced
    /\ ~sdu_queue_is_full(umTx)
    /\ write_sdu
    /\ umTx' = try_write_sdu(umTx, [id |-> tx_next, len |-> SduLen, left |-> SduLen])
    /\ Silent
    /\ UNCHANGED <<pdcpRx, umRx, air, faults, reests>>

ReadPdu(n) ==
    /\ has_data(umTx)
    /\ Len(air) < Processes
    /\ LET built == build_data_pdu(umTx, n)
       IN /\ umTx' = built.tx
          /\ air' = IF built.pdu = NoPdu THEN air ELSE Append(air, built.pdu)
    /\ Silent
    /\ UNCHANGED <<pdcpTx, pdcpRx, umRx, faults, reests>>

Lose(i) ==
    /\ air[i] # NoPdu /\ faults < MaxFaults
    /\ faults' = faults + 1
    /\ air' = Free([air EXCEPT ![i] = NoPdu])
    /\ Silent
    /\ UNCHANGED <<pdcpTx, pdcpRx, umTx, umRx, reests>>

(* What RLC put together is the SDU of its first byte, whole if the pieces  *)
(* are all of it.                                                           *)
Whole(sdu) ==
    /\ \A k \in 1..Len(sdu) : sdu[k].id = sdu[1].id
    /\ sdu[1].at = 0 /\ sdu[Len(sdu)].ends

(* A middle or last segment at offset 0 has no SO field and is read wrong;  *)
(* SegmentsDescribeData excludes it, and what becomes of it is left open.   *)
Received(i) ==
    /\ air[i] # NoPdu
    /\ air[i].si \in {"full", "first"} \/ air[i].so # 0
    /\ LET got == handle_data_pdu(umRx, air[i])
       IN /\ umRx' = got.rx
          /\ IF got.sdu = << >> THEN Silent /\ UNCHANGED pdcpRx
             ELSE write_pdu([count |-> got.sdu[1].id, whole |-> Whole(got.sdu)]) /\ PassedUp
    /\ UNCHANGED <<pdcpTx, umTx, reests>>

WritePdu(i) ==
    /\ Received(i)
    /\ air' = Free([air EXCEPT ![i] = NoPdu])
    /\ UNCHANGED faults

(* A process that transmits again what was received already. *)
WriteTwice(i) ==
    /\ faults < MaxFaults
    /\ faults' = faults + 1
    /\ Received(i)
    /\ UNCHANGED air

ReassemblyExpires ==
    /\ umRx.reassembly_timer
    /\ umRx' = timer_expired(umRx)
    /\ Silent
    /\ UNCHANGED <<pdcpTx, pdcpRx, umTx, air, faults, reests>>

ReorderingExpires ==
    /\ reordering_callback /\ PassedUp
    /\ UNCHANGED <<pdcpTx, rlcVars>>

(* RRC re-establishes the bearer at both ends after a MAC reset; the PDCP   *)
(* entity has nothing to do then ("TODO").                                  *)
Reestablish ==
    /\ reests < MaxReest
    /\ reests' = reests + 1
    /\ umTx' = TxReestablish(umTx) /\ umRx' = RxReestablish(umRx)
    /\ air' = << >>
    /\ Silent
    /\ UNCHANGED <<pdcpTx, pdcpRx, faults>>

Next ==
    \/ WriteSdu
    \/ \E n \in Grants : ReadPdu(n)
    \/ \E i \in DOMAIN air : Lose(i) \/ WritePdu(i) \/ WriteTwice(i)
    \/ ReassemblyExpires
    \/ ReorderingExpires
    \/ Reestablish

Spec == Init /\ [][Next]_vars

-----------------------------------------------------------------------------
(* Every PDU in the air says truly what it carries (build_data_pdu): its    *)
(* offset, and whether it begins and whether it ends the SDU.               *)
SegmentsDescribeData ==
    \A i \in DOMAIN air : air[i] # NoPdu =>
        /\ air[i].so = air[i].at
        /\ air[i].si \in {"first", "full"} <=> air[i].at = 0
        /\ air[i].si \in {"last", "full"} <=> air[i].ends

(* What reaches the gateway is a whole SDU, deciphered with the COUNT it    *)
(* was ciphered with: RLC mixes no segments of two SDUs when its SNs wrap,  *)
(* PDCP guesses the HFN right across faults, re-establishment and wrap.     *)
DeliveredIntact ==
    \A e \in reorder_queue \cup ToSet(gw) : e.at = e.pdu.count /\ e.pdu.whole

(* The gateway gets SDUs in the order they were sent and none twice,        *)
(* however the MAC reordered their segments and the timers expired.         *)
DeliveredInOrder ==
    [][\A k \in DOMAIN gw' :
         gw'[k].pdu.count > (IF k = 1 THEN last ELSE gw'[k - 1].pdu.count)]_vars

(* An SDU held back for reordering has t-Reordering running for the gap in  *)
(* front of it, and the timer's mark lies ahead of RX_DELIV.                *)
HeldBackIsTimed ==
    /\ reorder_queue # {} => reordering_timer
    /\ reordering_timer => rx_deliv < rx_reord /\ rx_reord <= rx_next
    /\ \A e \in reorder_queue : rx_deliv < e.at /\ e.at < rx_next

=============================================================================
