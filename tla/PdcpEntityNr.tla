---------------------------- MODULE PdcpEntityNr ----------------------------
(***************************************************************************)
(* The PDCP entity of an NR bearer (lib/src/pdcp/pdcp_entity_nr.cc): the   *)
(* transmitter that numbers SDUs and the receiver that guesses the COUNT   *)
(* of a PDU from its SN, delivers in order and gives up on a gap when      *)
(* t-Reordering expires.                                                   *)
(*                                                                         *)
(* A PDU is [count, whole]: the COUNT it was ciphered with, of which only  *)
(* SN(count) is in its header, and whether RLC gave it back unspoilt.  The *)
(* receiver deciphers with the COUNT it guesses, so an SDU comes out right *)
(* only if the two are the same.                                           *)
(***************************************************************************)
EXTENDS Integers, SequencesExt

CONSTANTS SnMod,      \* 2^sn_len
          HfnMod,     \* 2^(32 - sn_len): COUNT wraps at SnMod * HfnMod
          Integrity   \* integrity protection is on (always so for an SRB)

ASSUME PdcpNrAssumption ==
    /\ SnMod \in Nat \ {0, 1} /\ SnMod % 2 = 0
    /\ HfnMod \in Nat \ {0}
    /\ Integrity \in BOOLEAN

VARIABLES tx_next, tx_overflow,
          rx_next, rx_deliv, rx_reord, reorder_queue, reordering_timer, rx_overflow,
          gw      \* the SDUs the last step passed to the upper layers, in order

pdcpTx == <<tx_next, tx_overflow>>
pdcpRx == <<rx_next, rx_deliv, rx_reord, reorder_queue, reordering_timer, rx_overflow>>

CountMod == SnMod * HfnMod

window_size == SnMod \div 2

HFN(count) == count \div SnMod
SN(count) == count % SnMod
COUNT(hfn, sn) == (hfn % HfnMod) * SnMod + sn

Plus1(count) == (count + 1) % CountMod

PdcpInit ==
    /\ tx_next = 0 /\ tx_overflow = FALSE
    /\ rx_next = 0 /\ rx_deliv = 0 /\ rx_reord = 0
    /\ reorder_queue = {} /\ reordering_timer = FALSE /\ rx_overflow = FALSE
    /\ gw = << >>

-----------------------------------------------------------------------------
(* write_sdu past its early returns: RLC has room and COUNT is not used up. *)
write_sdu ==
    /\ ~tx_overflow
    /\ tx_overflow' = (Plus1(tx_next) = 0)
    /\ tx_next' = Plus1(tx_next)

-----------------------------------------------------------------------------
(* reorder_queue holds [at |-> COUNT it is filed under, pdu |-> the PDU]. *)

RcvdHfn(sn) ==
    IF sn < SN(rx_deliv) - window_size THEN HFN(rx_deliv) + 1
    ELSE IF sn >= SN(rx_deliv) + window_size THEN HFN(rx_deliv) - 1
    ELSE HFN(rx_deliv)

(* In the order of COUNT, as the map iterates: at place i the one that has  *)
(* i - 1 others before it.                                                  *)
QueueSort(queue) ==
    [i \in 1..Cardinality(queue) |->
        CHOOSE e \in queue : Cardinality({f \in queue : f.at < e.at}) = i - 1]

(* The COUNTs from `from' on that are in the queue without a gap. *)
Consecutive(queue, from) ==
    {e \in queue : e.at >= from /\ \A c \in from..e.at : \E f \in queue : f.at = c}

(* What deliver_all_consecutive_counts takes from the queue: nothing once   *)
(* COUNT has overflowed.                                                    *)
Run(queue, from) == IF rx_overflow THEN {} ELSE Consecutive(queue, from)

(* Mutant: the SDUs the gap held back go up before those in front of it. *)
DeliverRunFirst(first, queue, from) ==
    LET run == Run(queue, from)
        end == from + Cardinality(run)
    IN /\ gw' = QueueSort(run) \o QueueSort(first)
       /\ reorder_queue' = queue \ run
       /\ rx_deliv' = end % CountMod
       /\ rx_overflow' = (rx_overflow \/ end = CountMod)

(* deliver_all_consecutive_counts from `from' on, after `first' was passed  *)
(* up already; the last COUNT of all sets rx_overflow.                      *)
DeliverFrom(first, queue, from) ==
    LET run == Run(queue, from)
        end == from + Cardinality(run)
    IN /\ gw' = QueueSort(first) \o QueueSort(run)
       /\ reorder_queue' = queue \ run
       /\ rx_deliv' = end % CountMod
       /\ rx_overflow' = (rx_overflow \/ end = CountMod)

(* Mutant: the timer that is stopped is not started for the next gap. *)
TimerStoppedOnly(next) ==
    /\ reordering_timer' = (reordering_timer /\ rx_deliv' < rx_reord)
    /\ UNCHANGED rx_reord

(* Stopped when the gap it ran for is closed, started when there is one. *)
ReorderingTimer(next) ==
    LET running == reordering_timer /\ rx_deliv' < rx_reord
        start   == ~running /\ rx_deliv' < next
    IN /\ reordering_timer' = (running \/ start)
       /\ rx_reord' = IF start THEN next ELSE rx_reord

Ignored == gw' = << >> /\ UNCHANGED pdcpRx

(* Out of order after a time-out, or received before. *)
NotExpected(rcvd_count) ==
    \/ rcvd_count < rx_deliv
    \/ \E e \in reorder_queue : e.at = rcvd_count

write_pdu(pdu) ==
    LET rcvd_count == COUNT(RcvdHfn(SN(pdu.count)), SN(pdu.count))
        invalid    == Integrity /\ (rcvd_count # pdu.count \/ ~pdu.whole)
        queue      == reorder_queue \cup {[at |-> rcvd_count, pdu |-> pdu]}
    IN IF rx_overflow \/ invalid \/ NotExpected(rcvd_count)
       THEN Ignored
       ELSE /\ rx_next' = IF rcvd_count >= rx_next THEN Plus1(rcvd_count) ELSE rx_next
            /\ IF rcvd_count = rx_deliv
               THEN DeliverFrom({}, queue, rx_deliv)
               ELSE /\ reorder_queue' = queue
                    /\ gw' = << >>
                    /\ UNCHANGED <<rx_deliv, rx_overflow>>
            /\ ReorderingTimer(rx_next')

(* reordering_callback: everything below RX_REORD goes up, gaps and all. *)
reordering_callback ==
    LET below == {e \in reorder_queue : e.at < rx_reord}
    IN /\ reordering_timer
       /\ DeliverFrom(below, reorder_queue \ below, rx_reord)
       /\ reordering_timer' = (rx_deliv' < rx_next)
       /\ rx_reord' = IF rx_deliv' < rx_next THEN rx_next ELSE rx_reord
       /\ UNCHANGED rx_next

=============================================================================
