---------------------------- MODULE MCRlcAmLteRx ----------------------------
(* The receiver with a window of three: every SN as a full PDU with and without
   a poll, and two SNs also in segments, one of them cut in two ways.      *)
EXTENDS RlcAmLteRx

(* a PDU of three bytes: the end of one SDU and the start of the next *)
Payload == <<[b |-> 1, e |-> FALSE], [b |-> 2, e |-> TRUE], [b |-> 3, e |-> FALSE]>>

FullPdu(sn, p) == [rf |-> FALSE, sn |-> sn, p |-> p, so |-> 0, data |-> Payload, lsf |-> FALSE]

Segment(sn, p, so, end) ==
  [rf |-> TRUE, sn |-> sn, p |-> p, so |-> so,
   data |-> SubSeq(Payload, so + 1, end), lsf |-> end = Len(Payload)]

(* The SNs that arrive in segments; the entry of a list of segments outlives its
   SN, so each of them multiplies the number of states.                    *)
MCDataPdus ==
  {FullPdu(sn, p) : sn \in SN, p \in BOOLEAN}
    \union {Segment(2, FALSE, 0, 1), Segment(2, TRUE, 1, 3),
            Segment(2, FALSE, 0, 2), Segment(2, FALSE, 2, 3)}
    \union {Segment(4, TRUE, 0, 2), Segment(4, FALSE, 2, 3)}

(* Neither the STATUS PDUs in flight nor the SDUs delivered influence the
   receiver: states that differ only in them are explored once.            *)
RxView == <<windowVars, rx_segments, rx_sdu, pollVars, reordering_timer, status_prohibit_timer>>
=============================================================================
