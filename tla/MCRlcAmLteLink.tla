--------------------------- MODULE MCRlcAmLteLink ---------------------------
EXTENDS RlcAmLteLink

Lengths == [i \in 1 .. NofSdus |-> IF i = 1 THEN 2 ELSE 1]

AllFaults == {"loss", "retx loss", "status loss", "overtake", "early", "stale", "reestablish"}

MacFaults == AllFaults \ {"reestablish"}

UnitLengths == [i \in 1 .. NofSdus |-> 1]

(* Neither the retransmission counts nor the signal they raise influence
   anything else.                                                          *)
LinkView ==
  <<sduVars, vt_a, vt_s, [sn \in DOMAIN tx_window |-> <<tx_window[sn].data, tx_window[sn].sdus>>],
    retx_queue, retx_overflow, pollVarsTx, ackVars, stack, dataCh, rxVars, faults>>
=============================================================================
