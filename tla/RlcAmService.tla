---------------------------- MODULE RlcAmService ----------------------------
(* What RLC AM promises to PDCP: a channel that delivers the SDUs it accepted
   once, whole and in order, drops one only if PDCP discards it before it is
   sent or the bearer is re-established, and delivers all the others.      *)
EXTENDS Naturals, Sequences, SequencesExt

CONSTANT Sdus          \* their PDCP SNs, natural numbers

VARIABLES accepted,    \* SDUs taken and not dropped, in order
          delivered    \* SDUs handed to the peer's PDCP, in order

vars == <<accepted, delivered>>

Init == accepted = <<>> /\ delivered = <<>>

Accept == /\ \E i \in Sdus : /\ \A k \in 1 .. Len(accepted) : accepted[k] < i
                            /\ accepted' = Append(accepted, i)
          /\ UNCHANGED delivered

(* One SDU that is still pending is discarded. *)
Discard == /\ \E k \in Len(delivered) + 1 .. Len(accepted) :
                accepted' = RemoveAt(accepted, k)
           /\ UNCHANGED delivered

(* One PDU may complete several SDUs. *)
Deliver == /\ \E k \in Len(delivered) + 1 .. Len(accepted) :
                delivered' = SubSeq(accepted, 1, k)
           /\ UNCHANGED accepted

Reestablish == accepted' = delivered /\ UNCHANGED delivered

Next == Accept \/ Discard \/ Deliver \/ Reestablish

Spec == Init /\ [][Next]_vars
=============================================================================
