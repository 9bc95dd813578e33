------------------------------ MODULE RlcAmSn ------------------------------
(* Sequence numbers of an LTE RLC AM entity: the macros at the head of
   lib/src/rlc/rlc_am_lte.cc, for a window of any size.                    *)
EXTENDS Integers

CONSTANT WINDOW      \* RLC_AM_WINDOW_SIZE (512 in the code)

ASSUME WindowAssumption == WINDOW \in Nat /\ WINDOW > 0

MOD == 2 * WINDOW    \* the size of the SN space (1024 in the code)

SN == 0 .. MOD - 1

(* Mutant: no wrap-around. *)
AddNoWrap(sn, n) == sn + n

Add(sn, n) == (sn + n) % MOD

Base(sn, r) == (sn - r) % MOD   \* how far sn lies above r: TX_MOD_BASE, RX_MOD_BASE
=============================================================================
