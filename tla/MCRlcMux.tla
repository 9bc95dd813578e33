------------------------------ MODULE MCRlcMux ------------------------------
(* RlcMux with two PHY workers, one SRB and one DRB, the bsr callback set. *)
EXTENDS RlcMux

MCLcids == {"srb1", "drb1"}
MCSrbs == {"srb1"}
=============================================================================
