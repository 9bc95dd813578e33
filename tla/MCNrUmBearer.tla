---------------------------- MODULE MCNrUmBearer ----------------------------
(* PDCP NR over RLC UM NR. *)
EXTENDS NrUmBearer

MCGrants == {3, 5, 7}

=============================================================================
