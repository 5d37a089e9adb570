----------------------------- MODULE MCRouting -----------------------------
(* Routing on two transaction types. *)
EXTENDS Routing

MCTT == {"Web", "Background"}

=============================================================================
