--------------------------- MODULE MCProvisioning ---------------------------
(* Provisioning with two networks, so that a saved pair can be a mixture   *)
(* of two, and one crash anywhere.                                         *)
EXTENDS Provisioning
=============================================================================
