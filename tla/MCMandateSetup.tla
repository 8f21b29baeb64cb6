----------------------------- MODULE MCMandateSetup -----------------------------
(***************************************************************************)
(* A wallet that may set up two limits, approve twice and revoke once.     *)
(***************************************************************************)
EXTENDS MandateSetup
=============================================================================
