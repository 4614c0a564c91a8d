---------------------------- MODULE MCSetupApp ----------------------------
(* Instances of SetupApp for TLC. *)
EXTENDS SetupApp

=============================================================================
