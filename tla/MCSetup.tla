------------------------------ MODULE MCSetup ------------------------------
(* Instances of Setup for TLC.  (No symmetry: the runs check liveness.) *)
EXTENDS Setup
=============================================================================
