---------------------------- MODULE MCClientSeam ----------------------------
(* Instances of ClientSeam for TLC. *)
EXTENDS ClientSeam, TLC

CONSTANTS c1, c2

\* A terminal on the host against one in the VM and a setup.
MCOpsOf == c1 :> {"up", "down", "destroy"} @@ c2 :> {"up_here", "down", "verify"}

=============================================================================
