--------------------------- MODULE MCJobRegistry ---------------------------
(* Instances of JobRegistry for TLC. *)
EXTENDS JobRegistry, TLC

CONSTANTS j1, j2, j3

\* One job whose log can be read in the wrong order, and two that come and go
\* beside it.
MCMaxLog == j1 :> 2 @@ j2 :> 0 @@ j3 :> 0

=============================================================================
