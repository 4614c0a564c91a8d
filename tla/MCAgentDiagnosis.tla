-------------------------- MODULE MCAgentDiagnosis --------------------------
(* Instances of AgentDiagnosis for TLC. *)
EXTENDS AgentDiagnosis, TLC

CONSTANTS r1, r2

\* One client writes and starts a project whose file the other one deletes and
\* whose rows it reads.
MCCallsOf == r1 :> {"create", "write", "up"} @@ r2 :> {"get", "unlink"}

\* Job slots and versions are interchangeable: no property tells two of them apart.
Slots == Permutations(Jobs) \cup Permutations(Versions)

=============================================================================
