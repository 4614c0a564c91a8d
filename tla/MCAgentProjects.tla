-------------------------- MODULE MCAgentProjects --------------------------
(* Instances of AgentProjects for TLC. *)
EXTENDS AgentProjects, TLC

CONSTANTS r1, r2

\* One client makes a project and starts it, while the other one does everything else
\* there is to do with it; and one starts it while the other writes and reads.
LifecycleCalls == r1 :> {"create", "up"} @@ r2 :> Routes \ {"create", "up"}
ReaderCalls == r1 :> {"create", "write", "up"} @@ r2 :> {"write", "get"}

\* Job slots and versions are interchangeable: no property tells two of them apart.
Slots == Permutations(Jobs) \cup Permutations(Versions)

=============================================================================
