--------------------------- MODULE AgentDiagnosis ---------------------------
(***************************************************************************)
(* What the row of a project says of its last start, in an agent that may  *)
(* stop between any two steps of it.                                       *)
(*                                                                         *)
(* `up` stores its status and its diagnosis in two transactions, after it  *)
(* wrote the overlay and ran compose.  The history variable `cut` keeps    *)
(* the projects whose last start was lost on the way: those are the ones   *)
(* whose row may speak of a start before.                                  *)
(***************************************************************************)
EXTENDS AgentProjects

VARIABLE cut    \* projects whose start a restart of the agent cut short

\* An `up` that has begun to change the overlay and has not stored what it found.
Starting(j) == job[j].op = "up" /\ job[j].pc \in {"compose", "diagnose", "status", "problem"}

\* The projects whose start the restart loses, and those that store a diagnosis.
Lost == {p \in Projects : \E j \in JobsHolding(p) : Starting(j) /\ job'[j].state = "absent"}
Told == {p \in Projects : \E j \in JobsHolding(p) : SetProblem(j)}

DiagnosisInit == Init /\ cut = {}
DiagnosisNext == Next /\ cut' = (cut \cup Lost) \ Told
DiagnosisSpec == DiagnosisInit /\ [][DiagnosisNext]_<<vars, cut>>

\* While no operation of a project is under way, the diagnosis its row carries is
\* of the version it was last started with, and only a project whose containers
\* stayed up carries one.  The one exception is a project whose last start was cut
\* short by a restart of the agent, and it lasts until a start of it is over
\* (project_up writes the overlay, the status and the problem one by one; reads may
\* clear what they find in between).
DiagnosisIsOfLastUp ==
    \A p \in Projects :
        p \notin held /\ p \notin cut /\ rows[p].problem # None =>
            /\ overlay[p] = rows[p].problem
            /\ rows[p].status \in {"started_ok", "stopped"}

=============================================================================
