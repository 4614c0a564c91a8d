---------------------------- MODULE ProjectOwner ----------------------------
(***************************************************************************)
(* What the per-project locks of the agent promise, said without locks:    *)
(* each project is worked on by at most one thread at a time, only that    *)
(* thread changes the project's files and containers, and the work is      *)
(* handed on or put down as a whole.  A restart of the agent puts down     *)
(* everything at once.                                                     *)
(***************************************************************************)

CONSTANTS Projects, Threads

VARIABLES
    owners,   \* the threads at work on each project
    world     \* what their work changes: the project's files and containers

ownerVars == <<owners, world>>

Init == owners = [p \in Projects |-> {}]

\* A thread takes a project nobody works on.
Take(p, t) ==
    /\ owners[p] = {}
    /\ owners' = [owners EXCEPT ![p] = {t}]
    /\ UNCHANGED world

\* The owner changes its project, and no other.
Work(p) ==
    /\ owners[p] # {}
    /\ UNCHANGED owners
    /\ \A q \in Projects \ {p} : world'[q] = world[q]

\* The owner passes its project on to another thread: a request to its job.
HandOver(p, u) ==
    /\ owners[p] # {}
    /\ owners' = [owners EXCEPT ![p] = {u}]
    /\ UNCHANGED world

PutDown(p) ==
    /\ owners[p] # {}
    /\ owners' = [owners EXCEPT ![p] = {}]
    /\ UNCHANGED world

Restart ==
    /\ owners' = [p \in Projects |-> {}]
    /\ UNCHANGED world

Next ==
    \/ \E p \in Projects : \/ \E t \in Threads : Take(p, t) \/ HandOver(p, t)
                           \/ Work(p)
                           \/ PutDown(p)
    \/ Restart

Spec == Init /\ [][Next]_ownerVars

=============================================================================
