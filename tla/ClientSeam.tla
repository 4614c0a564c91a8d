------------------------------ MODULE ClientSeam ------------------------------
(***************************************************************************)
(* The clients of the agent, and what they make of its answers: `omelet`   *)
(* on the host (host/cli.py over host/client.py), `omelet` in the VM       *)
(* (engine/cli/omelet.py) and the check at the end of setup (verify_step). *)
(*                                                                         *)
(* One project.  Its agent is the one of AgentProjects, with a handler's   *)
(* stretch under the project's lock as one step and a job's work as one.   *)
(* A request that its client gave up may still be served, much later: an   *)
(* answer that is lost is a request served after that.                     *)
(*                                                                         *)
(* An answer that says to wait, before the deadline, changes nothing: the  *)
(* client sleeps and asks the same again.  Reads for display (status,      *)
(* logs) and the in-VM new and clone are left out.                         *)
(***************************************************************************)
EXTENDS Naturals, Sequences, FiniteSets

CONSTANTS
    Clients,      \* terminals, and a setup
    OpsOf,        \* the commands each runs
    None,         \* nothing, nobody
    MaxCommands,  \* commands of one client
    MaxJobs,
    MaxFaults     \* restarts of the agent, killed clients, lost connections

Ops == {"up", "up_here", "down", "destroy", "verify"}

ASSUME BoundAssumption == {MaxCommands, MaxJobs, MaxFaults} \subseteq Nat
ASSUME OpsAssumption   == OpsOf \in [Clients -> SUBSET Ops]
ASSUME NoneAssumption  == /\ None \notin Nat \cup Ops \cup {"request", "job"}
                          /\ None \notin Clients \X (0 .. MaxCommands)

VARIABLES
    cmd,     \* the clients, each with the request it waits for
    strays,  \* requests whose client is gone
    row,     \* the agent knows the project
    stack,   \* its containers: "up" or "down"
    lock,    \* what holds its lock: "request", "job" or None
    job,     \* the jobs
    deleted, \* history: whose delete removed the project, and did it stop
    faults

agentVars == <<row, stack, lock, job, deleted>>
vars      == <<cmd, strays, agentVars, faults>>

Jobs == 1 .. MaxJobs

\* The calls of a command, in their order.  In the VM there is nothing to upload, and
\* no project is fetched after a create that found it.
UpCalls      == <<"create", "get", "upload", "up", "poll">>
UpHereCalls  == <<"create", "up", "poll">>
DownCalls    == <<"down", "poll">>
DestroyCalls == <<"delete">>
VerifyCalls  == <<"create", "get", "upload", "up", "poll", "probe", "delete">>

Plan == [up |-> UpCalls, up_here |-> UpHereCalls, down |-> DownCalls,
         destroy |-> DestroyCalls, verify |-> VerifyCalls]

Calls == {VerifyCalls[n] : n \in DOMAIN VerifyCalls} \cup {"down"}

Idle == [op |-> None, no |-> 0, at |-> 1, served |-> FALSE, job |-> None,
         first |-> None, told |-> None, result |-> "none"]

Running(c) == cmd[c].result = "running"
CallOf(c)  == Plan[cmd[c].op][cmd[c].at]
AtEnd(c)   == cmd[c].at = Len(Plan[cmd[c].op])

\* Whose a request or a job is: the client's, and its how manieth command's.
By(c)      == <<c, cmd[c].no>>
Of(c)      == [kind |-> CallOf(c), by |-> By(c), served |-> cmd[c].served, left |-> FALSE]
Waiting    == {c \in Clients : Running(c) /\ CallOf(c) # "probe"}
Requests   == {Of(c) : c \in Waiting} \cup strays

Fault      == faults < MaxFaults /\ faults' = faults + 1

-----------------------------------------------------------------------------
(* What a client makes of an answer *)

\* MUTANT of Good: a job that is not known any more is over.
GoodUnlessFailed(call, answer) ==
    \/ answer \in {"ok", "done"}
    \/ call = "create" /\ answer = "exists"
    \/ call = "delete" /\ answer = "unstopped"
    \/ call = "poll" /\ answer = "missing"

\* That its containers could not be stopped is part of a delete's answer.
Good(call, answer) ==
    \/ answer \in {"ok", "done"}
    \/ call = "create" /\ answer = "exists"
    \/ call = "delete" /\ answer = "unstopped"

\* MUTANT of Skips: what comes after a create is skipped, whatever it is.
SkipsAnything(c, answer) == CallOf(c) = "create" /\ answer = "ok"

\* ensure_project fetches a project only if it was there.
Skips(c, answer) == /\ CallOf(c) = "create" /\ answer = "ok"
                    /\ Plan[cmd[c].op][cmd[c].at + 1] = "get"

Ended(c, result, told) ==
    [Idle EXCEPT !.op = cmd[c].op, !.no = cmd[c].no, !.result = result, !.told = told,
                 !.first = IF cmd[c].first # None \/ result = "ok" THEN cmd[c].first
                                                                   ELSE CallOf(c)]

\* The end of the plan.  Only `destroy` asks whether the containers were stopped; what
\* verify_step was failing with goes on its way after _teardown.
Complete(c, answer) ==
    IF cmd[c].op = "destroy" /\ answer = "unstopped" THEN Ended(c, "failed", "delete")
    ELSE IF cmd[c].first # None THEN Ended(c, "failed", cmd[c].first)
    ELSE Ended(c, "ok", None)

Proceed(c, answer, j) ==
    IF AtEnd(c) THEN Complete(c, answer)
    ELSE [cmd[c] EXCEPT !.at = @ + IF Skips(c, answer) THEN 2 ELSE 1, !.served = FALSE,
                        !.job = IF CallOf(c) \in {"up", "down"} THEN j ELSE @]

\* verify_step's `finally` deletes the project.
TearDown(c) == [cmd[c] EXCEPT !.at = Len(Plan["verify"]), !.served = FALSE,
                              !.first = CallOf(c)]

\* MUTANT of Raised: _teardown asks whether something is failing in its own except.
RaisedSwallowed(c) ==
    IF cmd[c].op # "verify" THEN Ended(c, "failed", CallOf(c))
    ELSE IF ~AtEnd(c) THEN TearDown(c)
    ELSE IF cmd[c].first # None THEN Ended(c, "failed", cmd[c].first)
    ELSE Ended(c, "ok", None)

\* MUTANT of Raised: _teardown's own failure takes the place of the first.
RaisedByTeardown(c) ==
    IF cmd[c].op = "verify" /\ ~AtEnd(c) THEN TearDown(c)
    ELSE Ended(c, "failed", CallOf(c))

\* An exception ends the command.  A failure of _teardown is told only if nothing
\* failed before.
Raised(c) ==
    IF cmd[c].op = "verify" /\ ~AtEnd(c) THEN TearDown(c)
    ELSE Ended(c, "failed", IF cmd[c].first # None THEN cmd[c].first ELSE CallOf(c))

Reacted(c, answer, j) ==
    IF Good(CallOf(c), answer) THEN Proceed(c, answer, j) ELSE Raised(c)

-----------------------------------------------------------------------------
(* The clients *)

Run(c) ==
    /\ ~Running(c) /\ cmd[c].no < MaxCommands
    /\ \E op \in OpsOf[c] : cmd' = [cmd EXCEPT ![c] =
                         [Idle EXCEPT !.op = op, !.no = cmd[c].no + 1, !.result = "running"]]
    /\ UNCHANGED <<strays, agentVars, faults>>

\* _await_http_ok asks the project's own URL.
ProbeUrl(c) ==
    /\ Running(c) /\ CallOf(c) = "probe"
    /\ cmd' = [cmd EXCEPT ![c] = IF stack = "up" THEN Proceed(c, "ok", None) ELSE Raised(c)]
    /\ UNCHANGED <<strays, agentVars, faults>>

\* It never answers 200, the job's result has a diagnosis, or no URL.
ProbeFails(c) ==
    /\ Running(c) /\ CallOf(c) = "probe"
    /\ Fault
    /\ cmd' = [cmd EXCEPT ![c] = Raised(c)]
    /\ UNCHANGED <<strays, agentVars>>

\* What the agent would say to wait for: a busy project (_while_busy), a job that has
\* not ended (wait_for_job).
Busy(c)    == /\ CallOf(c) \in {"upload", "up", "down", "delete"}
              /\ row /\ lock # None /\ ~cmd[c].served
NotOver(c) == /\ CallOf(c) = "poll"
              /\ job[cmd[c].job].state \in {"running", "worked", "broke"}
Waits(c)   == Busy(c) \/ NotOver(c)

\* MUTANT of GiveUp: the deadline is set anew for every attempt.
GiveUpNever(c) == FALSE /\ c \in Waiting /\ UNCHANGED vars

\* The deadline has passed when the agent says to wait.
GiveUp(c) ==
    /\ c \in Waiting /\ Waits(c)
    /\ cmd' = [cmd EXCEPT ![c] = Raised(c)]
    /\ UNCHANGED <<strays, agentVars, faults>>

\* A request whose client goes away may be served yet.  A read has no effect, and an
\* upload that is not being served no body.
Leave(c) ==
    \/ UNCHANGED strays /\ ~cmd[c].served
    \/ /\ CallOf(c) \in {"create", "upload", "up", "down", "delete"}
       /\ CallOf(c) = "upload" => cmd[c].served
       /\ strays' = strays \cup {[Of(c) EXCEPT !.left = TRUE]}

\* MUTANT of Unanswered: a call that got no answer is made again.
UnansweredAgain(c) ==
    /\ c \in Waiting
    /\ Fault
    /\ Leave(c)
    /\ cmd' = [cmd EXCEPT ![c].served = FALSE]
    /\ UNCHANGED agentVars

\* The socket's timeout, or a connection that breaks.
Unanswered(c) ==
    /\ c \in Waiting
    /\ Fault
    /\ Leave(c)
    /\ cmd' = [cmd EXCEPT ![c] = Raised(c)]
    /\ UNCHANGED agentVars

Kill(c) ==
    /\ Running(c)
    /\ Fault
    /\ IF c \in Waiting THEN Leave(c) ELSE UNCHANGED strays
    /\ cmd' = [cmd EXCEPT ![c] = Ended(c, "killed", None)]
    /\ UNCHANGED agentVars

-----------------------------------------------------------------------------
(* The agent *)

Asked(q, kinds)  == ~q.served /\ q.kind \in kinds
Sender(q)        == {c \in Waiting : Of(c) = q}

Answer(q, answer, j) ==
    /\ cmd' = [c \in Clients |-> IF c \in Sender(q) THEN Reacted(c, answer, j) ELSE cmd[c]]
    /\ strays' = strays \ {q}

Create(q) ==
    /\ Asked(q, {"create"})
    /\ Answer(q, IF row THEN "exists" ELSE "ok", None)
    /\ row' = TRUE
    /\ UNCHANGED <<stack, lock, job, deleted, faults>>

Get(q) ==
    /\ Asked(q, {"get"})
    /\ Answer(q, IF row THEN "ok" ELSE "missing", None)
    /\ UNCHANGED <<agentVars, faults>>

\* A job the registry does not know any more is missing.
Poll(q) ==
    /\ Asked(q, {"poll"})
    /\ \E c \in Sender(q), answer \in {"done", "failed", "missing"} :
         /\ job[cmd[c].job].state = IF answer = "missing" THEN "lost" ELSE answer
         /\ Answer(q, answer, None)
    /\ UNCHANGED <<agentVars, faults>>

\* No such project or, for an `up`, one that cannot be read.  (A stray is not asked
\* again: a busy project ends it.)
Refuse(q) ==
    /\ Asked(q, {"upload", "delete", "up", "down"})
    /\ \/ ~row /\ Answer(q, "missing", None)
       \/ row /\ q.kind = "up" /\ Answer(q, "error", None)
       \/ row /\ lock # None /\ q.left /\ Answer(q, "busy", None)
    /\ UNCHANGED <<agentVars, faults>>

Submit(q) ==
    /\ Asked(q, {"up", "down"}) /\ row /\ lock = None
    /\ \E j \in Jobs :
         /\ job[j].state = "new" /\ \A k \in 1 .. j - 1 : job[k].state # "new"
         /\ job' = [job EXCEPT ![j] = [state |-> "running", op |-> q.kind, by |-> q.by]]
         /\ Answer(q, "ok", j)
    /\ lock' = "job"
    /\ UNCHANGED <<row, stack, deleted, faults>>

\* An upload or a delete has the project's lock while it is served.  That the row is looked
\* up before the lock is taken is AgentProjects' affair: either answer is refused alike.
Accept(q) ==
    /\ Asked(q, {"upload", "delete"}) /\ row /\ lock = None
    /\ lock' = "request"
    /\ cmd' = [c \in Clients |-> IF c \in Sender(q) THEN [cmd[c] EXCEPT !.served = TRUE]
                                                    ELSE cmd[c]]
    /\ strays' = IF q.left THEN (strays \ {q}) \cup {[q EXCEPT !.served = TRUE]} ELSE strays
    /\ UNCHANGED <<row, stack, job, deleted, faults>>

Upload(q) ==
    /\ q.served /\ q.kind = "upload"
    /\ \E answer \in {"ok", "error"} : Answer(q, answer, None)
    /\ lock' = None
    /\ UNCHANGED <<row, stack, job, deleted, faults>>

\* The row goes whether or not compose could stop the containers.
Delete(q) ==
    /\ q.served /\ q.kind = "delete"
    /\ \E stopped \in BOOLEAN :
         /\ stack' = IF stopped THEN "down" ELSE stack
         /\ deleted' = deleted \cup {[by |-> q.by, stopped |-> stopped]}
         /\ Answer(q, IF stopped THEN "ok" ELSE "unstopped", None)
    /\ row' = FALSE
    /\ lock' = None
    /\ UNCHANGED <<job, faults>>

\* The work of a job, which gives back the lock ...
Work(j) ==
    /\ job[j].state = "running"
    /\ \E outcome \in {"worked", "broke"} :
         /\ job' = [job EXCEPT ![j].state = outcome]
         /\ stack' \in IF outcome = "worked" THEN {job[j].op} ELSE {stack, "up", "down"}
    /\ lock' = None
    /\ UNCHANGED <<cmd, strays, row, deleted, faults>>

\* ... before the job is marked as finished.
Finish(j) ==
    /\ job[j].state \in {"worked", "broke"}
    /\ job' = [job EXCEPT ![j].state = IF @ = "worked" THEN "done" ELSE "failed"]
    /\ UNCHANGED <<cmd, strays, row, stack, lock, deleted, faults>>

\* The registry and the locks are in the process's memory.  What it was doing is cut
\* short, before or after its effect, and who is not asleep gets no answer.
AgentRestart ==
    /\ Fault
    /\ job' = [j \in Jobs |-> IF job[j].state = "new" THEN job[j]
                              ELSE [job[j] EXCEPT !.state = "lost"]]
    /\ lock' = None
    /\ strays' = {}
    /\ \E cut \in SUBSET Waiting :
         /\ \A c \in Waiting \ cut : ~cmd[c].served
         /\ cmd' = [c \in Clients |-> IF c \in cut THEN Raised(c) ELSE cmd[c]]
    /\ stack' \in IF lock = None THEN {stack} ELSE {stack, "up", "down"}
    /\ \/ UNCHANGED row
       \/ row' = FALSE /\ \E q \in Requests : q.served /\ q.kind = "delete"
    /\ UNCHANGED deleted

Serve(q) == \/ Create(q) \/ Get(q) \/ Poll(q) \/ Refuse(q) \/ Submit(q) \/ Accept(q)
            \/ Upload(q) \/ Delete(q)

-----------------------------------------------------------------------------

Init ==
    /\ cmd = [c \in Clients |-> Idle]
    /\ strays = {}
    /\ row \in BOOLEAN
    /\ stack \in IF row THEN {"up", "down"} ELSE {"down"}
    /\ lock = None
    /\ job = [j \in Jobs |-> [state |-> "new", op |-> None, by |-> None]]
    /\ deleted = {}
    /\ faults = 0

Next ==
    \/ \E c \in Clients : \/ Run(c) \/ ProbeUrl(c) \/ ProbeFails(c) \/ GiveUp(c)
                          \/ Unanswered(c) \/ Kill(c)
    \/ \E q \in Requests : Serve(q)
    \/ \E j \in Jobs : Work(j) \/ Finish(j)
    \/ AgentRestart

Spec == Init /\ [][Next]_vars

\* A client's request is served, or its deadline comes; a request that is being served
\* ends.  A job may take forever.
Attended(c) == ProbeUrl(c) \/ GiveUp(c) \/ \E q \in Requests : c \in Sender(q) /\ Serve(q)

Fairness ==
    /\ \A c \in Clients : WF_vars(Attended(c))
    /\ WF_vars(\E q \in strays : q.served /\ Serve(q))

FairSpec == Spec /\ Fairness

-----------------------------------------------------------------------------
(* Properties *)

\* Every variable keeps its type, a client polls only a job it was told of, and the lock
\* is held exactly while something is done under it.
TypeOK ==
    /\ \A c \in Clients :
         /\ cmd[c].op \in Ops \cup {None} /\ cmd[c].no \in 0 .. MaxCommands
         /\ {cmd[c].first, cmd[c].told} \subseteq Calls \cup {None}
         /\ cmd[c].result \in {"none", "running", "ok", "failed", "killed"}
         /\ Running(c) /\ CallOf(c) = "poll" => cmd[c].job \in Jobs
    /\ \A q \in strays : q.left
    /\ row \in BOOLEAN /\ stack \in {"up", "down"}
    /\ lock = "request" <=> \E q \in Requests : q.served
    /\ lock = "job"     <=> \E j \in Jobs : job[j].state = "running"
    /\ faults \in 0 .. MaxFaults

\* A command starts at most one job, whatever is lost, late or asked again: only a
\* refusal is retried (_while_busy).
OneJobPerCommand ==
    \A i, j \in Jobs : i # j /\ job[i].by = job[j].by => job[i].by = None

\* A command says that the project is up or down only if a job of its own brought it
\* there; a job lost in a restart is never taken for success (wait_for_job).
OkIsOwnJob ==
    [][\A c \in Clients :
         Running(c) /\ cmd'[c].result = "ok" /\ cmd[c].op \in {"up", "up_here", "down"} =>
            \E j \in Jobs : /\ job[j].by = By(c) /\ job[j].state = "done"
                            /\ job[j].op = IF cmd[c].op = "down" THEN "down" ELSE "up"]_vars

\* `destroy` and the check of setup succeed only if a delete of their own removed the
\* project, and `destroy` only if that stopped its containers (cli.destroy; _teardown
\* does not read `stopped`, so a check that succeeded may leave its containers running).
OkIsDeleted ==
    \A c \in Clients : cmd[c].result = "ok" =>
        /\ cmd[c].op = "destroy" => [by |-> By(c), stopped |-> TRUE] \in deleted
        /\ cmd[c].op = "verify"  => \E d \in deleted : d.by = By(c)

\* What the user is told is the first thing that failed (_teardown: "masking the reason
\* verification failed is worse than a leaked container").
FirstFailureIsTold ==
    \A c \in Clients : cmd[c].result = "failed" => cmd[c].told = cmd[c].first

\* Every command ends, even if the job it waits for, or the one that has the lock, never
\* does.
CommandEnds == \A c \in Clients : Running(c) ~> ~Running(c)

=============================================================================
