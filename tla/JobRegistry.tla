---------------------------- MODULE JobRegistry ----------------------------
(***************************************************************************)
(* The job registry of the agent (agent/api/jobs.py) and the routes that   *)
(* read it: a job is registered, run by a thread of its own that appends   *)
(* to its log, followed by readers that wait on its condition variable,    *)
(* and dropped from the registry some time after it finished.              *)
(*                                                                         *)
(* The clock of finished_at ticks between any two jobs that finish (it     *)
(* counts nanoseconds), unless somebody sets it back.  JobRegistry.wait is *)
(* used by tests only and left out.                                        *)
(*                                                                         *)
(* Steps under the registry's lock or under a job's condition are one      *)
(* action; a follower's generator is one action per visit to the condition *)
(* and per delivery to its client.                                         *)
(***************************************************************************)
EXTENDS Sequences, Naturals, FiniteSets

CONSTANTS
    Jobs,          \* the jobs of this instance; ids are never used twice
    Followers,     \* clients that follow a log
    Chunks,        \* what a worker may write
    None,          \* no job
    MaxFinished,   \* finished jobs a submit leaves in the registry
    MaxLog         \* bound on the chunks the worker of each job writes

ASSUME MaxFinishedAssumption == MaxFinished \in Nat
ASSUME NoneAssumption        == None \notin Jobs
ASSUME MaxLogAssumption      == MaxLog \in [Jobs -> Nat]

VARIABLES
    registry,   \* the keys of _jobs
    submitted,  \* the jobs in the order they were put there: the order of the dict
    job,        \* the Job objects
    worker,     \* the thread of each job
    fol,        \* the followers
    now,        \* the wall clock
    order       \* history: the jobs in the order they finished

vars == <<registry, submitted, job, worker, fol, now, order>>

JobRec  == [state : {"running", "done", "failed"}, logs : Seq(Chunks),
            finished_at : Nat]                      \* 0: not finished
Worker  == {"new", "registered", "unstarted", "running", "over"}
FolPC   == {"idle", "accepted", "loop", "wait", "yield", "return"}
FolRec  == [pc : FolPC, job : Jobs \cup {None}, sent : Nat, chunk : Seq(Chunks),
            out : Seq(Chunks), last : BOOLEAN, result : {"none", "complete", "cut",
                                                         "refused", "broken"}]

NewJob == [state |-> "running", logs |-> <<>>, finished_at |-> 0]
IdleFollower(result) == [pc |-> "idle", job |-> None, sent |-> 0, chunk |-> <<>>,
                         out |-> <<>>, last |-> FALSE, result |-> result]

-----------------------------------------------------------------------------
(* Submitting, and evicting *)

Finished == {j \in registry : job[j].finished_at # 0}

\* How a stable sort by finished_at puts two jobs of the dict.
SortedBefore(j, k) ==
    \/ job[j].finished_at < job[k].finished_at
    \/ /\ job[j].finished_at = job[k].finished_at
       /\ \E m, n \in DOMAIN submitted : m < n /\ submitted[m] = j /\ submitted[n] = k

\* MUTANT of Evicted: the newest go first.
EvictedNewest ==
    {j \in Finished : Cardinality({k \in Finished : SortedBefore(j, k)})
                        < Cardinality(Finished) - MaxFinished}

\* How many of the finished jobs come before one of them.
Rank(j) == Cardinality({k \in Finished : SortedBefore(k, j)})

\* The first len(finished) - max_finished of the finished jobs.
Evicted == {j \in Finished : Rank(j) < Cardinality(Finished) - MaxFinished}

\* The job is registered, and old ones are evicted, under the registry's lock.  (It is
\* not finished, and is none of them.)
Submit(j) ==
    /\ worker[j] = "new"
    /\ registry' = (registry \ Evicted) \cup {j}
    /\ submitted' = Append(submitted, j)
    /\ worker' = [worker EXCEPT ![j] = "registered"]
    /\ UNCHANGED <<job, fol, now, order>>

StartThread(j) ==
    /\ worker[j] = "registered"
    /\ worker' = [worker EXCEPT ![j] = "running"]
    /\ UNCHANGED <<registry, submitted, job, fol, now, order>>

\* The thread cannot be started: submit raises, and nobody is told the job's id.
StartFails(j) ==
    /\ worker[j] = "registered"
    /\ worker' = [worker EXCEPT ![j] = "unstarted"]
    /\ UNCHANGED <<registry, submitted, job, fol, now, order>>

-----------------------------------------------------------------------------
(* The worker *)

\* notify_all on the condition of a job.
Notified(j) == [f \in Followers |-> IF fol[f].pc = "wait" /\ fol[f].job = j
                                      THEN [fol[f] EXCEPT !.pc = "loop"] ELSE fol[f]]

AppendLog(j) ==
    /\ worker[j] = "running"
    /\ Len(job[j].logs) < MaxLog[j]
    /\ \E c \in Chunks : job' = [job EXCEPT ![j].logs = Append(@, c)]
    /\ fol' = Notified(j)
    /\ UNCHANGED <<registry, submitted, worker, now, order>>

\* MUTANT of Finish: the followers are not told.
FinishSilently(j) ==
    /\ worker[j] = "running"
    /\ \E state \in {"done", "failed"} :
         job' = [job EXCEPT ![j].state = state, ![j].finished_at = now + 1]
    /\ now' = now + 1
    /\ worker' = [worker EXCEPT ![j] = "over"]
    /\ order' = Append(order, j)
    /\ UNCHANGED <<registry, submitted, fol>>

\* MUTANT of Finish: a failed job gets no time.
FinishUntimed(j) ==
    /\ worker[j] = "running"
    /\ \/ job' = [job EXCEPT ![j].state = "done", ![j].finished_at = now + 1]
       \/ job' = [job EXCEPT ![j].state = "failed"]
    /\ now' = now + 1
    /\ fol' = Notified(j)
    /\ worker' = [worker EXCEPT ![j] = "over"]
    /\ order' = Append(order, j)
    /\ UNCHANGED <<registry, submitted>>

\* The work returned, raised JobFailed or crashed: state and time under the
\* condition, then notify_all.
Finish(j) ==
    /\ worker[j] = "running"
    /\ \E state \in {"done", "failed"} :
         job' = [job EXCEPT ![j].state = state, ![j].finished_at = now + 1]
    /\ now' = now + 1
    /\ fol' = Notified(j)
    /\ worker' = [worker EXCEPT ![j] = "over"]
    /\ order' = Append(order, j)
    /\ UNCHANGED <<registry, submitted>>

SetClockBack ==
    /\ now > 0
    /\ now' = now - 1
    /\ UNCHANGED <<registry, submitted, job, worker, fol, order>>

-----------------------------------------------------------------------------
(* GET /jobs/{id}/logs?follow=true *)

\* A client that was told the job's id asks for its log: require_job.
Follow(f, j) ==
    /\ fol[f].pc = "idle"
    /\ worker[j] \in {"running", "over"}
    /\ fol' = [fol EXCEPT ![f] =
                 IF j \in registry
                   THEN [fol[f] EXCEPT !.pc = "accepted", !.job = j, !.result = "none"]
                   ELSE IdleFollower("refused")]
    /\ UNCHANGED <<registry, submitted, job, worker, now, order>>

\* The generator's own require, once the answer is being streamed.
Begin(f) ==
    /\ fol[f].pc = "accepted"
    /\ fol' = [fol EXCEPT ![f] =
                 IF fol[f].job \in registry
                   THEN [fol[f] EXCEPT !.pc = "loop"]
                   ELSE IdleFollower("broken")]
    /\ UNCHANGED <<registry, submitted, job, worker, now, order>>

\* Under the condition: wait, or take what has been written since.
Look(f) ==
    /\ fol[f].pc = "loop"
    /\ LET j == job[fol[f].job]
       IN  fol' = [fol EXCEPT ![f] =
             IF fol[f].sent >= Len(j.logs) /\ j.state = "running"
               THEN [@ EXCEPT !.pc = "wait"]
               ELSE [@ EXCEPT !.pc = "yield",
                              !.chunk = SubSeq(j.logs, fol[f].sent + 1, Len(j.logs)),
                              !.sent = Len(j.logs),
                              !.last = j.state # "running"]]
    /\ UNCHANGED <<registry, submitted, job, worker, now, order>>

\* The wait's own timeout.
WakeUp(f) ==
    /\ fol[f].pc = "wait"
    /\ fol' = [fol EXCEPT ![f].pc = "loop"]
    /\ UNCHANGED <<registry, submitted, job, worker, now, order>>

\* MUTANT of Yield: what counts as sent is what the log has after the delivery.
YieldThenCount(f) ==
    /\ fol[f].pc = "yield"
    /\ fol' = [fol EXCEPT ![f].out = @ \o fol[f].chunk, ![f].chunk = <<>>,
                          ![f].sent = Len(job[fol[f].job].logs),
                          ![f].pc = IF fol[f].last THEN "return" ELSE "loop"]
    /\ UNCHANGED <<registry, submitted, job, worker, now, order>>

\* Delivery takes as long as the client does, and the condition is not held.
Yield(f) ==
    /\ fol[f].pc = "yield"
    /\ fol' = [fol EXCEPT ![f].out = @ \o fol[f].chunk, ![f].chunk = <<>>,
                          ![f].pc = IF fol[f].last THEN "return" ELSE "loop"]
    /\ UNCHANGED <<registry, submitted, job, worker, now, order>>

Return(f) ==
    /\ fol[f].pc = "return"
    /\ fol' = [fol EXCEPT ![f] = IdleFollower("complete")]
    /\ UNCHANGED <<registry, submitted, job, worker, now, order>>

\* The client goes away: the generator is closed where it yields.
Disconnect(f) ==
    /\ fol[f].pc = "yield"
    /\ fol' = [fol EXCEPT ![f] = IdleFollower("cut")]
    /\ UNCHANGED <<registry, submitted, job, worker, now, order>>

-----------------------------------------------------------------------------

Init ==
    /\ registry = {}
    /\ submitted = <<>>
    /\ job = [j \in Jobs |-> NewJob]
    /\ worker = [j \in Jobs |-> "new"]
    /\ fol = [f \in Followers |-> IdleFollower("none")]
    /\ now = 0
    /\ order = <<>>

Generator(f) == Begin(f) \/ Look(f) \/ Yield(f) \/ Return(f)

Next ==
    \/ \E j \in Jobs : \/ Submit(j) \/ StartThread(j) \/ StartFails(j)
                       \/ AppendLog(j) \/ Finish(j)
    \/ \E f \in Followers : \/ \E j \in Jobs : Follow(f, j)
                            \/ Generator(f)
                            \/ WakeUp(f) \/ Disconnect(f)
    \/ SetClockBack

Spec == Init /\ [][Next]_vars

\* Work ends, and a follower's client reads on. Nobody is owed the timeout of a wait.
Fairness ==
    /\ \A j \in Jobs : WF_vars(Finish(j))
    /\ \A f \in Followers : WF_vars(Generator(f))

FairSpec == Spec /\ Fairness

-----------------------------------------------------------------------------
(* Properties *)

\* Every variable keeps its type, and an outcome is whole: a job that is over has a
\* time it finished at, and one that is not has none (Job.finish).
TypeOK ==
    /\ registry \subseteq Jobs
    /\ submitted \in Seq(Jobs)
    /\ job \in [Jobs -> JobRec]
    /\ \A j \in Jobs : job[j].state = "running" <=> job[j].finished_at = 0
    /\ worker \in [Jobs -> Worker]
    /\ fol \in [Followers -> FolRec]
    /\ now \in Nat
    /\ order \in Seq(Jobs)

\* By the history, and not by the clock: j finished before k.
FinishedBefore(j, k) == \E m, n \in DOMAIN order : m < n /\ order[m] = j /\ order[n] = k

\* The times of the finished jobs tell the order they finished in: nobody set the clock
\* back in between.
ClockRan == \A m, n \in DOMAIN order :
                m < n => job[order[m]].finished_at < job[order[n]].finished_at

\* A submit drops only finished jobs, and only to come down to MaxFinished of them:
\* what runs is never dropped, and, as long as the clock runs, the newest finished jobs
\* survive (_evict_finished).
EvictsOldest ==
    [][\A j \in registry \ registry' :
         /\ j \in Finished
         /\ Cardinality(Finished \cap registry') = MaxFinished
         /\ ClockRan => \A k \in Finished \cap registry' :
                           FinishedBefore(j, k)]_vars

\* The registry implements JobStream: a reader is given the whole log, in order and
\* once, and its stream ends when the job has (follow).  It is a reader once its request
\* is accepted.
Logs    == [j \in Jobs |-> job[j].logs]
Over    == {j \in Jobs : job[j].state # "running"}
Reading == [f \in Followers |-> IF fol[f].pc = "idle" THEN None ELSE fol[f].job]
Given   == [f \in Followers |-> fol[f].out]
Told    == [f \in Followers |-> IF fol[f].result \in {"refused", "broken"} THEN "cut"
                                ELSE fol[f].result]

Stream == INSTANCE JobStream WITH
    Readers <- Followers, log <- Logs, ended <- Over, at <- Reading, read <- Given,
    result <- Told

FollowIsStream == Stream!Spec

\* Every follower whose client reads on comes to its end, without the timeout of its
\* wait: append and finish wake everybody they should.
FollowEnds == \A f \in Followers : fol[f].pc # "idle" ~> fol[f].pc = "idle"

=============================================================================
