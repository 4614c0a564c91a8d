--------------------------- MODULE AgentProjects ---------------------------
(***************************************************************************)
(* The project API of the agent (agent/api/app.py) with everything its     *)
(* handlers share: the per-project locks, the rows of the state database,  *)
(* the project's files, the containers dockerd runs, and the job threads   *)
(* that `up` and `down` hand their work to.                                *)
(*                                                                         *)
(* A request is a handler running on its own thread or coroutine; its pc   *)
(* names the next thing it does that another thread can observe.  A job is *)
(* a worker thread.  One step is one lock operation, one transaction, one  *)
(* file operation or one docker command; between any two steps every other *)
(* thread may run, and the agent may be restarted.                         *)
(***************************************************************************)

CONSTANTS
    Projects,   \* project ids
    Versions,   \* contents docker-compose.yml can have
    Requests,   \* slots for requests being served at the same time
    Jobs,       \* slots for entries of the job registry
    CallsOf,    \* the routes the clients of each request slot use
    Restarts,   \* may the agent's process stop and start again?
    None,       \* no project, no file, no diagnosis
    Torn        \* content that does not parse, as of a file that is half written

Routes == {"create", "get", "list", "upload", "write", "unlink",
           "delete", "up", "down"}

ASSUME SentinelAssumption ==
    /\ None \notin Projects \cup Versions
    /\ Torn \notin Versions \cup {None}
ASSUME SlotsAssumption    == Requests \cap Jobs = {}
ASSUME CallsAssumption    == CallsOf \in [Requests -> SUBSET Routes]
ASSUME RestartsAssumption == Restarts \in BOOLEAN

VARIABLES
    held,      \* ProjectLocks._held
    rows,      \* table projects of the state database
    files,     \* docker-compose.yml in each project directory
    overlay,   \* .omelet/overlay.yml: the version it was generated from
    stack,     \* the containers of each project, in dockerd
    req,       \* the requests being served
    job        \* the job registry and its threads

vars == <<held, rows, files, overlay, stack, req, job>>

-----------------------------------------------------------------------------
(* Values *)

RowStatus == {"stopped", "started_ok", "failed_to_start", "crash_looping"}
Contents  == Versions \cup {None, Torn}

\* A diagnosis names the service and the port it found silent, so it is
\* identified by the version of the project it was made of.
NoRow == [status |-> "absent", problem |-> None]
Row   == [status : RowStatus, problem : Versions \cup {None}] \cup {NoRow}

Stack   == [compose : Versions \cup {None}, overlay : Versions \cup {None},
            serves : BOOLEAN]
NoStack == [compose |-> None, overlay |-> None, serves |-> FALSE]

RequestPC == {"idle", "start", "insert", "reread", "exists", "read", "is_file",
              "lock", "submit", "body", "extract", "writing", "replace", "stat",
              "unlink", "down", "row", "release",
              "payload", "payload_read", "probe", "clear"}
Answers   == {"none", "ok", "refused", "internal"}

Request == [pc : RequestPC, op : Routes \cup {"none"}, proj : Projects \cup {None},
            snap : [Projects -> Row], ver : Versions \cup {None}, ans : Answers]
NoSnap  == [p \in Projects |-> NoRow]
Idle(ans) == [pc |-> "idle", op |-> "none", proj |-> None, snap |-> NoSnap,
              ver |-> None, ans |-> ans]

JobPC    == {"idle", "overlay", "compose", "diagnose", "down", "status",
             "problem", "release", "finish"}
JobState == {"absent", "running", "done", "failed"}
Job   == [state : JobState, op : {"none", "up", "down"}, proj : Projects \cup {None},
          pc : JobPC, ver : Versions \cup {None}, status : RowStatus \cup {"none"},
          diag : Versions \cup {None}]
NoJob == [state |-> "absent", op |-> "none", proj |-> None, pc |-> "idle",
          ver |-> None, status |-> "none", diag |-> None]

\* The program points at which a thread is between its acquire and its release.
LockedRequest == {"submit", "body", "extract", "writing", "replace", "unlink",
                  "down", "row", "release"}
LockedJob     == JobPC \ {"idle", "finish"}

RequestsHolding(p) == {r \in Requests : req[r].pc \in LockedRequest /\ req[r].proj = p}
JobsHolding(p)     == {j \in Jobs : job[j].pc \in LockedJob /\ job[j].proj = p}
Owners(p)          == RequestsHolding(p) \cup JobsHolding(p)

-----------------------------------------------------------------------------
(* Steps shared by the handlers *)

GoTo(r, pc)    == req' = [req EXCEPT ![r].pc = pc]
\* Of an answer that was sent, only a crash of the handler (500) is remembered.
Reply(r, ans)  == req' = [req EXCEPT ![r] =
                            Idle(IF ans = "internal" THEN "internal" ELSE "none")]
Leave(r, ans)  == req' = [req EXCEPT ![r].pc = "release", ![r].ans = ans]

\* MUTANT of AfterRow: delete_project works without the lock.
AfterRowUnlocked == [upload |-> "lock", write |-> "lock", unlink |-> "is_file",
                     delete |-> "down", up |-> "exists", down |-> "lock"]

\* Where each route goes once its project is known to have a row, and once the
\* project's lock is its own.
AfterRow  == [upload |-> "lock", write |-> "lock", unlink |-> "is_file",
              delete |-> "lock", up |-> "exists", down |-> "lock"]
AfterLock == [upload |-> "body", write |-> "body", unlink |-> "unlink",
              delete |-> "down", up |-> "submit", down |-> "submit"]

\* A client calls a route of the API for a project.
Call(r, op, p) ==
    /\ req[r].pc = "idle"
    /\ op \in CallsOf[r]
    /\ req' = [req EXCEPT ![r] = [Idle("none") EXCEPT !.pc = "start", !.op = op,
                                                      !.proj = p]]
    /\ UNCHANGED <<held, rows, files, overlay, stack, job>>

\* The routes that work on a project start by looking up its row.
RequireRow(r) ==
    /\ req[r].pc = "start"
    /\ req[r].op \in DOMAIN AfterRow
    /\ \/ rows[req[r].proj] = NoRow /\ Reply(r, "refused")
       \/ rows[req[r].proj] # NoRow /\ GoTo(r, AfterRow[req[r].op])
    /\ UNCHANGED <<held, rows, files, overlay, stack, job>>

\* Taking the project's lock never waits: a project that is busy is refused.
Acquire(r) ==
    /\ req[r].pc = "lock"
    /\ \/ /\ req[r].proj \in held
          /\ Reply(r, "refused")
          /\ UNCHANGED held
       \/ /\ req[r].proj \notin held
          /\ held' = held \cup {req[r].proj}
          /\ GoTo(r, AfterLock[req[r].op])
    /\ UNCHANGED <<rows, files, overlay, stack, job>>

\* Leaving the `with locks.held(...)` block of a handler.
Release(r) ==
    /\ req[r].pc = "release"
    /\ held' = held \ {req[r].proj}
    /\ IF req[r].op = "write" /\ req[r].ans = "ok"
         THEN GoTo(r, "stat")
         ELSE Reply(r, req[r].ans)
    /\ UNCHANGED <<rows, files, overlay, stack, job>>

-----------------------------------------------------------------------------
(* POST /projects *)

CreateCheck(r) ==
    /\ req[r].pc = "start"
    /\ req[r].op = "create"
    /\ \/ rows[req[r].proj] # NoRow /\ Reply(r, "refused")
       \/ rows[req[r].proj] = NoRow /\ GoTo(r, "insert")
    /\ UNCHANGED <<held, rows, files, overlay, stack, job>>

\* INSERT OR REPLACE: a row that is already there loses its status and diagnosis.
CreateInsert(r) ==
    /\ req[r].pc = "insert"
    /\ rows' = [rows EXCEPT ![req[r].proj] = [status |-> "stopped", problem |-> None]]
    /\ GoTo(r, "reread")
    /\ UNCHANGED <<held, files, overlay, stack, job>>

\* The answer is built from the row read back; a row that is gone crashes it.
CreateReread(r) ==
    /\ req[r].pc = "reread"
    /\ LET p == req[r].proj
       IN  \/ rows[p] = NoRow /\ Reply(r, "internal")
           \/ /\ rows[p] # NoRow
              /\ req' = [req EXCEPT ![r].snap[p] = rows[p], ![r].pc = "payload"]
    /\ UNCHANGED <<held, rows, files, overlay, stack, job>>

-----------------------------------------------------------------------------
(* GET /projects/{id} and GET /projects: snapshot the rows, then build one    *)
(* payload per row, which may clear the row's diagnosis.                      *)

GetProject(r) ==
    /\ req[r].pc = "start"
    /\ req[r].op = "get"
    /\ LET p == req[r].proj
       IN  \/ rows[p] = NoRow /\ Reply(r, "refused")
           \/ /\ rows[p] # NoRow
              /\ req' = [req EXCEPT ![r].snap[p] = rows[p], ![r].pc = "payload"]
    /\ UNCHANGED <<held, rows, files, overlay, stack, job>>

ListProjects(r) ==
    /\ req[r].pc = "start"
    /\ req[r].op = "list"
    /\ \/ rows = NoSnap /\ Reply(r, "ok")
       \/ rows # NoSnap /\ req' = [req EXCEPT ![r].snap = rows, ![r].pc = "payload"]
    /\ UNCHANGED <<held, rows, files, overlay, stack, job>>

\* The payload of the row at hand is built: on to the next row, or answer.
PayloadBuilt(r, p) ==
    LET snap == [req[r].snap EXCEPT ![p] = NoRow]
    IN  IF snap = NoSnap
          THEN Reply(r, "ok")
          ELSE req' = [req EXCEPT ![r].snap = snap, ![r].pc = "payload"]

PayloadExists(r) ==
    /\ req[r].pc = "payload"
    /\ \E p \in Projects :
         /\ req[r].snap[p] # NoRow
         /\ \/ files[p] = None /\ PayloadBuilt(r, p)          \* compose_missing
            \/ files[p] # None /\ req' = [req EXCEPT ![r].proj = p,
                                                     ![r].pc = "payload_read"]
    /\ UNCHANGED <<held, rows, files, overlay, stack, job>>

\* Only an ApiError of load is caught: a file removed since the exists() check
\* fails the whole request.
PayloadRead(r) ==
    /\ req[r].pc = "payload_read"
    /\ LET p == req[r].proj
       IN  \/ files[p] = None /\ Reply(r, "internal")
           \/ files[p] = Torn /\ PayloadBuilt(r, p)           \* invalid_project
           \/ /\ files[p] \in Versions
              /\ IF req[r].snap[p].problem # None /\ req[r].op # "create"
                   THEN GoTo(r, "probe")
                   ELSE PayloadBuilt(r, p)
    /\ UNCHANGED <<held, rows, files, overlay, stack, job>>

PayloadProbe(r) ==
    /\ req[r].pc = "probe"
    /\ IF stack[req[r].proj].serves
         THEN GoTo(r, "clear")
         ELSE PayloadBuilt(r, req[r].proj)
    /\ UNCHANGED <<held, rows, files, overlay, stack, job>>

\* state.set_problem(id): an UPDATE, so a row that is gone stays gone.
PayloadClear(r) ==
    /\ req[r].pc = "clear"
    /\ rows' = [rows EXCEPT ![req[r].proj].problem = None]
    /\ PayloadBuilt(r, req[r].proj)
    /\ UNCHANGED <<held, files, overlay, stack, job>>

-----------------------------------------------------------------------------
(* POST, PUT and DELETE of a project's files *)

\* MUTANT of ReceiveBody: a client that disconnects leaves the lock behind.
ReceiveBodyLeaks(r) ==
    /\ req[r].pc = "body"
    /\ \/ GoTo(r, IF req[r].op = "upload" THEN "extract" ELSE "replace")
       \/ Reply(r, "refused")
    /\ UNCHANGED <<held, rows, files, overlay, stack, job>>

\* The body is streamed to a temporary file for as long as the client takes.
ReceiveBody(r) ==
    /\ req[r].pc = "body"
    /\ \/ GoTo(r, IF req[r].op = "upload" THEN "extract" ELSE "replace")
       \/ Leave(r, "refused")                      \* disconnected, or too large
    /\ UNCHANGED <<held, rows, files, overlay, stack, job>>

\* extract_archive writes member by member: an archive may be refused before
\* docker-compose.yml is reached, may not contain it, or starts overwriting it.
\* A file half written is Torn, or a version if what there is of it parses.
ExtractArchive(r) ==
    /\ req[r].pc = "extract"
    /\ \/ /\ \E ans \in {"ok", "refused", "internal"} : Leave(r, ans)
          /\ UNCHANGED files
       \/ /\ \E c \in Versions \cup {Torn} : files' = [files EXCEPT ![req[r].proj] = c]
          /\ GoTo(r, "writing")
    /\ UNCHANGED <<held, rows, overlay, stack, job>>

\* The member is written out; the archive may still be refused further on, and
\* a full disk leaves the file as it is.
ExtractMember(r) ==
    /\ req[r].pc = "writing"
    /\ \/ /\ \E v \in Versions : files' = [files EXCEPT ![req[r].proj] = v]
          /\ \E ans \in {"ok", "refused", "internal"} : Leave(r, ans)
       \/ /\ Leave(r, "internal")
          /\ UNCHANGED files
    /\ UNCHANGED <<held, rows, overlay, stack, job>>

ReplaceFile(r) ==
    /\ req[r].pc = "replace"
    /\ \E v \in Versions : files' = [files EXCEPT ![req[r].proj] = v]
    /\ Leave(r, "ok")
    /\ UNCHANGED <<held, rows, overlay, stack, job>>

\* write_file reports the size of the file after it has let go of the lock.
StatFile(r) ==
    /\ req[r].pc = "stat"
    /\ Reply(r, IF files[req[r].proj] = None THEN "internal" ELSE "ok")
    /\ UNCHANGED <<held, rows, files, overlay, stack, job>>

\* MUTANT of IsFile: delete_file removes the file without the lock.
IsFileUnlocked(r) ==
    /\ req[r].pc = "is_file"
    /\ \/ files[req[r].proj] = None /\ Reply(r, "refused")
       \/ files[req[r].proj] # None /\ GoTo(r, "unlink")
    /\ UNCHANGED <<held, rows, files, overlay, stack, job>>

\* delete_file looks for the file before it asks for the lock.
IsFile(r) ==
    /\ req[r].pc = "is_file"
    /\ \/ files[req[r].proj] = None /\ Reply(r, "refused")
       \/ files[req[r].proj] # None /\ GoTo(r, "lock")
    /\ UNCHANGED <<held, rows, files, overlay, stack, job>>

UnlinkFile(r) ==
    /\ req[r].pc = "unlink"
    /\ Leave(r, IF files[req[r].proj] = None THEN "internal" ELSE "ok")
    /\ files' = [files EXCEPT ![req[r].proj] = None]
    /\ UNCHANGED <<held, rows, overlay, stack, job>>

-----------------------------------------------------------------------------
(* Docker: what a compose command may do to a project's containers *)

Composable(p) == files[p] \in Versions /\ overlay[p] \in Versions

\* `docker compose down`, and whether it exits with 0.
ComposeDown(p, ok) ==
    \/ ok /\ Composable(p) /\ stack' = [stack EXCEPT ![p] = NoStack]
    \/ ~ok /\ UNCHANGED stack
    \/ ~ok /\ Composable(p) /\ stack' = [stack EXCEPT ![p] = NoStack]

\* `docker compose up -d` reads both files itself, when it runs.
ComposeUp(p, ok) ==
    \/ /\ Composable(p)
       /\ \E serves \in BOOLEAN :
            stack' = [stack EXCEPT ![p] = [compose |-> files[p],
                                           overlay |-> overlay[p],
                                           serves |-> serves]]
    \/ ~ok /\ UNCHANGED stack

\* An entrypoint slower than the readiness window, or a service that fell over.
ServiceChanges(p) ==
    /\ stack[p] # NoStack
    /\ stack' = [stack EXCEPT ![p].serves = ~stack[p].serves]
    /\ UNCHANGED <<held, rows, files, overlay, req, job>>

-----------------------------------------------------------------------------
(* DELETE /projects/{id} *)

DeleteDown(r) ==
    /\ req[r].pc = "down"
    /\ \E ok \in BOOLEAN : ComposeDown(req[r].proj, ok)
    /\ GoTo(r, "row")
    /\ UNCHANGED <<held, rows, files, overlay, job>>

\* The row goes whether or not the containers were stopped.
DeleteRow(r) ==
    /\ req[r].pc = "row"
    /\ rows' = [rows EXCEPT ![req[r].proj] = NoRow]
    /\ Leave(r, "ok")
    /\ UNCHANGED <<held, files, overlay, stack, job>>

-----------------------------------------------------------------------------
(* POST /projects/{id}/up and /down *)

\* project_up loads the project before it asks for the lock, so that a broken
\* compose file is answered with an error code and not with a failed job.
UpExists(r) ==
    /\ req[r].pc = "exists"
    /\ \/ files[req[r].proj] = None /\ Reply(r, "refused")
       \/ files[req[r].proj] # None /\ GoTo(r, "read")
    /\ UNCHANGED <<held, rows, files, overlay, stack, job>>

UpRead(r) ==
    /\ req[r].pc = "read"
    /\ LET content == files[req[r].proj]
       IN  \/ content = None /\ Reply(r, "internal")
           \/ content = Torn /\ Reply(r, "refused")
           \/ /\ content \in Versions
              /\ req' = [req EXCEPT ![r].ver = content, ![r].pc = "lock"]
    /\ UNCHANGED <<held, rows, files, overlay, stack, job>>

\* MUTANT of Submit: the handler gives the lock back as soon as the job is started.
SubmitAndRelease(r) ==
    /\ req[r].pc = "submit"
    /\ \E j \in Jobs :
         /\ job[j].state # "running"
         /\ job' = [job EXCEPT ![j] =
                      [state |-> "running", op |-> req[r].op, proj |-> req[r].proj,
                       pc |-> IF req[r].op = "up" THEN "overlay" ELSE "down",
                       ver |-> req[r].ver, status |-> "none", diag |-> None]]
    /\ Reply(r, "ok")
    /\ held' = held \ {req[r].proj}
    /\ UNCHANGED <<rows, files, overlay, stack>>

\* jobs.submit registers the job and starts its thread, which owns the lock from
\* here on.  A finished job's slot stands for one that eviction has freed.
Submit(r) ==
    /\ req[r].pc = "submit"
    /\ \E j \in Jobs :
         /\ job[j].state # "running"
         /\ job' = [job EXCEPT ![j] =
                      [state |-> "running", op |-> req[r].op, proj |-> req[r].proj,
                       pc |-> IF req[r].op = "up" THEN "overlay" ELSE "down",
                       ver |-> req[r].ver, status |-> "none", diag |-> None]]
    /\ Reply(r, "ok")
    /\ UNCHANGED <<held, rows, files, overlay, stack>>

\* MUTANT of SubmitFails: the lock is kept.
SubmitFailsLeaks(r) ==
    /\ req[r].pc = "submit"
    /\ Reply(r, "internal")
    /\ UNCHANGED <<held, rows, files, overlay, stack, job>>

\* The thread could not be started: submit_locked gives the lock back.
SubmitFails(r) ==
    /\ req[r].pc = "submit"
    /\ held' = held \ {req[r].proj}
    /\ Reply(r, "internal")
    /\ UNCHANGED <<rows, files, overlay, stack, job>>

-----------------------------------------------------------------------------
(* The work of a job, on its own thread *)

JobGoTo(j, pc) == job' = [job EXCEPT ![j].pc = pc]

\* The overlay is generated from the project as the request loaded it.
WriteOverlay(j) ==
    /\ job[j].pc = "overlay"
    /\ \/ /\ overlay' = [overlay EXCEPT ![job[j].proj] = job[j].ver]
          /\ JobGoTo(j, "compose")
       \/ /\ \/ overlay' = [overlay EXCEPT ![job[j].proj] = Torn]
             \/ UNCHANGED overlay
          /\ job' = [job EXCEPT ![j].status = "failed_to_start", ![j].pc = "status"]
    /\ UNCHANGED <<held, rows, files, stack, req>>

JobComposeUp(j) ==
    /\ job[j].pc = "compose"
    /\ \/ /\ ComposeUp(job[j].proj, TRUE)
          /\ \/ job' = [job EXCEPT ![j].status = "started_ok", ![j].pc = "diagnose"]
             \/ job' = [job EXCEPT ![j].status = "crash_looping", ![j].pc = "status"]
       \/ /\ ComposeUp(job[j].proj, FALSE)
          /\ job' = [job EXCEPT ![j].status = "failed_to_start", ![j].pc = "status"]
    /\ UNCHANGED <<held, rows, files, overlay, req>>

\* A service that answers is healthy; one that does not is diagnosed only when
\* the last probe of the window proved something (502).
Diagnose(j) ==
    /\ job[j].pc = "diagnose"
    /\ \/ JobGoTo(j, "status")
       \/ /\ ~stack[job[j].proj].serves
          /\ job' = [job EXCEPT ![j].diag = job[j].ver, ![j].pc = "status"]
    /\ UNCHANGED <<held, rows, files, overlay, stack, req>>

\* MUTANT of JobComposeDown: a failed `down` still records a status.
JobComposeDownRecords(j) ==
    /\ job[j].pc = "down"
    /\ \/ /\ ComposeDown(job[j].proj, TRUE)
          /\ job' = [job EXCEPT ![j].status = "stopped", ![j].pc = "status"]
       \/ /\ ComposeDown(job[j].proj, FALSE)
          /\ JobGoTo(j, "status")
    /\ UNCHANGED <<held, rows, files, overlay, req>>

JobComposeDown(j) ==
    /\ job[j].pc = "down"
    /\ \/ /\ ComposeDown(job[j].proj, TRUE)
          /\ job' = [job EXCEPT ![j].status = "stopped", ![j].pc = "status"]
       \/ /\ ComposeDown(job[j].proj, FALSE)
          /\ JobGoTo(j, "release")
    /\ UNCHANGED <<held, rows, files, overlay, req>>

\* state.set_status, its own transaction; UPDATE touches no row that is gone.
SetStatus(j) ==
    /\ job[j].pc = "status"
    /\ LET p == job[j].proj
       IN  rows' = [rows EXCEPT ![p] =
                      IF @ = NoRow THEN NoRow ELSE [@ EXCEPT !.status = job[j].status]]
    /\ JobGoTo(j, IF job[j].op = "up" THEN "problem" ELSE "release")
    /\ UNCHANGED <<held, files, overlay, stack, req>>

\* MUTANT of SetProblem: only an `up` that found a problem writes one.
SetProblemIfFound(j) ==
    /\ job[j].pc = "problem"
    /\ LET p == job[j].proj
       IN  rows' = [rows EXCEPT ![p] =
                      IF @ = NoRow \/ job[j].diag = None
                        THEN @ ELSE [@ EXCEPT !.problem = job[j].diag]]
    /\ JobGoTo(j, "release")
    /\ UNCHANGED <<held, files, overlay, stack, req>>

\* state.set_problem, a transaction of its own.
SetProblem(j) ==
    /\ job[j].pc = "problem"
    /\ LET p == job[j].proj
       IN  rows' = [rows EXCEPT ![p] =
                      IF @ = NoRow THEN NoRow ELSE [@ EXCEPT !.problem = job[j].diag]]
    /\ JobGoTo(j, "release")
    /\ UNCHANGED <<held, files, overlay, stack, req>>

\* The work's own `finally`, before the registry records the outcome.
JobRelease(j) ==
    /\ job[j].pc = "release"
    /\ held' = held \ {job[j].proj}
    /\ JobGoTo(j, "finish")
    /\ UNCHANGED <<rows, files, overlay, stack, req>>

\* MUTANT of JobFinish: an exception in the work is not caught.
JobFinishUncaught(j) ==
    /\ job[j].pc = "finish"
    /\ LET good == job[j].status \in {"started_ok", "stopped"}
       IN  job' = [job EXCEPT ![j].state = IF good THEN "done" ELSE "running",
                              ![j].pc = "idle"]
    /\ UNCHANGED <<held, rows, files, overlay, stack, req>>

JobFinish(j) ==
    /\ job[j].pc = "finish"
    /\ LET good == job[j].status \in {"started_ok", "stopped"}
       IN  job' = [job EXCEPT ![j].state = IF good THEN "done" ELSE "failed",
                              ![j].pc = "idle"]
    /\ UNCHANGED <<held, rows, files, overlay, stack, req>>

-----------------------------------------------------------------------------
(* Locks, requests and jobs live in memory; the rest survives a restart. *)

AgentRestart ==
    /\ Restarts
    /\ held' = {}
    /\ req' = [r \in Requests |-> Idle("none")]
    /\ job' = [j \in Jobs |-> NoJob]
    /\ UNCHANGED <<rows, files, overlay, stack>>

Init ==
    /\ held = {}
    /\ rows = NoSnap
    /\ files = [p \in Projects |-> None]
    /\ overlay = [p \in Projects |-> None]
    /\ stack = [p \in Projects |-> NoStack]
    /\ req = [r \in Requests |-> Idle("none")]
    /\ job = [j \in Jobs |-> NoJob]

\* The steps the agent takes by itself once a request has been made.
RequestStep(r) ==
    \/ RequireRow(r) \/ Acquire(r) \/ Release(r)
    \/ CreateCheck(r) \/ CreateInsert(r) \/ CreateReread(r)
    \/ GetProject(r) \/ ListProjects(r)
    \/ PayloadExists(r) \/ PayloadRead(r) \/ PayloadProbe(r) \/ PayloadClear(r)
    \/ ExtractArchive(r) \/ ExtractMember(r) \/ ReplaceFile(r) \/ StatFile(r)
    \/ IsFile(r) \/ UnlinkFile(r)
    \/ DeleteDown(r) \/ DeleteRow(r)
    \/ UpExists(r) \/ UpRead(r) \/ Submit(r) \/ SubmitFails(r)

JobStep(j) ==
    \/ WriteOverlay(j) \/ JobComposeUp(j) \/ Diagnose(j) \/ JobComposeDown(j)
    \/ SetStatus(j) \/ SetProblem(j) \/ JobRelease(j) \/ JobFinish(j)

ClientStep(r) ==
    \/ \E op \in CallsOf[r], p \in Projects : Call(r, op, p)
    \/ ReceiveBody(r)

Next ==
    \/ \E r \in Requests : ClientStep(r) \/ RequestStep(r)
    \/ \E j \in Jobs : JobStep(j)
    \/ \E p \in Projects : ServiceChanges(p)
    \/ AgentRestart

Spec == Init /\ [][Next]_vars

\* Threads are scheduled and docker commands return; clients owe nothing.
Fairness ==
    /\ \A r \in Requests : WF_vars(RequestStep(r))
    /\ \A j \in Jobs : WF_vars(JobStep(j))

FairSpec == Spec /\ Fairness

-----------------------------------------------------------------------------
(* Properties *)

\* Every variable keeps its type.
TypeOK ==
    /\ held \subseteq Projects
    /\ rows \in [Projects -> Row]
    /\ files \in [Projects -> Contents]
    /\ overlay \in [Projects -> Contents]
    /\ stack \in [Projects -> Stack]
    /\ req \in [Requests -> Request]
    /\ job \in [Jobs -> Job]

\* A project's lock is held exactly while one thread, a handler or a job, is
\* between its acquire and its release: no two lifecycle operations of a project
\* ever overlap, no lock is left behind, and no thread works after its lock was
\* given away (ProjectLocks, submit_locked, the `finally` of the work).
LockHasOneOwner ==
    \A p \in Projects : IF p \in held THEN \E t \in Requests \cup Jobs : Owners(p) = {t}
                                     ELSE Owners(p) = {}

\* When compose is about to read the overlay, it is the one this job wrote: two
\* `up` jobs never race on the same overlay.yml (ProjectLocks).
OverlayIsOwn ==
    \A j \in Jobs : job[j].pc = "compose" => overlay[job[j].proj] = job[j].ver

\* No row is removed while an `up` or `down` of its project is at work
\* (delete_project: "the lock stops it removing the state row").
RowKeptUnderJob ==
    [][\A p \in Projects :
         rows[p] # NoRow /\ rows'[p] = NoRow => JobsHolding(p) = {}]_vars

\* No upload, write or delete of a file touches a project a job is at work on.
FilesKeptUnderJob ==
    [][\A p \in Projects : files'[p] # files[p] => JobsHolding(p) = {}]_vars

\* A lock that no slow client keeps is given back: every operation runs to its
\* end, whatever the others do.
LockIsFreed ==
    \A p \in Projects :
        p \in held ~> \/ p \notin held
                      \/ \E r \in RequestsHolding(p) : req[r].pc = "body"

\* A job does not stay "running": the registry records an outcome.
JobEnds ==
    \A j \in Jobs : job[j].state = "running" ~> job[j].state # "running"

\* The agent implements ProjectOwner: a project's files, overlay and containers
\* are changed only by the one thread that owns the project's lock, and a job
\* takes the lock over from its request without a gap.
Owner == INSTANCE ProjectOwner WITH
    Threads <- Requests \cup Jobs,
    owners  <- [p \in Projects |-> Owners(p)],
    world   <- [p \in Projects |-> <<files[p], overlay[p], stack[p].compose,
                                     stack[p].overlay>>]

OneOwnerAtWork == Owner!Spec

(* What the code or its tests say and the model refutes *)

\* The containers of a project come from one version of its files (the comment
\* above upload_files).
OneVersion == \A p \in Projects : stack[p].compose = stack[p].overlay

\* A read that saw the project answer clears the diagnosis it read, never
\* another one (answers: "only ever cleared on positive evidence").
ClearsWhatItRead ==
    [][\A r \in Requests :
         LET p == req[r].proj
         IN  req[r].pc = "clear" /\ req'[r].pc # "clear" /\ rows'[p] # rows[p]
                => rows[p].problem = req[r].snap[p].problem]_vars

=============================================================================
