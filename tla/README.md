# TLA+ models of Omelet

Omelet runs a developer's compose projects inside a small Linux VM. A host
application installs the VM and talks HTTP to an *agent* inside it; the agent keeps
the projects, drives `docker compose` and puts Traefik in front of them. This
directory holds TLA+ models of that program, the TLC instances that check them and
TLAPS proofs about them. Paths below are relative to `src/`.

## 1. The system

| Part | State it keeps | Operations | Works with |
|---|---|---|---|
| Project API (`agent/api/app.py`) | per-project locks, in memory | create, get, list, upload, write, delete file, delete, up, down | everything below |
| Job registry (`agent/api/jobs.py`) | jobs with state, outcome and log, in memory | submit, run, append, finish, follow, wait, evict | the API starts and reads jobs |
| State database (`agent/core/state.py`, `migrate.py`) | one row per project: status, diagnosis; schema version | one transaction per method; migrations at start | API handlers and jobs |
| Compose lifecycle (`agent/core/lifecycle.py`, `overlay.py`) | `.omelet/overlay.yml`; containers, in dockerd | overlay, `up -d`, `ps`, `down` | jobs, delete |
| Readiness (`agent/core/health.py`) | none | `diagnose` polls through Traefik after an `up`, `answers` probes once | jobs, reads |
| Project files (`agent/core/files.py`, `project.py`, `detect.py`) | the project directory | archive extraction, parsing, service detection | API |
| Host client (`host/client.py`, `engine/cli/omelet.py`) | token, deadlines | busy retries, wait for a job | API |
| Installer (`host/core/install.py`, `bootstrap.py`) | the completed steps, on disk | resumable steps, reboot gate, connect, verify | provider, client |
| Download, Lima runtime (`host/core/download.py`, `host/providers/lima_install.py`) | `.part` files; the managed Lima tree | resume, digest, verified swap | installer |
| VM providers (`host/providers/`) | the VM, port forwards, remedies | create, start, exec | installer, CLI |
| Engine installation (`engine/get.sh`, `install.sh`) | marker, token, stack containers in the VM | install, repair | installer |
| Wizard and CLI (`host/setup_app/`, `host/cli.py`) | a worker thread and a queue | show progress | installer, client |

How they interact. The client asks the API for an operation. The API's handler runs
on a threadpool thread (`def` routes) or on the event loop (`async def` routes); it
takes the project's lock without waiting, or answers `project_busy`. `up` and `down`
hand their work, and with it the lock, to a job thread, which gives the lock back in
its own `finally`; the client polls the job. Reads take no lock. Locks and jobs live
in memory and are lost when the agent restarts; rows, files and containers are not.

What is hard. Handlers read a row or a file, and use it after other handlers had
time to change it. The lock changes hands between threads. A job's two database
writes, its outcome and the release of its lock are separate steps. An archive is
extracted in place, file by file, under readers that hold no lock. A command that
fails may have taken effect. Any of it may be cut short by a restart. On the host,
the installer may be killed or the machine restarted between two steps, and every
step must be right to repeat or to skip.

What makes each part correct:

- *Locks and jobs*: one owner per project at a time; the lock always comes back;
  a job works on a project nobody else changes; every job ends.
- *Rows*: a row tells of the last `up` of its project, and outlives every job.
- *Reads*: they clear only what they have evidence against, and one broken project
  breaks no listing.
- *Job registry*: a follower sees the whole log, once; eviction spares what runs.
- *Migrations*: every step exactly once, whatever crashes come between.
- *Installer*: a step is skipped only while what it achieved still holds; after a
  run that finished, host and agent share one token.
- *Download, Lima*: nothing unverified is ever in place, and a retry can succeed.
- *Client*: it reports the outcome of the operation it asked for, and no other.

`PROJECT.json` lists every hazard met while reading, at its line, with the property
that covers it or the reason none does.

## 2. Modules

| Module | What it is |
|---|---|
| `AgentProjects` | the project API, its locks, rows, files, containers and jobs |
| `ProjectOwner` | what the locks promise, without locks: one thread at work per project |
| `AgentDiagnosis` | what a row says of its project's last start; extends `AgentProjects` by one history variable |
| `MCAgentProjects`, `MCAgentDiagnosis` | instances of them for TLC: which client calls what, and the symmetry sets |
| `AgentProjects_proofs` | TLAPS proofs about both |
| `JobRegistry` | the registry's jobs, their threads, eviction, and the readers of a log |
| `JobStream` | what a reader of a log is promised, without registry or waiting |
| `MCJobRegistry` | its instance: which job writes how much |
| `JobRegistry_proofs` | TLAPS proofs about it: eviction, and that following implements `JobStream` |
| `EngineInstall` | get.sh and install.sh in the VM, command by command |
| `EngineInstall_proofs` | TLAPS proofs about `EngineInstall` |
| `StateMigration` | migrate.py, statement by statement, under agents that follow each other |
| `StateMigration_proofs`, `EngineUpgrade_proofs` | TLAPS proofs about it, and about the composition |
| `EngineUpgrade` | `EngineInstall` and `StateMigration` together: which agent meets which database |
| `Setup` | the installer's steps over a computer and a VM; extends `EngineInstall` |
| `Setup_proofs` | TLAPS proofs about it |
| `LimaInstall` | a verified download, and the swap of the managed Lima |
| `SetupApp` | the setup window, its threads and its queue; extends `LimaInstall` |
| `SetupApp_proofs` | TLAPS proofs about the window and the installation of Lima |
| `ClientSeam` | the agent's clients: host CLI, in-VM command, setup's check |
| `ClientSeam_proofs` | TLAPS proofs about them |
| `MCEngineUpgrade`, `MCSetup`, `MCSetupApp`, `MCClientSeam` | the instances of the other ones |

Three compositions: `Setup` runs the scripts of `EngineInstall`; `EngineUpgrade` puts the
agents those scripts start on the database of `StateMigration`; `SetupApp` runs
`LimaInstall` as a step of its worker. `ClientSeam` has its own, coarser view of the agent
of `AgentProjects`: what a handler does under the lock is one step there.

### AgentProjects

A request is a record with the program point (`pc`) its handler has reached; the pc
names the next action another thread can observe: a lock operation, a transaction,
a file operation, a docker command. Between two steps anything else may happen. A
job is a record in a slot of the registry with the pc of its thread.

| Variable | Code |
|---|---|
| `held` | `ProjectLocks._held` |
| `rows` | table `projects`: status and stored diagnosis, or no row |
| `files` | `docker-compose.yml`: absent, one of a few versions, or `Torn`: it does not parse. What is half written is either |
| `overlay` | `.omelet/overlay.yml`, as the version it was generated from |
| `stack` | the containers: the versions of both files they were started from, and whether the routed service answers |
| `req`, `job` | handlers on their threads; registry entries and theirs |

Each handler is a chain of actions: `create_project` is `CreateCheck`,
`CreateInsert`, `CreateReread` and a payload; `project_up` is `RequireRow`,
`UpExists`, `UpRead`, `Acquire`, `Submit` or `SubmitFails`, and its job
`WriteOverlay`, `JobComposeUp`, `Diagnose`, `SetStatus`, `SetProblem`, `JobRelease`,
`JobFinish`. `PROJECT.json` maps every definition to its lines.

What it abstracts, and why nothing asked of it is lost:

- Of a project's files only `docker-compose.yml` is kept: it is the one the agent
  itself reads. Archive members before and after it appear as an extraction that
  fails before or after it was written. `.omelet/project.yml` and the domain are left
  out.
- A diagnosis names a service and a port of the project it was made of, so it is
  identified with the project's version.
- docker is external. `up` and `down` may succeed, fail with no effect, or fail
  having had it. A command that cannot read both files has no effect. Services start
  and stop answering by themselves (`ServiceChanges`).
- `async` handlers do not interleave with each other between two awaits; the model
  lets them, and so has every behaviour of the code and a few more.
- A slot of the registry whose job is over may be used again. This stands for
  eviction. A job whose thread could not be started stays in the real registry under
  an id nobody was told; the model has no slot for it.
- Not modelled: routes that only read (`/health`, `/version`, logs, file listing and
  reading), the token check, and a database or a pipe that fails.

`ProjectOwner` is the abstract specification: `owners[p]` has at most one thread, is
taken, handed over, put down or lost in a restart, and `world[p]` (files, overlay,
what the containers run) changes only while it has one. `OneOwnerAtWork` says that
`AgentProjects` implements it, with `owners` mapped to the threads whose pc lies
between their acquire and their release.

`AgentDiagnosis` adds `cut`: the projects whose last start a restart of the agent cut short
between its first write of the overlay and its last of the row. `Lost` puts a project there,
`Told` (the second of the two transactions) takes it away. Its actions are those of
`AgentProjects`; it exists because the row of such a project speaks of the start before, and
a property about rows must know which ones these are.

### JobRegistry

`registry` is the set of keys of the dict `_jobs`, `submitted` the order they were put
there in, `job` the `Job` objects (which a follower keeps when the registry drops them),
`worker` the threads, `fol` the clients
of `GET /jobs/{id}/logs?follow=true`: accepted by the route, then one action per visit
of the generator to the job's condition (`Look`) and per delivery (`Yield`), which may
take for ever. `now` is `time.time()`, which ticks between two finishes and may be set
back; `order` is a history variable, the order in which jobs really finished.
`AgentProjects` has its own, smaller view of a job; this module is about what that one
leaves out, and the two meet in `submit` and in the order of release and outcome.

`JobStream` is the abstract specification: a log grows until its job ends; a reader
reads on by whole chunks, and is told "complete" only when it has everything and the
job has ended. Its reader opens a stream when the route accepts the request. `FollowIsStream` says that `JobRegistry` implements it. The rest of a
generator whose job was evicted after the route had accepted it raises when the answer
is under way: that is `result = "broken"`, which counts as cut off.
`JobRegistry.wait` is called by tests only and left out.

### EngineInstall

What outlives a script that is cut short: the marker `engine.version`, the unpacked
`engine`, `stack.yml`, the token file, the agent's container with the token it started
with (`create_app` reads it once), and how the VM was booted. A release stands for
itself: a marker, an engine, a stack file and a container are numbers of releases. One
action per command that changes one of them, in the scripts' order: `ResolveRef`,
`RemoveEngine`, `MoveEngine`, `RemoveMarker`, `EnableDocker`, `CheckToken`,
`WriteToken`, `Pull`, `ComposeUp`, `Recreate`, `WriteMarker`. `Fail` ends a script at
any of them, which stands for `set -e` and for being killed; where compose was
replacing the container it may be gone. `ComposeUp` may leave a container that matches
its file alone or replace it (an image published again under its tag). Neither script takes a lock, so `Start` starts one
beside whatever is at work. Two history fields keep what that costs: a script is `alone` while
it has been the only one since it started, and the VM is `sound` while every script since the
last lone repair was. They are in no guard.

Left out: packages, permissions, the network, Node, skills and the in-VM command, on
whose presence no other step depends. `EngineSpec` is a VM where somebody runs get.sh
by hand; `Setup` runs it for the installer.

### Setup

`host` is the setup process: the step it is at, its place in that step, what it has
read of `install-state.json` (`done`), the provider's `_features_enabled`, the remedies
it still has to apply, the script it waits for and the token it dialled with.
`completed` is the state file, which `mark` empties before it writes. `features`,
`store`, `vm`, `conf` are the computer: Windows' features (which take effect with a
restart), the Store's WSL, the VM, and its wsl.conf. `Steps` is `default_steps` of the
platform. A step ends in `Passed` or `Raised`; only the first three are remembered.

Between any two actions the process may be killed (`Kill`), a step may fail
(`StepFails`, `LimaStartFails`, `Fail`), the VM may be turned off (`PowerOff`) or
destroyed (`Destroy`), the machine restarted (`MachineRestart`). A script setup waits
for survives the process that started it, because nothing tells it: the next setup starts
another beside it (`StartEngine` waits for nobody). `Kill` has one bound: a setup that waits
for a script is killed only while another slot of `Scripts` is free, so that the next one
finds a slot; two slots make every pair of scripts. WSL boots a distro for every command; Lima refuses one that
is stopped.

`SetupSucceeds` needs the connect step's repair: an agent that refuses the token is
recreated by a script in repair mode, and asked again. It starts, in some behaviours,
from a VM of the time before the token (`OldVm`), whose container is left alone by
`up -d`.

`vm` is "none", "whole" or "hollow": `uninstall --purge` clears the directory with a WSL
distro's disk even if the distro could not be unregistered, and WSL then knows a distro
without one. `Uninstall` also forgets the steps, beside a setup that may be anywhere, the
middle of `mark` included; where there is no VM, or none that could be destroyed, that is all
it does.

Left out: what `SetupApp` and `ClientSeam` have (downloads, progress, the check's calls
beyond the authenticated ones), texts, and access to what `wsl.exe` and `limactl` print.

### StateMigration, EngineUpgrade

`db` is the database as committed, `tx` as the open transaction sees it, `proc` the
agent's process: where it is in `migrate` and which migrations it knows. A database may
be as old as `Legacy` allows: no version table, and any of the columns its predecessors
added one by one. `Restart` is an exception, a refusal or a kill followed by docker's
`restart: always`; what was not committed is gone. `db.ran` is a history variable.

In `EngineUpgrade` the process is that of the container `EngineInstall` keeps: `Follow`
starts, stops or replaces it when a script or the VM does. An agent of an older release
that meets a newer database refuses it and is restarted for ever; the marker stands all
the while. `MarkerMeansServing` is about the container and its token, not about that.

### LimaInstall

`part` is the `.part` file by its length in chunks and whether its bytes are the right
ones, `archive` the file in the cache, `tree`, `previous`, `staged` the directories of the
swap, `inst` the run and the answer it is reading. One action per file operation: `Open`
asks for the rest from where `part` ends; `OpenAmiss` is a server that ignores the range or
sends something else, or nobody; `StreamBreaks` a connection that drops, which a reader
may take for the end; `Digest`, `RenamePart`, `Extract`, `RequireVersion`, and the swap
`ClearPrevious`, `SetAside`, `MoveIn` with `PutBack`, `Tidy`. The put-back may refuse as the
move before it did (`PutBackFails`), and what `rmtree` was told not to complain about may stay
(`RemovePrevious`); a later `SetAside` then raises over it. An answer gives its length or does
not (`Reading`), and `total` is what the code makes of it. `Killed` may come between any two; `Damage` is a cache that is cleaned or damaged between runs. The digest has no
collisions: right bytes and right digest are one thing. Signatures and archive formats are
left out.

### SetupApp

`screen` is what the window shows, `worker` the wizard's thread, `events` its queue, `app`
the `app_state` of `run_window`, `probing` the probe's thread. The worker puts a
`Progress` in the queue for every `report`, and its sentinel in the end; the pump takes
one event at a time (`Render`, `Finish`): the code takes all that are there, with nothing
in between that another action could see. `last` and `said` are history variables: how
the last run ended and what it said. `Steps` is `default_steps` of the platform; the steps
about the VM are steps of their own, each with the outcomes `Setup` gives it. A run has several
messages: what the connect step repaired, the failure of a step, the last words of `finish`.
`Share` is the percentage the worker reports, which is above 100 where a resumed answer gave no
length; `bar` is in percent of a step. `Close` ends the process; a window that is opened again is a new one.
Buttons exist when the screen that has them does. Left out: theme, layout, wording, the
tick of the spinner, buttons that change nothing (copy the log, details).

### ClientSeam

`cmd[c]` is a client: its command, the call it is at (`Plan` lists the calls of each
command in order), the job it was told of, the first call that failed (`first`) and the
one the user is told of (`told`). A client waits for an answer to its request `Of(c)`, or
has gone away, and then its request may be served much later (`strays`). An answer that
says to wait before the deadline changes nothing: the client sleeps and asks the same
again; `GiveUp` is that answer after the deadline. `Unanswered` is the socket's timeout or
a broken connection, `Kill` a terminal that is closed. `Raised` is an exception: it ends
the command, but for setup's check, whose `finally` deletes the project first.

The agent's restart loses its jobs and locks, and gives no answer to whoever is waiting
at that moment; a client that is asleep between two attempts does not notice. Left out:
status, logs, `omelet new` and the clone of a repository (they write files before the
calls modelled here), a response that is cut in the middle of its body (the exception is
another one, and ends the command as well).

## 3. Runs

| Run | Instance | Shows |
|---|---|---|
| `AgentLifecycle` | create up against all other routes, one job slot, restarts, fair threads | `TypeOK`, `LockHasOneOwner`, `RowKeptUnderJob`; `OneOwnerAtWork`: implements `ProjectOwner`; `LockIsFreed`, `JobEnds` |
| `AgentDiagnosis` | create write up against get unlink, two versions, two job slots, restarts | `LockHasOneOwner`, `OverlayIsOwn`, `DiagnosisIsOfLastUp`, `FilesKeptUnderJob` |
| `AgentOneVersion`, `AgentClears` | create write up against write get, two versions, two job slots | violated: see findings |
| `Jobs` | three jobs, one follower, one finished job kept, a log of two chunks of two kinds | `TypeOK`; `FollowIsStream`: implements `JobStream`; `FollowEnds`, `EvictsOldest` |
| `EngineUpgrade` | one script, two releases, three migrations, three faults | `UpgradeTypeOK`, `AppliedOnce`, `ServesItsSchema`, `MarkerMeansServing`, `TooNewUntouched` |
| `EngineHalf` | one script, one release, one fault | violated |
| `Setup` | Windows and macOS, two scripts, one release, three faults | `TypeOK`, `RememberedIsFact`, `RestartIsDue`, `MarkerMeansServing`, `TokenKept`, `SetupSucceeds` |
| `SetupSystemd` | Windows, one script, one fault | violated |
| `SetupApp` | Windows and macOS, a file of two chunks, three faults | `TypeOK`, `InPlaceIsVerified`, `FailedRunKeepsLima`, `OneRunAtATime`, `ExitTellsLastRun`, `LogIsWhole`, `BarNeverFalls`, `RunEnds`, `SetupSucceeds` |
| `LimaDrop` | `LimaInstall` alone, where only the network fails | violated |
| `ClientSeam` | host terminal (up, down, destroy) against VM terminal (up, down) and setup's check; two jobs, three faults | `TypeOK`, `OneJobPerCommand`, `OkIsOwnJob`, `OkIsDeleted`, `FirstFailureIsTold`, `CommandEnds` |

Bounds. *Agent*: one project (the lock, row, files and containers of a project are its
own, and the only route that touches several, the listing, takes the rows one by one),
two requests at a time (a race needs two), each with the routes of one client (`CallsOf`), so
that the routes that meet are the ones that may disturb each other. `AgentLifecycle`, which
checks liveness, has one job slot and one version of the files: nothing it asks tells two
apart. `AgentDiagnosis` has two of each: an `up` that has released its lock and not recorded
its outcome beside a new one, of other files, and the routes that touch what it asks about:
`down`, `delete` and the upload are in `AgentLifecycle` only. The proofs have all routes for
every client. The state spaces are finite
without further bounds; requests and job slots are reused for ever. *Jobs*: an id is never
used twice, so the instance serves three jobs and stops (`CHECK_DEADLOCK FALSE`). Three
jobs around a registry that keeps one finished job give every order of submitting,
finishing and evicting two finished ones, also under the follower. One of the jobs writes, up
to two chunks of two kinds (`MaxLog`): its log tells a chunk lost, repeated or moved from the
right one, with a chunk written while another is delivered, and the job evicted under its
reader; `Streams` is about logs of any length. A follower's condition
is its job's, so followers do not meet and one is enough. *Engine and setup*: `MaxFaults`
bounds what goes wrong from outside, in any combination and at any place, and three faults
allow a fault in the run that recovers from a fault in the run that recovers. Two scripts are
enough for one beside another, which a third one would have to wait out; `EngineUpgrade` has
one, since the agents they start follow each other on the database in the same way
(`UpgradeIsSchema` is about any number). `Setup` has one release: its questions are what
setup remembers and which leftovers it gets out of. A marker, an engine and a container of
different releases are in `EngineUpgrade`, and with any number of scripts in the proofs.
Two releases make a marker, an engine and a container that disagree possible; the second
knows a migration more, so that upgrades and downgrades of the database occur. Tokens need
no bound: only a fault takes one away. *SetupApp*: two chunks make a partial file that is
empty, half and whole, and one that is too long. *ClientSeam*: a command of one client
against one of another (`CHECK_DEADLOCK FALSE`: they end, and with them the instance); a
command starts one job at most, so two jobs are all there can be.

Fairness. *Agent*: `FairSpec` asks weak fairness of each request's own steps and of each
job's: threads are scheduled, and docker commands return. A client owes nothing: `Call`
and `ReceiveBody` are not fair, so a client may never send the rest of its body. Hence
the second disjunct of `LockIsFreed`: there is no timeout on an upload, and a slow client
keeps its project busy for as long as it likes. `AgentRestart` is not fair either.
*Jobs*: fairness of finishing (work ends) and of a follower's generator and its client,
and none of `WakeUp`, the timeout of the wait: `append` and `finish` must wake everybody
by themselves, and they do. *Setup* assumes a user who runs setup again until it finishes
and restarts the machine when asked, and schedules the installer and the scripts; a script
that a killed setup left goes on beside the next one. *SetupApp*: the worker,
the probe and the event loop are scheduled, a read of a stream returns (every socket has a
timeout), and the user opens the window and presses the one button there is until setup
has succeeded. *ClientSeam*: a request is answered or its deadline comes (`Attended`), and
what is being served ends; a job may take for ever, and commands end all the same.

Two liveness properties except what the code cannot get out of, and name it.
`Setup.SetupSucceeds`: a distro that runs without systemd (`SetupSystemd` shows how it comes
about), a hollow one, and a marker without an agent's container, which two scripts beside each
other can leave and no step looks for (the status screen says "Run setup again" of it).
`SetupApp.SetupSucceeds`: a partial file as long as the whole one or longer, left by a run that
was killed before the rename, or by a connection that dropped while a whole file was appended
to a part of it (`LimaDrop`).

Five safety properties have exceptions, each of them a state the code gets into.
`DiagnosisIsOfLastUp` excepts the projects in `cut`: an agent that stops between `SetStatus`
and `SetProblem`, or after the overlay was written, leaves a diagnosis of the start before,
until the next `up` is over. `MarkerMeansServing` excepts a VM that is not `sound`: scripts
ran beside each other, or it is of the time before the token, and no lone repair has come
since. `TokenKept` speaks of scripts that have the VM to themselves. `FailedRunKeepsLima`
allows for a put-back that refuses: the Lima is then all there, in `previous`. `BarNeverFalls`
excepts the one fall there is: from beyond the end of a step, where a share above 100 percent
took the bar (an answer to a range that does not give its length), to that end.

The five violated properties each say what a text of the repository says; the
counterexample is what the code does. The findings in `PROJECT.json` quote both. Other
places where the models have behaviours the texts do not (two creates that both
succeed, a listing that fails with the file it reads, an `up` of a deleted project,
the newest job evicted under a clock set back, a stream broken off by an eviction, two
scripts beside each other that each make a token, a marker without an agent that setup does
not repair, a share above 100 percent, VM steps before the restart, a check of
setup that succeeds although its containers run on, an older agent restarted for ever on a
newer database) are noted with their hazards.

Every property of a passing run has a mutant: a definition next to the one it changes
(marked `MUTANT`) with a plausible bug, under which TLC finds the property violated.

## 4. Proofs

### AgentProjects

`AgentProjects_proofs` proves, for any number of projects, versions, requests and
jobs:

| Theorem | Says |
|---|---|
| `TypeCorrect` | `Spec => []TypeOK` |
| `LockOwnership` | `Spec => []LockHasOneOwner` |
| `FilesStable` | `Spec => FilesKeptUnderJob` |
| `RowStable` | `Spec => RowKeptUnderJob` |
| `OverlayOwnership` | `Spec => []OverlayIsOwn` |
| `Implementation` | `Spec => OneOwnerAtWork` |
| `DiagnosisStands` | `DiagnosisSpec => []DiagnosisIsOfLastUp`, with any restarts |

The assumptions are the ones the module states about its constants: the sentinels
are no versions or projects, request and job slots are different things, and clients
call existing routes.

`TypeOK` alone is not inductive: a handler's pc must say something about its data.
`WellFormed` adds that a request that is not idle has a project and a route, that one
about to take the lock has a route `AfterLock` knows, and that a job at work is
running. `IInv == Typed /\ LockHasOneOwner` with `Typed == TypeOK /\ WellFormed` is
the inductive invariant. `StepTyped` proves its first half action by action. For the
second, the lemmas of the `Owners` group say what each step does to the owners of a
project: the lock operations (`Acquire`, `Release`, `Submit`, `SubmitFails`,
`JobRelease`) change those of one project in a known way, and all other steps change
none, because they stay inside a critical section or outside of it. Once each project
has one owner, the action properties follow: whoever changes a file or a row is an
owner, so no job is another. `OverlayIsOwn` is inductive relative to `IInv`, and the
refinement takes each lock operation to `Take`, `HandOver` or `PutDown` and each
change of the world to `Work`.

`DiagnosisStands` is about projects nobody works on, and needs to know what those who do
will leave behind. `DInv` says that a row tells the truth (`Tells`) unless a job that
started its project holds the lock (`Starting`: that job writes both columns yet), and
what such a job carries at each of its places (`JobTells`): the overlay is of the job's
version once it was written, a diagnosis it found is of that version, and goes with the
status "started". The row that `SetStatus` wrote may have been cleared by a read before
`SetProblem` adds the diagnosis; that is why its status may also be "stopped" there. A
restart takes the job away, and with it what the invariant says of it; a project whose job
was past its first write of the overlay is in `cut` from then on, and `DInv` claims nothing
of its row until a job of its own has come to `SetProblem` again.

### JobRegistry

For any number of jobs and followers, and any history of the clock:

| Theorem | Says |
|---|---|
| `RegistryTypes` | `Spec => []TypeOK` |
| `Evictions` | `Spec => EvictsOldest` |
| `Streams` | `Spec => FollowIsStream`: the registry implements `JobStream` |

`IInv == TypeOK /\ Submission /\ Outcome /\ Following`. `Submission`: a job comes into the
dict once and has one place in its order, so a sort by time and place is a total order
and the ranks of the finished jobs are 0, 1, 2 and so on (`LowRanks`, `RanksDiffer`); those
who leave are the ones of the lowest ranks and as many as are too many. `Outcome`: a job is
over when its thread is, and the history has it then. `Following`: what a follower was given
and what it holds, together, are the log up to where it has read (`Follows`), and one that
is about to end has read the whole log of a job that is over. This is what makes the
refinement go through: a delivery is a `Read`, `Return` is a `Complete`, and a job
evicted under a reader is a `Leave`.

### EngineInstall

| Theorem | Says |
|---|---|
| `EngineTypes` | `EngineSpec => []EngineTypeOK`, for any number of scripts, releases and faults |
| `MarkerStands` | `EngineSpec => []MarkerMeansServing` |
| `TokenStands` | `EngineSpec => TokenKept` |

All three are about any number of scripts, at any places beside each other.
`MarkerMeansServing` is not inductive: `WriteMarker` knows nothing of the container. `Done(s)`
is what a script has achieved at each of its places, if it has had the VM to itself since it
started: the engine is of its release once it was moved, the marker is gone from `docker` on,
there is a token from `pull` on, the stack file and then the container are of its release.
`Progress` claims it of those scripts only. `Solitude` ties the two history fields to what is
at work: a script that is alone is the only one, and in a sound VM whoever is at work is
alone. So a step of a script beside others (`CrowdKeeps`) has nothing to preserve but
`Solitude`, and a step of a lone one (`LoneKeeps`) disturbs nobody's `Done`. `AgentHasToken`
adds that in a sound VM a container never started with an older token than the one in the
file; it is what makes `up -d`, which leaves a container alone, right. A repair that runs alone
recreates the container, which is why its marker makes the VM sound again. `TokenStands`
follows because a lone script that is about to write a token has found none, and none has
appeared since.

### StateMigration

For any list of migrations, any releases in any order and databases of any age:

| Theorem | Says |
|---|---|
| `SchemaTypes` | `SchemaSpec => []SchemaTypeOK` |
| `EachOnce` | `SchemaSpec => []AppliedOnce` |
| `Serves` | `SchemaSpec => []ServesItsSchema` |
| `NewerUntouched` | `SchemaSpec => TooNewUntouched` |

`AppliedOnce` is about what is committed and says nothing of a transaction under way.
`SchemaInv` adds `Transaction` (what the open transaction holds, at each place of
`migrate`: the step, then the step and its version), `Migrating` (an agent that migrates is
at the database's own version, which is behind what it knows) and `HasItsColumns`. It
assumes that each migration adds columns there are, and nothing of the order of releases.

### EngineUpgrade

| Theorem | Says |
|---|---|
| `UpgradeIsEngine`, `UpgradeIsSchema` | `UpgradeSpec => EngineSpec`, `UpgradeSpec => SchemaSpec`: the composition implements both of its parts |
| `UpgradeTypes` | `UpgradeSpec => []UpgradeTypeOK`: the process is that of the container |
| `UpgradeAppliesOnce`, `UpgradeServes`, `UpgradeNewerUntouched` | the properties of the migrations, whatever scripts run beside each other |
| `UpgradeMarker`, `UpgradeToken` | those of the scripts |

That the scripts are not disturbed is by definition; that the processes are the ones
`StateMigration` has needs `AgentOfRelease`: a container always is of a release, because
no script starts one before it has put a stack file in place.

### Setup

For either platform, any number of scripts, releases and faults:

| Theorem | Says |
|---|---|
| `SetupTypes` | `Spec => []TypeOK` |
| `RememberedStands` | `Spec => []RememberedIsFact` |
| `RestartStands` | `Spec => []RestartIsDue` |
| `CreateStands` | `Spec => [](ScriptsInVm /\ CreateIsAlone)`: a script is at work only in a VM that is there, and in none that `create` has not finished with |
| `SetupMarker` | `Spec => []MarkerMeansServing`, for VMs of any age |
| `SetupToken` | `Spec => TokenKept` |

`SetupInv == EngineTypeOK /\ HostInv`. `RememberedIsFact` speaks of the state file alone,
and a step gets there on the word of a process that has read the file, may be killed in
`mark`, and may have skipped the step. So `PastIsFact` claims the fact of whoever is past
the step in any of these ways, `Remediation` says what remains to be done while the step is
under way, `Places` which step each place belongs to, and `FlagIsPending` that a process
which enabled the features (or asks for the restart) does not outlive the restart.
`SetupMarker` carries `MarkerStands` over to an installer that may be killed, and to a VM
that is turned off, destroyed and made again: the steps of setup about the VM
(`GuestStep`) start the engine, are the script's own, end a `create`, or are a counted fault
that spares the VM, switches it off or wipes it. `SetupToken` goes the same way: a wiped VM has
no token, and none of the others replaces one but a script, of which `ReplacedBeside` speaks.

### ClientSeam

For any clients, commands, jobs and faults:

| Theorem | Says |
|---|---|
| `ClientTypes` | `Spec => []TypeOK` |
| `OneJob` | `Spec => []OneJobPerCommand` |
| `OwnJob` | `Spec => OkIsOwnJob` |
| `DeletedStands` | `Spec => []OkIsDeleted` |
| `FirstFailure` | `Spec => []FirstFailureIsTold` |

`OneJobPerCommand` is not inductive, because a request may be served long after its client
has gone. `AsksOnce` adds that until a command comes to the call that starts its job, there
is neither such a job nor such a request on its way, and after that one of the two at most;
`PollsItsOwn` that the job it polls is the one it started; `Numbered` that nothing is known
of a command before it is given; `OneHolder` relates the agent's lock to who is served;
`Planned` keeps a command inside its plan. The module's assumptions are that the
bounds are naturals, that `OpsOf` gives each client some of the operations, and that `None`
is no number, operation, holder of the lock or command.

### SetupApp and LimaInstall

For a download of any size, any number of faults and either computer:

| Theorem | Says |
|---|---|
| `SetupAppTypes` | `Spec => []TypeOK` |
| `InPlaceStands` | `Spec => []InPlaceIsVerified` |
| `FailedRunStands` | `Spec => []FailedRunKeepsLima` |
| `OneRun` | `Spec => []OneRunAtATime` |
| `ExitStands` | `Spec => []ExitTellsLastRun` |
| `BarStands` | `Spec => BarNeverFalls` |
| `LogStands` | `Spec => LogIsWhole` |

`LimaInv` is about the installation alone: at each of its places, whether what it is about
to put in place is verified, and where the Lima is that it found (`tree`, or aside in
`previous`). `OneAtWork` and `Outcomes` are about the threads: who may run under which
screen, and that screen, exit code and history speak of the same run.

A failed run leaves the Lima it found unless the put-back was refused too, and then
`LimaInv` knows where it is: `previous` was empty when the tree was set aside, and nothing has
written there since.

The other two are about a window that draws what a worker did some time ago. `Queue` says
that the queue holds the events of the steps between the screen's and the worker's, each
step once and in order, with the sentinel at its end. `Bars` says that the bar is behind
the percentages in the queue and these behind the worker's own (`Ceiling`: how much of the
present download it may have told of). The percentages of one download grow while its total
stays what it is (`ShareGrows`), whatever that total is; the bar falls only where the event
drawn is the end of a step whose percentages went beyond it. `Messaging` says that the log and
what the queue has yet to say are together the messages of the run, each once and in the order
of its steps: `said` is increasing in its steps, the log is a prefix of it, and an event of the
queue has a message exactly if its step is in the rest. Drawing an event moves the border
between the two by that event's message, if it has one.

### Only model-checked

The liveness properties (`LockIsFreed`, `JobEnds`, `FollowEnds`, both `SetupSucceeds`,
`RunEnds`, `CommandEnds`): fairness and ENABLED are out of the prover's reach. Every safety
property of a passing run is a theorem, of the specification as it stands: none of them
assumes anything of a run.

## 5. Not modelled

- *Port forwards* (`omelet port`): a netsh rule or an ssh tunnel each, with no state of
  ours and no second actor.
- *Routing and detection* (`overlay.py`, `detect.py`, `compose.py`): pure functions on
  names and ports. The overlay is in `AgentProjects` as the version it was made of; that
  two projects may get routers of one name is a hazard without a property.
- *Routes, commands and screens that only read*: `/health`, `/version`, logs, listings,
  `status`, `doctor`, `selfcheck`, diagnosis texts.
- *The agent's configuration and process start, packaging*: no state of their own.
- *Two setups in two processes*: the code does not exclude them, and they share the
  `.part` file, the state file and the managed tree.

## 6. Plan

Every safety property that a run checks is proved. What is left to say, in this order:

1. The compositions as refinements: `SetupApp` takes no steps on Lima's directories but those
   of `LimaInstall` (and faults of its own), `Setup` none on the engine but those of
   `EngineInstall` and of a VM that is made or destroyed.
2. An abstract specification of the client ("a command has one outcome, and it is that of the
   operation it asked for") which `ClientSeam` implements.
