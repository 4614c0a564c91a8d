------------------------------- MODULE Setup -------------------------------
(***************************************************************************)
(* Setting a computer up: the resumable steps of the installer             *)
(* (host/core/install.py), what they do to the computer and to the VM      *)
(* through a provider (host/providers), and the engine's installation in   *)
(* the VM (EngineInstall), which the bootstrap and connect steps start.    *)
(*                                                                         *)
(* A step is a chain of actions, one per command or file operation; the    *)
(* process may fail or be killed between any two.  A run of setup ends by  *)
(* finishing, failing, or asking for a restart of the machine, and the     *)
(* user may run it again, in the same window or in a new process.          *)
(***************************************************************************)
EXTENDS EngineInstall, Sequences, FiniteSets

CONSTANTS
    Platforms,  \* the providers looked at: "wsl", "lima"
    OldVm,      \* may there be a VM from before agents had tokens?
    None        \* no script

ASSUME PlatformAssumption == Platforms \subseteq {"wsl", "lima"} /\ OldVm \in BOOLEAN
ASSUME NoneAssumption     == None \notin Scripts

VARIABLES
    platform,    \* the provider of this computer
    completed,   \* install-state.json
    host,        \* the setup process
    features,    \* Windows' virtualization features; "pending" until a restart
    store,       \* is the Store's WSL installed?
    vm,          \* the VM: "none", "whole", or "hollow", which is known and has no disk
    conf         \* does its wsl.conf turn systemd on?

hostVars == <<platform, completed, host, features, store, vm, conf>>
vars     == <<guestVars, hostVars>>

\* default_steps.
Steps == IF platform = "wsl"
           THEN <<"preflight", "remediate", "reboot_gate", "fetch_image",
                  "create_vm", "bootstrap", "connect", "verify", "finish">>
           ELSE <<"preflight", "install_runtime",
                  "create_vm", "bootstrap", "connect", "verify", "finish">>

\* The steps that are not always_run.
Remembered == {"preflight", "remediate", "reboot_gate"}
Remedies   == {"enable_wsl_features", "update_wsl"}

HostRec == [pc : {"idle", "begin", "work", "truncate", "write", "conf", "terminate",
                  "installed", "run", "wait", "health", "version"},
            i : 1 .. Len(Steps), done : SUBSET Remembered, saved : SUBSET Remembered,
            reboot : BOOLEAN, features : BOOLEAN, todo : SUBSET Remedies,
            repaired : BOOLEAN, script : Scripts \cup {None}, tok : Nat,
            result : {"none", "ok", "failed", "reboot"}]

NewHost == [pc |-> "idle", i |-> 1, done |-> {}, saved |-> {}, reboot |-> FALSE,
            features |-> FALSE, todo |-> {}, repaired |-> FALSE, script |-> None,
            tok |-> 0, result |-> "none"]

\* The process is at this place of this step.
At(name, pc) == host.pc = pc /\ Steps[host.i] = name

-----------------------------------------------------------------------------
(* run_install *)

\* A run begins in a new process, or in the window of the last one, whose provider
\* still knows whether it enabled the features.
StartSetup ==
    /\ host.pc = "idle"
    /\ \E flag \in {FALSE, host.features} :
         host' = [NewHost EXCEPT !.pc = "begin", !.done = completed, !.features = flag]
    /\ UNCHANGED <<platform, guestVars, completed, features, store, vm, conf>>

\* MUTANT of Passed: steps about the VM are remembered too.
PassedMarksAll(h) ==
    IF h.i = Len(Steps) THEN [h EXCEPT !.pc = "idle", !.result = "ok"]
    ELSE [h EXCEPT !.pc = "truncate"]

\* The step of a run that has come to its end without an exception.
Passed(h) ==
    IF Steps[h.i] \in Remembered THEN [h EXCEPT !.pc = "truncate"]
    ELSE IF h.i = Len(Steps) THEN [h EXCEPT !.pc = "idle", !.result = "ok"]
    ELSE [h EXCEPT !.pc = "begin", !.i = @ + 1]

\* The run raises: its window stays, and with it the provider.
Raised(h) == [NewHost EXCEPT !.features = h.features, !.result = "failed"]

Skip ==
    /\ host.pc = "begin"
    /\ Steps[host.i] \in host.done \cap Remembered
    /\ host' = [host EXCEPT !.i = @ + 1]
    /\ UNCHANGED <<platform, guestVars, completed, features, store, vm, conf>>

Run ==
    /\ host.pc = "begin"
    /\ Steps[host.i] \notin host.done
    /\ host' = [host EXCEPT !.pc = "work"]
    /\ UNCHANGED <<platform, guestVars, completed, features, store, vm, conf>>

\* InstallState.mark reads the file, opens it for writing, which empties it, and
\* writes it.
MarkTruncate ==
    /\ host.pc = "truncate"
    /\ completed' = {}
    /\ host' = [host EXCEPT !.pc = "write", !.saved = completed \cup {Steps[host.i]}]
    /\ UNCHANGED <<platform, guestVars, features, store, vm, conf>>

\* The reboot gate is marked before it raises RebootRequired.
MarkWrite ==
    /\ host.pc = "write"
    /\ completed' = host.saved
    /\ host' = IF host.reboot THEN [Raised(host) EXCEPT !.result = "reboot"]
                              ELSE [host EXCEPT !.pc = "begin", !.i = @ + 1]
    /\ UNCHANGED <<platform, guestVars, features, store, vm, conf>>

-----------------------------------------------------------------------------
(* The steps about the computer *)

\* Steps whose product this module does not keep: checks, downloads, the last words.
Simple ==
    /\ host.pc = "work"
    /\ Steps[host.i] \in {"preflight", "install_runtime", "fetch_image", "finish"}
    /\ host' = Passed(host)
    /\ UNCHANGED <<platform, guestVars, completed, features, store, vm, conf>>

\* preflight().fixable: what `wsl --status` says before the restart is Windows' affair.
Fixable(statusOk) == (IF statusOk THEN {} ELSE {"enable_wsl_features"})
                       \cup (IF store THEN {} ELSE {"update_wsl"})

RemediateBegin ==
    /\ At("remediate", "work")
    /\ host.todo = {}
    /\ \E statusOk \in BOOLEAN :
         /\ features = "off" => ~statusOk
         /\ features = "on"  => statusOk
         /\ host' = IF Fixable(statusOk) = {} THEN Passed(host)
                    ELSE [host EXCEPT !.todo = Fixable(statusOk)]
    /\ UNCHANGED <<platform, guestVars, completed, features, store, vm, conf>>

\* The checks are in order: the features come first.
NextRemedy == IF "enable_wsl_features" \in host.todo THEN "enable_wsl_features"
                                                     ELSE "update_wsl"

\* MUTANT of RemedyDone: every remedy asks for a restart.
RemedyDoneFlags(h, remedy) ==
    LET left == h.todo \ {remedy}
        next == [h EXCEPT !.todo = left, !.features = TRUE]
    IN  IF left = {} THEN Passed(next) ELSE next

RemedyDone(h, remedy) ==
    LET left == h.todo \ {remedy}
        flag == h.features \/ remedy = "enable_wsl_features"
        next == [h EXCEPT !.todo = left, !.features = flag]
    IN  IF left = {} THEN Passed(next) ELSE next

\* MUTANT of ApplyRemedy: started is good enough, whatever the exit code.
ApplyRemedyUnchecked ==
    /\ At("remediate", "work")
    /\ host.todo # {}
    /\ \/ /\ features' = IF NextRemedy = "enable_wsl_features" /\ features = "off"
                           THEN "pending" ELSE features
          /\ store' = (store \/ NextRemedy = "update_wsl")
       \/ UNCHANGED <<features, store>>
    /\ host' = RemedyDone(host, NextRemedy)
    /\ UNCHANGED <<platform, guestVars, completed, vm, conf>>

\* apply_remedy: wsl.exe, elevated, and its exit code.
ApplyRemedy ==
    /\ At("remediate", "work")
    /\ host.todo # {}
    /\ features' = IF NextRemedy = "enable_wsl_features" /\ features = "off"
                     THEN "pending" ELSE features
    /\ store' = (store \/ NextRemedy = "update_wsl")
    /\ host' = RemedyDone(host, NextRemedy)
    /\ UNCHANGED <<platform, guestVars, completed, vm, conf>>

\* Both ways out of the gate; with the RunOnce entry written, setup asks for a restart.
RebootGate ==
    /\ At("reboot_gate", "work")
    /\ host' = [Passed(host) EXCEPT !.reboot = host.features]
    /\ UNCHANGED <<platform, guestVars, completed, features, store, vm, conf>>

-----------------------------------------------------------------------------
(* create_vm *)

BootKind == IF platform = "lima" \/ conf THEN "systemd" ELSE "plain"

Exists == vm # "none"

\* The steps run commands in the VM here.
InVm == host.pc \in {"work", "installed", "run"}
          /\ Steps[host.i] \in {"bootstrap", "connect", "verify"}

\* Any command in a WSL distro boots it.
WslBoots ==
    /\ InVm
    /\ platform = "wsl" /\ vm = "whole"
    /\ Boot(BootKind)
    /\ UNCHANGED hostVars

\* What exists is taken for what create() made.
EnsureRunning ==
    /\ At("create_vm", "work")
    /\ vm = "whole"
    /\ IF boot = "off" THEN Boot(BootKind) ELSE UNCHANGED guestVars
    /\ host' = Passed(host)
    /\ UNCHANGED <<platform, completed, features, store, vm, conf>>

\* limactl start --name: the instance has systemd from its image.
CreateLima ==
    /\ At("create_vm", "work")
    /\ platform = "lima" /\ ~Exists
    /\ vm' = "whole"
    /\ Boot("systemd")
    /\ host' = Passed(host)
    /\ UNCHANGED <<platform, completed, features, store, conf>>

\* wsl --import works once the features are on.
Import ==
    /\ At("create_vm", "work")
    /\ platform = "wsl" /\ ~Exists
    /\ features = "on" /\ store
    /\ vm' = "whole"
    /\ host' = [host EXCEPT !.pc = "conf"]
    /\ UNCHANGED <<platform, guestVars, completed, features, store, conf>>

\* The command that writes wsl.conf boots the distro without it.
WriteConf ==
    /\ At("create_vm", "conf")
    /\ vm = "whole"
    /\ IF boot = "off" THEN Boot(BootKind) ELSE UNCHANGED guestVars
    /\ conf' = TRUE
    /\ host' = [host EXCEPT !.pc = "terminate"]
    /\ UNCHANGED <<platform, completed, features, store, vm>>

Terminate ==
    /\ At("create_vm", "terminate")
    /\ Exists
    /\ boot' = "off"
    /\ host' = Passed(host)
    /\ UNCHANGED <<newest, sound, marker, engine, stack, token, issued, agent, script, faults>>
    /\ UNCHANGED <<platform, completed, features, store, vm, conf>>

-----------------------------------------------------------------------------
(* bootstrap and connect *)

\* bootstrap(): not again while the marker is there, unless it is a repair.
Bootstrap ==
    /\ At("bootstrap", "work")
    /\ boot # "off"
    /\ host' = IF marker # 0 THEN Passed(host) ELSE [host EXCEPT !.pc = "run"]
    /\ UNCHANGED <<platform, guestVars, completed, features, store, vm, conf>>

\* A script that an earlier setup left at work is not waited for.
StartEngine ==
    /\ host.pc = "run"
    /\ \E s \in Scripts :
         /\ Start(s, Steps[host.i] = "connect", 0)
         /\ host' = [host EXCEPT !.pc = "wait", !.script = s]
    /\ UNCHANGED <<platform, completed, features, store, vm, conf>>

EngineDone ==
    /\ host.pc = "wait"
    /\ ~AtWork(host.script)
    /\ host' = IF script[host.script].result = "ok"
                 THEN [host EXCEPT !.pc = "installed", !.script = None]
                 ELSE Raised(host)
    /\ UNCHANGED <<platform, guestVars, completed, features, store, vm, conf>>

\* The marker is looked for again; after a repair the connect step goes on.
Installed ==
    /\ host.pc = "installed"
    /\ boot # "off"
    /\ host' = IF marker = 0 THEN Raised(host)
               ELSE IF Steps[host.i] = "connect"
                 THEN [host EXCEPT !.pc = "work", !.repaired = TRUE]
               ELSE Passed(host)
    /\ UNCHANGED <<platform, guestVars, completed, features, store, vm, conf>>

\* AgentClient.for_provider: the token is read in the VM, and an empty one is an error.
Dial ==
    /\ host.pc = "work"
    /\ Steps[host.i] \in {"connect", "verify"}
    /\ boot # "off"
    /\ host' = IF token = 0 THEN Raised(host)
               ELSE [host EXCEPT !.tok = token,
                       !.pc = IF Steps[host.i] = "verify" \/ host.repaired
                                THEN "version" ELSE "health"]
    /\ UNCHANGED <<platform, guestVars, completed, features, store, vm, conf>>

AgentUp == agent.exists /\ boot = "systemd"

\* /health needs no token.
Health ==
    /\ At("connect", "health")
    /\ AgentUp
    /\ host' = [host EXCEPT !.pc = "version"]
    /\ UNCHANGED <<platform, guestVars, completed, features, store, vm, conf>>

\* MUTANT of Version: a refusal ends the run.
VersionOnce ==
    /\ host.pc = "version"
    /\ AgentUp
    /\ host' = IF agent.token = host.tok THEN Passed([host EXCEPT !.repaired = FALSE])
               ELSE Raised(host)
    /\ UNCHANGED <<platform, guestVars, completed, features, store, vm, conf>>

\* An authenticated call: /version of the connect step, which repairs a refusal once,
\* and the calls of the verify step, which does not.
Version ==
    /\ host.pc = "version"
    /\ AgentUp
    /\ host' = IF agent.token = host.tok THEN Passed([host EXCEPT !.repaired = FALSE])
               ELSE IF Steps[host.i] = "connect" /\ ~host.repaired
                 THEN [host EXCEPT !.pc = "run"]
               ELSE Raised(host)
    /\ UNCHANGED <<platform, guestVars, completed, features, store, vm, conf>>

\* Nothing answers within the time allowed, or the VM is not running.
NoAnswer ==
    /\ \/ host.pc \in {"health", "version"} /\ ~AgentUp
       \/ InVm /\ boot = "off" /\ (vm # "whole" \/ platform = "lima")
       \/ At("create_vm", "work") /\ platform = "wsl" /\ ~Exists
          /\ (features # "on" \/ ~store)
       \/ (At("create_vm", "work") \/ At("create_vm", "conf")) /\ vm = "hollow"
       \/ (At("create_vm", "conf") \/ At("create_vm", "terminate")) /\ ~Exists
    /\ host' = Raised(host)
    /\ UNCHANGED <<platform, guestVars, completed, features, store, vm, conf>>

-----------------------------------------------------------------------------
(* From outside *)

\* A step fails: no network, permission refused, no disk space.
StepFails ==
    /\ host.pc \notin {"idle", "wait", "write"}
    /\ Fault
    /\ host' = Raised(host)
    /\ UNCHANGED <<newest, sound, marker, engine, stack, token, issued, agent, boot, script>>
    /\ UNCHANGED <<platform, completed, features, store, vm, conf>>

\* limactl start leaves an instance it could not start.
LimaStartFails ==
    /\ At("create_vm", "work")
    /\ platform = "lima" /\ ~Exists
    /\ Fault
    /\ vm' = "whole"
    /\ host' = Raised(host)
    /\ UNCHANGED <<newest, sound, marker, engine, stack, token, issued, agent, boot, script>>
    /\ UNCHANGED <<platform, completed, features, store, conf>>

\* The process is killed or its window closed. A script it waits for goes on: nothing
\* tells it.  Bound: the next setup must find a free slot for a script of its own.
Kill ==
    /\ host.pc # "idle"
    /\ host.pc = "wait" => \E s \in Scripts : ~AtWork(s)
    /\ Fault
    /\ host' = [NewHost EXCEPT !.result = "failed"]
    /\ UNCHANGED <<newest, sound, marker, engine, stack, token, issued, agent, boot, script>>
    /\ UNCHANGED <<platform, completed, features, store, vm, conf>>

Interrupted == [s \in Scripts |-> IF AtWork(s) THEN Ended("failed") ELSE script[s]]

\* The machine restarts: features take effect, the VM is off, processes are gone.
\* A restart that features wait for is no fault.
MachineRestart ==
    /\ IF features = "pending" THEN UNCHANGED faults ELSE Fault
    /\ features' = IF features = "pending" THEN "on" ELSE features
    /\ host' = NewHost
    /\ boot' = "off"
    /\ script' = Interrupted
    /\ UNCHANGED <<newest, sound, marker, engine, stack, token, issued, agent>>
    /\ UNCHANGED <<platform, completed, store, vm, conf>>

Emptied ==
    /\ conf' = FALSE /\ boot' = "off"
    /\ marker' = 0 /\ engine' = 0 /\ stack' = 0 /\ token' = 0 /\ agent' = NoAgent
    /\ script' = Interrupted /\ sound' = TRUE

\* `omelet vm destroy`, or the user's own wsl.exe and limactl: setup does not hear of it.
Destroy ==
    /\ Exists
    /\ Fault
    /\ vm' = "none" /\ Emptied
    /\ UNCHANGED <<platform, newest, issued, completed, host, features, store>>

\* `omelet uninstall --purge` forgets the steps and clears install_dir, where WSL keeps
\* the distro's disk, whether or not there is a VM and it could be destroyed.  The disk
\* of a distro that runs is locked.
Uninstall ==
    /\ Fault
    /\ completed' = {}
    /\ \/ Exists /\ vm' = "none" /\ Emptied
       \/ Exists /\ platform = "wsl" /\ boot = "off" /\ vm' = "hollow" /\ Emptied
       \/ /\ Exists /\ platform = "wsl" => boot # "off"
          /\ UNCHANGED <<vm, conf, boot, sound, marker, engine, stack, token, agent,
                         script>>
    /\ UNCHANGED <<platform, newest, issued, host, features, store>>

-----------------------------------------------------------------------------

Init ==
    /\ platform \in Platforms
    /\ newest = 1 /\ marker = 0 /\ engine = 0 /\ stack = 0
    /\ token = 0 /\ issued = 0
    /\ vm \in IF OldVm THEN {"none", "whole"} ELSE {"none"}
    /\ agent = IF Exists THEN [exists |-> TRUE, ref |-> 1, token |-> 0] ELSE NoAgent
    /\ conf = Exists /\ sound = ~Exists
    /\ boot = "off"
    /\ script = [s \in Scripts |-> NoScript]
    /\ faults = 0
    /\ completed = {}
    /\ host = NewHost
    /\ features \in IF platform = "wsl" /\ ~Exists THEN {"off", "on"} ELSE {"on"}
    /\ store \in IF platform = "wsl" /\ ~Exists THEN BOOLEAN ELSE {TRUE}

Installer ==
    \/ Skip \/ Run \/ MarkTruncate \/ MarkWrite
    \/ Simple \/ RemediateBegin \/ ApplyRemedy \/ RebootGate
    \/ EnsureRunning \/ CreateLima \/ Import \/ WriteConf \/ Terminate
    \/ Bootstrap \/ StartEngine \/ EngineDone \/ Installed
    \/ Dial \/ Health \/ Version \/ NoAnswer
    \/ WslBoots

Outside ==
    \/ StepFails \/ LimaStartFails \/ Kill \/ MachineRestart \/ Destroy
    \/ Uninstall
    \/ (\/ \E s \in Scripts : Fail(s)
        \/ PowerOff \/ Release) /\ UNCHANGED hostVars

Next ==
    \/ StartSetup
    \/ Installer
    \/ \E s \in Scripts : Step(s) /\ UNCHANGED hostVars
    \/ Outside

Spec == Init /\ [][Next]_vars

\* The user runs setup again until it finishes, and restarts a machine whose features
\* wait for it.
Fairness ==
    /\ WF_vars(StartSetup)
    /\ WF_vars(Installer)
    /\ WF_vars(MachineRestart /\ features = "pending")
    /\ \A s \in Scripts : WF_vars(Step(s) /\ UNCHANGED hostVars)

FairSpec == Spec /\ Fairness

-----------------------------------------------------------------------------
(* Properties *)

\* Every variable keeps its type.
TypeOK ==
    /\ EngineTypeOK
    /\ platform \in Platforms
    /\ completed \subseteq Remembered
    /\ host \in HostRec
    /\ features \in {"off", "pending", "on"}
    /\ store \in BOOLEAN /\ vm \in {"none", "whole", "hollow"} /\ conf \in BOOLEAN

\* What the state file remembers is true of the computer, whatever was killed,
\* declined or restarted in between: once remediation is skipped, the features are on
\* or wait for the restart, and WSL is there (default_steps: "Only the steps above may
\* be remembered across runs: they are facts about this computer").
RememberedIsFact ==
    "remediate" \in completed /\ platform = "wsl" => features # "off" /\ store

\* A run asks for a restart only where one is due.
RestartIsDue == host.result = "reboot" => features = "pending"

\* Setup, run again as long as it fails, finishes again and again once nothing
\* interferes: it gets out of what failures, kills, a script left at work beside the
\* next one, restarts and uninstalls leave behind -- but for a distro that create()
\* never came to terminate, and that runs without systemd ever since (SystemdIsOn), one
\* whose disk an uninstall removed without getting rid of it, and a marker without an
\* agent's container, which no step looks for (two scripts beside each other, of which
\* one failed as it replaced the container), whatever the status screen then says of
\* running setup again (status.py:37).
SetupSucceeds ==
    \/ []<>(host.result = "ok")
    \/ <>[](boot = "plain") \/ <>[](vm = "hollow") \/ <>[](marker # 0 /\ ~agent.exists)

(* What install.sh says and the model refutes *)

\* The engine is installed in a VM that runs systemd (install.sh: "systemd must be on
\* -- set via wsl.conf during create()").
SystemdIsOn == \A s \in Scripts : script[s].pc = "docker" => boot = "systemd"

=============================================================================
