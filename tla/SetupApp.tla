------------------------------ MODULE SetupApp ------------------------------
(***************************************************************************)
(* The setup window (host/setup_app/): a screen that starts a worker       *)
(* thread, the queue through which the worker reports, the pump that draws *)
(* what it reports, and the probe that decides between screens.            *)
(*                                                                         *)
(* The worker runs the steps of install.py.  The download and, on macOS,   *)
(* the installation of Lima are those of LimaInstall; what the other steps *)
(* do to the computer is Setup's affair, and here only how they end.       *)
(***************************************************************************)
EXTENDS LimaInstall, Sequences

CONSTANT Platforms   \* the computers looked at, a subset of {"mac", "windows"}

ASSUME PlatformAssumption == Platforms \subseteq {"mac", "windows"}

VARIABLES
    platform,
    recorded,   \* install-state.json: the completed steps that are remembered
    vm,         \* the VM exists
    worker,     \* the wizard's thread: where it is and which step it has come to
    events,     \* the wizard's queue
    screen,     \* what the window shows
    app,        \* run_window's app_state: the exit code, and the log it keeps
    probing,    \* the probe's thread, and whether it may start the wizard
    last,       \* history: how this window's last run ended
    said        \* history: the messages of this run, in the order of its steps

appVars == <<platform, recorded, vm, worker, events, screen, app, probing, last, said>>
allVars == <<limaVars, appVars>>

Steps == IF platform = "mac"
           THEN <<"preflight", "install_runtime",
                  "create_vm", "bootstrap", "connect", "verify", "finish">>
           ELSE <<"preflight", "remediate", "reboot_gate", "fetch_image",
                  "create_vm", "bootstrap", "connect", "verify", "finish">>
Remembered == {"preflight", "remediate", "reboot_gate"}
Downloads  == [install_runtime |-> "runtime", fetch_image |-> "image"]

Results == {"none", "running", "ok", "failed", "reboot"}
Code    == [running |-> 1, ok |-> 0, failed |-> 1, reboot |-> 2]

\* A Progress: of which step, what about it, whether it has a message, and what share of
\* a download, in percent, is said to be there.
Progress(status, says, percent) ==
    [step |-> worker.at, status |-> status, says |-> says, percent |-> percent]
Sentinel == [step |-> 0, status |-> "over", says |-> FALSE, percent |-> 0]

NoWorker == [pc |-> "none", at |-> 1]

Screen(kind) == [kind |-> kind, finished |-> FALSE, outcome |-> 0, log |-> <<>>,
                 done |-> 0, bar |-> 0]

NoProbe    == [pc |-> "none", auto |-> FALSE, vm |-> FALSE]
Probe(auto) == [pc |-> "asking", auto |-> auto, vm |-> FALSE]

Shows(kind) == screen.kind = kind

-----------------------------------------------------------------------------
(* The worker: run_install *)

AtWork == worker.pc \in {"next", "run"}
Step   == Steps[worker.at]

Report(progress) ==
    /\ events' = Append(events, progress)
    /\ said' = IF progress.says THEN Append(said, progress.step) ELSE said

\* After the last step run_install returns.
NextStep == worker' = IF worker.at < Len(Steps)
                        THEN [pc |-> "next", at |-> worker.at + 1]
                        ELSE [worker EXCEPT !.pc = "announce"]

Skip ==
    /\ worker.pc = "next" /\ Step \in recorded
    /\ Report(Progress("skipped", FALSE, 0))
    /\ NextStep
    /\ UNCHANGED <<limaVars, platform, recorded, vm, screen, app, probing, last>>

RunStep ==
    /\ worker.pc = "next" /\ Step \notin recorded
    /\ Report(Progress("running", FALSE, 0))
    /\ worker' = [worker EXCEPT !.pc = "run"]
    /\ IF Step \in DOMAIN Downloads THEN Begin(Downloads[Step]) ELSE UNCHANGED limaVars
    /\ UNCHANGED <<platform, recorded, vm, screen, app, probing, last>>

\* MUTANT of Done: every step is remembered.
DoneRecordsAll(says) ==
    /\ Report(Progress("done", says, 0))
    /\ recorded' = recorded \cup {Step}
    /\ NextStep

Done(says) ==
    /\ Report(Progress("done", says, 0))
    /\ recorded' = recorded \cup ({Step} \cap Remembered)
    /\ NextStep

\* connect has a message when it repaired something, finish always has one.
StepDone ==
    /\ worker.pc = "run" /\ Step \notin DOMAIN Downloads
    /\ \E says \in BOOLEAN :
         /\ Step = "finish" => says
         /\ says => Step \in {"connect", "finish"}
         /\ Done(says)
    /\ vm' = (vm \/ Step = "create_vm")
    /\ UNCHANGED <<limaVars, platform, screen, app, probing, last>>

DownloadDone ==
    /\ worker.pc = "run" /\ Step \in DOMAIN Downloads /\ Here("done")
    /\ Done(FALSE)
    /\ UNCHANGED <<limaVars, platform, vm, screen, app, probing, last>>

Raise(status, result) ==
    /\ Report(Progress(status, status = "failed", 0))
    /\ worker' = [worker EXCEPT !.pc = result]

\* The VM may be there although its creation failed.
StepFails ==
    /\ worker.pc = "run" /\ Step \notin DOMAIN Downloads \cup {"finish"}
    /\ Fault
    /\ Raise("failed", "failed")
    /\ \/ UNCHANGED vm
       \/ Step = "create_vm" /\ vm' = TRUE
    /\ UNCHANGED <<part, archive, tree, previous, staged, inst, platform, recorded, screen,
                   app, probing, last>>

DownloadFails ==
    /\ worker.pc = "run" /\ Step \in DOMAIN Downloads /\ Here("failed")
    /\ Raise("failed", "failed")
    /\ UNCHANGED <<limaVars, platform, recorded, vm, screen, app, probing, last>>

\* MUTANT of RebootRequired: a gate that raised is not marked.
RebootRequiredUnmarked ==
    /\ worker.pc = "run" /\ Step = "reboot_gate"
    /\ Raise("reboot", "reboot")
    /\ UNCHANGED <<limaVars, platform, recorded, vm, screen, app, probing, last>>

\* The gate is marked as passed: the restart itself is what it asks for.
RebootRequired ==
    /\ worker.pc = "run" /\ Step = "reboot_gate"
    /\ recorded' = recorded \cup {Step}
    /\ Raise("reboot", "reboot")
    /\ UNCHANGED <<limaVars, platform, vm, screen, app, probing, last>>

\* The worker's except clauses set the screen's outcome ...
Caught ==
    /\ worker.pc \in {"failed", "reboot"}
    /\ screen' = [screen EXCEPT !.outcome = Code[worker.pc]]
    /\ last' = worker.pc
    /\ worker' = [worker EXCEPT !.pc = "announce"]
    /\ UNCHANGED <<limaVars, platform, recorded, vm, events, app, probing, said>>

\* MUTANT of Announce: the sentinel is not put in a `finally`.
AnnounceSuccess ==
    /\ worker.pc = "announce"
    /\ events' = IF last = "running" THEN Append(events, Sentinel) ELSE events
    /\ last' = IF last = "running" THEN "ok" ELSE last
    /\ worker' = [worker EXCEPT !.pc = "none"]
    /\ UNCHANGED <<limaVars, platform, recorded, vm, screen, app, probing, said>>

\* ... and its `finally` says that nothing more will come.
Announce ==
    /\ worker.pc = "announce"
    /\ events' = Append(events, Sentinel)
    /\ last' = IF last = "running" THEN "ok" ELSE last
    /\ worker' = [worker EXCEPT !.pc = "none"]
    /\ UNCHANGED <<limaVars, platform, recorded, vm, screen, app, probing, said>>

\* What _emitter makes of a chunk: without a total there is nothing to report.
Share(n) == (100 * n) \div inst.total

\* What fetch does, and reports of it.
Working ==
    /\ AtWork /\ Installing
    /\ Install \/ Amiss
    /\ IF part'.n > part.n /\ inst.total # 0
         THEN events' = Append(events, Progress("percent", FALSE, Share(part'.n)))
         ELSE UNCHANGED events
    /\ UNCHANGED <<platform, recorded, vm, worker, screen, app, probing, last, said>>

Worker == \/ Skip \/ RunStep \/ StepDone \/ DownloadDone \/ StepFails \/ DownloadFails
          \/ RebootRequired \/ Caught \/ Announce \/ Working

-----------------------------------------------------------------------------
(* The window's own thread *)

StartWizard ==
    /\ screen' = Screen("wizard")
    /\ worker' = [pc |-> "next", at |-> 1]
    /\ events' = <<>>
    /\ last' = "running" /\ said' = <<>>
    /\ probing' = NoProbe

BeginProbe(auto) ==
    /\ screen' = Screen("spinner")
    /\ probing' = Probe(auto)

\* After the restart the window was registered for, it goes straight to the wizard.
OpenWindow ==
    /\ Shows("closed")
    /\ app' = [code |-> 0, log |-> <<>>]
    /\ \/ last = "reboot" /\ StartWizard
       \/ BeginProbe(TRUE) /\ last' = "none" /\ UNCHANGED <<worker, events, said>>
    /\ UNCHANGED <<limaVars, platform, recorded, vm>>

\* A probe that cannot ask comes back as a VM that is not there.
ProbeAnswers ==
    /\ probing.pc = "asking"
    /\ \E seen \in {vm, FALSE} : probing' = [probing EXCEPT !.pc = "answered", !.vm = seen]
    /\ UNCHANGED <<limaVars, platform, recorded, vm, worker, events, screen, app, last, said>>

\* The wizard starts by itself only where nothing was ever recorded.
ShouldAutoStart == ~probing.vm /\ recorded = {}

ProbeSeen ==
    /\ probing.pc = "answered"
    /\ IF probing.auto /\ ShouldAutoStart
         THEN StartWizard
         ELSE /\ screen' = Screen("status")
              /\ probing' = NoProbe
              /\ UNCHANGED <<worker, events, last, said>>
    /\ UNCHANGED <<limaVars, platform, recorded, vm, app>>

PressSetup ==
    /\ Shows("status")
    /\ StartWizard
    /\ UNCHANGED <<limaVars, platform, recorded, vm, app>>

\* MUTANT of PressViewStatus: the button is there from the start.
PressViewStatusAnytime ==
    /\ Shows("wizard") /\ (screen.finished => screen.outcome # 0)
    /\ BeginProbe(FALSE)
    /\ UNCHANGED <<limaVars, platform, recorded, vm, worker, events, app, last, said>>

\* The buttons of a run that did not succeed.
PressViewStatus ==
    /\ Shows("wizard") /\ screen.finished /\ screen.outcome # 0
    /\ BeginProbe(FALSE)
    /\ UNCHANGED <<limaVars, platform, recorded, vm, worker, events, app, last, said>>

\* MUTANT of Rendered: the bar shows the download alone.
RenderedAlone(e) ==
    IF e.status = "percent"
      THEN [screen EXCEPT !.bar = e.percent]
    ELSE IF e.status = "running" THEN screen
    ELSE LET finish == Steps[e.step] = "finish"
         IN  [screen EXCEPT !.done = @ + 1, !.bar = (screen.done + 1) * 100,
                            !.log = IF e.says /\ ~finish THEN Append(@, e.step) ELSE @]

\* What _render does to the screen.  The finish step's message is the outcome's.
Rendered(e) ==
    IF e.status = "percent"
      THEN [screen EXCEPT !.bar = screen.done * 100 + e.percent]
    ELSE IF e.status = "running" THEN screen
    ELSE LET finish == Steps[e.step] = "finish"
         IN  [screen EXCEPT !.done = @ + 1, !.bar = (screen.done + 1) * 100,
                            !.log = IF e.says /\ ~finish THEN Append(@, e.step) ELSE @]

Render ==
    /\ Shows("wizard") /\ ~screen.finished
    /\ events # <<>> /\ Head(events) # Sentinel
    /\ screen' = Rendered(Head(events))
    /\ events' = Tail(events)
    /\ UNCHANGED <<limaVars, platform, recorded, vm, worker, app, probing, last, said>>

\* wizard_finished keeps code and log, the outcome's message (step 0) at its end.
Keep(outcome) == app' = [code |-> outcome, log |-> Append(screen.log, 0)]

\* MUTANT of Finish: the screen ends when its thread has.
FinishWithThread ==
    /\ Shows("wizard") /\ ~screen.finished
    /\ worker.pc = "none"
    /\ Keep(screen.outcome)
    /\ IF screen.outcome = 0
         THEN BeginProbe(FALSE)
         ELSE screen' = [screen EXCEPT !.finished = TRUE] /\ UNCHANGED probing
    /\ events' = <<>>
    /\ UNCHANGED <<limaVars, platform, recorded, vm, worker, last, said>>

\* The sentinel: buttons, or the status screen if all went well.
Finish ==
    /\ Shows("wizard") /\ ~screen.finished
    /\ events # <<>> /\ Head(events) = Sentinel
    /\ Keep(screen.outcome)
    /\ IF screen.outcome = 0
         THEN BeginProbe(FALSE)
         ELSE screen' = [screen EXCEPT !.finished = TRUE] /\ UNCHANGED probing
    /\ events' = Tail(events)
    /\ UNCHANGED <<limaVars, platform, recorded, vm, worker, last, said>>

\* MUTANT of Close: app_state's code, whatever the wizard is doing.
CloseUnasked ==
    /\ ~Shows("closed")
    /\ Killed
    /\ IF Shows("wizard") /\ worker.pc = "none" THEN UNCHANGED faults ELSE Fault
    /\ screen' = Screen("closed")
    /\ worker' = NoWorker /\ events' = <<>> /\ probing' = NoProbe
    /\ UNCHANGED <<platform, recorded, vm, app, last, said>>

\* The outcome of a wizard that is closed before it has finished is a failure.
Cancelled == IF screen.finished THEN screen.outcome ELSE 1

\* cancelled() answers for the wizard.  The threads are daemons.
\* MaxFaults bounds how often anything else than a wizard without a thread is closed.
Close ==
    /\ ~Shows("closed")
    /\ Killed
    /\ IF Shows("wizard") /\ worker.pc = "none" THEN UNCHANGED faults ELSE Fault
    /\ app' = IF Shows("wizard") THEN [app EXCEPT !.code = Cancelled] ELSE app
    /\ screen' = Screen("closed")
    /\ worker' = NoWorker /\ events' = <<>> /\ probing' = NoProbe
    /\ UNCHANGED <<platform, recorded, vm, last, said>>

Pump == Render \/ Finish
User == OpenWindow \/ PressSetup \/ PressViewStatus

-----------------------------------------------------------------------------

Init ==
    /\ LimaInit
    /\ platform \in Platforms
    /\ platform = "windows" => tree = "none" /\ previous = "none"
    /\ recorded = {} /\ vm = FALSE
    /\ worker = NoWorker /\ events = <<>>
    /\ screen = Screen("closed")
    /\ app = [code |-> 0, log |-> <<>>]
    /\ probing = NoProbe
    /\ last = "none" /\ said = <<>>

Next == \/ Worker \/ Pump \/ User \/ ProbeAnswers \/ ProbeSeen \/ Close
        \/ (Damage /\ UNCHANGED appVars)

\* Threads and the event loop are scheduled; the user opens the window and presses the
\* button that is there until setup has succeeded.
Fairness == /\ WF_allVars(Worker) /\ WF_allVars(Pump)
            /\ WF_allVars(ProbeAnswers) /\ WF_allVars(ProbeSeen) /\ WF_allVars(User)

Spec == Init /\ [][Next]_allVars /\ Fairness

-----------------------------------------------------------------------------
(* Properties *)

\* Every variable keeps its type.
TypeOK ==
    /\ LimaTypeOK
    /\ recorded \subseteq Remembered
    /\ worker.pc \in {"none", "next", "run", "failed", "reboot", "announce"}
    /\ worker.at \in DOMAIN Steps
    /\ screen.kind \in {"closed", "spinner", "status", "wizard"}
    /\ screen.done \in 0 .. Len(Steps) /\ screen.bar \in Nat
    /\ app.code \in 0 .. 2
    /\ last \in Results
    /\ Installing => AtWork

\* A run belongs to the wizard that shows it: no screen that could start another one
\* comes up while it is at work.
OneRunAtATime == worker.pc # "none" => Shows("wizard") /\ ~screen.finished

\* The exit code speaks of the last run: 0 only if it succeeded (or there was none), 2
\* only if it asked for a restart -- also if the window is closed in the middle
\* (cancelled: "nothing about a half-built VM is a success").
ExitTellsLastRun ==
    Shows("closed") => /\ app.code = 0 => last \in {"none", "ok"}
                       /\ app.code = 2 => last = "reboot"

\* The messages of a run but the one of its finish step, which is the last.
ButFinish(messages) ==
    IF messages # <<>> /\ Steps[messages[Len(messages)]] = "finish"
      THEN SubSeq(messages, 1, Len(messages) - 1) ELSE messages

\* When the screen has come to its end, its log has every message of the run, in their
\* order, and the outcome's behind them.
LogIsWhole ==
    [][app'.log # app.log /\ app'.log # <<>> =>
         app'.log = Append(ButFinish(said), 0)]_allVars

\* The bar of a wizard never goes back, but from beyond the end of the step it shows to
\* that end: a step that told of more than there was is done.
BarNeverFalls ==
    [][Shows("wizard") /\ screen'.kind = "wizard" /\ screen'.bar < screen.bar =>
         /\ screen.bar > 100 * (screen.done + 1)
         /\ screen'.bar = 100 * screen'.done /\ screen'.done = screen.done + 1]_allVars

\* Every run ends on a screen with a way out (wizard.py: "a terminal screen with no
\* buttons is a dead end").
RunEnds == Shows("wizard") /\ ~screen.finished ~> ~Shows("wizard") \/ screen.finished

\* A user who runs setup again comes to its end, once nothing goes wrong any more --
\* unless a run left a partial file as long as the whole one, or longer: one killed before
\* the rename, or one whose connection dropped as it appended a whole file to a part of it.
SetupSucceeds == <>(last = "ok") \/ <>[]Unresumable

=============================================================================
