---------------------------- MODULE Setup_proofs ---------------------------
(***************************************************************************)
(* Proofs about Setup: its types, that what the state file remembers is    *)
(* true of the computer, and that a restart is asked for only where one is *)
(* due, for any number of scripts and releases, and however often setup is *)
(* killed, run again, or has its VM taken away; then what the engine's     *)
(* marker stands for, whichever scripts are at work in the VM.             *)
(***************************************************************************)
EXTENDS Setup, EngineInstall_proofs

\* Once remediation is over, the features are on or wait for the restart, and WSL is
\* there.  Neither is ever taken back.
Remedied == features # "off" /\ store

\* Where the process is in a step, by what it does there.
Places ==
    /\ host.pc \in {"truncate", "write"} => Steps[host.i] \in Remembered
    /\ host.pc \in {"installed", "run", "wait", "health", "version"}
         => Steps[host.i] \in {"bootstrap", "connect", "verify"}

\* What remediation has still to do, and has done.
Remediation ==
    host.todo # {} =>
        /\ At("remediate", "work")
        /\ "enable_wsl_features" \in host.todo => features # "on"
        /\ "enable_wsl_features" \notin host.todo => features # "off"
        /\ "update_wsl" \notin host.todo => store

\* A process that remembers remediation, is about to, or is past it, in a run that
\* read, skipped or did it.
PastRemediation ==
    \/ "remediate" \in completed \cup host.done \cup host.saved
    \/ host.i > 2
    \/ host.i = 2 /\ host.pc \in {"truncate", "write"}

PastIsFact == platform = "wsl" /\ PastRemediation => Remedied

\* The flag of a provider that enabled the features does not outlive the restart.
FlagIsPending == host.features \/ host.reboot \/ host.result = "reboot"
                   => features = "pending"

\* The part of TypeOK that is not the engine's.
HostTypeOK ==
    /\ platform \in Platforms
    /\ completed \subseteq Remembered
    /\ host \in HostRec
    /\ features \in {"off", "pending", "on"}
    /\ store \in BOOLEAN /\ vm \in {"none", "whole", "hollow"} /\ conf \in BOOLEAN

HostInv  == HostTypeOK /\ Places /\ Remediation /\ PastIsFact /\ FlagIsPending
SetupInv == EngineTypeOK /\ HostInv

\* Scripts run in a VM that runs, and a VM that runs is whole.
ScriptsInVm == /\ AnyAtWork => boot # "off"
               /\ boot # "off" => vm = "whole"

\* No script is at work in a VM that create() has not finished with.
CreateIsAlone == At("create_vm", "conf") \/ At("create_vm", "terminate") => ~AnyAtWork
USE RefAssumption, BoundAssumption, PlatformAssumption, NoneAssumption

-----------------------------------------------------------------------------
(* The steps of a run *)

\* The list of steps of either platform; a remembered step is never the last.
LEMMA StepList ==
  ASSUME platform \in Platforms
  PROVE  /\ Len(Steps) \in {7, 9}
         /\ \A i \in 1 .. Len(Steps) : Steps[i] \in Remembered => i < Len(Steps) /\ i <= 3
         /\ \A i \in 1 .. Len(Steps) : Steps[i] = "remediate" <=> platform = "wsl" /\ i = 2
         /\ \A i \in 1 .. Len(Steps) : i \in {1, 2} /\ platform = "wsl" => Steps[i] \in Remembered
<1>1. CASE platform = "wsl"
  BY <1>1 DEF Steps, Remembered
<1>2. CASE platform = "lima"
  BY <1>2 DEF Steps, Remembered
<1> QED
  BY <1>1, <1>2

\* The fields of the process record that a step may set, one by one.
LEMMA HostFields ==
  ASSUME NEW h \in HostRec
  PROVE  /\ \A pc \in {"idle", "begin", "work", "truncate", "write", "conf", "terminate",
                       "installed", "run", "wait", "health", "version"} :
              [h EXCEPT !.pc = pc] \in HostRec
         /\ \A i \in 1 .. Len(Steps) : [h EXCEPT !.i = i] \in HostRec
         /\ \A d \in SUBSET Remembered : [h EXCEPT !.saved = d] \in HostRec
         /\ \A r \in BOOLEAN : [h EXCEPT !.reboot = r] \in HostRec
         /\ \A r \in BOOLEAN : [h EXCEPT !.features = r] \in HostRec
         /\ \A r \in BOOLEAN : [h EXCEPT !.repaired = r] \in HostRec
         /\ \A d \in SUBSET Remedies : [h EXCEPT !.todo = d] \in HostRec
         /\ \A s \in Scripts \cup {None} : [h EXCEPT !.script = s] \in HostRec
         /\ \A n \in Nat : [h EXCEPT !.tok = n] \in HostRec
         /\ \A r \in {"none", "ok", "failed", "reboot"} : [h EXCEPT !.result = r] \in HostRec
  BY ZenonT(40) DEF HostRec

LEMMA NewHostType ==
  ASSUME platform \in Platforms
  PROVE  NewHost \in HostRec
<1>1. 1 \in 1 .. Len(Steps)
  BY StepList
<1> QED
  BY <1>1 DEF NewHost, HostRec

\* No step changes the computer's provider, nor what depends on it.
LEMMA SameSteps ==
  ASSUME UNCHANGED platform
  PROVE  Steps' = Steps /\ HostRec' = HostRec
  BY DEF Steps, HostRec

LEMMA SamePlatform ==
  ASSUME [Next]_vars
  PROVE  UNCHANGED platform
<1>1. Installer => UNCHANGED platform
  BY DEF Installer, Skip, Run, MarkTruncate, MarkWrite, Simple, RemediateBegin, ApplyRemedy,
     RebootGate, EnsureRunning, CreateLima, Import, WriteConf, Terminate, Bootstrap,
     StartEngine, EngineDone, Installed, Dial, Health, Version, NoAnswer, WslBoots, hostVars
<1>2. Outside => UNCHANGED platform
  BY DEF Outside, StepFails, LimaStartFails, Kill, MachineRestart, Destroy, Uninstall, hostVars
<1> QED
  BY <1>1, <1>2 DEF Next, StartSetup, vars, hostVars

\* What a run looks like after a step that has come to its end.
LEMMA PassedFields ==
  ASSUME platform \in Platforms, NEW h \in HostRec
  PROVE  /\ Passed(h) \in HostRec
         /\ Passed(h).done = h.done /\ Passed(h).saved = h.saved /\ Passed(h).todo = h.todo
         /\ Passed(h).features = h.features /\ Passed(h).reboot = h.reboot
         /\ Passed(h).result \in {h.result, "ok"}
         /\ Steps[h.i] \in Remembered => Passed(h).pc = "truncate" /\ Passed(h).i = h.i
         /\ Steps[h.i] \notin Remembered => /\ Passed(h).pc \in {"idle", "begin"}
                                            /\ Passed(h).i \in {h.i, h.i + 1}
<1>0. h.i \in 1 .. Len(Steps) /\ Len(Steps) \in Nat
  BY StepList DEF HostRec
<1>1. CASE Steps[h.i] \in Remembered
  <2>1. Passed(h) = [h EXCEPT !.pc = "truncate"]
    BY <1>1 DEF Passed
  <2>2. Passed(h) \in HostRec
    BY ZenonT(40), <2>1, HostFields
  <2> QED
    BY <1>1, <2>1, <2>2 DEF HostRec
<1>2. CASE Steps[h.i] \notin Remembered /\ h.i = Len(Steps)
  <2>1. [h EXCEPT !.pc = "idle"] \in HostRec
    BY HostFields
  <2>2. [[h EXCEPT !.pc = "idle"] EXCEPT !.result = "ok"] \in HostRec
    BY <2>1, HostFields
  <2>3. Passed(h) = [[h EXCEPT !.pc = "idle"] EXCEPT !.result = "ok"]
    BY <1>2 DEF Passed, HostRec
  <2> QED
    BY <1>2, <2>2, <2>3 DEF HostRec
<1>3. CASE Steps[h.i] \notin Remembered /\ h.i # Len(Steps)
  <2>1. [h EXCEPT !.pc = "begin"] \in HostRec
    BY HostFields
  <2>2. h.i + 1 \in 1 .. Len(Steps)
    BY <1>0, <1>3
  <2>3. [[h EXCEPT !.pc = "begin"] EXCEPT !.i = h.i + 1] \in HostRec
    BY <2>1, <2>2, HostFields
  <2>4. Passed(h) = [[h EXCEPT !.pc = "begin"] EXCEPT !.i = h.i + 1]
    BY <1>3 DEF Passed, HostRec
  <2> QED
    BY <1>3, <2>3, <2>4 DEF HostRec
<1> QED
  BY <1>1, <1>2, <1>3

LEMMA RaisedFields ==
  ASSUME platform \in Platforms, NEW h \in HostRec
  PROVE  /\ Raised(h) \in HostRec
         /\ Raised(h).pc = "idle" /\ Raised(h).i = 1 /\ Raised(h).done = {}
         /\ Raised(h).saved = {} /\ Raised(h).todo = {}
         /\ Raised(h).features = h.features /\ Raised(h).reboot = FALSE
         /\ Raised(h).result = "failed"
<1>1. h.features \in BOOLEAN
  BY DEF HostRec
<1>2. [NewHost EXCEPT !.features = h.features] \in HostRec
  BY <1>1, NewHostType, HostFields
<1>3. [[NewHost EXCEPT !.features = h.features] EXCEPT !.result = "failed"] \in HostRec
  BY <1>2, HostFields
<1>4. Raised(h) = [[NewHost EXCEPT !.features = h.features] EXCEPT !.result = "failed"]
  BY DEF Raised, NewHost
<1> QED
  BY <1>3, <1>4 DEF NewHost

-----------------------------------------------------------------------------
(* What most steps of a run do to the record of the process *)

\* The step of a run other than remediation comes to its end.
LEMMA PassedKeeps ==
  ASSUME HostInv, host.pc \notin {"idle", "begin"}, host.todo = {},
         Steps[host.i] # "remediate", host' = Passed(host),
         UNCHANGED <<platform, completed, features, store>>,
         vm' \in {"none", "whole", "hollow"}, conf' \in BOOLEAN
  PROVE  HostInv'
<1> USE DEF HostInv, HostTypeOK
<1>1. Steps' = Steps /\ HostRec' = HostRec
  BY SameSteps
<1>2. /\ host' \in HostRec /\ host'.done = host.done /\ host'.saved = host.saved
      /\ host'.todo = {} /\ host'.features = host.features /\ host'.reboot = host.reboot
      /\ host'.result \in {host.result, "ok"}
      /\ Steps[host.i] \in Remembered => host'.pc = "truncate" /\ host'.i = host.i
      /\ Steps[host.i] \notin Remembered => /\ host'.pc \in {"idle", "begin"}
                                            /\ host'.i \in {host.i, host.i + 1}
  BY PassedFields
<1>3. host.i \in 1 .. Len(Steps) /\ Len(Steps) \in Nat
  BY StepList DEF HostRec
<1>4. platform = "wsl" => host.i # 2
  BY <1>3, StepList
<1>5. platform = "wsl" /\ Steps[host.i] \notin Remembered => host.i > 2
  BY <1>3, StepList
<1>6. PastIsFact'
  BY <1>2, <1>3, <1>4, <1>5 DEF PastIsFact, PastRemediation, Remedied
<1>7. Places'
  BY <1>1, <1>2 DEF Places
<1>8. FlagIsPending' /\ Remediation'
  BY <1>2 DEF FlagIsPending, Remediation
<1> QED
  BY <1>1, <1>2, <1>6, <1>7, <1>8

\* A run raises.
LEMMA RaisedKeeps ==
  ASSUME HostInv, host' = Raised(host), UNCHANGED <<platform, completed, features, store>>,
         vm' \in {"none", "whole", "hollow"}, conf' \in BOOLEAN
  PROVE  HostInv'
<1> USE DEF HostInv, HostTypeOK
<1>1. Steps' = Steps /\ HostRec' = HostRec
  BY SameSteps
<1>2. /\ host' \in HostRec
      /\ host'.pc = "idle" /\ host'.i = 1 /\ host'.done = {}
      /\ host'.saved = {} /\ host'.todo = {}
      /\ host'.features = host.features /\ host'.reboot = FALSE
      /\ host'.result = "failed"
  BY RaisedFields
<1>3. PastIsFact' /\ Places' /\ FlagIsPending' /\ Remediation'
  BY <1>2 DEF PastIsFact, PastRemediation, Remedied, Places, FlagIsPending, Remediation
<1> QED
  BY <1>1, <1>2, <1>3

\* A run goes on in its step.
LEMMA GoesOn ==
  ASSUME HostInv, UNCHANGED <<platform, completed, features, store>>,
         vm' \in {"none", "whole", "hollow"}, conf' \in BOOLEAN,
         host' \in HostRec, host.todo = {},
         NEW pc, pc \notin {"truncate", "write"}, host'.pc = pc,
         pc \in {"installed", "run", "wait", "health", "version"}
            => Steps[host.i] \in {"bootstrap", "connect", "verify"},
         host'.i = host.i, host'.done = host.done, host'.saved = host.saved,
         host'.todo = host.todo, host'.features = host.features,
         host'.reboot = host.reboot, host'.result = host.result
  PROVE  HostInv'
<1> USE DEF HostInv, HostTypeOK
<1>1. Steps' = Steps /\ HostRec' = HostRec
  BY SameSteps
<1>2. PastIsFact' /\ Places' /\ FlagIsPending' /\ Remediation'
  BY <1>1 DEF PastIsFact, PastRemediation, Remedied, Places, FlagIsPending, Remediation
<1> QED
  BY <1>1, <1>2

-----------------------------------------------------------------------------
(* The steps of a run, one by one *)

LEMMA StartKeeps == HostInv /\ StartSetup => HostInv'
<1> SUFFICES ASSUME HostInv, StartSetup PROVE HostInv'
  OBVIOUS
<1> USE DEF HostInv, HostTypeOK
<1>1. Steps' = Steps /\ HostRec' = HostRec
  BY SameSteps DEF StartSetup
<1>2. PICK flag \in {FALSE, host.features} :
        host' = [NewHost EXCEPT !.pc = "begin", !.done = completed, !.features = flag]
  BY DEF StartSetup
<1>3. flag \in BOOLEAN
  BY DEF HostRec
<1>4. host' \in HostRec
  <2>1. [NewHost EXCEPT !.features = flag] \in HostRec
    BY <1>3, NewHostType, HostFields
  <2>2. [[NewHost EXCEPT !.features = flag] EXCEPT !.pc = "begin"] \in HostRec
    BY <2>1, HostFields
  <2>3. host' = [[[NewHost EXCEPT !.features = flag] EXCEPT !.pc = "begin"]
                   EXCEPT !.done = completed]
    BY <1>2 DEF NewHost
  <2> QED
    BY <2>2, <2>3 DEF HostRec
<1>5. /\ host'.pc = "begin" /\ host'.i = 1 /\ host'.done = completed /\ host'.saved = {}
      /\ host'.todo = {} /\ host'.reboot = FALSE /\ host'.result = "none"
      /\ host'.features = flag
  BY <1>2 DEF NewHost
<1>6. host'.features => host.features
  BY <1>2, <1>5
<1>7. PastIsFact' /\ Places' /\ Remediation'
  BY <1>5 DEF StartSetup, PastIsFact, PastRemediation, Remedied, Places, Remediation
<1>8. FlagIsPending'
  BY <1>5, <1>6 DEF StartSetup, FlagIsPending
<1> QED
  BY <1>1, <1>4, <1>7, <1>8 DEF StartSetup

LEMMA SkipKeeps == HostInv /\ Skip => HostInv'
<1> SUFFICES ASSUME HostInv, Skip PROVE HostInv'
  OBVIOUS
<1> USE DEF HostInv, HostTypeOK
<1>1. Steps' = Steps /\ HostRec' = HostRec
  BY SameSteps DEF Skip
<1>2. /\ host.pc = "begin" /\ Steps[host.i] \in host.done \cap Remembered
      /\ host' = [host EXCEPT !.i = host.i + 1]
  BY DEF Skip
<1>3. host.i \in 1 .. Len(Steps) /\ Len(Steps) \in Nat /\ host.i + 1 \in 1 .. Len(Steps)
  BY <1>2, StepList DEF HostRec
<1>4. host' \in HostRec
  BY <1>2, <1>3, HostFields
<1>5. /\ host'.pc = "begin" /\ host'.i = host.i + 1 /\ host'.done = host.done
      /\ host'.saved = host.saved /\ host'.todo = host.todo /\ host'.reboot = host.reboot
      /\ host'.result = host.result /\ host'.features = host.features
  BY <1>2 DEF HostRec
<1>6. platform = "wsl" /\ host.i = 2 => "remediate" \in host.done
  BY <1>2, <1>3, StepList
<1>7. PastIsFact'
  BY <1>2, <1>3, <1>5, <1>6 DEF Skip, PastIsFact, PastRemediation, Remedied
<1>8. host.todo = {}
  BY <1>2 DEF Remediation, At
<1>9. Places' /\ Remediation' /\ FlagIsPending'
  BY <1>5, <1>8 DEF Skip, Places, Remediation, FlagIsPending
<1> QED
  BY <1>1, <1>4, <1>7, <1>9 DEF Skip

LEMMA RunKeeps == HostInv /\ Run => HostInv'
<1> SUFFICES ASSUME HostInv, Run PROVE HostInv'
  OBVIOUS
<1> USE DEF HostInv, HostTypeOK
<1>1. host.pc = "begin" /\ host' = [host EXCEPT !.pc = "work"]
  BY DEF Run
<1>2. host.todo = {}
  BY <1>1 DEF Remediation, At
<1>3. host' \in HostRec
  BY <1>1, HostFields
<1> QED
  BY <1>1, <1>2, <1>3, GoesOn DEF Run, HostRec

\* The name of the step, that is one to be remembered, is kept for the write.
LEMMA MarkTruncateKeeps == HostInv /\ MarkTruncate => HostInv'
<1> SUFFICES ASSUME HostInv, MarkTruncate PROVE HostInv'
  OBVIOUS
<1> USE DEF HostInv, HostTypeOK
<1>1. Steps' = Steps /\ HostRec' = HostRec
  BY SameSteps DEF MarkTruncate
<1> DEFINE d == completed \cup {Steps[host.i]}
<1>2. host.pc = "truncate" /\ host' = [host EXCEPT !.pc = "write", !.saved = d]
  BY DEF MarkTruncate
<1>3. d \in SUBSET Remembered /\ Steps[host.i] \in Remembered
  BY <1>2 DEF Places
<1>4. host' \in HostRec
  <2>1. [host EXCEPT !.pc = "write"] \in HostRec
    BY HostFields
  <2>2. [[host EXCEPT !.pc = "write"] EXCEPT !.saved = d] \in HostRec
    BY <1>3, <2>1, HostFields
  <2>3. host' = [[host EXCEPT !.pc = "write"] EXCEPT !.saved = d]
    BY <1>2
  <2> QED
    BY <2>2, <2>3
<1>5. /\ host'.pc = "write" /\ host'.i = host.i /\ host'.done = host.done
      /\ host'.saved = d /\ host'.todo = host.todo /\ host'.reboot = host.reboot
      /\ host'.result = host.result /\ host'.features = host.features
  BY <1>2 DEF HostRec
<1>6. platform = "wsl" /\ Steps[host.i] = "remediate" => host.i = 2
  BY StepList DEF HostRec
<1>7. PastIsFact'
  BY <1>2, <1>5, <1>6 DEF MarkTruncate, PastIsFact, PastRemediation, Remedied
<1>8. host.todo = {}
  BY <1>2 DEF Remediation, At
<1>9. Places' /\ Remediation' /\ FlagIsPending'
  BY <1>1, <1>3, <1>5, <1>8 DEF MarkTruncate, Places, Remediation, FlagIsPending
<1> QED
  BY <1>1, <1>4, <1>7, <1>9 DEF MarkTruncate

\* The reboot gate is marked by a run that asks for a restart; every other step by one
\* that goes on.
LEMMA MarkWriteKeeps == HostInv /\ MarkWrite => HostInv'
<1> SUFFICES ASSUME HostInv, MarkWrite PROVE HostInv'
  OBVIOUS
<1> USE DEF HostInv, HostTypeOK
<1>1. Steps' = Steps /\ HostRec' = HostRec
  BY SameSteps DEF MarkWrite
<1>2. host.pc = "write" /\ completed' = host.saved /\ host.saved \subseteq Remembered
  BY DEF MarkWrite, HostRec
<1>3. CASE host.reboot
  <2>1. host' = [Raised(host) EXCEPT !.result = "reboot"]
    BY <1>3 DEF MarkWrite
  <2>2. host' \in HostRec
    BY <2>1, RaisedFields, HostFields
  <2>3. /\ host'.pc = "idle" /\ host'.i = 1 /\ host'.done = {} /\ host'.saved = {}
        /\ host'.todo = {} /\ host'.reboot = FALSE
        /\ host'.features = host.features /\ host'.result = "reboot"
    BY <2>1, RaisedFields DEF HostRec
  <2>4. PastIsFact' /\ Places' /\ Remediation'
    BY <1>2, <2>3 DEF MarkWrite, PastIsFact, PastRemediation, Remedied, Places, Remediation
  <2>5. FlagIsPending'
    BY <1>3, <2>3 DEF MarkWrite, FlagIsPending
  <2> QED
    BY <1>1, <1>2, <2>2, <2>4, <2>5 DEF MarkWrite
<1>4. CASE ~host.reboot
  <2>1. host' = [host EXCEPT !.pc = "begin", !.i = host.i + 1]
    BY <1>4 DEF MarkWrite
  <2>2. /\ host.i \in 1 .. Len(Steps) /\ Len(Steps) \in Nat
        /\ host.i + 1 \in 1 .. Len(Steps)
    BY <1>2, StepList DEF Places, HostRec
  <2>3. host' \in HostRec
    <3>1. [host EXCEPT !.pc = "begin"] \in HostRec
      BY HostFields
    <3>2. [[host EXCEPT !.pc = "begin"] EXCEPT !.i = host.i + 1] \in HostRec
      BY <2>2, <3>1, HostFields
    <3>3. host' = [[host EXCEPT !.pc = "begin"] EXCEPT !.i = host.i + 1]
      BY <2>1
    <3> QED
      BY <3>2, <3>3
  <2>4. /\ host'.pc = "begin" /\ host'.i = host.i + 1 /\ host'.done = host.done
        /\ host'.saved = host.saved /\ host'.todo = host.todo
        /\ host'.reboot = host.reboot /\ host'.result = host.result
        /\ host'.features = host.features
    BY <2>1 DEF HostRec
  <2>5. PastIsFact'
    BY <1>2, <2>2, <2>4 DEF MarkWrite, PastIsFact, PastRemediation, Remedied
  <2>6. host.todo = {}
    BY <1>2 DEF Remediation, At
  <2>7. Places' /\ Remediation' /\ FlagIsPending'
    BY <2>4, <2>6 DEF MarkWrite, Places, Remediation, FlagIsPending
  <2> QED
    BY <1>1, <1>2, <2>3, <2>5, <2>7 DEF MarkWrite
<1> QED
  BY <1>3, <1>4

\* Outside of remediation nothing is left to remedy.
LEMMA NothingToDo ==
  ASSUME HostInv, ~At("remediate", "work")
  PROVE  host.todo = {}
  BY DEF HostInv, Remediation

LEMMA SimpleKeeps == HostInv /\ Simple => HostInv'
<1> SUFFICES ASSUME HostInv, Simple PROVE HostInv'
  OBVIOUS
<1>1. host.pc = "work" /\ Steps[host.i] # "remediate"
  BY DEF Simple
<1> QED
  BY <1>1, NothingToDo, PassedKeeps DEF Simple, At, HostInv, HostTypeOK

\* What is found at remediation's beginning is what there is to do.
LEMMA RemediateBeginKeeps == HostInv /\ RemediateBegin => HostInv'
<1> SUFFICES ASSUME HostInv, RemediateBegin PROVE HostInv'
  OBVIOUS
<1> USE DEF HostInv, HostTypeOK
<1>1. Steps' = Steps /\ HostRec' = HostRec
  BY SameSteps DEF RemediateBegin
<1>2. host.pc = "work" /\ Steps[host.i] = "remediate" /\ host.todo = {}
  BY DEF RemediateBegin, At
<1>3. host.i = 2 /\ Steps[host.i] \in Remembered
  BY <1>2, StepList DEF HostRec, Remembered
<1>4. PICK statusOk \in BOOLEAN :
        /\ features = "off" => ~statusOk
        /\ features = "on"  => statusOk
        /\ host' = IF Fixable(statusOk) = {} THEN Passed(host)
                   ELSE [host EXCEPT !.todo = Fixable(statusOk)]
  BY DEF RemediateBegin
<1>5. /\ Fixable(statusOk) \in SUBSET Remedies
      /\ "enable_wsl_features" \in Fixable(statusOk) <=> ~statusOk
      /\ "update_wsl" \in Fixable(statusOk) <=> ~store
  BY DEF Fixable, Remedies
<1>6. CASE Fixable(statusOk) = {}
  <2>1. Remedied
    BY <1>4, <1>5, <1>6 DEF Remedied
  <2>2. /\ host' \in HostRec /\ host'.done = host.done /\ host'.saved = host.saved
        /\ host'.todo = {} /\ host'.features = host.features
        /\ host'.reboot = host.reboot /\ host'.result \in {host.result, "ok"}
        /\ host'.pc = "truncate" /\ host'.i = host.i
    BY <1>2, <1>3, <1>4, <1>6, PassedFields
  <2>3. PastIsFact' /\ Places' /\ Remediation' /\ FlagIsPending'
    BY <1>1, <1>3, <2>1, <2>2 DEF RemediateBegin, PastIsFact, PastRemediation, Remedied,
       Places, Remediation, FlagIsPending
  <2> QED
    BY <1>1, <2>2, <2>3 DEF RemediateBegin
<1>7. CASE Fixable(statusOk) # {}
  <2>1. host' = [host EXCEPT !.todo = Fixable(statusOk)]
    BY <1>4, <1>7
  <2>2. host' \in HostRec
    BY <1>5, <2>1, HostFields
  <2>3. /\ host'.pc = "work" /\ host'.i = host.i /\ host'.done = host.done
        /\ host'.saved = host.saved /\ host'.todo = Fixable(statusOk)
        /\ host'.reboot = host.reboot /\ host'.result = host.result
        /\ host'.features = host.features
    BY <1>2, <2>1 DEF HostRec
  <2>4. Remediation'
    BY <1>1, <1>2, <1>4, <1>5, <2>3 DEF RemediateBegin, Remediation, At
  <2>5. PastIsFact' /\ Places' /\ FlagIsPending'
    BY <1>2, <2>3 DEF RemediateBegin, PastIsFact, PastRemediation, Remedied, Places,
       FlagIsPending
  <2> QED
    BY <1>1, <2>2, <2>4, <2>5 DEF RemediateBegin
<1> QED
  BY <1>6, <1>7

LEMMA RemedyType ==
  ASSUME HostInv, NEW remedy
  PROVE  [host EXCEPT !.todo = host.todo \ {remedy},
                      !.features = host.features \/ remedy = "enable_wsl_features"] \in HostRec
<1> DEFINE left == host.todo \ {remedy}
           flag == host.features \/ remedy = "enable_wsl_features"
<1>1. left \in SUBSET Remedies
  BY DEF HostInv, HostTypeOK, HostRec
<1>2. flag \in BOOLEAN
  BY DEF HostInv, HostTypeOK, HostRec
<1>3. [host EXCEPT !.todo = left] \in HostRec
  BY <1>1, HostFields DEF HostInv, HostTypeOK
<1>4. [[host EXCEPT !.todo = left] EXCEPT !.features = flag] \in HostRec
  BY <1>2, <1>3, HostFields
<1>5. [host EXCEPT !.todo = left, !.features = flag]
        = [[host EXCEPT !.todo = left] EXCEPT !.features = flag]
  OBVIOUS
<1> QED
  BY <1>4, <1>5

\* A remedy that succeeds brings about what it is for; after the last one both hold.
LEMMA ApplyRemedyKeeps == HostInv /\ ApplyRemedy => HostInv'
<1> SUFFICES ASSUME HostInv, ApplyRemedy PROVE HostInv'
  OBVIOUS
<1> USE DEF HostInv, HostTypeOK
<1>1. Steps' = Steps /\ HostRec' = HostRec
  BY SameSteps DEF ApplyRemedy
<1>2. host.pc = "work" /\ Steps[host.i] = "remediate" /\ host.todo # {}
  BY DEF ApplyRemedy, At
<1>3. host.i = 2 /\ Steps[host.i] \in Remembered
  BY <1>2, StepList DEF HostRec, Remembered
<1>4. host.todo \subseteq Remedies /\ host.features \in BOOLEAN
  BY DEF HostRec
<1> DEFINE remedy == NextRemedy
           left   == host.todo \ {remedy}
           flag   == host.features \/ remedy = "enable_wsl_features"
           next   == [host EXCEPT !.todo = left, !.features = flag]
<1>5. remedy \in host.todo
  BY <1>2, <1>4 DEF NextRemedy, Remedies
<1>6. /\ features' = IF remedy = "enable_wsl_features" /\ features = "off"
                       THEN "pending" ELSE features
      /\ store' = (store \/ remedy = "update_wsl")
      /\ features' \in {"off", "pending", "on"} /\ store' \in BOOLEAN
  BY DEF ApplyRemedy
<1>7. host' = IF left = {} THEN Passed(next) ELSE next
  BY DEF ApplyRemedy, RemedyDone
<1>8. next \in HostRec
  BY RemedyType
<1>9. /\ next.pc = "work" /\ next.i = host.i /\ next.done = host.done
      /\ next.saved = host.saved /\ next.todo = left /\ next.features = flag
      /\ next.reboot = host.reboot /\ next.result = host.result
  BY <1>2 DEF HostRec
<1> HIDE DEF next
<1>10. /\ host' \in HostRec /\ host'.i = 2 /\ host'.done = host.done
       /\ host'.saved = host.saved /\ host'.todo = left /\ host'.features = flag
       /\ host'.reboot = host.reboot /\ host'.result \in {host.result, "ok"}
       /\ host'.pc = IF left = {} THEN "truncate" ELSE "work"
  BY <1>3, <1>7, <1>8, <1>9, PassedFields
<1>11. /\ "enable_wsl_features" \in left => features' # "on"
       /\ "enable_wsl_features" \notin left => features' # "off"
       /\ "update_wsl" \notin left => store'
  <2>1. /\ "enable_wsl_features" \in host.todo => features # "on"
        /\ "enable_wsl_features" \notin host.todo => features # "off"
        /\ "update_wsl" \notin host.todo => store
    BY <1>2 DEF Remediation
  <2>2. "enable_wsl_features" \in left => remedy # "enable_wsl_features"
    OBVIOUS
  <2> QED
    BY <1>5, <1>6, <2>1, <2>2
<1>12. flag => features' = "pending"
  <2>1. CASE host.features
    BY <1>6, <2>1 DEF FlagIsPending
  <2>2. CASE remedy = "enable_wsl_features"
    BY <1>2, <1>5, <1>6, <2>2 DEF Remediation
  <2> QED
    BY <2>1, <2>2
<1>13. Remediation'
  BY <1>1, <1>2, <1>3, <1>10, <1>11 DEF Remediation, At
<1>14. PastIsFact'
  BY <1>2, <1>3, <1>6, <1>10, <1>11 DEF ApplyRemedy, PastIsFact, PastRemediation, Remedied
<1>15. Places'
  BY <1>1, <1>3, <1>10 DEF Places
<1>16. FlagIsPending'
  BY <1>6, <1>10, <1>12 DEF FlagIsPending
<1> QED
  BY <1>1, <1>6, <1>10, <1>13, <1>14, <1>15, <1>16 DEF ApplyRemedy

\* The gate asks for a restart if the features were enabled by this process's provider.
LEMMA RebootGateKeeps == HostInv /\ RebootGate => HostInv'
<1> SUFFICES ASSUME HostInv, RebootGate PROVE HostInv'
  OBVIOUS
<1> USE DEF HostInv, HostTypeOK
<1>1. Steps' = Steps /\ HostRec' = HostRec
  BY SameSteps DEF RebootGate
<1>2. host.pc = "work" /\ Steps[host.i] = "reboot_gate"
  BY DEF RebootGate, At
<1>3. /\ Steps[host.i] \in Remembered
      /\ platform = "wsl" => host.i # 2
      /\ host.todo = {}
  BY <1>2, StepList, NothingToDo DEF HostRec, Remembered, At
<1>4. host' = [Passed(host) EXCEPT !.reboot = host.features] /\ host.features \in BOOLEAN
  BY DEF RebootGate, HostRec
<1>5. host' \in HostRec
  BY <1>4, PassedFields, HostFields
<1>6. /\ host'.done = host.done /\ host'.saved = host.saved
      /\ host'.todo = {} /\ host'.features = host.features
      /\ host'.reboot = host.features /\ host'.result \in {host.result, "ok"}
      /\ host'.pc = "truncate" /\ host'.i = host.i
  BY <1>3, <1>4, PassedFields DEF HostRec
<1>7. PastIsFact' /\ Places' /\ Remediation' /\ FlagIsPending'
  BY <1>1, <1>3, <1>6 DEF RebootGate, PastIsFact, PastRemediation, Remedied, Places,
     Remediation, FlagIsPending
<1> QED
  BY <1>1, <1>5, <1>7 DEF RebootGate

\* create_vm, in each of its forms.
LEMMA CreateKeeps ==
  ASSUME HostInv, EnsureRunning \/ CreateLima \/ Import \/ WriteConf \/ Terminate
  PROVE  HostInv'
<1> USE DEF HostInv, HostTypeOK
<1>1. /\ Steps[host.i] = "create_vm" /\ host.pc \in {"work", "conf", "terminate"}
      /\ UNCHANGED <<platform, completed, features, store>>
      /\ vm' \in {"none", "whole", "hollow"} /\ conf' \in BOOLEAN
  BY DEF EnsureRunning, CreateLima, Import, WriteConf, Terminate, At
<1>2. host.todo = {}
  BY <1>1, NothingToDo DEF At
<1>3. CASE host' = Passed(host)
  BY <1>1, <1>2, <1>3, PassedKeeps
<1>4. CASE \E pc \in {"conf", "terminate"} : host' = [host EXCEPT !.pc = pc]
  <2>1. PICK pc \in {"conf", "terminate"} : host' = [host EXCEPT !.pc = pc]
    BY <1>4
  <2>2. host' \in HostRec
    BY <2>1, HostFields
  <2> QED
    BY <1>1, <1>2, <2>1, <2>2, GoesOn DEF HostRec
<1> QED
  BY <1>3, <1>4 DEF EnsureRunning, CreateLima, Import, WriteConf, Terminate

\* The steps that talk to the VM end, raise or go on.
LEMMA TalkKeeps ==
  ASSUME HostInv, token \in Nat,
         \/ Bootstrap \/ StartEngine \/ EngineDone \/ Installed \/ Dial \/ Health
         \/ Version
  PROVE  HostInv'
<1> USE DEF HostInv, HostTypeOK
<1>1. /\ host.pc \in {"work", "run", "wait", "installed", "health", "version"}
      /\ Steps[host.i] \in {"bootstrap", "connect", "verify"}
      /\ UNCHANGED <<platform, completed, features, store, vm, conf>>
  BY DEF Bootstrap, StartEngine, EngineDone, Installed, Dial, Health, Version, At, Places
<1>2. host.todo = {}
  BY <1>1, NothingToDo DEF At
<1>3. CASE host' = Passed(host)
  BY <1>1, <1>2, <1>3, PassedKeeps
<1>4. CASE host' = Raised(host)
  BY <1>1, <1>4, RaisedKeeps
<1>5. ASSUME NEW h \in HostRec, host' = h, NEW pc \in {"run", "wait", "installed", "work",
                                                      "health", "version"},
             h.pc = pc, h.i = host.i, h.done = host.done, h.saved = host.saved,
             h.todo = host.todo, h.features = host.features, h.reboot = host.reboot,
             h.result = host.result
      PROVE  HostInv'
  BY <1>1, <1>2, <1>5, GoesOn
<1>6. CASE Bootstrap
  <2>1. CASE host' = [host EXCEPT !.pc = "run"]
    <3>1. [host EXCEPT !.pc = "run"] \in HostRec
      BY HostFields
    <3> QED
      BY SMTT(30), <1>5, <2>1, <3>1 DEF HostRec
  <2> QED
    BY <1>3, <1>6, <2>1 DEF Bootstrap
<1>7. CASE StartEngine
  <2>1. PICK s \in Scripts : host' = [host EXCEPT !.pc = "wait", !.script = s]
    BY <1>7 DEF StartEngine
  <2>2. [[host EXCEPT !.pc = "wait"] EXCEPT !.script = s] \in HostRec
    <3>1. [host EXCEPT !.pc = "wait"] \in HostRec
      BY HostFields
    <3> QED
      BY <3>1, HostFields
  <2>3. host' = [[host EXCEPT !.pc = "wait"] EXCEPT !.script = s]
    BY <2>1
  <2> QED
    BY ZenonT(40), <1>5, <2>2, <2>3 DEF HostRec
<1>8. CASE EngineDone
  <2>1. CASE host' = [host EXCEPT !.pc = "installed", !.script = None]
    <3>1. [[host EXCEPT !.pc = "installed"] EXCEPT !.script = None] \in HostRec
      <4>1. [host EXCEPT !.pc = "installed"] \in HostRec
        BY HostFields
      <4> QED
        BY <4>1, HostFields
    <3>2. host' = [[host EXCEPT !.pc = "installed"] EXCEPT !.script = None]
      BY <2>1
    <3> QED
      BY ZenonT(40), <1>5, <3>1, <3>2 DEF HostRec
  <2> QED
    BY <1>4, <1>8, <2>1 DEF EngineDone
<1>9. CASE Installed
  <2>1. CASE host' = [host EXCEPT !.pc = "work", !.repaired = TRUE]
    <3>1. [[host EXCEPT !.pc = "work"] EXCEPT !.repaired = TRUE] \in HostRec
      <4>1. [host EXCEPT !.pc = "work"] \in HostRec
        BY HostFields
      <4> QED
        BY <4>1, HostFields
    <3>2. host' = [[host EXCEPT !.pc = "work"] EXCEPT !.repaired = TRUE]
      BY <2>1
    <3> QED
      BY ZenonT(40), <1>5, <3>1, <3>2 DEF HostRec
  <2> QED
    BY <1>3, <1>4, <1>9, <2>1 DEF Installed
<1>10. CASE Dial
  <2>1. CASE \E pc \in {"version", "health"} :
               host' = [host EXCEPT !.tok = token, !.pc = pc]
    <3>1. PICK pc \in {"version", "health"} : host' = [host EXCEPT !.tok = token, !.pc = pc]
      BY <2>1
    <3>2. [[host EXCEPT !.tok = token] EXCEPT !.pc = pc] \in HostRec
      <4>1. [host EXCEPT !.tok = token] \in HostRec
        BY HostFields
      <4> QED
        BY <4>1, HostFields
    <3>3. host' = [[host EXCEPT !.tok = token] EXCEPT !.pc = pc]
      BY <3>1
    <3> QED
      BY ZenonT(40), <1>5, <3>2, <3>3 DEF HostRec
  <2>2. \/ host' = Raised(host)
        \/ host' = [host EXCEPT !.tok = token, !.pc = "version"]
        \/ host' = [host EXCEPT !.tok = token, !.pc = "health"]
    BY <1>10 DEF Dial
  <2> QED
    BY <1>4, <2>1, <2>2
<1>11. CASE Health
  <2>1. host' = [host EXCEPT !.pc = "version"]
    BY <1>11 DEF Health
  <2>2. [host EXCEPT !.pc = "version"] \in HostRec
    BY HostFields
  <2> QED
    BY <1>5, <2>1, <2>2 DEF HostRec
<1>12. CASE Version
  <2> DEFINE h == [host EXCEPT !.repaired = FALSE]
  <2>1. CASE host' = Passed(h)
    <3>1. h \in HostRec
      BY HostFields
    <3>2. /\ h.pc = host.pc /\ h.i = host.i /\ h.done = host.done /\ h.saved = host.saved
          /\ h.todo = host.todo /\ h.features = host.features /\ h.reboot = host.reboot
          /\ h.result = host.result
      BY DEF HostRec
    <3> HIDE DEF h
    <3>3. /\ host' \in HostRec /\ host'.done = host.done /\ host'.saved = host.saved
          /\ host'.todo = {} /\ host'.features = host.features
          /\ host'.reboot = host.reboot /\ host'.result \in {host.result, "ok"}
          /\ host'.pc \in {"idle", "begin"} /\ host'.i \in {host.i, host.i + 1}
      BY <1>1, <1>2, <2>1, <3>1, <3>2, PassedFields DEF Remembered
    <3>4. platform = "wsl" => host.i > 2
      BY <1>1, StepList DEF Remembered, HostRec
    <3>5. host.i \in Nat
      BY StepList DEF HostRec
    <3>6. Steps' = Steps /\ HostRec' = HostRec
      BY <1>1, SameSteps
    <3>7. PastIsFact' /\ Places' /\ Remediation' /\ FlagIsPending'
      BY <1>1, <3>3, <3>4, <3>5 DEF PastIsFact, PastRemediation, Remedied, Places,
         Remediation, FlagIsPending
    <3> QED
      BY <1>1, <3>3, <3>6, <3>7
  <2>2. CASE host' = [host EXCEPT !.pc = "run"]
    <3>1. [host EXCEPT !.pc = "run"] \in HostRec
      BY HostFields
    <3> QED
      BY SMTT(30), <1>5, <2>2, <3>1 DEF HostRec
  <2> QED
    BY <1>4, <1>12, <2>1, <2>2 DEF Version
<1> QED
  BY <1>6, <1>7, <1>8, <1>9, <1>10, <1>11, <1>12

\* A process that is killed leaves the computer as it is, and what remediation did.
LEMMA KilledKeeps ==
  ASSUME HostInv, host' \in {NewHost, [NewHost EXCEPT !.result = "failed"]},
         UNCHANGED <<platform, completed, store, vm, conf>>,
         features' = features \/ (features = "pending" /\ features' = "on")
  PROVE  HostInv'
<1> USE DEF HostInv, HostTypeOK
<1>1. Steps' = Steps /\ HostRec' = HostRec
  BY SameSteps
<1>2. host' \in HostRec
  BY ZenonT(40), NewHostType, HostFields
<1>3. PastIsFact' /\ Places' /\ Remediation' /\ FlagIsPending'
  BY DEF NewHost, PastIsFact, PastRemediation, Remedied, Places, Remediation, FlagIsPending
<1> QED
  BY <1>1, <1>2, <1>3

\* What becomes of the VM, and of the state file, while a run goes on or none.
LEMMA TakenAwayKeeps ==
  ASSUME HostInv, UNCHANGED <<platform, host, features, store>>,
         completed' \subseteq completed, vm' \in {"none", "whole", "hollow"},
         conf' \in BOOLEAN
  PROVE  HostInv'
<1> USE DEF HostInv, HostTypeOK
<1>1. Steps' = Steps /\ HostRec' = HostRec
  BY SameSteps
<1>2. PastIsFact' /\ Places' /\ Remediation' /\ FlagIsPending'
  BY <1>1 DEF PastIsFact, PastRemediation, Remedied, Places, Remediation, FlagIsPending, At
<1> QED
  BY <1>1, <1>2

\* Every step of the system keeps the host's part of the invariant.
LEMMA HostStep == HostInv /\ EngineTypeOK /\ [Next]_vars => HostInv'
<1> SUFFICES ASSUME HostInv, EngineTypeOK, [Next]_vars PROVE HostInv'
  OBVIOUS
<1>0. token \in Nat
  BY DEF EngineTypeOK
<1>1. CASE UNCHANGED hostVars
  <2>1. UNCHANGED <<platform, completed, host, features, store, vm, conf>>
    BY <1>1 DEF hostVars
  <2> QED
    BY <2>1, TakenAwayKeeps DEF HostInv, HostTypeOK
<1>2. CASE StartSetup
  BY <1>2, StartKeeps
<1>3. CASE Installer
  <2>1. CASE NoAnswer
    BY <2>1, RaisedKeeps DEF NoAnswer, HostInv, HostTypeOK
  <2>2. CASE WslBoots
    BY <1>1, <2>2 DEF WslBoots
  <2> QED
    BY <1>0, <1>3, <2>1, <2>2, SkipKeeps, RunKeeps, MarkTruncateKeeps, MarkWriteKeeps,
       SimpleKeeps, RemediateBeginKeeps, ApplyRemedyKeeps, RebootGateKeeps, CreateKeeps,
       TalkKeeps DEF Installer
<1>4. CASE Outside
  <2>1. CASE StepFails
    BY <2>1, RaisedKeeps DEF StepFails, HostInv, HostTypeOK
  <2>2. CASE LimaStartFails
    BY <2>2, RaisedKeeps DEF LimaStartFails, HostInv, HostTypeOK
  <2>3. CASE Kill
    BY <2>3, KilledKeeps DEF Kill
  <2>4. CASE MachineRestart
    BY <2>4, KilledKeeps DEF MachineRestart
  <2>5. CASE Destroy
    BY <2>5, TakenAwayKeeps DEF Destroy, Emptied
  <2>6. CASE Uninstall
    <3>1. /\ completed' = {} /\ UNCHANGED <<platform, host, features, store>>
          /\ vm' \in {"none", "whole", "hollow"} /\ conf' \in BOOLEAN
      BY <2>6 DEF Uninstall, Emptied, HostInv, HostTypeOK
    <3> QED
      BY <3>1, TakenAwayKeeps
  <2> QED
    BY <1>1, <1>4, <2>1, <2>2, <2>3, <2>4, <2>5, <2>6 DEF Outside
<1> QED
  BY <1>1, <1>2, <1>3, <1>4 DEF Next, vars

-----------------------------------------------------------------------------
(* What a step does to the VM *)

\* Beside the engine's own steps: nothing but a fault, the VM goes off with or without
\* its scripts at work, or everything in it is gone.
Counted    == faults' = faults \/ Fault
Spared     == UNCHANGED <<newest, sound, marker, engine, stack, token, issued, agent, boot,
                          script>>
SwitchedOff == /\ boot' = "off" /\ script' = Interrupted
               /\ UNCHANGED <<newest, sound, marker, engine, stack, token, issued, agent>>
Terminated == /\ boot' = "off"
              /\ UNCHANGED <<newest, sound, marker, engine, stack, token, issued, agent,
                             script>>
Wiped      == Emptied /\ UNCHANGED <<newest, issued>>

\* The engine's steps other than the start of a script, which only setup's own has.
GoesOnInVm ==
    \/ \E s \in Scripts : Step(s) \/ Fail(s)
    \/ PowerOff \/ Release
    \/ \E kind \in {"plain", "systemd"} : Boot(kind)
    \/ UNCHANGED guestVars

LEMMA EngineStep ==
  ASSUME GoesOnInVm \/ StartEngine
  PROVE  [EngineNext]_guestVars
<1>1. CASE StartEngine
  <2>1. PICK s \in Scripts : Start(s, Steps[host.i] = "connect", 0)
    BY <1>1 DEF StartEngine
  <2>2. (Steps[host.i] = "connect") \in BOOLEAN /\ 0 \in 0 .. MaxRef
    OBVIOUS
  <2>3. \E repair \in BOOLEAN, want \in 0 .. MaxRef : Start(s, repair, want)
    BY <2>1, <2>2
  <2> QED
    BY <2>3 DEF EngineNext
<1> QED
  BY <1>1 DEF GoesOnInVm, EngineNext

LEMMA GuestStep ==
  ASSUME [Next]_vars
  PROVE  \/ StartEngine
         \/ GoesOnInVm
         \/ Counted /\ (Spared \/ SwitchedOff \/ Wiped)
         \/ Terminate /\ Terminated /\ faults' = faults
<1>1. CASE UNCHANGED guestVars
  BY <1>1 DEF GoesOnInVm
<1>2. CASE StartSetup
  BY <1>1, <1>2 DEF StartSetup
<1>3. CASE Installer
  <2>1. BootKind \in {"plain", "systemd"}
    BY DEF BootKind
  <2>2. CASE Boot(BootKind)
    BY <2>1, <2>2 DEF GoesOnInVm
  <2>4. CASE Terminate
    BY <2>4 DEF Terminate, Terminated
  <2>5. CASE Skip \/ Run \/ MarkTruncate \/ MarkWrite \/ Simple
    BY <1>1, <2>5 DEF Skip, Run, MarkTruncate, MarkWrite, Simple
  <2>6. CASE RemediateBegin \/ ApplyRemedy \/ RebootGate \/ NoAnswer
    BY <1>1, <2>6 DEF RemediateBegin, ApplyRemedy, RebootGate, NoAnswer
  <2>7. CASE EnsureRunning \/ CreateLima \/ Import \/ WriteConf \/ WslBoots
    <3>1. CASE EnsureRunning
      BY <1>1, <2>2, <3>1 DEF EnsureRunning
    <3>2. CASE CreateLima
      <4>1. BootKind = "systemd"
        BY <3>2 DEF CreateLima, BootKind
      <4> QED
        BY <2>2, <3>2, <4>1 DEF CreateLima
    <3>3. CASE Import
      BY <1>1, <3>3 DEF Import
    <3>4. CASE WriteConf
      BY <1>1, <2>2, <3>4 DEF WriteConf
    <3>5. CASE WslBoots
      BY <2>2, <3>5 DEF WslBoots
    <3> QED
      BY <2>7, <3>1, <3>2, <3>3, <3>4, <3>5
  <2>8. CASE Bootstrap \/ EngineDone \/ Installed \/ Dial
    BY <1>1, <2>8 DEF Bootstrap, EngineDone, Installed, Dial
  <2>9. CASE Health \/ Version
    BY <1>1, <2>9 DEF Health, Version
  <2> QED
    BY <1>3, <2>4, <2>5, <2>6, <2>7, <2>8, <2>9 DEF Installer
<1>4. ASSUME NEW s \in Scripts, Step(s) PROVE GoesOnInVm
  BY <1>4 DEF GoesOnInVm
<1>5. CASE Outside
  <2>1. CASE StepFails \/ LimaStartFails \/ Kill
    BY <2>1 DEF StepFails, LimaStartFails, Kill, Counted, Spared
  <2>2. CASE MachineRestart
    BY <2>2 DEF MachineRestart, Counted, SwitchedOff
  <2>3. CASE Destroy
    BY <2>3 DEF Destroy, Counted, Wiped
  <2>4. CASE Uninstall
    BY <2>4 DEF Uninstall, Counted, Wiped, Spared
  <2>5. ASSUME NEW s \in Scripts, Fail(s) PROVE GoesOnInVm
    BY <2>5 DEF GoesOnInVm
  <2>6. CASE PowerOff \/ Release
    BY <2>6 DEF GoesOnInVm
  <2> QED
    BY <1>5, <2>1, <2>2, <2>3, <2>4, <2>5, <2>6 DEF Outside
<1> QED
  BY <1>1, <1>2, <1>3, <1>4, <1>5 DEF Next, vars

LEMMA InterruptedType ==
  ASSUME EngineTypeOK
  PROVE  Interrupted \in [Scripts -> ScriptRec]
  BY EndedType DEF EngineTypeOK, Interrupted

LEMMA GuestTypes == EngineTypeOK /\ [Next]_vars => EngineTypeOK'
<1> SUFFICES ASSUME EngineTypeOK, [Next]_vars PROVE EngineTypeOK'
  OBVIOUS
<1>1. CASE GoesOnInVm \/ StartEngine
  BY <1>1, StepTypes, EngineStep
<1>2. CASE Counted /\ Spared
  BY <1>2 DEF Counted, Spared, Fault, EngineTypeOK
<1>3. CASE Counted /\ SwitchedOff
  BY <1>3, InterruptedType DEF Counted, SwitchedOff, Fault, EngineTypeOK
<1>4. CASE Counted /\ Wiped
  BY <1>4, InterruptedType DEF Counted, Wiped, Emptied, Fault, EngineTypeOK, NoAgent,
     AgentRec
<1>5. CASE Terminated /\ faults' = faults
  BY <1>5 DEF Terminated, EngineTypeOK
<1> QED
  BY <1>1, <1>2, <1>3, <1>4, <1>5, GuestStep

-----------------------------------------------------------------------------
(* The theorems about the computer *)

LEMMA SetupInit == Init => SetupInv
<1> SUFFICES ASSUME Init PROVE SetupInv
  OBVIOUS
<1>1. EngineTypeOK
  <2>1. NoScript \in ScriptRec
    BY DEF NoScript, Script, ScriptRec
  <2>2. agent \in AgentRec
    BY DEF Init, NoAgent, AgentRec, Refs
  <2> QED
    BY <2>1, <2>2 DEF Init, EngineTypeOK, Refs
<1>2. HostTypeOK
  BY NewHostType DEF Init, HostTypeOK, Exists
<1>3. Places /\ Remediation /\ PastIsFact /\ FlagIsPending
  BY DEF Init, NewHost, Places, Remediation, PastIsFact, PastRemediation, FlagIsPending
<1> QED
  BY <1>1, <1>2, <1>3 DEF SetupInv, HostInv

LEMMA SetupStep == SetupInv /\ [Next]_vars => SetupInv'
  BY GuestTypes, HostStep DEF SetupInv

LEMMA Always == Spec => []SetupInv
  BY SetupInit, SetupStep, PTL DEF Spec

\* Every variable keeps its type: a run of setup is never past the end of its steps,
\* remembers no step that is about the VM, and never leaves install.py's states.
THEOREM SetupTypes == Spec => []TypeOK
<1>1. SetupInv => TypeOK
  BY DEF SetupInv, HostInv, HostTypeOK, TypeOK
<1> QED
  BY <1>1, Always, PTL

\* What the state file remembers is true of the computer, however often setup was
\* killed, run again or its VM taken away: once remediation is skipped, the features are
\* on or wait for the restart, and WSL is there.
THEOREM RememberedStands == Spec => []RememberedIsFact
<1>1. SetupInv => RememberedIsFact
  BY DEF SetupInv, HostInv, PastIsFact, PastRemediation, Remedied, RememberedIsFact
<1> QED
  BY <1>1, Always, PTL

\* A run asks for a restart only where one is due.
THEOREM RestartStands == Spec => []RestartIsDue
<1>1. SetupInv => RestartIsDue
  BY DEF SetupInv, HostInv, FlagIsPending, RestartIsDue
<1> QED
  BY <1>1, Always, PTL

-----------------------------------------------------------------------------
(* The theorems about the VM *)

\* A script ends when the VM does.
LEMMA InterruptedIsOver ==
  ASSUME SwitchedOff \/ Wiped
  PROVE  boot' = "off" /\ ~AnyAtWork'
<1>1. boot' = "off" /\ script' = [s \in Scripts |-> IF AtWork(s) THEN Ended("failed")
                                                              ELSE script[s]]
  BY DEF SwitchedOff, Wiped, Emptied, Interrupted
<1>2. \A s \in Scripts : script'[s].pc = "over"
  BY <1>1 DEF AtWork, Ended, Script
<1> QED
  BY <1>1, <1>2 DEF AnyAtWork, AtWork

\* Without a start, no script begins.
LEMMA NobodyBegins ==
  ASSUME EngineTypeOK, ~AnyAtWork, GoesOnInVm
  PROVE  ~AnyAtWork'
<1>1. \A s \in Scripts : script[s].pc = "over"
  BY DEF AnyAtWork, AtWork
<1>2. ASSUME NEW s \in Scripts PROVE ~Step(s) /\ ~Fail(s)
  BY <1>1 DEF Step, ResolveRef, RemoveEngine, MoveEngine, RemoveMarker, EnableDocker,
     CheckToken, WriteToken, Pull, ComposeUp, Recreate, WriteMarker, Fail, AtWork
<1>3. \A s \in Scripts : script'[s] = script[s]
  BY <1>1, <1>2 DEF GoesOnInVm, PowerOff, Boot, Release, AtWork, guestVars
<1> QED
  BY <1>1, <1>3 DEF AnyAtWork, AtWork

VmInv == SetupInv /\ ScriptsInVm /\ CreateIsAlone

LEMMA VmInit == Init => ScriptsInVm /\ CreateIsAlone
  BY DEF Init, ScriptsInVm, CreateIsAlone, AnyAtWork, AtWork, NoScript, Script, At, NewHost

\* A process comes to the import's commands by the import alone.
LEMMA ComesToConf ==
  ASSUME HostInv, [Next]_vars, host'.pc \in {"conf", "terminate"}
  PROVE  Import \/ (At("create_vm", "conf") /\ WriteConf) \/ UNCHANGED host
<1> USE DEF HostInv, HostTypeOK
<1>0. \A h \in HostRec : Passed(h).pc \in {"truncate", "idle", "begin"}
  BY PassedFields
<1>1. /\ host' # Raised(host) /\ host' # Passed(host)
      /\ host' # NewHost /\ host' # [NewHost EXCEPT !.result = "failed"]
  <2>1. Raised(host).pc = "idle"
    BY RaisedFields
  <2>2. NewHost.pc = "idle" /\ [NewHost EXCEPT !.result = "failed"].pc = "idle"
    BY DEF NewHost
  <2> QED
    BY <1>0, <2>1, <2>2
<1>2. \A pc \in {"begin", "work", "write", "run", "wait", "health", "version"} :
        host' # [host EXCEPT !.pc = pc]
  BY DEF HostRec
<1>3. CASE Installer
  <2>1. ~(Skip \/ Run \/ MarkTruncate)
    BY DEF Skip, Run, MarkTruncate, HostRec
  <2>2. ~MarkWrite
    <3>1. [Raised(host) EXCEPT !.result = "reboot"].pc = "idle"
      BY RaisedFields DEF HostRec
    <3>2. [host EXCEPT !.pc = "begin", !.i = @ + 1].pc = "begin"
      BY DEF HostRec
    <3> QED
      BY <3>1, <3>2 DEF MarkWrite
  <2>3. ~(Simple \/ NoAnswer)
    BY <1>1 DEF Simple, NoAnswer
  <2>4. ~RemediateBegin
    BY <1>1 DEF RemediateBegin, At, HostRec
  <2>5. ~ApplyRemedy
    <3> DEFINE next == [host EXCEPT !.todo = host.todo \ {NextRemedy},
                          !.features = host.features \/ NextRemedy = "enable_wsl_features"]
    <3>1. SUFFICES ASSUME ApplyRemedy PROVE FALSE
      OBVIOUS
    <3>0. next \in HostRec
      BY <3>1, RemedyType DEF ApplyRemedy, At
    <3>2. host' = Passed(next) \/ host' = next
      BY <3>1 DEF ApplyRemedy, RemedyDone
    <3>3. next.pc = "work"
      BY <3>1 DEF ApplyRemedy, At, HostRec
    <3> HIDE DEF next
    <3> QED
      BY <1>0, <3>0, <3>2, <3>3
  <2>6. ~RebootGate
    BY PassedFields DEF RebootGate, HostRec
  <2>7. ~(EnsureRunning \/ CreateLima \/ Terminate)
    BY <1>1 DEF EnsureRunning, CreateLima, Terminate
  <2>8. CASE WriteConf
    BY <2>8 DEF WriteConf
  <2>9. ~(Bootstrap \/ StartEngine \/ EngineDone \/ Installed)
    <3>1. ~Bootstrap
      BY <1>1, <1>2 DEF Bootstrap
    <3>2. ~StartEngine
      BY DEF StartEngine, HostRec
    <3>3. ~EngineDone
      BY <1>1 DEF EngineDone, HostRec
    <3>4. ~Installed
      BY ZenonT(40), <1>1 DEF Installed, HostRec
    <3> QED
      BY <3>1, <3>2, <3>3, <3>4
  <2>10. ~(Dial \/ Health)
    BY ZenonT(40), <1>1, <1>2 DEF Dial, Health, HostRec
  <2>11. ~Version
    <3>1. [host EXCEPT !.repaired = FALSE] \in HostRec
      BY HostFields
    <3> QED
      BY <1>0, <1>1, <1>2, <3>1 DEF Version
  <2> QED
    BY <1>3, <2>1, <2>2, <2>3, <2>4, <2>5, <2>6, <2>7, <2>8, <2>9, <2>10, <2>11
       DEF Installer, WslBoots, hostVars
<1>4. CASE ~Installer
  <2>1. ~StartSetup
    BY DEF StartSetup, NewHost
  <2> QED
    BY <1>1, <1>4, <2>1 DEF Next, Outside, StepFails, LimaStartFails, Kill, MachineRestart,
       Destroy, Uninstall, hostVars, vars
<1> QED
  BY <1>3, <1>4

\* A script at work keeps the VM up, and a VM that is up is there.
LEMMA ScriptsInVmKept ==
  ASSUME VmInv, [Next]_vars
  PROVE  ScriptsInVm'
<1> USE DEF VmInv, SetupInv
<1>1. AnyAtWork' => boot' # "off"
  <2>1. CASE StartEngine
    BY <2>1 DEF StartEngine, Start
  <2>2. CASE GoesOnInVm
    <3>1. CASE \E s \in Scripts : Step(s) \/ Fail(s)
      <4>1. AnyAtWork /\ boot' = boot
        <5>1. PICK s \in Scripts : Step(s) \/ Fail(s)
          BY <3>1
        <5>2. AtWork(s)
          BY <5>1 DEF Step, ResolveRef, RemoveEngine, MoveEngine, RemoveMarker,
             EnableDocker, CheckToken, WriteToken, Pull, ComposeUp, Recreate, WriteMarker,
             Fail, AtWork
        <5>3. boot' = boot
          BY <5>1 DEF Step, ResolveRef, RemoveEngine, MoveEngine, RemoveMarker,
             EnableDocker, CheckToken, WriteToken, Pull, ComposeUp, Recreate, WriteMarker,
             Fail
        <5> QED
          BY <5>2, <5>3 DEF AnyAtWork
      <4> QED
        BY <4>1 DEF ScriptsInVm
    <3>2. CASE PowerOff
      BY <3>2 DEF PowerOff, AnyAtWork, AtWork, Ended, Script
    <3>3. CASE \E kind \in {"plain", "systemd"} : Boot(kind)
      BY <3>3 DEF Boot
    <3>4. CASE Release \/ UNCHANGED guestVars
      BY <3>4 DEF Release, guestVars, ScriptsInVm, AnyAtWork, AtWork
    <3> QED
      BY <2>2, <3>1, <3>2, <3>3, <3>4 DEF GoesOnInVm
  <2>3. CASE Spared
    BY <2>3 DEF Spared, ScriptsInVm, AnyAtWork, AtWork
  <2>4. CASE SwitchedOff \/ Wiped
    BY <2>4, InterruptedIsOver
  <2>5. CASE Terminate /\ Terminated
    BY <2>5 DEF Terminate, Terminated, CreateIsAlone, AnyAtWork, AtWork
  <2> QED
    BY <2>1, <2>2, <2>3, <2>4, <2>5, GuestStep
<1>2. boot' # "off" => vm' = "whole"
  <2> USE DEF ScriptsInVm
  <2>1. CASE UNCHANGED <<boot, vm>> \/ boot' = "off"
    BY <2>1
  <2>2. CASE Installer
    <3>1. CASE WslBoots
      BY <3>1 DEF WslBoots, hostVars
    <3>2. CASE Skip \/ Run \/ MarkTruncate \/ MarkWrite \/ Simple \/ RemediateBegin
      BY <2>1, <3>2 DEF Skip, Run, MarkTruncate, MarkWrite, Simple, RemediateBegin, guestVars
    <3>3. CASE ApplyRemedy \/ RebootGate \/ Bootstrap \/ EngineDone \/ Installed \/ Dial
      BY <2>1, <3>3 DEF ApplyRemedy, RebootGate, Bootstrap, EngineDone, Installed, Dial, guestVars
    <3>4. CASE Health \/ Version \/ NoAnswer
      BY <2>1, <3>4 DEF Health, Version, NoAnswer, guestVars
    <3>5. CASE StartEngine
      BY <2>1, <3>5 DEF StartEngine, Start
    <3>6. CASE EnsureRunning
      BY <3>6 DEF EnsureRunning, guestVars
    <3>7. CASE CreateLima
      BY <3>7 DEF CreateLima
    <3>8. CASE Import
      BY <3>8 DEF Import, guestVars
    <3>9. CASE WriteConf
      BY <3>9 DEF WriteConf, guestVars
    <3>10. CASE Terminate
      BY <2>1, <3>10 DEF Terminate
    <3> QED
      BY <2>2, <3>1, <3>2, <3>3, <3>4, <3>5, <3>6, <3>7, <3>8, <3>9, <3>10 DEF Installer
  <2>3. ASSUME NEW s \in Scripts, Step(s) \/ Fail(s), UNCHANGED hostVars
        PROVE  UNCHANGED <<boot, vm>>
    BY <2>3 DEF Step, ResolveRef, RemoveEngine, MoveEngine, RemoveMarker, EnableDocker,
       CheckToken, WriteToken, Pull, ComposeUp, Recreate, WriteMarker, Fail, hostVars
  <2>4. CASE StartSetup
    BY <2>1, <2>4 DEF StartSetup, guestVars
  <2>5. CASE StepFails \/ LimaStartFails \/ Kill
    BY <2>5 DEF StepFails, LimaStartFails, Kill
  <2>6. CASE MachineRestart \/ Destroy
    BY <2>1, <2>6 DEF MachineRestart, Destroy, Emptied
  <2>7. CASE Uninstall
    BY <2>1, <2>7 DEF Uninstall, Emptied
  <2>8. CASE (PowerOff \/ Release) /\ UNCHANGED hostVars
    BY <2>1, <2>8 DEF PowerOff, Release, hostVars
  <2>9. CASE UNCHANGED vars
    BY <2>1, <2>9 DEF vars, guestVars, hostVars
  <2> QED
    BY <2>1, <2>2, <2>3, <2>4, <2>5, <2>6, <2>7, <2>8, <2>9 DEF Next, Outside
<1> QED
  BY <1>1, <1>2 DEF ScriptsInVm

\* Nothing runs in the VM between the import and the terminate that follows it.
LEMMA CreateIsAloneKept ==
  ASSUME VmInv, [Next]_vars
  PROVE  CreateIsAlone'
<1> USE DEF VmInv, SetupInv
<1> SUFFICES ASSUME host'.pc \in {"conf", "terminate"}, Steps'[host'.i] = "create_vm"
             PROVE  ~AnyAtWork'
  BY DEF CreateIsAlone, At
<1>0. Steps' = Steps
  BY SameSteps, SamePlatform
<1>1. ~AnyAtWork
  <2>1. CASE Import
    BY <2>1 DEF Import, Exists, ScriptsInVm
  <2>2. CASE At("create_vm", "conf")
    BY <2>2 DEF CreateIsAlone
  <2>3. CASE UNCHANGED host
    BY <1>0, <2>3 DEF CreateIsAlone, At
  <2> QED
    BY <2>1, <2>2, <2>3, ComesToConf
<1>2. ~StartEngine
  BY DEF StartEngine, HostInv, HostTypeOK, HostRec
<1>3. CASE GoesOnInVm
  BY <1>1, <1>3, NobodyBegins
<1>4. CASE Spared \/ Terminated
  BY <1>1, <1>4 DEF Spared, Terminated, AnyAtWork, AtWork
<1>5. CASE SwitchedOff \/ Wiped
  BY <1>5, InterruptedIsOver
<1> QED
  BY <1>2, <1>3, <1>4, <1>5, GuestStep

\* The terminate of create() cuts no script short, an orphan of an earlier run included:
\* from the import to it nothing is at work in the new VM.
THEOREM CreateStands == Spec => [](ScriptsInVm /\ CreateIsAlone)
<1>1. Init => VmInv
  BY SetupInit, VmInit DEF VmInv
<1>2. VmInv /\ [Next]_vars => VmInv'
  BY SetupStep, ScriptsInVmKept, CreateIsAloneKept DEF VmInv
<1>3. VmInv => ScriptsInVm /\ CreateIsAlone
  BY DEF VmInv
<1> QED
  BY <1>1, <1>2, <1>3, PTL DEF Spec

\* What a fault, a restart, a `vm destroy` or an uninstall leaves of the engine is what
\* the marker says.
LEMMA MarkerKept ==
  ASSUME IInv, [Next]_vars
  PROVE  IInv'
<1>1. EngineTypeOK'
  BY GuestTypes DEF IInv
<1>2. MarkerInv'
  <2>1. CASE GoesOnInVm \/ StartEngine
    BY <2>1, EngineStep, StepMarker
  <2>2. CASE Spared \/ Terminated
    BY <2>2, FrameKeeps DEF Spared, Terminated
  <2>3. CASE SwitchedOff
    <3>1. \A s \in Scripts :
            script'[s] = (IF AtWork(s) THEN Ended("failed") ELSE script[s])
      BY <2>3 DEF SwitchedOff, Interrupted
    <3> QED
      BY <2>3, <3>1, OffKeeps DEF SwitchedOff
  <2>4. CASE Wiped
    <3>1. \A s \in Scripts :
            script'[s] = (IF AtWork(s) THEN Ended("failed") ELSE script[s])
      BY <2>4 DEF Wiped, Emptied, Interrupted
    <3>2. \A s \in Scripts : ~AtWork(s)' /\ ~script'[s].alone
      BY <3>1 DEF IInv, MarkerInv, Solitude, AtWork, Ended, Script
    <3>3. marker' = 0 /\ agent' = NoAgent
      BY <2>4 DEF Wiped, Emptied
    <3> QED
      BY <3>2, <3>3 DEF MarkerInv, MarkerMeansServing, Solitude, Progress, AgentHasToken,
                        NoAgent
  <2> QED
    BY <2>1, <2>2, <2>3, <2>4, GuestStep
<1> QED
  BY <1>1, <1>2 DEF IInv

LEMMA MarkerInit == Init => IInv
<1> SUFFICES ASSUME Init PROVE IInv
  OBVIOUS
<1>1. EngineTypeOK
  BY SetupInit DEF SetupInv
<1>2. \A s \in Scripts : ~AtWork(s) /\ ~script[s].alone
  BY DEF Init, NoScript, Script, AtWork
<1>3. marker = 0 /\ (sound => agent = NoAgent)
  BY DEF Init
<1> QED
  BY <1>1, <1>2, <1>3 DEF IInv, MarkerInv, MarkerMeansServing, Solitude, Progress,
                          AgentHasToken, NoAgent

LEMMA AlwaysMarker == Spec => []IInv
<1>1. IInv /\ [Next]_vars => IInv'
  BY MarkerKept
<1> QED
  BY <1>1, MarkerInit, PTL DEF Spec

\* The marker stands for an agent that accepts the token, however setup and its VM are
\* treated and however many scripts are at work, but after scripts that ran beside each
\* other, and in a VM from before agents had tokens, up to the next lone repair.
THEOREM SetupMarker == Spec => []MarkerMeansServing
<1>1. IInv => MarkerMeansServing
  BY DEF IInv, MarkerInv
<1> QED
  BY <1>1, AlwaysMarker, PTL

\* However setup and its VM are treated, a token is replaced by another one only by a
\* script that runs beside another; a VM that is emptied has none.
THEOREM SetupToken == Spec => TokenKept
<1>1. ASSUME IInv, [Next]_vars, token # 0, token' \notin {0, token}
      PROVE  \E s \in Scripts : script[s].pc = "write" /\ ~script[s].alone
  <2>1. GoesOnInVm \/ StartEngine
    BY <1>1, GuestStep DEF Spared, SwitchedOff, Wiped, Emptied, Terminated
  <2> QED
    BY <1>1, <2>1, EngineStep, ReplacedBeside
<1>2. IInv /\ [Next]_vars =>
        [token # 0 /\ token' \notin {0, token} =>
           \E s \in Scripts : script[s].pc = "write" /\ ~script[s].alone]_guestVars
  BY <1>1
<1> QED
  BY <1>2, AlwaysMarker, PTL DEF Spec, TokenKept

=============================================================================
