--------------------------- MODULE EngineInstall ---------------------------
(***************************************************************************)
(* The engine's installation inside the VM: engine/get.sh, which chooses a *)
(* ref and unpacks it, and the install.sh of that ref, which it runs.      *)
(* What they leave behind is the marker, the unpacked engine, the token    *)
(* host and agent share, and the agent's container.                        *)
(*                                                                         *)
(* One action per command whose effect outlives a script that is cut       *)
(* short.  `set -e` ends a script at the first command that fails; being   *)
(* killed is the same.  Packages, permissions, the in-VM command and the   *)
(* skills (steps 8 to 11) leave nothing another step depends on.           *)
(***************************************************************************)
EXTENDS Naturals

CONSTANTS
    Scripts,     \* runs of get.sh that may be under way at once
    MaxRef,      \* the releases of the engine are 1 .. MaxRef
    MaxFaults    \* failures and interruptions from outside

ASSUME RefAssumption   == MaxRef \in Nat \ {0}
ASSUME BoundAssumption == MaxFaults \in Nat

VARIABLES
    newest,   \* the highest engine-v* tag of the repository
    sound,    \* history: has every script since the last lone repair had the VM to itself?
    marker,   \* /opt/omelet/engine.version, 0 when absent or empty
    engine,   \* /opt/omelet/engine, as the ref it is of, 0 when absent
    stack,    \* /opt/omelet/stack.yml, as the ref it is of
    token,    \* /opt/omelet/agent.token, 0 when absent or empty
    issued,   \* tokens made so far
    agent,    \* the agent's container and the token it started with
    boot,     \* the VM: off, or how it was booted
    script,   \* the scripts under way
    faults    \* what MaxFaults counts

guestVars == <<newest, sound, marker, engine, stack, token, issued, agent, boot, script,
               faults>>

Refs == 1 .. MaxRef

ScriptRec == [pc : {"over", "resolve", "unpack", "move", "begin", "docker", "token",
                    "write", "pull", "up", "recreate", "marker"},
              want : 0 .. MaxRef, ref : 0 .. MaxRef, repair : BOOLEAN,
              created : BOOLEAN,
              alone : BOOLEAN,      \* history: no other script was at work since it started
              result : {"none", "ok", "failed"}]

AgentRec == [exists : BOOLEAN, ref : 0 .. MaxRef, token : Nat]

NoAgent  == [exists |-> FALSE, ref |-> 0, token |-> 0]
Script(pc, want, repair, result) ==
    [pc |-> pc, want |-> want, ref |-> 0, repair |-> repair, created |-> FALSE,
     alone |-> FALSE, result |-> result]
NoScript == Script("over", 0, FALSE, "none")

AtWork(s) == script[s].pc # "over"
AnyAtWork == \E s \in Scripts : AtWork(s)

\* The container, created or started now, reads the token file (create_app).
Started(ref) == [exists |-> TRUE, ref |-> ref, token |-> token]

Ended(result) == Script("over", 0, FALSE, result)

Goto(s, pc) == script' = [script EXCEPT ![s].pc = pc]

\* The script goes on, or its command has failed.
GotoIf(ok, s, pc) == IF ok THEN Goto(s, pc)
                     ELSE script' = [script EXCEPT ![s] = Ended("failed")]

-----------------------------------------------------------------------------
(* get.sh *)

\* Neither script takes a lock: one may start beside others.
Start(s, repair, want) ==
    /\ ~AtWork(s)
    /\ boot # "off"
    /\ script' = [t \in Scripts |->
                    IF t = s THEN [Script("resolve", want, repair, "none")
                                     EXCEPT !.alone = ~AnyAtWork]
                    ELSE [script[t] EXCEPT !.alone = FALSE]]
    /\ sound' = (sound /\ ~AnyAtWork)
    /\ UNCHANGED <<newest, marker, engine, stack, token, issued, agent, boot, faults>>

\* MUTANT of ResolveRef: the release after the newest.
ResolveRefNext(s) ==
    /\ script[s].pc = "resolve"
    /\ script' = [script EXCEPT ![s].pc = "unpack", ![s].ref = newest + 1]
    /\ UNCHANGED <<newest, sound, marker, engine, stack, token, issued, agent, boot, faults>>

\* resolve_ref, and the download of that ref into a temporary directory.
ResolveRef(s) ==
    /\ script[s].pc = "resolve"
    /\ LET ref == IF script[s].want # 0 THEN script[s].want
                  ELSE IF script[s].repair /\ marker # 0 THEN marker ELSE newest
       IN  script' = [script EXCEPT ![s].pc = "unpack", ![s].ref = ref]
    /\ UNCHANGED <<newest, sound, marker, engine, stack, token, issued, agent, boot, faults>>

RemoveEngine(s) ==
    /\ script[s].pc = "unpack"
    /\ engine' = 0
    /\ Goto(s, "move")
    /\ UNCHANGED <<newest, sound, marker, stack, token, issued, agent, boot, faults>>

\* mv: beside an engine somebody else has put there, ours ends up inside it.
MoveEngine(s) ==
    /\ script[s].pc = "move"
    /\ engine' = IF engine = 0 THEN script[s].ref ELSE engine
    /\ Goto(s, "begin")
    /\ UNCHANGED <<newest, sound, marker, stack, token, issued, agent, boot, faults>>

-----------------------------------------------------------------------------
(* install.sh *)

\* MUTANT of RemoveMarker: the old marker stays until the new one is written.
RemoveMarkerLater(s) ==
    /\ script[s].pc = "begin"
    /\ Goto(s, "docker")
    /\ UNCHANGED <<newest, sound, marker, engine, stack, token, issued, agent, boot, faults>>

\* The engine may have been taken away by another script.
RemoveMarker(s) ==
    /\ script[s].pc = "begin"
    /\ marker' = IF engine # 0 THEN 0 ELSE marker
    /\ GotoIf(engine # 0, s, "docker")
    /\ UNCHANGED <<newest, sound, engine, stack, token, issued, agent, boot, faults>>

\* systemctl enable --now docker, which fails without systemd, and the edge network.
EnableDocker(s) ==
    /\ script[s].pc = "docker"
    /\ GotoIf(boot = "systemd", s, "token")
    /\ UNCHANGED <<newest, sound, marker, engine, stack, token, issued, agent, boot, faults>>

\* MUTANT of CheckToken: every run makes a new token.
CheckTokenNever(s) ==
    /\ script[s].pc = "token"
    /\ script' = [script EXCEPT ![s].pc = "write", ![s].created = TRUE]
    /\ UNCHANGED <<newest, sound, marker, engine, stack, token, issued, agent, boot, faults>>

\* A token is made only if there is none, or an empty one.
CheckToken(s) ==
    /\ script[s].pc = "token"
    /\ script' = [script EXCEPT ![s].pc = IF token = 0 THEN "write" ELSE "pull",
                                ![s].created = (token = 0)]
    /\ UNCHANGED <<newest, sound, marker, engine, stack, token, issued, agent, boot, faults>>

WriteToken(s) ==
    /\ script[s].pc = "write"
    /\ token' = issued + 1
    /\ issued' = issued + 1
    /\ Goto(s, "pull")
    /\ UNCHANGED <<newest, sound, marker, engine, stack, agent, boot, faults>>

\* stack.yml is replaced, its images are pulled.
Pull(s) ==
    /\ script[s].pc = "pull"
    /\ stack' = IF engine # 0 THEN engine ELSE stack
    /\ GotoIf(engine # 0, s, "up")
    /\ UNCHANGED <<newest, sound, marker, engine, token, issued, agent, boot, faults>>

\* A container that matches the file and the image it was created from is left
\* alone; an image published again under its tag replaces it.
ComposeUp(s) ==
    /\ script[s].pc = "up"
    /\ \/ agent.exists /\ agent.ref = stack /\ UNCHANGED agent
       \/ agent' = Started(stack)
    /\ Goto(s, "recreate")
    /\ UNCHANGED <<newest, sound, marker, engine, stack, token, issued, boot, faults>>

Recreate(s) ==
    /\ script[s].pc = "recreate"
    /\ agent' = IF script[s].created \/ script[s].repair THEN Started(stack) ELSE agent
    /\ Goto(s, "marker")
    /\ UNCHANGED <<newest, sound, marker, engine, stack, token, issued, boot, faults>>

WriteMarker(s) ==
    /\ script[s].pc = "marker"
    /\ marker' = script[s].ref
    /\ script' = [script EXCEPT ![s] = Ended("ok")]
    /\ sound' = (sound \/ (script[s].repair /\ script[s].alone))
    /\ UNCHANGED <<newest, engine, stack, token, issued, agent, boot, faults>>

Step(s) ==
    \/ ResolveRef(s) \/ RemoveEngine(s) \/ MoveEngine(s) \/ RemoveMarker(s)
    \/ EnableDocker(s) \/ CheckToken(s) \/ WriteToken(s) \/ Pull(s)
    \/ ComposeUp(s) \/ Recreate(s) \/ WriteMarker(s)

-----------------------------------------------------------------------------
(* What happens to the VM *)

Fault == faults < MaxFaults /\ faults' = faults + 1

\* A command fails or the script is killed; a container that was being replaced may
\* be gone.
Fail(s) ==
    /\ AtWork(s)
    /\ Fault
    /\ script' = [script EXCEPT ![s] = Ended("failed")]
    /\ \/ UNCHANGED agent
       \/ script[s].pc \in {"up", "recreate"} /\ agent' = NoAgent
    /\ UNCHANGED <<newest, sound, marker, engine, stack, token, issued, boot>>

PowerOff ==
    /\ boot # "off"
    /\ Fault
    /\ boot' = "off"
    /\ script' = [s \in Scripts |-> IF AtWork(s) THEN Ended("failed") ELSE script[s]]
    /\ UNCHANGED <<newest, sound, marker, engine, stack, token, issued, agent>>

\* docker starts with systemd, and the agent's container with docker.
Boot(kind) ==
    /\ boot = "off"
    /\ boot' = kind
    /\ agent' = IF agent.exists /\ kind = "systemd" THEN Started(agent.ref) ELSE agent
    /\ UNCHANGED <<newest, sound, marker, engine, stack, token, issued, script, faults>>

Release ==
    /\ newest < MaxRef
    /\ newest' = newest + 1
    /\ UNCHANGED <<sound, marker, engine, stack, token, issued, agent, boot, script, faults>>

-----------------------------------------------------------------------------

EngineInit ==
    /\ newest = 1 /\ sound = TRUE
    /\ marker = 0 /\ engine = 0 /\ stack = 0
    /\ token = 0 /\ issued = 0
    /\ agent = NoAgent
    /\ boot = "systemd"
    /\ script = [s \in Scripts |-> NoScript]
    /\ faults = 0

\* A VM of its own, with or without systemd, where get.sh is run by hand: for the first
\* time, again, for a certain ref or as a repair.
EngineNext ==
    \/ \E s \in Scripts : \/ \E repair \in BOOLEAN, want \in 0 .. MaxRef :
                                Start(s, repair, want)
                          \/ Step(s) \/ Fail(s)
    \/ PowerOff \/ Release
    \/ \E kind \in {"plain", "systemd"} : Boot(kind)

EngineSpec == EngineInit /\ [][EngineNext]_guestVars

-----------------------------------------------------------------------------
(* Properties *)

\* Every variable keeps its type.
EngineTypeOK ==
    /\ newest \in Refs /\ sound \in BOOLEAN
    /\ marker \in 0 .. MaxRef /\ engine \in 0 .. MaxRef /\ stack \in 0 .. MaxRef
    /\ issued \in Nat /\ token \in 0 .. issued
    /\ agent \in AgentRec
    /\ boot \in {"off", "plain", "systemd"}
    /\ script \in [Scripts -> ScriptRec]
    /\ faults \in 0 .. MaxFaults

\* The agent is the one of the installed engine and accepts the token in the file.
Serving == /\ agent.exists /\ agent.ref = marker
           /\ token # 0 /\ agent.token = token

\* While the marker is there, so is an agent of that release that accepts the token:
\* whatever a script changes it changes after it removed the marker, and one that is
\* cut short leaves none (install.sh: "a failure above must leave no marker behind").
\* Scripts that ran beside each other are excepted, and a VM of the time before the
\* token, until a repair that has the VM to itself has written its marker.
MarkerMeansServing == (marker # 0 /\ sound) => Serving

\* A script that has the VM to itself never replaces a token by another one, whatever
\* scripts did before it (install.sh: "regenerating it every time would invalidate a
\* token the host is already holding").
TokenKept ==
    [][token # 0 /\ token' \notin {0, token} =>
         \E s \in Scripts : script[s].pc = "write" /\ ~script[s].alone]_guestVars

(* What install.sh says and the model refutes *)

\* With no script at work, a marker stands for an engine that is there (install.sh: "a
\* failed reinstall must not look installed").
FailedLooksUninstalled == ~AnyAtWork /\ marker # 0 => engine = marker

=============================================================================
