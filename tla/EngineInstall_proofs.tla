----------------------- MODULE EngineInstall_proofs ------------------------
(***************************************************************************)
(* Proofs about EngineInstall, for any number of scripts beside each other *)
(* or one after the other: its types, what the marker stands for, and who  *)
(* may replace a token, whatever releases come out and wherever scripts    *)
(* are cut short.                                                          *)
(***************************************************************************)
EXTENDS EngineInstall, TLAPS

-----------------------------------------------------------------------------

\* A script that has had the VM to itself is the only one, and there is no other one
\* while the VM is sound.
Solitude ==
    /\ \A s \in Scripts : script[s].alone => AtWork(s) /\ \A t \in Scripts \ {s} : ~AtWork(t)
    /\ sound => \A s \in Scripts : AtWork(s) => script[s].alone

\* The places of a script by what is true there.
Unpacked(s)    == script[s].pc \in {"begin", "docker", "token", "write", "pull", "up",
                                    "recreate", "marker"}
MarkerGone(s)  == script[s].pc \in {"docker", "token", "write", "pull", "up",
                                    "recreate", "marker"}
HasToken(s)    == script[s].pc \in {"pull", "up", "recreate", "marker"}
StackPlaced(s) == script[s].pc \in {"up", "recreate", "marker"}
AgentPlaced(s) == script[s].pc \in {"recreate", "marker"}

\* What a script that has the VM to itself has done so far.
Done(s) ==
    /\ script[s].pc # "resolve" => script[s].ref \in Refs
    /\ script[s].pc = "move" => engine = 0
    /\ Unpacked(s)    => engine = script[s].ref
    /\ MarkerGone(s)  => marker = 0
    /\ HasToken(s)    => token # 0
    /\ StackPlaced(s) => stack = script[s].ref
    /\ AgentPlaced(s) => agent.exists /\ agent.ref = script[s].ref
    /\ script[s].pc = "marker" /\ script[s].repair => agent.token = token
    /\ script[s].pc = "write" => token = 0

Progress == \A s \in Scripts : script[s].alone => Done(s)

\* In a sound VM no agent is older than the token it has to accept.
AgentHasToken == sound /\ agent.exists => token # 0 /\ agent.token = token

MarkerInv == MarkerMeansServing /\ Solitude /\ Progress /\ AgentHasToken
IInv      == EngineTypeOK /\ MarkerInv

USE RefAssumption, BoundAssumption DEF Refs

-----------------------------------------------------------------------------
(* Types *)

\* What a script is when it starts and when it has ended.
LEMMA ScriptType ==
  ASSUME NEW pc \in {"over", "resolve"}, NEW want \in 0 .. MaxRef, NEW repair \in BOOLEAN,
         NEW result \in {"none", "ok", "failed"}
  PROVE  Script(pc, want, repair, result) \in ScriptRec
  BY DEF Script, ScriptRec

\* The scripts after one has started.
LEMMA StartedScripts ==
  ASSUME EngineTypeOK, NEW s \in Scripts, NEW repair \in BOOLEAN, NEW want \in 0 .. MaxRef,
         Start(s, repair, want)
  PROVE  /\ script' \in [Scripts -> ScriptRec]
         /\ script'[s].pc = "resolve" /\ (script'[s].alone <=> ~AnyAtWork)
         /\ \A t \in Scripts \ {s} : ~script'[t].alone /\ script'[t].pc = script[t].pc
<1> DEFINE x == [Script("resolve", want, repair, "none") EXCEPT !.alone = ~AnyAtWork]
<1>1. x \in ScriptRec /\ x.pc = "resolve" /\ (x.alone <=> ~AnyAtWork)
  <2>1. PICK b \in BOOLEAN : b = ~AnyAtWork
    BY DEF AnyAtWork
  <2> DEFINE q == Script("resolve", want, repair, "none")
             z == [q EXCEPT !.alone = b]
  <2>4. q \in ScriptRec /\ q.pc = "resolve"
    BY ScriptType DEF Script
  <2>2. z \in ScriptRec /\ z.pc = "resolve" /\ z.alone = b
    <3> HIDE DEF q
    <3> QED
      BY ZenonT(40), <2>4 DEF ScriptRec
  <2>3. x = z
    BY <2>1
  <2> QED
    BY <2>1, <2>2, <2>3
<1>2. \A t \in Scripts : LET y == [script[t] EXCEPT !.alone = FALSE]
                         IN  y \in ScriptRec /\ ~y.alone /\ y.pc = script[t].pc
  BY DEF EngineTypeOK, ScriptRec
<1>3. script' = [t \in Scripts |-> IF t = s THEN x ELSE [script[t] EXCEPT !.alone = FALSE]]
  BY DEF Start
<1> HIDE DEF x
<1> QED
  BY <1>1, <1>2, <1>3

LEMMA EndedType ==
  ASSUME NEW result \in {"none", "ok", "failed"}
  PROVE  Ended(result) \in ScriptRec
  BY DEF Ended, Script, ScriptRec

\* An initial state has its types.
LEMMA InitTypes == EngineInit => EngineTypeOK
<1> SUFFICES ASSUME EngineInit PROVE EngineTypeOK
  OBVIOUS
<1>1. script \in [Scripts -> ScriptRec]
  <2>1. NoScript \in ScriptRec
    BY DEF NoScript, Script, ScriptRec
  <2> QED
    BY <2>1 DEF EngineInit
<1>2. agent \in AgentRec
  BY DEF EngineInit, NoAgent, AgentRec
<1> QED
  BY <1>1, <1>2 DEF EngineInit, EngineTypeOK

\* Every step keeps them.
LEMMA StepTypes == EngineTypeOK /\ [EngineNext]_guestVars => EngineTypeOK'
<1> SUFFICES ASSUME EngineTypeOK, [EngineNext]_guestVars PROVE EngineTypeOK'
  OBVIOUS
<1> USE DEF EngineTypeOK, AgentRec, NoAgent, Goto, GotoIf, Started, AtWork
<1>1. ASSUME NEW s \in Scripts, NEW repair \in BOOLEAN, NEW want \in 0 .. MaxRef,
             Start(s, repair, want)
      PROVE  EngineTypeOK'
  <2>1. script' \in [Scripts -> ScriptRec]
    BY <1>1, StartedScripts
  <2>2. sound' \in BOOLEAN
    BY <1>1 DEF Start
  <2> QED
    BY <1>1, <2>1, <2>2 DEF Start
<1>2. ASSUME NEW s \in Scripts, Step(s) PROVE EngineTypeOK'
  <2>0. ASSUME NEW ok \in BOOLEAN, NEW pc \in {"docker", "token", "up"}, GotoIf(ok, s, pc)
        PROVE  script' \in [Scripts -> ScriptRec]
    <3>1. CASE ok
      BY <2>0, <3>1 DEF ScriptRec
    <3>2. CASE ~ok
      BY <2>0, <3>2, EndedType
    <3> QED
      BY <3>1, <3>2
  <2>1. CASE ResolveRef(s)
    <3>1. PICK ref \in Refs :
            script' = [script EXCEPT ![s].pc = "unpack", ![s].ref = ref]
      <4>1. script[s].want \in 0 .. MaxRef /\ marker \in 0 .. MaxRef /\ newest \in Refs
        BY DEF ScriptRec
      <4> DEFINE ref == IF script[s].want # 0 THEN script[s].want
                        ELSE IF script[s].repair /\ marker # 0 THEN marker ELSE newest
      <4>2. ref \in Refs
        BY <4>1
      <4>3. script' = [script EXCEPT ![s].pc = "unpack", ![s].ref = ref]
        BY <2>1 DEF ResolveRef
      <4> QED
        BY <4>2, <4>3
    <3>2. [script[s] EXCEPT !.pc = "unpack", !.ref = ref] \in ScriptRec
      <4>1. [script[s] EXCEPT !.pc = "unpack"] \in ScriptRec
        BY DEF ScriptRec
      <4>2. ref \in 0 .. MaxRef
        OBVIOUS
      <4> QED
        BY <4>1, <4>2 DEF ScriptRec
    <3>3. script' \in [Scripts -> ScriptRec]
      BY <3>1, <3>2
    <3> QED
      BY <2>1, <3>3 DEF ResolveRef
  <2>2. CASE RemoveEngine(s)
    BY <2>2 DEF RemoveEngine, ScriptRec
  <2>3. CASE MoveEngine(s)
    BY <2>3 DEF MoveEngine, ScriptRec
  <2>4. CASE RemoveMarker(s)
    <3>1. GotoIf(engine # 0, s, "docker")
      BY <2>4 DEF RemoveMarker
    <3>2. script' \in [Scripts -> ScriptRec]
      BY <2>0, <3>1
    <3> QED
      BY <2>4, <3>2 DEF RemoveMarker
  <2>5. CASE EnableDocker(s)
    <3>1. GotoIf(boot = "systemd", s, "token")
      BY <2>5 DEF EnableDocker
    <3>2. script' \in [Scripts -> ScriptRec]
      BY <2>0, <3>1
    <3> QED
      BY <2>5, <3>2 DEF EnableDocker
  <2>6. CASE CheckToken(s)
    <3>1. PICK pc \in {"write", "pull"}, created \in BOOLEAN :
            script' = [script EXCEPT ![s].pc = pc, ![s].created = created]
      BY <2>6 DEF CheckToken
    <3>2. [script[s] EXCEPT !.pc = pc, !.created = created] \in ScriptRec
      <4>1. [script[s] EXCEPT !.pc = pc] \in ScriptRec
        BY DEF ScriptRec
      <4>2. CASE created = TRUE
        BY <4>1, <4>2 DEF ScriptRec
      <4>3. CASE created = FALSE
        BY <4>1, <4>3 DEF ScriptRec
      <4> QED
        BY <4>2, <4>3
    <3>3. script' \in [Scripts -> ScriptRec]
      BY <3>1, <3>2
    <3> QED
      BY <2>6, <3>3 DEF CheckToken
  <2>7. CASE WriteToken(s)
    BY <2>7 DEF WriteToken, ScriptRec
  <2>8. CASE Pull(s)
    <3>1. GotoIf(engine # 0, s, "up")
      BY <2>8 DEF Pull
    <3>2. script' \in [Scripts -> ScriptRec]
      BY <2>0, <3>1
    <3> QED
      BY <2>8, <3>2 DEF Pull
  <2>9. CASE ComposeUp(s)
    <3>1. agent' \in AgentRec
      <4>1. token \in Nat /\ stack \in 0 .. MaxRef
        OBVIOUS
      <4>2. Started(stack) \in AgentRec
        BY <4>1
      <4>3. agent' = agent \/ agent' = Started(stack)
        BY <2>9 DEF ComposeUp
      <4> QED
        BY <4>2, <4>3
    <3>2. script' = [script EXCEPT ![s].pc = "recreate"]
      BY <2>9 DEF ComposeUp
    <3>3. script' \in [Scripts -> ScriptRec]
      BY <3>2 DEF ScriptRec
    <3> QED
      BY <2>9, <3>1, <3>3 DEF ComposeUp
  <2>10. CASE Recreate(s)
    BY <2>10 DEF Recreate, ScriptRec
  <2>11. CASE WriteMarker(s)
    BY <2>11, EndedType DEF WriteMarker, ScriptRec
  <2> QED
    BY <1>2, <2>1, <2>2, <2>3, <2>4, <2>5, <2>6, <2>7, <2>8, <2>9, <2>10, <2>11 DEF Step
<1>3. ASSUME NEW s \in Scripts, Fail(s) PROVE EngineTypeOK'
  <2>1. script' \in [Scripts -> ScriptRec]
    BY <1>3, EndedType DEF Fail
  <2>2. agent' \in {agent, NoAgent}
    BY <1>3 DEF Fail
  <2>3. NoAgent \in AgentRec
    OBVIOUS
  <2>4. faults' \in 0 .. MaxFaults
    BY <1>3 DEF Fail, Fault
  <2> QED
    BY <1>3, <2>1, <2>2, <2>3, <2>4 DEF Fail
<1>4. CASE PowerOff
  BY <1>4, EndedType DEF PowerOff, Fault
<1>5. ASSUME NEW kind \in {"plain", "systemd"}, Boot(kind)
      PROVE  EngineTypeOK'
  BY <1>5 DEF Boot
<1>6. CASE Release
  BY <1>6 DEF Release
<1>7. CASE UNCHANGED guestVars
  BY <1>7 DEF guestVars
<1> QED
  BY <1>1, <1>2, <1>3, <1>4, <1>5, <1>6, <1>7 DEF EngineNext

\* Every variable keeps its type, for any number of scripts, releases and failures.
THEOREM EngineTypes == EngineSpec => []EngineTypeOK
  BY InitTypes, StepTypes, PTL DEF EngineSpec

-----------------------------------------------------------------------------
(* The marker *)

LEMMA InitMarker == EngineInit => MarkerInv
  BY DEF EngineInit, MarkerInv, MarkerMeansServing, Solitude, Progress, AgentHasToken,
         NoScript, Script, NoAgent, AtWork

\* A step of a script leaves the others as they are, and makes none a lone one.
LEMMA StepScripts ==
  ASSUME EngineTypeOK, NEW s \in Scripts, Step(s) \/ Fail(s)
  PROVE  /\ \A t \in Scripts \ {s} : script'[t] = script[t]
         /\ AtWork(s)
         /\ script'[s].alone => script[s].alone /\ AtWork(s)'
         /\ AtWork(s)' => script'[s].alone = script[s].alone
         /\ sound' => sound \/ script[s].alone
<1> USE DEF EngineTypeOK, ScriptRec, Goto, GotoIf, Script, Ended, AtWork
<1>1. CASE ResolveRef(s)
  BY <1>1 DEF ResolveRef
<1>2. CASE RemoveEngine(s) \/ MoveEngine(s)
  BY <1>2 DEF RemoveEngine, MoveEngine
<1>3. CASE RemoveMarker(s) \/ EnableDocker(s) \/ Pull(s)
  <2>1. PICK pc \in {"docker", "token", "up"} :
          \/ script' = [script EXCEPT ![s].pc = pc]
          \/ script' = [script EXCEPT ![s] = Ended("failed")]
    BY <1>3 DEF RemoveMarker, EnableDocker, Pull
  <2>2. UNCHANGED sound /\ AtWork(s)
    BY <1>3 DEF RemoveMarker, EnableDocker, Pull
  <2>3. CASE script' = [script EXCEPT ![s].pc = pc]
    BY <2>2, <2>3
  <2>4. CASE script' = [script EXCEPT ![s] = Ended("failed")]
    BY <2>2, <2>4
  <2> QED
    BY <2>1, <2>3, <2>4
<1>4. CASE CheckToken(s) \/ WriteToken(s)
  BY <1>4 DEF CheckToken, WriteToken
<1>5. CASE ComposeUp(s) \/ Recreate(s)
  BY <1>5 DEF ComposeUp, Recreate
<1>6. CASE WriteMarker(s)
  BY <1>6 DEF WriteMarker
<1>7. CASE Fail(s)
  BY <1>7 DEF Fail
<1> QED
  BY <1>1, <1>2, <1>3, <1>4, <1>5, <1>6, <1>7 DEF Step

\* While one of several scripts is at work nothing is claimed of any.
LEMMA CrowdKeeps ==
  ASSUME IInv, NEW s \in Scripts, Step(s) \/ Fail(s), ~script[s].alone
  PROVE  MarkerInv'
<1>1. AtWork(s) /\ ~sound /\ \A t \in Scripts : ~script[t].alone
  BY StepScripts DEF IInv, MarkerInv, Solitude
<1>2. ~sound' /\ \A t \in Scripts : ~script'[t].alone
  BY <1>1, StepScripts DEF IInv
<1> QED
  BY <1>2 DEF MarkerInv, MarkerMeansServing, Solitude, Progress, AgentHasToken

\* A script that has the VM to itself.
LEMMA LoneKeeps ==
  ASSUME IInv, NEW s \in Scripts, Step(s) \/ Fail(s), script[s].alone
  PROVE  MarkerInv'
<1>1. /\ AtWork(s) /\ Done(s)
      /\ \A t \in Scripts \ {s} : ~AtWork(t) /\ ~script[t].alone
  BY DEF IInv, MarkerInv, Solitude, Progress
<1>2. /\ \A t \in Scripts \ {s} : ~AtWork(t)' /\ ~script'[t].alone
      /\ script'[s].alone => AtWork(s)'
      /\ AtWork(s)' => script'[s].alone
  BY <1>1, StepScripts DEF IInv, AtWork
<1>3. Solitude'
  BY <1>2 DEF Solitude
<1>4. /\ AtWork(s)' => Done(s)'
      /\ MarkerMeansServing' /\ AgentHasToken'
  <2> USE DEF IInv, MarkerInv, EngineTypeOK, ScriptRec, AgentRec, Goto, Script, Ended,
              Started, AtWork, MarkerMeansServing, Serving, AgentHasToken, Done,
              Unpacked, MarkerGone, HasToken, StackPlaced, AgentPlaced
  <2>1. CASE ResolveRef(s)
    BY <1>1, <2>1 DEF ResolveRef
  <2>2. CASE RemoveEngine(s)
    BY <1>1, <2>2 DEF RemoveEngine
  <2>3. CASE MoveEngine(s)
    BY <1>1, <2>3 DEF MoveEngine
  <2>4. CASE RemoveMarker(s)
    <3>1. engine # 0 /\ script' = [script EXCEPT ![s].pc = "docker"]
      BY <1>1, <2>4 DEF RemoveMarker, GotoIf
    <3> QED
      BY <1>1, <2>4, <3>1 DEF RemoveMarker
  <2>5. CASE EnableDocker(s)
    <3>1. \/ script' = [script EXCEPT ![s].pc = "token"]
          \/ script' = [script EXCEPT ![s] = Ended("failed")]
      BY <2>5 DEF EnableDocker, GotoIf
    <3>2. CASE script' = [script EXCEPT ![s].pc = "token"]
      BY <1>1, <2>5, <3>2 DEF EnableDocker
    <3>3. CASE script' = [script EXCEPT ![s] = Ended("failed")]
      BY <1>1, <2>5, <3>3 DEF EnableDocker
    <3> QED
      BY <3>1, <3>2, <3>3
  <2>6. CASE CheckToken(s)
    BY <1>1, <2>6 DEF CheckToken
  <2>7. CASE WriteToken(s)
    BY <1>1, <2>7 DEF WriteToken
  <2>8. CASE Pull(s)
    <3>1. engine # 0 /\ script' = [script EXCEPT ![s].pc = "up"] /\ stack' = engine
      BY <1>1, <2>8 DEF Pull, GotoIf
    <3> QED
      BY <1>1, <2>8, <3>1 DEF Pull
  <2>9. CASE ComposeUp(s)
    BY <1>1, <2>9 DEF ComposeUp
  <2>10. CASE Recreate(s)
    BY <1>1, <2>10 DEF Recreate
  <2>11. CASE WriteMarker(s)
    BY <1>1, <2>11 DEF WriteMarker
  <2>12. CASE Fail(s)
    <3>1. ~AtWork(s)' /\ UNCHANGED <<sound, marker, token>> /\ agent' \in {agent, NoAgent}
      BY <2>12 DEF Fail
    <3>2. script[s].pc \in {"up", "recreate"} => marker = 0
      BY <1>1
    <3>3. agent' = agent \/ marker = 0
      BY <2>12, <3>2 DEF Fail
    <3> QED
      BY <3>1, <3>3 DEF NoAgent
  <2> QED
    BY <2>1, <2>2, <2>3, <2>4, <2>5, <2>6, <2>7, <2>8, <2>9, <2>10, <2>11, <2>12 DEF Step
<1>5. Progress'
  BY <1>2, <1>4 DEF Progress
<1> QED
  BY <1>3, <1>4, <1>5 DEF MarkerInv

\* A script that starts, alone or beside others.
LEMMA ScriptStartKeeps ==
  ASSUME IInv, NEW s \in Scripts, NEW repair \in BOOLEAN, NEW want \in 0 .. MaxRef,
         Start(s, repair, want)
  PROVE  MarkerInv'
<1>1. /\ script'[s].pc = "resolve" /\ (script'[s].alone <=> ~AnyAtWork)
      /\ \A t \in Scripts \ {s} : ~script'[t].alone /\ script'[t].pc = script[t].pc
  BY StartedScripts DEF IInv
<1>0. sound' = (sound /\ ~AnyAtWork) /\ UNCHANGED <<marker, token, agent>>
  BY DEF Start
<1>2. Solitude'
  BY <1>0, <1>1 DEF Solitude, AtWork, AnyAtWork
<1>3. Progress'
  BY <1>1 DEF Progress, Done, Unpacked, MarkerGone, HasToken, StackPlaced, AgentPlaced
<1>4. MarkerMeansServing' /\ AgentHasToken'
  BY <1>0 DEF IInv, MarkerInv, MarkerMeansServing, Serving, AgentHasToken
<1> QED
  BY <1>2, <1>3, <1>4 DEF MarkerInv

\* The VM goes off: every script is cut short.
LEMMA OffKeeps ==
  ASSUME IInv, \A s \in Scripts : script'[s] = (IF AtWork(s) THEN Ended("failed") ELSE script[s]),
         UNCHANGED <<sound, marker, token, agent>>
  PROVE  MarkerInv'
<1>1. \A s \in Scripts : ~AtWork(s)' /\ ~script'[s].alone
  BY DEF IInv, MarkerInv, Solitude, AtWork, Ended, Script
<1> QED
  BY <1>1 DEF IInv, MarkerInv, MarkerMeansServing, Serving, Solitude, Progress, AgentHasToken

\* It comes up, and with systemd the agent's container: no script has been waiting.
LEMMA BootKeeps ==
  ASSUME IInv, NEW kind \in {"plain", "systemd"}, Boot(kind)
  PROVE  MarkerInv'
<1>1. /\ UNCHANGED <<sound, marker, engine, stack, token, script>>
      /\ agent'.exists = agent.exists
      /\ agent.exists => agent'.ref = agent.ref /\ agent'.token \in {agent.token, token}
  BY DEF Boot, Started
<1>2. Solitude'
  BY <1>1 DEF IInv, MarkerInv, Solitude, AtWork
<1>3. Progress'
  BY <1>1 DEF IInv, MarkerInv, Progress, Done, Unpacked, MarkerGone, HasToken,
              StackPlaced, AgentPlaced
<1>4. MarkerMeansServing' /\ AgentHasToken'
  BY <1>1 DEF IInv, MarkerInv, MarkerMeansServing, Serving, AgentHasToken
<1> QED
  BY <1>2, <1>3, <1>4 DEF MarkerInv

\* What the marker stands for is not about these variables.
LEMMA FrameKeeps ==
  ASSUME IInv, UNCHANGED <<sound, marker, engine, stack, token, agent, script>>
  PROVE  MarkerInv'
  BY DEF IInv, MarkerInv, MarkerMeansServing, Serving, Solitude, Progress, AgentHasToken,
         Done, Unpacked, MarkerGone, HasToken, StackPlaced, AgentPlaced, AtWork

\* Every step keeps what the marker stands for.
LEMMA StepMarker ==
  ASSUME IInv, [EngineNext]_guestVars
  PROVE  MarkerInv'
<1>1. ASSUME NEW s \in Scripts, Step(s) \/ Fail(s) PROVE MarkerInv'
  BY <1>1, CrowdKeeps, LoneKeeps
<1>2. CASE PowerOff
  BY <1>2, OffKeeps DEF PowerOff
<1>3. CASE Release \/ UNCHANGED guestVars
  BY <1>3, FrameKeeps DEF Release, guestVars
<1> QED
  BY <1>1, <1>2, <1>3, ScriptStartKeeps, BootKeeps DEF EngineNext

LEMMA AlwaysMarkerInv == EngineSpec => []IInv
<1>1. EngineInit => IInv
  BY InitTypes, InitMarker DEF IInv
<1>2. IInv /\ [EngineNext]_guestVars => IInv'
  BY StepTypes, StepMarker DEF IInv
<1> QED
  BY <1>1, <1>2, PTL DEF EngineSpec

\* A marker stands for an agent of that release that accepts the token, wherever scripts
\* were cut short, but for scripts that ran beside each other, until a lone repair.
THEOREM MarkerStands == EngineSpec => []MarkerMeansServing
<1>1. IInv => MarkerMeansServing
  BY DEF IInv, MarkerInv
<1> QED
  BY <1>1, AlwaysMarkerInv, PTL

\* A lone script that is about to write a token has found none, and none came since.
LEMMA ReplacedBeside ==
  ASSUME IInv, [EngineNext]_guestVars, token # 0, token' \notin {0, token}
  PROVE  \E s \in Scripts : script[s].pc = "write" /\ ~script[s].alone
<1>1. PICK s \in Scripts : WriteToken(s)
  BY DEF EngineNext, Step, Start, ResolveRef, RemoveEngine, MoveEngine,
         RemoveMarker, EnableDocker, CheckToken, Pull, ComposeUp,
         Recreate, WriteMarker, Fail, PowerOff, Boot, Release, guestVars
<1>2. script[s].pc = "write" /\ (script[s].alone => token = 0)
  BY <1>1 DEF WriteToken, IInv, MarkerInv, Progress, Done
<1> QED
  BY <1>2

\* Only a script that runs beside another one replaces a token.
THEOREM TokenStands == EngineSpec => TokenKept
<1>1. IInv /\ [EngineNext]_guestVars =>
        [token # 0 /\ token' \notin {0, token} =>
           \E s \in Scripts : script[s].pc = "write" /\ ~script[s].alone]_guestVars
  BY ReplacedBeside
<1> QED
  BY <1>1, AlwaysMarkerInv, PTL DEF EngineSpec, TokenKept

=============================================================================
