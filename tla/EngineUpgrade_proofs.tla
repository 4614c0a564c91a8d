------------------------ MODULE EngineUpgrade_proofs ------------------------
(***************************************************************************)
(* Proofs about EngineUpgrade: it implements both of its parts, whatever   *)
(* scripts run beside each other, and so has the properties of both.       *)
(***************************************************************************)
EXTENDS EngineUpgrade, EngineInstall_proofs, StateMigration_proofs

\* A container is of a release: no stack file is used before it was put in place.
AgentOfRelease ==
    /\ \A s \in Scripts : StackPlaced(s) => stack # 0
    /\ agent.exists => agent.ref # 0

USE KnowsAssumption, VersionAssumption

-----------------------------------------------------------------------------
(* The scripts' part *)

LEMMA UpgradeStepIsEngine == [UpgradeNext]_upgradeVars => [EngineNext]_guestVars
  BY DEF UpgradeNext, upgradeVars, guestVars

\* With the agent's process beside them the scripts do what they do without.
THEOREM UpgradeIsEngine == UpgradeSpec => EngineSpec
<1>1. UpgradeInit => EngineInit
  BY DEF UpgradeInit
<1> QED
  BY <1>1, UpgradeStepIsEngine, PTL DEF UpgradeSpec, EngineSpec

LEMMA AgentOfReleaseInit == EngineInit => AgentOfRelease
  BY DEF EngineInit, AgentOfRelease, StackPlaced, NoScript, Script, NoAgent

LEMMA AgentOfReleaseStep ==
  ASSUME EngineTypeOK, AgentOfRelease, [EngineNext]_guestVars
  PROVE  AgentOfRelease'
<1> USE DEF AgentOfRelease, StackPlaced, EngineTypeOK, ScriptRec, AgentRec, Goto,
            Script, Ended, Started, NoAgent, AtWork
<1>1. ASSUME NEW s \in Scripts, NEW repair \in BOOLEAN, NEW want \in 0 .. MaxRef,
             Start(s, repair, want)
      PROVE  AgentOfRelease'
  <2>1. \A t \in Scripts : script'[t].pc = script[t].pc \/ script'[t].pc = "resolve"
    BY <1>1, StartedScripts
  <2> QED
    BY <1>1, <2>1 DEF Start
<1>2. ASSUME NEW s \in Scripts, Step(s) PROVE AgentOfRelease'
  <2>1. CASE ResolveRef(s)
    BY <2>1 DEF ResolveRef
  <2>2. CASE RemoveEngine(s)
    BY <2>2 DEF RemoveEngine
  <2>3. CASE MoveEngine(s)
    BY <2>3 DEF MoveEngine
  <2>4. CASE RemoveMarker(s)
    <3>1. \/ script' = [script EXCEPT ![s].pc = "docker"]
          \/ script' = [script EXCEPT ![s] = Ended("failed")]
      BY <2>4 DEF RemoveMarker, GotoIf
    <3>2. CASE script' = [script EXCEPT ![s].pc = "docker"]
      BY <2>4, <3>2 DEF RemoveMarker
    <3>3. CASE script' = [script EXCEPT ![s] = Ended("failed")]
      BY <2>4, <3>3 DEF RemoveMarker
    <3> QED
      BY <3>1, <3>2, <3>3
  <2>5. CASE EnableDocker(s)
    <3>1. \/ script' = [script EXCEPT ![s].pc = "token"]
          \/ script' = [script EXCEPT ![s] = Ended("failed")]
      BY <2>5 DEF EnableDocker, GotoIf
    <3>2. CASE script' = [script EXCEPT ![s].pc = "token"]
      BY <2>5, <3>2 DEF EnableDocker
    <3>3. CASE script' = [script EXCEPT ![s] = Ended("failed")]
      BY <2>5, <3>3 DEF EnableDocker
    <3> QED
      BY <3>1, <3>2, <3>3
  <2>6. CASE CheckToken(s)
    BY <2>6 DEF CheckToken
  <2>7. CASE WriteToken(s)
    BY <2>7 DEF WriteToken
  <2>8. CASE Pull(s)
    <3>1. \/ engine # 0 /\ script' = [script EXCEPT ![s].pc = "up"]
          \/ script' = [script EXCEPT ![s] = Ended("failed")]
      BY <2>8 DEF Pull, GotoIf
    <3>2. CASE engine # 0 /\ script' = [script EXCEPT ![s].pc = "up"]
      BY <2>8, <3>2 DEF Pull
    <3>3. CASE script' = [script EXCEPT ![s] = Ended("failed")]
      BY <2>8, <3>3 DEF Pull
    <3> QED
      BY <3>1, <3>2, <3>3
  <2>9. CASE ComposeUp(s)
    BY <2>9 DEF ComposeUp
  <2>10. CASE Recreate(s)
    BY <2>10 DEF Recreate
  <2>11. CASE WriteMarker(s)
    BY <2>11 DEF WriteMarker
  <2> QED
    BY <1>2, <2>1, <2>2, <2>3, <2>4, <2>5, <2>6, <2>7, <2>8, <2>9, <2>10, <2>11 DEF Step
<1>3. ASSUME NEW s \in Scripts, Fail(s) PROVE AgentOfRelease'
  BY <1>3 DEF Fail
<1>4. CASE PowerOff
  BY <1>4 DEF PowerOff
<1>5. ASSUME NEW kind \in {"plain", "systemd"}, Boot(kind) PROVE AgentOfRelease'
  BY <1>5 DEF Boot
<1>6. CASE Release
  BY <1>6 DEF Release
<1>7. CASE UNCHANGED guestVars
  BY <1>7 DEF guestVars
<1> QED
  BY <1>1, <1>2, <1>3, <1>4, <1>5, <1>6, <1>7 DEF EngineNext

\* The migrations the agent of a container knows are migrations there are.
LEMMA KnownMigrations ==
  ASSUME EngineTypeOK, AgentOfRelease, agent.exists
  PROVE  agent.ref \in 1 .. MaxRef /\ Knows[agent.ref] \in 0 .. MaxVersion
<1>1. agent.ref \in 1 .. MaxRef
  BY DEF EngineTypeOK, AgentRec, AgentOfRelease
<1> QED
  BY <1>1

-----------------------------------------------------------------------------
(* The migrations' part *)

LEMMA UpgradeStepIsSchema ==
  ASSUME [UpgradeNext]_upgradeVars, EngineTypeOK', AgentOfRelease'
  PROVE  [SchemaNext]_schemaVars
<1>1. CASE EngineNext /\ Follow
  <2>1. CASE Replace(Down) \/ UNCHANGED schemaVars
    BY <2>1 DEF SchemaNext
  <2>2. CASE Runs(agent', boot') /\ Replace(Starting(Knows[agent'.ref]))
    <3>1. Knows[agent'.ref] \in 0 .. MaxVersion
      BY <2>2 DEF Runs, EngineTypeOK, AgentRec, AgentOfRelease
    <3> QED
      BY <2>2, <3>1 DEF SchemaNext
  <2> QED
    BY <1>1, <2>1, <2>2 DEF Follow
<1>2. CASE (Migrate \/ Restart) /\ UNCHANGED guestVars
  BY <1>2 DEF SchemaNext
<1>3. CASE UNCHANGED upgradeVars
  BY <1>3 DEF upgradeVars
<1> QED
  BY <1>1, <1>2, <1>3 DEF UpgradeNext

\* Whatever scripts do to the container, its processes follow each other on the database
\* as StateMigration has them.
THEOREM UpgradeIsSchema == UpgradeSpec => SchemaSpec
<1>1. UpgradeInit => EngineInit /\ SchemaInit
  BY DEF UpgradeInit
<1>2. EngineInit => EngineTypeOK /\ AgentOfRelease
  BY InitTypes, AgentOfReleaseInit
<1>3. EngineTypeOK /\ AgentOfRelease /\ [EngineNext]_guestVars
        => EngineTypeOK' /\ AgentOfRelease'
  BY StepTypes, AgentOfReleaseStep
<1>4. [UpgradeNext]_upgradeVars /\ EngineTypeOK' /\ AgentOfRelease'
        => [SchemaNext]_schemaVars
  BY UpgradeStepIsSchema
<1> QED
  BY <1>1, <1>2, <1>3, <1>4, UpgradeStepIsEngine, PTL DEF UpgradeSpec, SchemaSpec

-----------------------------------------------------------------------------
(* What that gives *)

\* Upgrades and downgrades, failed or not, apply each migration once.
THEOREM UpgradeAppliesOnce == UpgradeSpec => []AppliedOnce
  BY UpgradeIsSchema, EachOnce, PTL

\* The agent of any installed release serves only a database that is its own.
THEOREM UpgradeServes == UpgradeSpec => []ServesItsSchema
  BY UpgradeIsSchema, Serves, PTL

\* The process is the one of the container: it knows what that release knows, and there
\* is none while there is no container or no dockerd.
Coupled == IF Runs(agent, boot) THEN proc.knows = Knows[agent.ref] /\ ~At("down")
                                ELSE At("down")

LEMMA CoupledStep ==
  ASSUME EngineTypeOK, SchemaTypeOK, AgentOfRelease, Coupled, [UpgradeNext]_upgradeVars,
         EngineTypeOK', AgentOfRelease'
  PROVE  Coupled'
<1>1. CASE EngineNext /\ Follow
  <2>1. CASE ~Runs(agent', boot') /\ Replace(Down)
    BY <2>1 DEF Coupled, Replace, Down, At
  <2>2. CASE Runs(agent, boot) /\ Runs(agent', boot') /\ agent' = agent /\ UNCHANGED schemaVars
    BY <2>2 DEF Coupled, schemaVars, At
  <2>3. CASE Runs(agent', boot') /\ Replace(Starting(Knows[agent'.ref]))
    BY <2>3 DEF Coupled, Replace, Starting, At
  <2> QED
    BY <1>1, <2>1, <2>2, <2>3 DEF Follow
<1>2. CASE (Migrate \/ Restart) /\ UNCHANGED guestVars
  <2>1. UNCHANGED <<agent, boot>>
    BY <1>2 DEF guestVars
  <2>2. proc'.knows = proc.knows /\ ~At("down") /\ ~At("down")'
    <3> USE DEF At, SchemaTypeOK, Process
    <3>1. CASE ReadVersion
      BY <3>1 DEF ReadVersion
    <3>2. CASE CreateTable
      BY <3>2 DEF CreateTable
    <3>3. CASE RunStep
      BY <3>3 DEF RunStep
    <3>4. CASE WriteVersion
      BY <3>4 DEF WriteVersion
    <3>5. CASE Commit
      BY <3>5 DEF Commit
    <3>6. CASE Restart
      BY <3>6 DEF Restart, Starting
    <3> QED
      BY <1>2, <3>1, <3>2, <3>3, <3>4, <3>5, <3>6 DEF Migrate
  <2> QED
    BY <2>1, <2>2 DEF Coupled, Runs
<1>3. CASE UNCHANGED upgradeVars
  BY <1>3 DEF upgradeVars, guestVars, schemaVars, Coupled, Runs, At
<1> QED
  BY <1>1, <1>2, <1>3 DEF UpgradeNext

\* The process always is the one of the container that is there.
THEOREM UpgradeTypes == UpgradeSpec => []UpgradeTypeOK
<1>1. UpgradeInit => AgentOfRelease /\ Coupled
  BY AgentOfReleaseInit DEF UpgradeInit, EngineInit, SchemaInit, NoAgent, Down, Coupled,
                            Runs, At
<1>2. EngineTypeOK /\ AgentOfRelease /\ [EngineNext]_guestVars => AgentOfRelease'
  BY AgentOfReleaseStep
<1>3. EngineTypeOK /\ SchemaTypeOK /\ AgentOfRelease /\ Coupled /\ [UpgradeNext]_upgradeVars
        /\ EngineTypeOK' /\ AgentOfRelease' => Coupled'
  BY CoupledStep
<1>4. EngineTypeOK /\ SchemaTypeOK /\ Coupled => UpgradeTypeOK
  BY DEF Coupled, UpgradeTypeOK
<1> QED
  BY <1>1, <1>2, <1>3, <1>4, UpgradeStepIsEngine, UpgradeIsEngine, UpgradeIsSchema,
     EngineTypes, SchemaTypes, PTL DEF UpgradeSpec

\* A marker stands for an agent that accepts the token, however the agents fare with the
\* database, but for scripts that ran beside each other.
THEOREM UpgradeMarker == UpgradeSpec => []MarkerMeansServing
  BY UpgradeIsEngine, MarkerStands, PTL

\* Only a script that runs beside another one replaces a token, ...
THEOREM UpgradeToken == UpgradeSpec => TokenKept
  BY UpgradeIsEngine, TokenStands, PTL

\* ... and, whatever scripts run, no agent touches the database of a newer one.
THEOREM UpgradeNewerUntouched == UpgradeSpec => TooNewUntouched
  BY UpgradeIsSchema, NewerUntouched, PTL

=============================================================================
