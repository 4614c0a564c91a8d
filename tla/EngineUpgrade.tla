--------------------------- MODULE EngineUpgrade ---------------------------
(***************************************************************************)
(* The engine's scripts and the agent's migrations together: get.sh and    *)
(* install.sh put agents of other releases, newer and older, on the one    *)
(* database, and docker runs the container while the VM is up.             *)
(***************************************************************************)
EXTENDS EngineInstall, StateMigration

CONSTANT Knows   \* Knows[r]: how many migrations the agent of release r knows

\* The list is append only (migrate.py).
ASSUME KnowsAssumption ==
    /\ Knows \in [1 .. MaxRef -> 0 .. MaxVersion]
    /\ \A r \in 1 .. MaxRef - 1 : Knows[r] <= Knows[r + 1]

upgradeVars == <<guestVars, schemaVars>>

\* dockerd, and with it the container, runs while the VM is up with systemd.
Runs(container, booted) == container.exists /\ booted = "systemd"

\* What a command of the scripts, or the VM, does to the agent's process.
Follow ==
    IF ~Runs(agent', boot') THEN Replace(Down)
    ELSE IF Runs(agent, boot) /\ agent' = agent THEN UNCHANGED schemaVars
    ELSE Replace(Starting(Knows[agent'.ref]))

UpgradeInit == EngineInit /\ SchemaInit

UpgradeNext ==
    \/ EngineNext /\ Follow
    \/ (Migrate \/ Restart) /\ UNCHANGED guestVars

UpgradeSpec == UpgradeInit /\ [][UpgradeNext]_upgradeVars

-----------------------------------------------------------------------------
(* Properties *)

\* The process is the one of the container that is there.
UpgradeTypeOK ==
    /\ EngineTypeOK /\ SchemaTypeOK
    /\ IF Runs(agent, boot) THEN proc.knows = Knows[agent.ref] /\ ~At("down")
                            ELSE At("down")

=============================================================================
