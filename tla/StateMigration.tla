--------------------------- MODULE StateMigration ---------------------------
(***************************************************************************)
(* The schema of the state database (agent/core/migrate.py), brought up to *)
(* date by every agent that starts on it.  Agents of different releases    *)
(* follow each other on one database, and each may be stopped between any  *)
(* two statements.                                                         *)
(***************************************************************************)
EXTENDS Naturals

CONSTANTS
    MaxVersion,   \* the migrations any release knows are 1 .. MaxVersion
    Columns,      \* what migrations add: a table, its columns, a backfill
    Added,        \* Added[k] is what migration k adds
    Legacy        \* what a database without a version may already have

Migrations == 1 .. MaxVersion

ASSUME VersionAssumption == MaxVersion \in Nat
ASSUME AddedAssumption   == Added \in [Migrations -> SUBSET Columns]
ASSUME LegacyAssumption  == Legacy \subseteq SUBSET Columns

VARIABLES
    db,    \* the database as committed
    tx,    \* the database as the open transaction sees it, db if there is none
    proc   \* the agent's process: where it is, what it knows, where it has got to

schemaVars == <<db, tx, proc>>

\* `table`: schema_version exists.  `version`: its row, 0 if there is none.
\* `ran`, a history: how often a migration's effect was committed.
Database == [table : BOOLEAN, version : 0 .. MaxVersion, has : SUBSET Columns,
             ran : [Migrations -> Nat]]

Process == [pc : {"down", "read", "table", "step", "marker", "commit", "serving", "refused"},
            knows : 0 .. MaxVersion, at : 0 .. MaxVersion]

At(pc) == proc.pc = pc

-----------------------------------------------------------------------------
(* migrate *)

\* MUTANT of ReadVersion: a version it does not know counts as none.
ReadVersionStartsOver ==
    /\ At("read")
    /\ LET version == IF db.table /\ db.version <= proc.knows THEN db.version ELSE 0
       IN  proc' = [proc EXCEPT !.at = version,
                                !.pc = IF version = proc.knows THEN "serving" ELSE "table"]
    /\ UNCHANGED <<db, tx>>

\* MUTANT of ReadVersion: no too-new check.
ReadVersionUnchecked ==
    /\ At("read")
    /\ LET version == IF db.table THEN db.version ELSE 0
       IN  proc' = [proc EXCEPT !.at = version,
                                !.pc = IF version >= proc.knows THEN "serving" ELSE "table"]
    /\ UNCHANGED <<db, tx>>

\* Nothing is written before the too-new check has passed.
ReadVersion ==
    /\ At("read")
    /\ LET version == IF db.table THEN db.version ELSE 0
       IN  proc' = [proc EXCEPT !.at = version,
                                !.pc = IF version > proc.knows THEN "refused"
                                       ELSE IF version = proc.knows THEN "serving"
                                       ELSE "table"]
    /\ UNCHANGED <<db, tx>>

CreateTable ==
    /\ At("table")
    /\ db' = [db EXCEPT !.table = TRUE]
    /\ tx' = db'
    /\ proc' = [proc EXCEPT !.pc = "step"]

\* MUTANT of RunStep: no BEGIN, the step commits by itself.
RunStepAutocommits ==
    /\ At("step")
    /\ db' = [db EXCEPT !.has = @ \cup Added[proc.at + 1], !.ran[proc.at + 1] = @ + 1]
    /\ tx' = db'
    /\ proc' = [proc EXCEPT !.pc = "marker"]

\* BEGIN, and the step, which adds only what is not there yet.
RunStep ==
    /\ At("step")
    /\ tx' = [db EXCEPT !.has = @ \cup Added[proc.at + 1], !.ran[proc.at + 1] = @ + 1]
    /\ proc' = [proc EXCEPT !.pc = "marker"]
    /\ UNCHANGED db

WriteVersion ==
    /\ At("marker")
    /\ tx' = [tx EXCEPT !.version = proc.at + 1]
    /\ proc' = [proc EXCEPT !.pc = "commit"]
    /\ UNCHANGED db

Commit ==
    /\ At("commit")
    /\ db' = tx
    /\ proc' = [proc EXCEPT !.at = @ + 1,
                            !.pc = IF proc.at + 1 = proc.knows THEN "serving" ELSE "step"]
    /\ UNCHANGED tx

Migrate == ReadVersion \/ CreateTable \/ RunStep \/ WriteVersion \/ Commit

-----------------------------------------------------------------------------
(* The process and its container.  What was not committed is rolled back. *)

Starting(knows) == [pc |-> "read", knows |-> knows, at |-> 0]
Down == [pc |-> "down", knows |-> 0, at |-> 0]

\* A statement raises, the agent has refused the database or is killed, and docker
\* starts it again (`restart: always`).
Restart ==
    /\ ~At("down")
    /\ proc' = Starting(proc.knows)
    /\ tx' = db
    /\ UNCHANGED db

\* The container is replaced by one that knows other migrations, or is stopped.
Replace(process) ==
    /\ proc' = process
    /\ tx' = db
    /\ UNCHANGED db

SchemaInit ==
    /\ db \in {[table |-> FALSE, version |-> 0, has |-> has,
                ran |-> [k \in Migrations |-> 0]] : has \in Legacy}
    /\ tx = db
    /\ proc = Down

SchemaNext ==
    \/ Migrate \/ Restart
    \/ \E knows \in 0 .. MaxVersion : Replace(Starting(knows))
    \/ Replace(Down)

SchemaSpec == SchemaInit /\ [][SchemaNext]_schemaVars

-----------------------------------------------------------------------------
(* Properties *)

\* Every variable keeps its type.
SchemaTypeOK == db \in Database /\ tx \in Database /\ proc \in Process

\* Each migration is applied exactly once, in order, and its version is recorded with
\* it, wherever agents are stopped: the version stands for the migrations that ran
\* (migrate.py: a backfill "must not be able to run twice after a crash").
AppliedOnce == \A k \in Migrations : db.ran[k] = IF k <= db.version THEN 1 ELSE 0

\* An agent that serves has everything its own migrations add, and a version that is
\* its own: its queries find their columns, on databases of any age.
ServesItsSchema ==
    At("serving") => /\ db.version = proc.knows
                     /\ \A k \in 1 .. proc.knows : Added[k] \subseteq db.has

\* A database of a newer agent is not touched by an older one (SchemaTooNew: "without
\* touching anything").
TooNewUntouched == [][db.version > proc.knows => db' = db]_schemaVars

=============================================================================
