----------------------- MODULE StateMigration_proofs -----------------------
(***************************************************************************)
(* Proofs about StateMigration: for any list of migrations, databases of   *)
(* any age and agents of any releases in any order, stopped anywhere.      *)
(***************************************************************************)
EXTENDS StateMigration, TLAPS

\* The database after the step under way, and after its version was written.
Stepped == [db EXCEPT !.has = @ \cup Added[proc.at + 1], !.ran[proc.at + 1] = @ + 1]
Marked  == [Stepped EXCEPT !.version = proc.at + 1]

\* What the open transaction holds, at each place of migrate.
Transaction == tx = IF At("marker") THEN Stepped ELSE IF At("commit") THEN Marked ELSE db

\* An agent that migrates goes on from the database's version, which is behind its own.
Migrating ==
    /\ At("table") \/ At("step") \/ At("marker") \/ At("commit") =>
         proc.at = db.version /\ proc.at < proc.knows
    /\ At("serving") => db.version = proc.knows
    /\ ~db.table => db.version = 0
    /\ At("step") \/ At("marker") \/ At("commit") => db.table

\* The version stands for what is there.
HasItsColumns == \A k \in 1 .. db.version : Added[k] \subseteq db.has

SchemaInv == SchemaTypeOK /\ Transaction /\ Migrating /\ HasItsColumns /\ AppliedOnce

USE VersionAssumption, AddedAssumption, LegacyAssumption

-----------------------------------------------------------------------------

\* An initial state satisfies the invariant.
LEMMA SchemaStart == SchemaInit => SchemaInv
<1> SUFFICES ASSUME SchemaInit PROVE SchemaInv
  OBVIOUS
<1> USE DEF SchemaInit, Down, At
<1>1. PICK has \in Legacy : db = [table |-> FALSE, version |-> 0, has |-> has,
                                  ran |-> [k \in Migrations |-> 0]]
  OBVIOUS
<1>2. SchemaTypeOK
  <2>1. db \in Database
    <3>1. has \in SUBSET Columns /\ 0 \in 0 .. MaxVersion
      OBVIOUS
    <3>2. [k \in Migrations |-> 0] \in [Migrations -> Nat]
      OBVIOUS
    <3> QED
      BY <1>1, <3>1, <3>2 DEF Database
  <2> QED
    BY <2>1 DEF SchemaTypeOK, Process
<1>3. Transaction /\ Migrating
  BY <1>1 DEF Transaction, Migrating
<1>4. HasItsColumns /\ AppliedOnce
  <2>1. /\ db.version = 0
        /\ \A k \in Migrations : db.ran[k] = 0
    BY <1>1
  <2>2. \A k \in Migrations : k \in Nat /\ k > 0
    BY DEF Migrations
  <2> QED
    BY <2>1, <2>2 DEF HasItsColumns, AppliedOnce
<1> QED
  BY <1>2, <1>3, <1>4 DEF SchemaInv

\* A transaction's database has its type.
LEMMA SteppedType ==
  ASSUME SchemaTypeOK, proc.at < proc.knows
  PROVE  /\ Stepped \in Database
         /\ Stepped.table = db.table /\ Stepped.version = db.version
         /\ Stepped.has = db.has \cup Added[proc.at + 1]
         /\ Stepped.ran = [db.ran EXCEPT ![proc.at + 1] = @ + 1]
<1>1. db \in Database /\ proc.at + 1 \in Migrations
  BY DEF SchemaTypeOK, Process, Migrations
<1>2. [db.ran EXCEPT ![proc.at + 1] = @ + 1] \in [Migrations -> Nat]
  BY <1>1 DEF Database
<1>3. db.has \cup Added[proc.at + 1] \in SUBSET Columns
  BY <1>1 DEF Database
<1>4. Stepped = [table |-> db.table, version |-> db.version,
                 has |-> db.has \cup Added[proc.at + 1],
                 ran |-> [db.ran EXCEPT ![proc.at + 1] = @ + 1]]
  <2> DEFINE columns == db.has \cup Added[proc.at + 1]
             counts  == [db.ran EXCEPT ![proc.at + 1] = @ + 1]
  <2>1. Stepped = [db EXCEPT !.has = columns, !.ran = counts]
    BY DEF Stepped
  <2> HIDE DEF columns, counts
  <2>2. Stepped = [table |-> db.table, version |-> db.version,
                   has |-> columns, ran |-> counts]
    BY <1>1, <2>1 DEF Database
  <2> QED
    BY <2>2 DEF columns, counts
<1> QED
  BY <1>1, <1>2, <1>3, <1>4 DEF Database

LEMMA MarkedType ==
  ASSUME SchemaTypeOK, proc.at < proc.knows
  PROVE  /\ Marked \in Database
         /\ Marked.table = db.table /\ Marked.version = proc.at + 1
         /\ Marked.has = Stepped.has /\ Marked.ran = Stepped.ran
<1>1. proc.at + 1 \in 0 .. MaxVersion
  BY DEF SchemaTypeOK, Process
<1> QED
  BY <1>1, SteppedType DEF Marked, Database

\* A process that is started anew or stopped leaves the database as committed.
LEMMA ReplaceInvariant ==
  ASSUME SchemaInv, NEW process \in Process, process.pc \in {"read", "down"}, Replace(process)
  PROVE  SchemaInv'
<1> USE DEF SchemaInv, Replace
<1>1. SchemaTypeOK'
  BY DEF SchemaTypeOK
<1>2. Transaction'
  BY DEF Transaction, At
<1>3. Migrating'
  BY DEF Migrating, At
<1>4. HasItsColumns' /\ AppliedOnce'
  BY DEF HasItsColumns, AppliedOnce
<1> QED
  BY <1>1, <1>2, <1>3, <1>4

\* Every step keeps the invariant.
LEMMA SchemaStep == SchemaInv /\ [SchemaNext]_schemaVars => SchemaInv'
<1> SUFFICES ASSUME SchemaInv, [SchemaNext]_schemaVars PROVE SchemaInv'
  OBVIOUS
<1> USE DEF SchemaInv
<1>1. CASE ReadVersion
  <2> USE <1>1 DEF ReadVersion
  <2>1. /\ db' = db /\ tx' = tx /\ tx = db
        /\ proc' = [proc EXCEPT !.at = db.version,
                                !.pc = IF db.version > proc.knows THEN "refused"
                                       ELSE IF db.version = proc.knows THEN "serving"
                                       ELSE "table"]
    BY DEF Transaction, At, Migrating
  <2>2. SchemaTypeOK'
    BY <2>1 DEF SchemaTypeOK, Database, Process
  <2>3. Transaction'
    BY <2>1 DEF Transaction, At, SchemaTypeOK, Process
  <2>4. Migrating'
    BY <2>1 DEF Migrating, At, SchemaTypeOK, Database, Process
  <2>5. HasItsColumns' /\ AppliedOnce'
    BY <2>1 DEF HasItsColumns, AppliedOnce
  <2> QED
    BY <2>2, <2>3, <2>4, <2>5
<1>2. CASE CreateTable
  <2> USE <1>2 DEF CreateTable
  <2>1. SchemaTypeOK'
    BY DEF SchemaTypeOK, Database, Process
  <2>2. Transaction'
    BY DEF Transaction, At, SchemaTypeOK, Process
  <2>3. Migrating'
    BY DEF Migrating, At, SchemaTypeOK, Database, Process
  <2>4. HasItsColumns' /\ AppliedOnce'
    BY DEF HasItsColumns, AppliedOnce, SchemaTypeOK, Database
  <2> QED
    BY <2>1, <2>2, <2>3, <2>4
<1>3. CASE RunStep
  <2> USE <1>3 DEF RunStep
  <2>1. proc.at < proc.knows /\ db' = db /\ tx' = Stepped
    BY DEF Migrating, At, Stepped
  <2>2. SchemaTypeOK'
    BY <2>1, SteppedType DEF SchemaTypeOK, Process
  <2>3. Transaction'
    BY <2>1 DEF Transaction, At, Stepped, SchemaTypeOK, Process
  <2>4. Migrating'
    BY <2>1 DEF Migrating, At, SchemaTypeOK, Process
  <2>5. HasItsColumns' /\ AppliedOnce'
    BY <2>1 DEF HasItsColumns, AppliedOnce
  <2> QED
    BY <2>2, <2>3, <2>4, <2>5
<1>4. CASE WriteVersion
  <2> USE <1>4 DEF WriteVersion
  <2>1. proc.at < proc.knows /\ db' = db /\ tx' = Marked
    BY DEF Migrating, At, Transaction, Marked
  <2>2. SchemaTypeOK'
    BY <2>1, MarkedType DEF SchemaTypeOK, Process
  <2>3. Transaction'
    BY <2>1 DEF Transaction, At, Stepped, Marked, SchemaTypeOK, Process
  <2>4. Migrating'
    BY <2>1 DEF Migrating, At, SchemaTypeOK, Process
  <2>5. HasItsColumns' /\ AppliedOnce'
    BY <2>1 DEF HasItsColumns, AppliedOnce
  <2> QED
    BY <2>2, <2>3, <2>4, <2>5
<1>5. CASE Commit
  <2> USE <1>5 DEF Commit
  <2>1. proc.at < proc.knows /\ db.version = proc.at /\ db' = Marked /\ tx' = Marked
    BY DEF Migrating, At, Transaction
  <2>2. SchemaTypeOK'
    <3>1. proc.at + 1 \in 0 .. MaxVersion
      BY <2>1 DEF SchemaTypeOK, Process
    <3>2. proc' \in Process
      BY <3>1 DEF SchemaTypeOK, Process
    <3> QED
      BY <2>1, <3>2, MarkedType DEF SchemaTypeOK
  <2>3. Transaction'
    BY <2>1 DEF Transaction, At, SchemaTypeOK, Process
  <2>4. Migrating'
    BY <2>1, MarkedType DEF Migrating, At, SchemaTypeOK, Process
  <2>5. HasItsColumns'
    BY <2>1, MarkedType, SteppedType DEF HasItsColumns, SchemaTypeOK, Process
  <2>6. AppliedOnce'
    <3> SUFFICES ASSUME NEW k \in Migrations
                 PROVE  db'.ran[k] = IF k <= proc.at + 1 THEN 1 ELSE 0
      BY <2>1, MarkedType DEF AppliedOnce
    <3>1. db.ran \in [Migrations -> Nat] /\ proc.at \in Nat
      BY DEF SchemaTypeOK, Database, Process
    <3>2. db'.ran = [db.ran EXCEPT ![proc.at + 1] = @ + 1]
      BY <2>1, MarkedType, SteppedType
    <3>3. db.ran[k] = IF k <= proc.at THEN 1 ELSE 0
      BY <2>1 DEF AppliedOnce
    <3> QED
      BY <3>1, <3>2, <3>3 DEF Migrations
  <2> QED
    BY <2>2, <2>3, <2>4, <2>5, <2>6
<1>6. CASE Restart
  <2>1. Starting(proc.knows) \in Process /\ Starting(proc.knows).pc = "read"
    BY DEF Starting, Process, SchemaTypeOK
  <2> QED
    BY <1>6, <2>1, ReplaceInvariant DEF Restart, Replace
<1>7. ASSUME NEW knows \in 0 .. MaxVersion, Replace(Starting(knows)) PROVE SchemaInv'
  <2>1. Starting(knows) \in Process /\ Starting(knows).pc = "read"
    BY DEF Starting, Process
  <2> QED
    BY <1>7, <2>1, ReplaceInvariant
<1>8. CASE Replace(Down)
  <2>1. Down \in Process /\ Down.pc = "down"
    BY DEF Down, Process
  <2> QED
    BY <1>8, <2>1, ReplaceInvariant
<1>9. CASE UNCHANGED schemaVars
  BY <1>9 DEF schemaVars, SchemaTypeOK, Transaction, Stepped, Marked, At, Migrating,
              HasItsColumns, AppliedOnce
<1> QED
  BY <1>1, <1>2, <1>3, <1>4, <1>5, <1>6, <1>7, <1>8, <1>9 DEF SchemaNext, Migrate

\* The invariant holds in every reachable state.
THEOREM SchemaInvariant == SchemaSpec => []SchemaInv
  BY SchemaStart, SchemaStep, PTL DEF SchemaSpec

-----------------------------------------------------------------------------

\* Every variable keeps its type (migrate).
THEOREM SchemaTypes == SchemaSpec => []SchemaTypeOK
<1>1. SchemaInv => SchemaTypeOK
  BY DEF SchemaInv
<1> QED
  BY <1>1, SchemaInvariant, PTL

\* No migration is repeated or skipped, wherever agents are stopped: step and version are
\* committed together.
THEOREM EachOnce == SchemaSpec => []AppliedOnce
<1>1. SchemaInv => AppliedOnce
  BY DEF SchemaInv
<1> QED
  BY <1>1, SchemaInvariant, PTL

\* An agent that serves has the columns its own migrations add, on a database of any age.
THEOREM Serves == SchemaSpec => []ServesItsSchema
<1>1. SchemaInv => ServesItsSchema
  BY DEF SchemaInv, Migrating, HasItsColumns, ServesItsSchema, SchemaTypeOK, Process, Database
<1> QED
  BY <1>1, SchemaInvariant, PTL

\* An older agent changes nothing in the database of a newer one.
LEMMA NewerKept ==
  ASSUME SchemaInv, [SchemaNext]_schemaVars
  PROVE  [db.version > proc.knows => db' = db]_schemaVars
<1> SUFFICES ASSUME SchemaNext, db.version > proc.knows PROVE db' = db
  BY DEF schemaVars
<1>1. db.version \in Nat /\ proc.knows \in Nat /\ proc.at \in Nat
  BY DEF SchemaInv, SchemaTypeOK, Database, Process
<1>2. ~CreateTable /\ ~Commit
  BY <1>1 DEF SchemaInv, Migrating, CreateTable, Commit
<1> QED
  BY <1>2 DEF SchemaNext, Migrate, ReadVersion, RunStep, WriteVersion, Restart, Replace

THEOREM NewerUntouched == SchemaSpec => TooNewUntouched
<1> QED
  BY SchemaInvariant, NewerKept, PTL DEF SchemaSpec, TooNewUntouched

=============================================================================
