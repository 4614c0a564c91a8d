-------------------------- MODULE MCEngineUpgrade --------------------------
(* Instances of EngineUpgrade for TLC: the two migrations there are, and one to come. *)
EXTENDS EngineUpgrade

MCAdded == <<{"projects"}, {"problem_code", "problem_message"}, {"backfill"}>>

\* state.py made the table, and then its columns one by one, before migrate.py.
MCLegacy == {{}, {"projects"}, {"projects", "problem_code"},
             {"projects", "problem_code", "problem_message"}}

\* The second release brings the third migration.
MCKnows == <<2, 3>>

=============================================================================
