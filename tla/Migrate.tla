------------------------------- MODULE Migrate -------------------------------
(***************************************************************************)
(* dealfinder/migrate.py: the numbered migrations and their log.  apply     *)
(* reads the log in the transaction psycopg opens for it, so the blocks     *)
(* `with conn.transaction()' are savepoints inside that transaction: the    *)
(* files of one run are committed together when the connection is left.     *)
(***************************************************************************)
EXTENDS Integers, FiniteSets

CONSTANTS
    Migrators,   \* processes that may run apply
    Files        \* number of migration files, in run order 1..Files

ASSUME MigrateAssumption == Files \in Nat

VARIABLES
    log,      \* the committed rows of dealfinder.schema_migrations
    schema,   \* file -> how often its statements are in effect
    mig       \* migrator -> its run of apply

migrateVars == <<log, schema, mig>>

Off == [pc |-> "off", done |-> {}, run |-> {}]

MigrateInit ==
    /\ log = {}
    /\ schema = [f \in 1..Files |-> 0]
    /\ mig = [m \in Migrators |-> Off]

\* the bootstrap is idempotent; then the log is read, which opens the transaction
ReadLog(m) ==
    /\ mig[m].pc = "off"
    /\ mig' = [mig EXCEPT ![m] = [pc |-> "apply", done |-> log, run |-> {}]]
    /\ UNCHANGED <<log, schema>>

\* The file apply runs next, in order of the names.
IsNext(m, f) ==
    /\ f \notin mig[m].done \cup mig[m].run
    /\ \A g \in 1..(f - 1) : g \in mig[m].done \cup mig[m].run

\* Mutant of Recorded: the row of the log is written without its key.
RecordedNever(f) == FALSE

\* the primary key of the log refuses a second row
Recorded(f) == f \in log

\* One file and its row.  While another open transaction holds the row this one waits;
\* when that one has committed, the insert fails and the whole run is rolled back.
RunFile(m) ==
    /\ mig[m].pc = "apply"
    /\ \E f \in 1..Files :
          /\ IsNext(m, f)
          /\ ~\E n \in Migrators \ {m} : f \in mig[n].run
          /\ mig' = [mig EXCEPT ![m] = IF Recorded(f) THEN Off ELSE [mig[m] EXCEPT !.run = @ \cup {f}]]
    /\ UNCHANGED <<log, schema>>

\* the connection is left without an error: commit
CommitRun(m) ==
    /\ mig[m].pc = "apply"
    /\ 1..Files \subseteq mig[m].done \cup mig[m].run
    /\ log' = log \cup mig[m].run
    /\ schema' = [f \in 1..Files |-> IF f \in mig[m].run THEN schema[f] + 1 ELSE schema[f]]
    /\ mig' = [mig EXCEPT ![m] = Off]

\* a statement fails, the connection is lost or the process is killed: rollback
AbortRun(m) ==
    /\ mig[m].pc = "apply"
    /\ mig' = [mig EXCEPT ![m] = Off]
    /\ UNCHANGED <<log, schema>>

MigrateNext ==
    \E m \in Migrators : ReadLog(m) \/ RunFile(m) \/ CommitRun(m) \/ AbortRun(m)

MigrateSpec == MigrateInit /\ [][MigrateNext]_migrateVars

\* pending is empty; schema_current asks the same of the log
SchemaReady == 1..Files \subseteq log

-----------------------------------------------------------------------------
Level == INSTANCE SchemaLevel WITH effect <- schema

\* The runs of apply implement SchemaLevel: however many of them met and wherever one
\* stopped, no file is in effect twice, or before an earlier one, or taken back.
LevelRises == Level!Spec

\* migrate.py: the files run "each in its own transaction".
FilesOneByOne == [][Cardinality(log' \ log) <= 1]_migrateVars

=============================================================================
