------------------------------- MODULE Deploy -------------------------------
(***************************************************************************)
(* Production: the operator's scripts (Secrets), the migrations (Migrate)   *)
(* and the service instances that read both.  An instance takes its         *)
(* DATABASE_URL from the secret's latest version when it boots; serve.py    *)
(* decides with _db_ready, _maybe_recheck_db and /readyz whether it may use *)
(* the database.  Request threads check at their own pace, so an answer may *)
(* be old when it is written to _DB.                                        *)
(***************************************************************************)
EXTENDS Secrets, Migrate

CONSTANTS
    Threads     \* request threads of the instance

VARIABLES
    up,        \* the database can be reached
    inst,      \* the instance: [on, url, db]; db is _DB
    check      \* thread -> the readiness check it runs

deployVars == <<versions, role, worker, tokens, job, torn, log, schema, mig, up, inst, check>>

Down == [on |-> FALSE, url |-> 0, db |-> FALSE]
NoCheck == [what |-> "none", ok |-> FALSE]

DeployInit ==
    /\ SecretsInit /\ MigrateInit
    /\ up = TRUE
    /\ inst = Down
    /\ check = [t \in Threads |-> NoCheck]

\* _DB may be set: a connection opens, with the password, and the log is complete
Usable(url) == up /\ url # 0 /\ url = role /\ SchemaReady

\* The database goes away or comes back.
Outage ==
    /\ up' = ~up
    /\ UNCHANGED <<secretVars, migrateVars, inst, check>>

\* load_secrets, and _DB = _db_ready() at import
Boot ==
    /\ ~inst.on
    /\ versions # << >> => Latest.enabled
    /\ LET url == IF versions = << >> THEN 0 ELSE Latest.data["DATABASE_URL"] IN
       inst' = [on |-> TRUE, url |-> url, db |-> Usable(url)]
    /\ UNCHANGED <<secretVars, migrateVars, up, check>>

\* The instance is stopped; its threads with it.
Shutdown ==
    /\ inst.on
    /\ inst' = Down
    /\ check' = [t \in Threads |-> NoCheck]
    /\ UNCHANGED <<secretVars, migrateVars, up>>

\* Mutant of Rechecks: an instance that booted without the database stays without.
RechecksNever == FALSE

\* _maybe_recheck_db goes on to _db_ready.  The interval of 30 seconds only makes the
\* rechecks rarer; two of them overlap when one takes longer.
Rechecks == ~inst.db /\ inst.url # 0

\* The two checks.  A session the pool still holds outlives its password, so /readyz may
\* succeed after a rotation; schema_ready connects anew.
BeginRecheck(t) ==
    /\ inst.on /\ check[t].what = "none" /\ Rechecks
    /\ check' = [check EXCEPT ![t] = [what |-> "recheck", ok |-> Usable(inst.url)]]
    /\ UNCHANGED <<secretVars, migrateVars, up, inst>>

BeginReadyz(t) ==
    /\ inst.on /\ check[t].what = "none" /\ inst.url # 0
    /\ \E ok \in {Usable(inst.url), inst.db /\ up /\ SchemaReady} :
          check' = [check EXCEPT ![t] = [what |-> "readyz", ok |-> ok]]
    /\ UNCHANGED <<secretVars, migrateVars, up, inst>>

\* _DB = _db_ready() writes whatever was found; /readyz only ever sets it.
EndCheck(t) ==
    /\ check[t].what # "none"
    /\ inst' = [inst EXCEPT !.db = check[t].ok \/ (check[t].what = "readyz" /\ @)]
    /\ check' = [check EXCEPT ![t] = NoCheck]
    /\ UNCHANGED <<secretVars, migrateVars, up>>

Serving ==
    \/ Outage \/ Boot \/ Shutdown
    \/ \E t \in Threads : BeginRecheck(t) \/ BeginReadyz(t) \/ EndCheck(t)

DeployNext ==
    \/ SecretsNext /\ UNCHANGED <<migrateVars, up, inst, check>>
    \/ MigrateNext /\ UNCHANGED <<secretVars, up, inst, check>>
    \/ Serving

\* A check has a connection timeout; requests for accounts keep coming.
Spec ==
    /\ DeployInit /\ [][DeployNext]_deployVars
    /\ \A t \in Threads : WF_deployVars(EndCheck(t)) /\ SF_deployVars(BeginRecheck(t))

-----------------------------------------------------------------------------
\* serve.py: accounts wait for the schema ("Serving never migrates").  An instance that
\* uses the database only ever meets a schema with every migration in effect once.
NoAccountsBeforeSchema == inst.db => \A f \in 1..Files : schema[f] = 1

\* _maybe_recheck_db: once the database stays usable, the instance uses it for good,
\* whatever late answers of earlier checks are still to be written.
Recovers == <>[](inst.on /\ Usable(inst.url)) => <>[]inst.db

=============================================================================
