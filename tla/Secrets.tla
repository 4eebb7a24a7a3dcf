------------------------------- MODULE Secrets -------------------------------
(***************************************************************************)
(* The operator's scripts: deploy/secrets.py (push, edge) and               *)
(* deploy/create_login_role.py (create and rotate the login role).  They    *)
(* share one secret in Secret Manager, the role in Postgres and the secret  *)
(* of the edge Worker.  Any call may fail, and a script may be stopped      *)
(* between any two calls.                                                   *)
(*                                                                         *)
(* A value is a number, 0 for an absent key.  The numbers up to MaxTokens   *)
(* are generated (passwords, tokens); Local is the DATABASE_URL of the      *)
(* developer's .env.                                                        *)
(***************************************************************************)
EXTENDS Integers, Sequences, FiniteSets

CONSTANTS
    Ops,          \* operators' terminals
    MaxTokens,    \* bound: tokens generated in a behaviour
    MaxVersions   \* bound: versions added in a behaviour

ASSUME SecretsAssumption == MaxTokens \in Nat /\ MaxVersions \in Nat

VARIABLES
    versions,   \* Secret Manager: the versions of dealfinder-env, oldest first
    role,       \* Postgres: the committed password of dealfinder_svc, 0 for no role
    worker,     \* the edge Worker's EDGE_SHARED_SECRET
    tokens,     \* how many tokens were generated
    job,        \* operator -> the script it runs
    torn        \* history: a provision stopped between its secret and its commit

secretVars == <<versions, role, worker, tokens, job, torn>>

Local == MaxTokens + 1

\* One key of each sort: never from the env file, generated, and from the file.
Keys == {"DATABASE_URL", "EDGE_SHARED_SECRET", "BESTBUY_API_KEY"}
Generated == {"EDGE_SHARED_SECRET"}
NeverFromEnvFile == {"DATABASE_URL"}
Empty == [k \in Keys |-> 0]

Idle == [cmd |-> "none", pc |-> "idle", data |-> Empty, new |-> 0, todo |-> {}]

Commands == {"push", "edge", "create", "rotate"}
Provisions(o) == job[o].cmd \in {"create", "rotate"}

Latest == versions[Len(versions)]

-----------------------------------------------------------------------------
\* {**stored, **updates}: a key without a value is not in the payload
Merge(stored, updates) ==
    [k \in Keys |-> IF updates[k] # 0 THEN updates[k] ELSE stored[k]]

\* what main takes from the env file
FromFile(env) == [k \in Keys |-> IF k \in NeverFromEnvFile THEN 0 ELSE env[k]]

\* The env file of a developer: a local database and an API key.
EnvFile == [Empty EXCEPT !["DATABASE_URL"] = Local, !["BESTBUY_API_KEY"] = Local]

\* merged.setdefault for the generated keys
SetDefault(data, fresh) ==
    [k \in Keys |-> IF k \in Generated /\ data[k] = 0 THEN fresh ELSE data[k]]

-----------------------------------------------------------------------------
SecretsInit ==
    /\ versions = << >> /\ role = 0 /\ worker = 0 /\ tokens = 0
    /\ job = [o \in Ops |-> Idle]
    /\ torn = FALSE

Run(o, pc) == job' = [job EXCEPT ![o].pc = pc]
Ends(o) == job' = [job EXCEPT ![o] = Idle]

\* A script starts.  A provision looks up the pooler host, checks that the stored
\* secret can be read and generates the password.
Start(o, cmd) ==
    /\ job[o].pc = "idle"
    /\ cmd # "edge" => Len(versions) < MaxVersions /\ tokens < MaxTokens
    /\ job' = [job EXCEPT ![o] = [Idle EXCEPT !.cmd = cmd,
                                  !.pc = IF cmd \in {"push", "edge"} THEN "read" ELSE "ddl",
                                  !.new = IF cmd \in {"create", "rotate"} THEN tokens + 1 ELSE 0]]
    /\ tokens' = IF cmd \in {"create", "rotate"} THEN tokens + 1 ELSE tokens
    /\ versions # << >> /\ cmd \in {"create", "rotate"} => Latest.enabled
    /\ UNCHANGED <<versions, role, worker, torn>>

\* role_statements, in a transaction that stays open; the role's row is locked.
\* CREATE fails when the role exists, ALTER when it does not.
RoleStatements(o) ==
    /\ job[o].pc = "ddl"
    /\ ~\E p \in Ops \ {o} : Provisions(p) /\ job[p].pc \notin {"ddl", "idle"}
    /\ IF (job[o].cmd = "rotate") = (role # 0) THEN Run(o, "read") ELSE Ends(o)
    /\ UNCHANGED <<versions, role, worker, tokens, torn>>

\* current: the latest version, {} before the first; then the payload is built
Current(o) ==
    /\ job[o].pc = "read"
    /\ versions # << >> => Latest.enabled
    /\ LET stored == IF versions = << >> THEN Empty ELSE Latest.data IN
       \/ /\ Provisions(o)
          /\ job' = [job EXCEPT ![o].pc = "add",
                     ![o].data = Merge(stored, [Empty EXCEPT !["DATABASE_URL"] = job[o].new])]
          /\ UNCHANGED tokens
       \/ /\ job[o].cmd = "push"
          /\ job' = [job EXCEPT ![o].pc = "add",
                     ![o].data = SetDefault(Merge(stored, FromFile(EnvFile)), tokens + 1)]
          /\ tokens' = IF job'[o].data["EDGE_SHARED_SECRET"] = tokens + 1 THEN tokens + 1 ELSE tokens
       \/ /\ job[o].cmd = "edge"
          /\ IF stored["EDGE_SHARED_SECRET"] = 0 THEN Ends(o)
             ELSE job' = [job EXCEPT ![o].pc = "put", ![o].data = stored]
          /\ UNCHANGED tokens
    /\ UNCHANGED <<versions, role, worker, torn>>

\* push: versions add
AddVersion(o) ==
    /\ job[o].pc = "add" /\ Len(versions) < MaxVersions
    /\ versions' = Append(versions, [data |-> job[o].data, enabled |-> TRUE])
    /\ job' = [job EXCEPT ![o].pc = "list", ![o].new = Len(versions) + 1]
    /\ UNCHANGED <<role, worker, tokens, torn>>

\* Mutant of Others: the new version is destroyed too.
OthersToo(new) == {v \in 1..Len(versions) : versions[v].enabled}

\* what push destroys: every other version that is not destroyed yet
Others(new) == {v \in 1..Len(versions) : v # new /\ versions[v].enabled}

\* push: versions list
ListVersions(o) ==
    /\ job[o].pc = "list"
    /\ job' = [job EXCEPT ![o].pc = "destroy", ![o].todo = Others(job[o].new)]
    /\ UNCHANGED <<versions, role, worker, tokens, torn>>

\* push: versions destroy, one call each; then the script goes on
DestroyVersion(o) ==
    /\ job[o].pc = "destroy" /\ job[o].todo # {}
    /\ \E v \in job[o].todo :
          /\ versions' = [versions EXCEPT ![v].enabled = FALSE]
          /\ job' = [job EXCEPT ![o].todo = @ \ {v}]
    /\ UNCHANGED <<role, worker, tokens, torn>>

Pushed(o) ==
    /\ job[o].pc = "destroy" /\ job[o].todo = {}
    /\ IF Provisions(o) THEN Run(o, "commit") ELSE Ends(o)
    /\ UNCHANGED <<versions, role, worker, tokens, torn>>

\* provision: the with block ends and the transaction commits
Commit(o) ==
    /\ job[o].pc = "commit"
    /\ role' = job[o].data["DATABASE_URL"]
    /\ torn' = FALSE
    /\ Ends(o)
    /\ UNCHANGED <<versions, worker, tokens>>

\* edge: wrangler secret put
PutWorker(o) ==
    /\ job[o].pc = "put"
    /\ worker' = job[o].data["EDGE_SHARED_SECRET"]
    /\ Ends(o)
    /\ UNCHANGED <<versions, role, tokens, torn>>

\* A call fails, or the script is stopped: Postgres rolls the open transaction back.
Stop(o) ==
    /\ job[o].pc # "idle"
    /\ torn' = (torn \/ (Provisions(o) /\ job[o].pc \in {"list", "destroy", "commit"}))
    /\ Ends(o)
    /\ UNCHANGED <<versions, role, worker, tokens>>

SecretsNext ==
    \E o \in Ops :
        \/ \E cmd \in Commands : Start(o, cmd)
        \/ RoleStatements(o) \/ Current(o) \/ AddVersion(o) \/ ListVersions(o)
        \/ DestroyVersion(o) \/ Pushed(o) \/ Commit(o) \/ PutWorker(o) \/ Stop(o)

-----------------------------------------------------------------------------
(* Properties                                                              *)

\* Wherever a script stopped: the secret can be read ("one version stays active"), it
\* never holds the developer's own database, the Worker and the service agree on the
\* edge secret, and the stored URL logs in unless a provision stopped after it had
\* written the secret; the next provision that completes repairs that.
SecretUsable ==
    /\ versions # << >> => Latest.enabled /\ Latest.data["DATABASE_URL"] # Local
    /\ worker # 0 => Latest.data["EDGE_SHARED_SECRET"] = worker
    /\ (\A o \in Ops : job[o].pc = "idle") /\ role # 0 /\ ~torn
          => Latest.data["DATABASE_URL"] = role

\* provision: "Postgres and dealfinder-env never disagree".
NeverDisagree ==
    (\A o \in Ops : job[o].pc = "idle") /\ role # 0
        => Latest.data["DATABASE_URL"] = role

=============================================================================
