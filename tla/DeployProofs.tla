---------------------------- MODULE DeployProofs ----------------------------
(***************************************************************************)
(* Migrations and database readiness, for any number of files, migrators    *)
(* and threads.  The files of a run are committed together, so the log      *)
(* holds none of them or all; RunsApart is what keeps two runs from         *)
(* putting the same file into effect.                                       *)
(***************************************************************************)
EXTENDS Deploy, TLAPS

RunRecord == [pc : {"off", "apply"}, done : SUBSET (1..Files), run : SUBSET (1..Files)]

AllOrNothing == log \in {{}, 1..Files}

\* A file is in effect once when it is in the log, and otherwise not at all.
InEffect == schema = [f \in 1..Files |-> IF f \in log THEN 1 ELSE 0]

RunsTyped == mig \in [Migrators -> RunRecord]

\* What a run has read is still in the log, and what it has run is not yet there.
RunsFollowLog ==
    \A m \in Migrators :
        /\ mig[m].done \in {{}, 1..Files}
        /\ mig[m].done \subseteq log
        /\ mig[m].run \cap log = {}

\* The key of the log: two open runs share no file.
RunsApart == \A m, n \in Migrators : m # n => mig[m].run \cap mig[n].run = {}

MigrateInv == AllOrNothing /\ InEffect /\ RunsTyped /\ RunsFollowLog /\ RunsApart

-----------------------------------------------------------------------------
LEMMA OffTyped == Off \in RunRecord
BY DEF Off, RunRecord

LEMMA MigrateInvInit == MigrateInit => MigrateInv
<1>1. SUFFICES ASSUME MigrateInit PROVE MigrateInv
  OBVIOUS
<1>2. RunsTyped
  BY <1>1, OffTyped DEF MigrateInit, RunsTyped
<1>3. RunsFollowLog /\ RunsApart
  BY <1>1 DEF MigrateInit, RunsFollowLog, RunsApart, Off
<1>4. AllOrNothing /\ InEffect
  BY <1>1 DEF MigrateInit, AllOrNothing, InEffect
<1> QED BY <1>2, <1>3, <1>4 DEF MigrateInv

\* A run that may commit either has run every file, over an empty log, or none.
LEMMA CommitsAllOrNothing ==
    ASSUME NEW m \in Migrators, MigrateInv, 1..Files \subseteq mig[m].done \cup mig[m].run
    PROVE  \/ mig[m].run = {}
           \/ mig[m].run = 1..Files /\ log = {}
<1>1. mig[m].run \subseteq 1..Files
  BY DEF MigrateInv, RunsTyped, RunRecord
<1>2. mig[m].done \in {{}, 1..Files} /\ mig[m].done \subseteq log /\ mig[m].run \cap log = {}
  BY DEF MigrateInv, RunsFollowLog
<1>3. CASE mig[m].done = {}
  <2>1. mig[m].run = 1..Files
    BY <1>1, <1>3
  <2>2. log \in {{}, 1..Files}
    BY DEF MigrateInv, AllOrNothing
  <2> QED BY <1>2, <2>1, <2>2
<1>4. CASE mig[m].done = 1..Files
  BY <1>1, <1>2, <1>4
<1> QED BY <1>2, <1>3, <1>4

\* A step that replaces one run by another that is well-formed, and leaves the log.
LEMMA ReplaceRun ==
    ASSUME MigrateInv, UNCHANGED <<log, schema>>, NEW m \in Migrators, NEW r \in RunRecord,
           mig' = [mig EXCEPT ![m] = r],
           r.done \in {{}, 1..Files}, r.done \subseteq log, r.run \cap log = {},
           \A n \in Migrators \ {m} : r.run \cap mig[n].run = {}
    PROVE  MigrateInv'
<1>1. mig \in [Migrators -> RunRecord]
  BY DEF MigrateInv, RunsTyped
<1>2. mig'[m] = r /\ \A n \in Migrators \ {m} : mig'[n] = mig[n]
  BY <1>1
<1>3. RunsTyped'
  BY <1>1 DEF RunsTyped
<1>4. RunsFollowLog'
  BY <1>2 DEF MigrateInv, RunsFollowLog
<1>5. RunsApart'
  BY <1>2 DEF MigrateInv, RunsApart
<1>6. AllOrNothing' /\ InEffect'
  BY DEF MigrateInv, AllOrNothing, InEffect
<1> QED BY <1>3, <1>4, <1>5, <1>6 DEF MigrateInv

LEMMA ReadLogKeeps == ASSUME MigrateInv, NEW m \in Migrators, ReadLog(m) PROVE MigrateInv'
<1> DEFINE r == [pc |-> "apply", done |-> log, run |-> {}]
<1>1. log \in {{}, 1..Files} /\ r \in RunRecord
  BY DEF MigrateInv, AllOrNothing, RunRecord
<1>2. mig' = [mig EXCEPT ![m] = r] /\ UNCHANGED <<log, schema>>
  BY DEF ReadLog
<1>3. r.done = log /\ r.run = {}
  OBVIOUS
<1> HIDE DEF r
<1> QED BY <1>1, <1>2, <1>3, ReplaceRun

LEMMA OffKeeps ==
    ASSUME MigrateInv, NEW m \in Migrators, mig' = [mig EXCEPT ![m] = Off], UNCHANGED <<log, schema>>
    PROVE  MigrateInv'
<1>1. Off.done = {} /\ Off.run = {}
  BY DEF Off
<1> QED BY <1>1, OffTyped, ReplaceRun

LEMMA RunFileKeeps == ASSUME MigrateInv, NEW m \in Migrators, RunFile(m) PROVE MigrateInv'
<1>1. PICK f \in 1..Files :
        /\ ~\E n \in Migrators \ {m} : f \in mig[n].run
        /\ mig' = [mig EXCEPT ![m] = IF Recorded(f) THEN Off
                                      ELSE [mig[m] EXCEPT !.run = @ \cup {f}]]
  BY DEF RunFile
<1>2. UNCHANGED <<log, schema>>
  BY DEF RunFile
<1>3. CASE Recorded(f)
  BY <1>1, <1>2, <1>3, OffKeeps
<1>4. CASE ~Recorded(f)
  <2> DEFINE r == [mig[m] EXCEPT !.run = @ \cup {f}]
  <2>1. mig[m] \in RunRecord
    BY DEF MigrateInv, RunsTyped
  <2>2. r \in RunRecord /\ r.done = mig[m].done /\ r.run = mig[m].run \cup {f}
    BY <2>1 DEF RunRecord
  <2>3. mig' = [mig EXCEPT ![m] = r]
    BY <1>1, <1>4
  <2>4. r.done \in {{}, 1..Files} /\ r.done \subseteq log
    BY <2>2 DEF MigrateInv, RunsFollowLog
  <2>5. f \notin log /\ mig[m].run \cap log = {}
    BY <1>4 DEF Recorded, MigrateInv, RunsFollowLog
  <2>6. r.run \cap log = {}
    BY <2>2, <2>5
  <2>7. \A n \in Migrators \ {m} : r.run \cap mig[n].run = {}
    <3>1. \A n \in Migrators \ {m} : mig[m].run \cap mig[n].run = {} /\ f \notin mig[n].run
      BY <1>1 DEF MigrateInv, RunsApart
    <3> QED BY <3>1, <2>2
  <2> HIDE DEF r
  <2> QED BY <1>2, <2>2, <2>3, <2>4, <2>6, <2>7, ReplaceRun
<1> QED BY <1>3, <1>4

LEMMA CommitRunKeeps == ASSUME MigrateInv, NEW m \in Migrators, CommitRun(m) PROVE MigrateInv'
<1>1. /\ log' = log \cup mig[m].run
      /\ schema' = [f \in 1..Files |-> IF f \in mig[m].run THEN schema[f] + 1 ELSE schema[f]]
      /\ mig' = [mig EXCEPT ![m] = Off]
  BY DEF CommitRun
<1>2. \/ mig[m].run = {}
      \/ mig[m].run = 1..Files /\ log = {}
  BY CommitsAllOrNothing DEF CommitRun
<1>3. CASE mig[m].run = {}
  <2>1. log' = log
    BY <1>1, <1>3
  <2>2. schema' = schema
    BY <1>1, <1>3 DEF MigrateInv, InEffect
  <2> QED BY <1>1, <2>1, <2>2, OffKeeps
<1>4. CASE mig[m].run = 1..Files /\ log = {}
  <2>1. log' = 1..Files
    BY <1>1, <1>4
  <2>2. AllOrNothing' /\ InEffect'
    BY <1>1, <1>4, <2>1 DEF MigrateInv, InEffect, AllOrNothing
  <2>3. mig \in [Migrators -> RunRecord]
    BY DEF MigrateInv, RunsTyped
  <2>4. mig'[m] = Off /\ \A n \in Migrators \ {m} : mig'[n] = mig[n]
    BY <1>1, <2>3
  <2>5. RunsTyped'
    BY <1>1, <2>3, OffTyped DEF RunsTyped
  <2>6. \A n \in Migrators \ {m} : mig[n].run = {} /\ mig[n].done = {}
    <3>1. SUFFICES ASSUME NEW n \in Migrators \ {m} PROVE mig[n].run = {} /\ mig[n].done = {}
      OBVIOUS
    <3>2. mig[n].done \subseteq log
      BY DEF MigrateInv, RunsFollowLog
    <3>3. mig[n].run \subseteq 1..Files
      BY <2>3 DEF RunRecord
    <3>4. mig[m].run \cap mig[n].run = {}
      BY DEF MigrateInv, RunsApart
    <3> QED BY <1>4, <3>2, <3>3, <3>4
  <2>7. \A n \in Migrators : mig'[n].run = {} /\ mig'[n].done = {}
    BY <2>4, <2>6 DEF Off
  <2>8. RunsFollowLog' /\ RunsApart'
    BY <2>7 DEF RunsFollowLog, RunsApart
  <2> QED BY <2>2, <2>5, <2>8 DEF MigrateInv
<1> QED BY <1>2, <1>3, <1>4

LEMMA MigrateInvStep == MigrateInv /\ [MigrateNext]_migrateVars => MigrateInv'
<1>1. SUFFICES ASSUME MigrateInv, [MigrateNext]_migrateVars PROVE MigrateInv'
  OBVIOUS
<1>2. CASE UNCHANGED migrateVars
  BY <1>1, <1>2 DEF migrateVars, MigrateInv, AllOrNothing, InEffect, RunsTyped, RunsFollowLog, RunsApart
<1>3. ASSUME NEW m \in Migrators, ReadLog(m) PROVE MigrateInv'
  BY <1>1, <1>3, ReadLogKeeps
<1>4. ASSUME NEW m \in Migrators, RunFile(m) PROVE MigrateInv'
  BY <1>1, <1>4, RunFileKeeps
<1>5. ASSUME NEW m \in Migrators, CommitRun(m) PROVE MigrateInv'
  BY <1>1, <1>5, CommitRunKeeps
<1>6. ASSUME NEW m \in Migrators, AbortRun(m) PROVE MigrateInv'
  BY <1>1, <1>6, OffKeeps DEF AbortRun
<1> QED BY <1>1, <1>2, <1>3, <1>4, <1>5, <1>6 DEF MigrateNext

-----------------------------------------------------------------------------
\* Only a run that commits changes the schema: from none of the files to all.
LEMMA CommitUpgrades ==
    ASSUME MigrateInv, NEW m \in Migrators, CommitRun(m)
    PROVE  [Level!Upgrade]_schema
<1>1. schema' = [f \in 1..Files |-> IF f \in mig[m].run THEN schema[f] + 1 ELSE schema[f]]
  BY DEF CommitRun
<1>2. schema = [f \in 1..Files |-> IF f \in log THEN 1 ELSE 0]
  BY DEF MigrateInv, InEffect
<1>3. CASE mig[m].run = {}
  BY <1>1, <1>2, <1>3
<1>4. CASE mig[m].run = 1..Files /\ log = {}
  <2>1. schema = Level!At(0)
    BY <1>2, <1>4, MigrateAssumption DEF Level!At
  <2>2. schema' = Level!At(Files)
    BY <1>1, <1>2, <1>4, MigrateAssumption DEF Level!At
  <2>3. CASE Files = 0
    BY <2>1, <2>2, <2>3
  <2>4. CASE Files # 0
    BY <2>1, <2>2, <2>4, MigrateAssumption DEF Level!Upgrade
  <2> QED BY <2>3, <2>4
<1> QED BY <1>3, <1>4, CommitsAllOrNothing DEF CommitRun

LEMMA StepUpgrades == MigrateInv /\ [MigrateNext]_migrateVars => [Level!Upgrade]_schema
<1>1. SUFFICES ASSUME MigrateInv, [MigrateNext]_migrateVars PROVE [Level!Upgrade]_schema
  OBVIOUS
<1>2. CASE UNCHANGED migrateVars
  BY <1>2 DEF migrateVars
<1>3. ASSUME NEW m \in Migrators, CommitRun(m) PROVE [Level!Upgrade]_schema
  BY <1>1, <1>3, CommitUpgrades
<1>4. ASSUME NEW m \in Migrators, ReadLog(m) \/ RunFile(m) \/ AbortRun(m) PROVE UNCHANGED schema
  BY <1>4 DEF ReadLog, RunFile, AbortRun
<1> QED BY <1>1, <1>2, <1>3, <1>4 DEF MigrateNext

LEMMA InitIsLevelZero == MigrateInit => Level!Init
BY MigrateAssumption DEF MigrateInit, Level!Init, Level!At

\* The runs of migrate.py implement SchemaLevel: any number of runs at once, each
\* stopped anywhere, leave the schema of the first n files, and n only rises.
THEOREM RunsImplementLevel == MigrateSpec => LevelRises
<1>1. MigrateInit => MigrateInv
  BY MigrateInvInit
<1>2. MigrateInv /\ [MigrateNext]_migrateVars => MigrateInv'
  BY MigrateInvStep
<1>3. MigrateInit => Level!Init
  BY InitIsLevelZero
<1>4. MigrateInv /\ [MigrateNext]_migrateVars => [Level!Upgrade]_schema
  BY StepUpgrades
<1> QED BY <1>1, <1>2, <1>3, <1>4, PTL DEF MigrateSpec, LevelRises, Level!Spec

-----------------------------------------------------------------------------
\* An answer in _DB, or still on its way to it, was given by a complete log.
ReadyIsKnown ==
    /\ "db" \in DOMAIN inst
    /\ inst.db \in BOOLEAN
    /\ inst.db => SchemaReady
    /\ check \in [Threads -> [what : {"none", "recheck", "readyz"}, ok : BOOLEAN]]
    /\ \A t \in Threads : check[t].ok => SchemaReady

DeployInv == MigrateInv /\ ReadyIsKnown

LEMMA DeployInvInit == DeployInit => DeployInv
BY MigrateInvInit DEF DeployInit, DeployInv, ReadyIsKnown, Down, NoCheck

\* No run takes a file out of the log.
LEMMA StaysReady == SchemaReady /\ [MigrateNext]_migrateVars => SchemaReady'
<1>1. [MigrateNext]_migrateVars => log \subseteq log'
  BY DEF MigrateNext, ReadLog, RunFile, CommitRun, AbortRun, migrateVars
<1> QED BY <1>1 DEF SchemaReady

\* A step that leaves the instance and its checks.
LEMMA OperatorKeeps ==
    ASSUME ReadyIsKnown, [MigrateNext]_migrateVars, UNCHANGED <<inst, check>>
    PROVE  ReadyIsKnown'
BY StaysReady DEF ReadyIsKnown

\* The readiness checks, in any order and however late.
LEMMA ServingKeeps ==
    ASSUME ReadyIsKnown, UNCHANGED migrateVars, Serving
    PROVE  ReadyIsKnown'
<1>1. SchemaReady' = SchemaReady
  BY DEF migrateVars, SchemaReady
<1>2. NoCheck \in [what : {"none", "recheck", "readyz"}, ok : BOOLEAN] /\ ~NoCheck.ok
  BY DEF NoCheck
<1>3. CASE Outage
  BY <1>1, <1>3 DEF Outage, ReadyIsKnown
<1>4. CASE Boot
  <2>1. PICK u : inst' = [on |-> TRUE, url |-> u, db |-> Usable(u)]
    BY <1>4 DEF Boot
  <2>2. "db" \in DOMAIN inst' /\ inst'.db = Usable(u)
    BY <2>1
  <2>3. Usable(u) \in BOOLEAN /\ (Usable(u) => SchemaReady)
    BY DEF Usable
  <2> QED BY <1>1, <1>4, <2>2, <2>3 DEF Boot, ReadyIsKnown
<1>5. CASE Shutdown
  <2>1. "db" \in DOMAIN inst' /\ inst'.db = FALSE /\ check' = [t \in Threads |-> NoCheck]
    BY <1>5 DEF Shutdown, Down
  <2> QED BY <1>2, <2>1 DEF ReadyIsKnown
<1>6. ASSUME NEW t \in Threads, NEW what \in {"recheck", "readyz"}, NEW ok \in BOOLEAN,
             ok => SchemaReady, UNCHANGED inst,
             check' = [check EXCEPT ![t] = [what |-> what, ok |-> ok]]
      PROVE  ReadyIsKnown'
  BY <1>1, <1>6 DEF ReadyIsKnown
<1>7. ASSUME NEW t \in Threads, BeginRecheck(t) PROVE ReadyIsKnown'
  BY <1>6, <1>7 DEF BeginRecheck, Usable
<1>8. ASSUME NEW t \in Threads, BeginReadyz(t) PROVE ReadyIsKnown'
  BY <1>6, <1>8 DEF BeginReadyz, Usable
<1>9. ASSUME NEW t \in Threads, EndCheck(t) PROVE ReadyIsKnown'
  BY <1>1, <1>2, <1>9 DEF EndCheck, ReadyIsKnown
<1> QED BY <1>3, <1>4, <1>5, <1>7, <1>8, <1>9 DEF Serving

\* Scripts and instances leave the log, the schema and the runs alone.
LEMMA DeployStepMigrates == [DeployNext]_deployVars => [MigrateNext]_migrateVars
BY DEF DeployNext, Serving, Outage, Boot, Shutdown, BeginRecheck, BeginReadyz, EndCheck, deployVars, migrateVars

LEMMA DeployInvStep == DeployInv /\ [DeployNext]_deployVars => DeployInv'
<1>1. SUFFICES ASSUME DeployInv, [DeployNext]_deployVars PROVE DeployInv'
  OBVIOUS
<1>2. [MigrateNext]_migrateVars
  BY <1>1, DeployStepMigrates
<1>3. MigrateInv'
  BY <1>1, <1>2, MigrateInvStep DEF DeployInv
<1>4. UNCHANGED <<inst, check>> \/ (Serving /\ UNCHANGED migrateVars)
  BY <1>1 DEF DeployNext, Serving, Outage, Boot, Shutdown, BeginRecheck, BeginReadyz, EndCheck, deployVars
<1>5. ReadyIsKnown'
  BY <1>1, <1>2, <1>4, OperatorKeeps, ServingKeeps DEF DeployInv
<1> QED BY <1>3, <1>5 DEF DeployInv

LEMMA DeployInvImplies == DeployInv => NoAccountsBeforeSchema
<1>1. SUFFICES ASSUME DeployInv, inst.db, NEW f \in 1..Files PROVE schema[f] = 1
  BY DEF NoAccountsBeforeSchema
<1>2. f \in log
  BY <1>1 DEF DeployInv, ReadyIsKnown, SchemaReady
<1> QED BY <1>1, <1>2 DEF DeployInv, MigrateInv, InEffect

\* "Serving never migrates" (serve.py): whatever checks, outages, restarts, rotations
\* and migration runs meet, an instance that uses the database meets the whole schema,
\* each file of it in effect once.
THEOREM SchemaBeforeAccounts == Spec => []NoAccountsBeforeSchema
<1>1. DeployInit => DeployInv
  BY DeployInvInit
<1>2. DeployInv /\ [DeployNext]_deployVars => DeployInv'
  BY DeployInvStep
<1>3. DeployInv => NoAccountsBeforeSchema
  BY DeployInvImplies
<1> QED BY <1>1, <1>2, <1>3, PTL DEF Spec

\* The same promise of the whole system: beside scripts, checks and restarts the
\* schema is still that of the first n files, and n only rises.
THEOREM DeployImplementsLevel == Spec => LevelRises
<1>1. DeployInit => MigrateInit
  BY DEF DeployInit
<1>2. Spec => MigrateSpec
  BY <1>1, DeployStepMigrates, PTL DEF Spec, MigrateSpec
<1> QED BY <1>2, RunsImplementLevel

-----------------------------------------------------------------------------
(* The operator's scripts                                                  *)

Provisioning == {"create", "rotate"}
JobRecord ==
    [cmd : Commands \cup {"none"}, data : [Keys -> Nat], new : Nat, todo : SUBSET Nat,
     pc : {"idle", "ddl", "read", "add", "list", "destroy", "commit", "put"}]
VersionRecord == [data : [Keys -> Nat], enabled : BOOLEAN]

SecretsTyped ==
    /\ versions \in Seq(VersionRecord)
    /\ role \in Nat /\ worker \in Nat /\ tokens \in Nat /\ torn \in BOOLEAN
    /\ job \in [Ops -> JobRecord]

Stored == Len(versions) > 0
URL(data) == data["DATABASE_URL"]
Edge(data) == data["EDGE_SHARED_SECRET"]

\* A provision has written the secret and not yet committed the password.
Between(j) == j.cmd \in Provisioning /\ j.pc \in {"list", "destroy", "commit"}

\* What a script has read, and goes on to write, still agrees with the secret.
JobFits(j) ==
    /\ j.pc # "idle" => j.cmd \in Commands
    /\ j.pc \in {"ddl", "commit"} => j.cmd \in Provisioning
    /\ j.pc \in {"ddl", "read"} /\ j.cmd \in Provisioning => j.new \in 1..MaxTokens
    /\ j.pc = "add" =>
        /\ URL(j.data) # Local
        /\ worker # 0 => Edge(j.data) = worker
        /\ j.cmd \notin Provisioning /\ Stored => URL(j.data) = URL(Latest.data)
    /\ j.pc = "list" => Stored /\ j.new = Len(versions)
    /\ j.pc = "destroy" => Stored /\ j.todo \subseteq 1..(Len(versions) - 1)
    /\ Between(j) => Stored /\ j.data = Latest.data
    /\ j.pc = "put" => Stored /\ Edge(j.data) = Edge(Latest.data)

\* The latest version is active and holds what the Worker and the role hold.
StoreFits ==
    /\ Stored => Latest.enabled /\ URL(Latest.data) # Local
    /\ worker # 0 => Stored /\ Edge(Latest.data) = worker
    /\ role # 0 => Stored
    /\ role # 0 /\ ~torn /\ (\A o \in Ops : ~Between(job[o])) => URL(Latest.data) = role

SecretInv == SecretsTyped /\ (\A o \in Ops : JobFits(job[o])) /\ StoreFits

LEMMA EmptyTyped == Empty \in [Keys -> Nat] /\ Idle \in JobRecord /\ Idle.pc = "idle"
BY DEF Empty, Idle, JobRecord

LEMMA StoredNonEmpty ==
    ASSUME versions \in Seq(VersionRecord)
    PROVE  /\ versions # << >> <=> Stored
           /\ Stored => Latest \in VersionRecord /\ Latest.data \in [Keys -> Nat]
<1>1. Stored => Latest \in VersionRecord
  BY DEF Stored, Latest
<1>2. versions # << >> <=> Stored
  BY DEF Stored
<1> QED BY <1>1, <1>2 DEF VersionRecord

LEMMA SecretInvInit == SecretsInit => SecretInv
<1> SUFFICES ASSUME SecretsInit PROVE SecretInv
  OBVIOUS
<1>1. versions = << >> /\ Len(versions) = 0 /\ versions \in Seq(VersionRecord)
  BY DEF SecretsInit
<1>2. SecretsTyped
  BY <1>1, EmptyTyped DEF SecretsInit, SecretsTyped
<1>3. ~Stored
  BY <1>1 DEF Stored
<1>4. \A o \in Ops : job[o] = Idle
  BY DEF SecretsInit
<1>5. \A o \in Ops : JobFits(job[o])
  BY <1>3, <1>4, EmptyTyped DEF JobFits, Between
<1>6. StoreFits
  BY <1>3 DEF SecretsInit, StoreFits
<1> QED BY <1>2, <1>5, <1>6 DEF SecretInv

\* A step of the only operator that leaves the secret, the Worker and the role.
LEMMA OnlyJob ==
    ASSUME NEW op, Ops = {op}, SecretInv, UNCHANGED <<versions, role, worker>>,
           NEW j \in JobRecord, job' = [job EXCEPT ![op] = j],
           tokens' \in Nat, torn' \in BOOLEAN,
           JobFits(j), ~torn' /\ ~Between(j) => ~torn /\ ~Between(job[op])
    PROVE  SecretInv'
<1>1. job' \in [Ops -> JobRecord] /\ job'[op] = j
  BY DEF SecretInv, SecretsTyped
<1>2. SecretsTyped'
  BY <1>1 DEF SecretInv, SecretsTyped
<1>3. Stored' = Stored /\ Latest' = Latest
  BY DEF Stored, Latest
<1>4. JobFits(job[op])'
  BY <1>1, <1>3 DEF JobFits, Between
<1>5. StoreFits'
  <2>1. /\ Stored' => Latest'.enabled /\ URL(Latest'.data) # Local
        /\ worker' # 0 => Stored' /\ Edge(Latest'.data) = worker'
        /\ role' # 0 => Stored'
    BY <1>3 DEF SecretInv, StoreFits
  <2>2. ASSUME role' # 0, ~torn', ~Between(job'[op]) PROVE URL(Latest'.data) = role'
    BY <1>1, <1>3, <2>2 DEF SecretInv, StoreFits
  <2> QED BY <2>1, <2>2 DEF StoreFits
<1> QED BY <1>2, <1>4, <1>5 DEF SecretInv

LEMMA EndsKeeps ==
    ASSUME NEW op, Ops = {op}, SecretInv, UNCHANGED <<versions, role, worker, tokens>>,
           Ends(op), torn' \in BOOLEAN, torn' = (torn \/ Between(job[op]))
    PROVE  SecretInv'
<1>1. job' = [job EXCEPT ![op] = Idle]
  BY DEF Ends
<1>2. JobFits(Idle) /\ ~Between(Idle)
  BY EmptyTyped DEF JobFits, Between
<1>3. tokens' \in Nat
  BY DEF SecretInv, SecretsTyped
<1> QED BY <1>1, <1>2, <1>3, EmptyTyped, OnlyJob

LEMMA StartKeeps ==
    ASSUME NEW op, Ops = {op}, SecretInv, NEW cmd \in Commands, Start(op, cmd)
    PROVE  SecretInv'
<1> DEFINE provision == cmd \in Provisioning
           j == [Idle EXCEPT !.cmd = cmd,
                             !.pc = IF cmd \in {"push", "edge"} THEN "read" ELSE "ddl",
                             !.new = IF provision THEN tokens + 1 ELSE 0]
<1>1. job' = [job EXCEPT ![op] = j] /\ UNCHANGED <<versions, role, worker, torn>>
  BY DEF Start, Provisioning
<1>2. tokens \in Nat /\ tokens' \in Nat /\ torn' \in BOOLEAN
  BY DEF Start, SecretInv, SecretsTyped
<1>3. j \in JobRecord
  <2>1. (IF provision THEN tokens + 1 ELSE 0) \in Nat
    BY <1>2
  <2>2. cmd \in Commands \cup {"none"}
    OBVIOUS
  <2> HIDE DEF provision
  <2> QED BY <2>1, <2>2, EmptyTyped DEF JobRecord
<1>4. /\ j.cmd = cmd /\ j.pc = (IF cmd \in {"push", "edge"} THEN "read" ELSE "ddl")
      /\ j.new = (IF provision THEN tokens + 1 ELSE 0)
  BY EmptyTyped DEF JobRecord
<1>5. provision => tokens < MaxTokens
  BY DEF Start, Provisioning
<1> HIDE DEF j
<1>6. JobFits(j) /\ ~Between(j)
  BY <1>2, <1>4, <1>5, SecretsAssumption DEF JobFits, Between, Commands, Provisioning
<1>7. job[op].pc = "idle" /\ ~Between(job[op])
  BY DEF Start, Between
<1> QED BY <1>1, <1>2, <1>3, <1>6, <1>7, OnlyJob

LEMMA RoleStatementsKeeps ==
    ASSUME NEW op, Ops = {op}, SecretInv, RoleStatements(op)
    PROVE  SecretInv'
<1> DEFINE j == [job[op] EXCEPT !.pc = "read"]
<1>1. job[op] \in JobRecord /\ JobFits(job[op]) /\ job[op].pc = "ddl"
  BY DEF RoleStatements, SecretInv, SecretsTyped
<1>2. ~Between(job[op])
  BY <1>1 DEF Between
<1>3. UNCHANGED <<versions, role, worker, tokens, torn>> /\ torn' \in BOOLEAN /\ tokens' \in Nat
  BY DEF RoleStatements, SecretInv, SecretsTyped
<1>4. CASE Ends(op)
  BY <1>2, <1>3, <1>4, EndsKeeps
<1>5. CASE Run(op, "read")
  <2>1. job' = [job EXCEPT ![op] = j]
    BY <1>5 DEF Run
  <2>2. j \in JobRecord /\ j.pc = "read" /\ j.cmd = job[op].cmd /\ j.new = job[op].new
    BY <1>1 DEF JobRecord
  <2> HIDE DEF j
  <2>3. JobFits(j) /\ ~Between(j)
    BY <1>1, <2>2 DEF JobFits, Between, Provisioning, Commands
  <2> QED BY <1>2, <1>3, <2>1, <2>2, <2>3, OnlyJob
<1> QED BY <1>4, <1>5 DEF RoleStatements

\* The payload of a provision changes the URL alone, that of a push does not touch it.
LEMMA Payloads ==
    ASSUME NEW stored \in [Keys -> Nat], NEW new \in Nat \ {0}, NEW fresh \in Nat
    PROVE  LET moved == Merge(stored, [Empty EXCEPT !["DATABASE_URL"] = new])
               all == SetDefault(Merge(stored, FromFile(EnvFile)), fresh) IN
           /\ moved \in [Keys -> Nat] /\ URL(moved) = new /\ Edge(moved) = Edge(stored)
           /\ all \in [Keys -> Nat] /\ URL(all) = URL(stored)
           /\ Edge(stored) # 0 => Edge(all) = Edge(stored)
<1>1. Empty \in [Keys -> Nat] /\ \A k \in Keys : Empty[k] = 0
  BY DEF Empty
<1>2. Local \in Nat
  BY SecretsAssumption DEF Local
<1>3. /\ EnvFile \in [Keys -> Nat] /\ EnvFile["EDGE_SHARED_SECRET"] = 0
  BY <1>1, <1>2 DEF EnvFile, Keys
<1>4. /\ FromFile(EnvFile) \in [Keys -> Nat] /\ FromFile(EnvFile)["DATABASE_URL"] = 0
      /\ FromFile(EnvFile)["EDGE_SHARED_SECRET"] = 0
  BY <1>3 DEF FromFile, NeverFromEnvFile, Keys
<1> DEFINE one == [Empty EXCEPT !["DATABASE_URL"] = new]
           some == FromFile(EnvFile)
<1>5. one \in [Keys -> Nat] /\ one["DATABASE_URL"] = new /\ one["EDGE_SHARED_SECRET"] = 0
  BY <1>1 DEF Keys
<1> HIDE DEF one, some
<1>6. Merge(stored, one) \in [Keys -> Nat] /\ URL(Merge(stored, one)) = new
      /\ Edge(Merge(stored, one)) = Edge(stored)
  BY <1>5 DEF Merge, URL, Edge, Keys
<1>7. Merge(stored, some) \in [Keys -> Nat] /\ URL(Merge(stored, some)) = URL(stored)
      /\ Edge(Merge(stored, some)) = Edge(stored)
  BY <1>4 DEF Merge, URL, Edge, Keys, some
<1>8. /\ SetDefault(Merge(stored, some), fresh) \in [Keys -> Nat]
      /\ URL(SetDefault(Merge(stored, some), fresh)) = URL(Merge(stored, some))
      /\ Edge(Merge(stored, some)) # 0
           => Edge(SetDefault(Merge(stored, some), fresh)) = Edge(Merge(stored, some))
  BY <1>7 DEF SetDefault, URL, Edge, Keys, Generated
<1> QED BY <1>6, <1>7, <1>8 DEF one, some

LEMMA CurrentKeeps ==
    ASSUME NEW op, Ops = {op}, SecretInv, Current(op)
    PROVE  SecretInv'
<1> DEFINE stored == IF versions = << >> THEN Empty ELSE Latest.data
           r == job[op]
<1>1. r \in JobRecord /\ JobFits(r) /\ r.pc = "read" /\ ~Between(r)
  BY DEF Current, SecretInv, SecretsTyped, Between
<1>2. /\ stored \in [Keys -> Nat]
      /\ URL(stored) # Local /\ (Stored => stored = Latest.data)
      /\ (~Stored => URL(stored) = 0 /\ Edge(stored) = 0) /\ (worker # 0 => Edge(stored) = worker)
  <2>1. Local # 0
    BY SecretsAssumption DEF Local
  <2>2. URL(Empty) = 0 /\ Edge(Empty) = 0
    BY DEF Empty, Keys, URL, Edge
  <2>3. versions # << >> <=> Stored
    BY StoredNonEmpty DEF SecretInv, SecretsTyped
  <2>4. Stored => Latest.data \in [Keys -> Nat]
    BY StoredNonEmpty DEF SecretInv, SecretsTyped
  <2> QED BY <2>1, <2>2, <2>3, <2>4, EmptyTyped DEF SecretInv, StoreFits
<1>3. /\ UNCHANGED <<versions, role, worker, torn>> /\ torn' \in BOOLEAN
      /\ tokens \in Nat /\ tokens' \in Nat
  BY DEF Current, SecretInv, SecretsTyped
<1> HIDE DEF stored
<1>4. ASSUME r.cmd \in Provisioning,
             job' = [job EXCEPT ![op].pc = "add",
                     ![op].data = Merge(stored, [Empty EXCEPT !["DATABASE_URL"] = r.new])]
      PROVE  SecretInv'
  <2> DEFINE data == Merge(stored, [Empty EXCEPT !["DATABASE_URL"] = r.new])
             j == [r EXCEPT !.pc = "add", !.data = data]
  <2>1. r.new \in Nat \ {0} /\ r.new # Local
    BY <1>1, <1>4, SecretsAssumption DEF JobFits, Local
  <2>2. data \in [Keys -> Nat] /\ URL(data) = r.new /\ Edge(data) = Edge(stored)
    BY <1>2, <2>1, Payloads
  <2>3. job' = [job EXCEPT ![op] = j]
    BY <1>4
  <2> HIDE DEF data
  <2>4. j \in JobRecord /\ j.pc = "add" /\ j.cmd = r.cmd /\ j.data = data
    BY <1>1, <2>2 DEF JobRecord
  <2> HIDE DEF j
  <2>5. JobFits(j) /\ ~Between(j)
    BY <1>1, <1>2, <1>4, <2>1, <2>2, <2>4 DEF JobFits, Between
  <2> QED BY <1>1, <1>3, <2>3, <2>4, <2>5, OnlyJob
<1>5. ASSUME r.cmd = "push",
             job' = [job EXCEPT ![op].pc = "add",
                     ![op].data = SetDefault(Merge(stored, FromFile(EnvFile)), tokens + 1)]
      PROVE  SecretInv'
  <2> DEFINE data == SetDefault(Merge(stored, FromFile(EnvFile)), tokens + 1)
             j == [r EXCEPT !.pc = "add", !.data = data]
  <2>1. tokens + 1 \in Nat /\ 1 \in Nat \ {0}
    BY <1>3
  <2>2. /\ data \in [Keys -> Nat] /\ URL(data) = URL(stored)
        /\ Edge(stored) # 0 => Edge(data) = Edge(stored)
    BY <1>2, <2>1, Payloads
  <2>3. job' = [job EXCEPT ![op] = j]
    BY <1>5
  <2> HIDE DEF data
  <2>4. j \in JobRecord /\ j.pc = "add" /\ j.cmd = r.cmd /\ j.data = data
    BY <1>1, <2>2 DEF JobRecord
  <2> HIDE DEF j
  <2>5. JobFits(j) /\ ~Between(j)
    BY <1>1, <1>2, <1>5, <2>2, <2>4 DEF JobFits, Between
  <2> QED BY <1>1, <1>3, <2>3, <2>4, <2>5, OnlyJob
<1>6. ASSUME r.cmd = "edge", Edge(stored) # 0, UNCHANGED tokens,
             job' = [job EXCEPT ![op].pc = "put", ![op].data = stored]
      PROVE  SecretInv'
  <2> DEFINE j == [r EXCEPT !.pc = "put", !.data = stored]
  <2>1. job' = [job EXCEPT ![op] = j]
    BY <1>6
  <2>2. j \in JobRecord /\ j.pc = "put" /\ j.cmd = r.cmd /\ j.data = stored
    BY <1>1, <1>2 DEF JobRecord
  <2> HIDE DEF j
  <2>3. JobFits(j) /\ ~Between(j)
    BY <1>1, <1>2, <1>6, <2>2 DEF JobFits, Between
  <2> QED BY <1>1, <1>3, <2>1, <2>2, <2>3, OnlyJob
<1>7. CASE Ends(op) /\ UNCHANGED tokens
  BY <1>1, <1>3, <1>7, EndsKeeps
<1> QED BY <1>4, <1>5, <1>6, <1>7, Zenon DEF Current, Provisions, Provisioning, stored, Edge

\* versions add: the new version becomes the latest one.
LEMMA AddVersionKeeps ==
    ASSUME NEW op, Ops = {op}, SecretInv, AddVersion(op)
    PROVE  SecretInv'
<1> DEFINE r == job[op]
           e == [data |-> r.data, enabled |-> TRUE]
           n == Len(versions)
           j == [r EXCEPT !.pc = "list", !.new = n + 1]
<1>1. r \in JobRecord /\ JobFits(r) /\ r.pc = "add" /\ ~Between(r)
  BY DEF AddVersion, SecretInv, SecretsTyped, Between
<1>2. versions \in Seq(VersionRecord) /\ n \in Nat
  BY DEF SecretInv, SecretsTyped
<1>3. versions' = Append(versions, e) /\ UNCHANGED <<role, worker, tokens, torn>>
  BY DEF AddVersion
<1>4. e \in VersionRecord /\ e.data = r.data /\ e.enabled
  BY <1>1 DEF VersionRecord, JobRecord
<1> HIDE DEF e
<1>5. versions' \in Seq(VersionRecord) /\ Len(versions') = n + 1 /\ versions'[n + 1] = e
  BY <1>2, <1>3, <1>4
<1>6. Stored' /\ Latest' = e
  BY <1>2, <1>5 DEF Stored, Latest
<1>7. job' = [job EXCEPT ![op] = j]
  BY DEF AddVersion
<1>8. j \in JobRecord /\ j.pc = "list" /\ j.new = n + 1 /\ j.cmd = r.cmd /\ j.data = r.data
  <2>1. n + 1 \in Nat
    BY <1>2
  <2> HIDE DEF n
  <2> QED BY <1>1, <2>1 DEF JobRecord
<1> HIDE DEF j
<1>9. job' \in [Ops -> JobRecord] /\ job'[op] = j
  BY <1>7, <1>8 DEF SecretInv, SecretsTyped
<1>10. SecretsTyped'
  BY <1>3, <1>5, <1>9 DEF SecretInv, SecretsTyped
<1>11. JobFits(job[op])'
  BY <1>1, <1>4, <1>5, <1>6, <1>8, <1>9 DEF JobFits, Between
<1>12. StoreFits'
  <2>1. URL(Latest'.data) # Local /\ Latest'.enabled /\ (worker' # 0 => Edge(Latest'.data) = worker')
    BY <1>1, <1>3, <1>4, <1>6 DEF JobFits
  <2>2. ASSUME role' # 0, ~torn', ~Between(job'[op]) PROVE URL(Latest'.data) = role'
    <3>1. r.cmd \notin Provisioning
      BY <2>2, <1>8, <1>9 DEF Between
    <3>2. Stored /\ URL(Latest.data) = role
      BY <1>1, <1>3, <2>2 DEF SecretInv, StoreFits
    <3> QED BY <1>1, <1>3, <1>4, <1>6, <3>1, <3>2 DEF JobFits
  <2> QED BY <1>6, <2>1, <2>2 DEF StoreFits
<1> QED BY <1>10, <1>11, <1>12 DEF SecretInv

LEMMA ListVersionsKeeps ==
    ASSUME NEW op, Ops = {op}, SecretInv, ListVersions(op)
    PROVE  SecretInv'
<1> DEFINE r == job[op]
           j == [r EXCEPT !.pc = "destroy", !.todo = Others(r.new)]
<1>1. r \in JobRecord /\ JobFits(r) /\ r.pc = "list"
  BY DEF ListVersions, SecretInv, SecretsTyped
<1>2. Stored /\ r.new = Len(versions) /\ Len(versions) \in Nat
  BY <1>1 DEF JobFits, SecretInv, SecretsTyped
<1>3. Others(r.new) \subseteq 1..(Len(versions) - 1) /\ Others(r.new) \in SUBSET Nat
  BY <1>2 DEF Others
<1>4. job' = [job EXCEPT ![op] = j] /\ UNCHANGED <<versions, role, worker, tokens, torn>>
  BY DEF ListVersions
<1>5. /\ j \in JobRecord /\ j.pc = "destroy" /\ j.cmd = r.cmd /\ j.data = r.data
      /\ j.todo = Others(r.new)
  BY <1>1, <1>3 DEF JobRecord
<1> HIDE DEF j
<1>6. JobFits(j) /\ (Between(j) <=> Between(r))
  BY <1>1, <1>2, <1>3, <1>5 DEF JobFits, Between
<1>7. tokens' \in Nat /\ torn' \in BOOLEAN
  BY <1>4 DEF SecretInv, SecretsTyped
<1> QED BY <1>4, <1>5, <1>6, <1>7, OnlyJob

\* versions destroy: never the version the script has added, which is still the latest.
LEMMA DestroyVersionKeeps ==
    ASSUME NEW op, Ops = {op}, SecretInv, DestroyVersion(op)
    PROVE  SecretInv'
<1> DEFINE r == job[op]
           n == Len(versions)
<1>1. r \in JobRecord /\ JobFits(r) /\ r.pc = "destroy"
  BY DEF DestroyVersion, SecretInv, SecretsTyped
<1>2. versions \in Seq(VersionRecord) /\ n \in Nat /\ Stored /\ r.todo \subseteq 1..(n - 1)
  BY <1>1 DEF SecretInv, SecretsTyped, JobFits
<1>3. PICK v \in r.todo : /\ versions' = [versions EXCEPT ![v].enabled = FALSE]
                          /\ job' = [job EXCEPT ![op].todo = r.todo \ {v}]
  BY DEF DestroyVersion
<1>4. v \in 1..n /\ v # n /\ n \in 1..n
  BY <1>2, <1>3 DEF Stored
<1>5. versions' \in Seq(VersionRecord) /\ Len(versions') = n /\ versions'[n] = versions[n]
  <2>1. versions[v] \in VersionRecord
    BY <1>2, <1>4
  <2>2. [versions[v] EXCEPT !.enabled = FALSE] \in VersionRecord
    BY <2>1 DEF VersionRecord
  <2>3. versions' = [versions EXCEPT ![v] = [versions[v] EXCEPT !.enabled = FALSE]]
    BY <1>3
  <2> QED BY <1>2, <1>4, <2>2, <2>3
<1>6. Stored' /\ Stored /\ Latest' = Latest
  BY <1>2, <1>5 DEF Stored, Latest
<1> DEFINE j == [r EXCEPT !.todo = r.todo \ {v}]
<1>7. job' = [job EXCEPT ![op] = j]
  BY <1>3
<1>8. /\ j \in JobRecord /\ j.pc = "destroy" /\ j.cmd = r.cmd /\ j.data = r.data
      /\ j.todo = r.todo \ {v}
  BY <1>1 DEF JobRecord
<1> HIDE DEF j
<1>9. job' \in [Ops -> JobRecord] /\ job'[op] = j
  BY <1>7, <1>8 DEF SecretInv, SecretsTyped
<1>10. UNCHANGED <<role, worker, tokens, torn>>
  BY DEF DestroyVersion
<1>11. SecretsTyped'
  BY <1>5, <1>9, <1>10 DEF SecretInv, SecretsTyped
<1>12. JobFits(job[op])'
  BY <1>1, <1>2, <1>5, <1>6, <1>8, <1>9 DEF JobFits, Between
<1>13. StoreFits'
  <2>1. Between(job'[op]) <=> Between(job[op])
    BY <1>1, <1>8, <1>9 DEF Between
  <2> QED BY <1>6, <1>10, <2>1 DEF SecretInv, StoreFits
<1> QED BY <1>11, <1>12, <1>13 DEF SecretInv

LEMMA PushedKeeps ==
    ASSUME NEW op, Ops = {op}, SecretInv, Pushed(op)
    PROVE  SecretInv'
<1> DEFINE r == job[op]
           j == [r EXCEPT !.pc = "commit"]
<1>1. r \in JobRecord /\ JobFits(r) /\ r.pc = "destroy" /\ torn \in BOOLEAN
  BY DEF Pushed, SecretInv, SecretsTyped
<1>2. UNCHANGED <<versions, role, worker, tokens, torn>> /\ torn' \in BOOLEAN /\ tokens' \in Nat
  BY DEF Pushed, SecretInv, SecretsTyped
<1>3. CASE r.cmd \in Provisioning
  <2>1. job' = [job EXCEPT ![op] = j]
    BY <1>3 DEF Pushed, Provisions, Provisioning, Run
  <2>2. j \in JobRecord /\ j.pc = "commit" /\ j.cmd = r.cmd /\ j.data = r.data
    BY <1>1 DEF JobRecord
  <2> HIDE DEF j
  <2>3. JobFits(j) /\ Between(j)
    BY <1>1, <1>3, <2>2 DEF JobFits, Between
  <2> QED BY <1>2, <2>1, <2>2, <2>3, OnlyJob
<1>4. CASE r.cmd \notin Provisioning
  <2>1. Ends(op)
    BY <1>4 DEF Pushed, Provisions, Provisioning
  <2>2. ~Between(r)
    BY <1>4 DEF Between
  <2> QED BY <1>1, <1>2, <2>1, <2>2, EndsKeeps
<1> QED BY <1>3, <1>4

\* The step that ends a script successfully: the role or the Worker takes what the
\* secret holds.
LEMMA FinishKeeps ==
    ASSUME NEW op, Ops = {op}, SecretInv, Commit(op) \/ PutWorker(op)
    PROVE  SecretInv'
<1> DEFINE r == job[op]
<1>1. r \in JobRecord /\ JobFits(r)
  BY DEF SecretInv, SecretsTyped
<1>2. job' = [job EXCEPT ![op] = Idle] /\ UNCHANGED <<versions, tokens>>
  BY DEF Commit, PutWorker, Ends
<1>3. job' \in [Ops -> JobRecord] /\ job'[op] = Idle
  BY <1>2, EmptyTyped DEF SecretInv, SecretsTyped
<1>4. JobFits(job[op])' /\ ~Between(job'[op])
  BY <1>3, EmptyTyped DEF JobFits, Between
<1>5. Stored' = Stored /\ Latest' = Latest
  BY <1>2 DEF Stored, Latest
<1>6. URL(r.data) \in Nat /\ Edge(r.data) \in Nat
  BY <1>1 DEF JobRecord, URL, Edge, Keys
<1>7. CASE Commit(op)
  <2>1. role' = URL(r.data) /\ torn' = FALSE /\ worker' = worker /\ r.pc = "commit"
    BY <1>7 DEF Commit, URL
  <2>2. Stored /\ r.data = Latest.data
    BY <1>1, <2>1 DEF JobFits, Between
  <2>3. SecretsTyped'
    BY <1>2, <1>3, <1>6, <2>1 DEF SecretInv, SecretsTyped
  <2>4. StoreFits'
    BY <1>4, <1>5, <2>1, <2>2 DEF SecretInv, StoreFits
  <2> QED BY <1>4, <2>3, <2>4 DEF SecretInv
<1>8. CASE PutWorker(op)
  <2>1. worker' = Edge(r.data) /\ role' = role /\ torn' = torn /\ r.pc = "put"
    BY <1>8 DEF PutWorker, Edge
  <2>2. Stored /\ Edge(r.data) = Edge(Latest.data) /\ ~Between(r)
    BY <1>1, <2>1 DEF JobFits, Between
  <2>3. SecretsTyped'
    BY <1>2, <1>3, <1>6, <2>1 DEF SecretInv, SecretsTyped
  <2>4. StoreFits'
    BY <1>4, <1>5, <2>1, <2>2 DEF SecretInv, StoreFits
  <2> QED BY <1>4, <2>3, <2>4 DEF SecretInv
<1> QED BY <1>7, <1>8

LEMMA StopKeeps ==
    ASSUME NEW op, Ops = {op}, SecretInv, Stop(op)
    PROVE  SecretInv'
<1>1. Ends(op) /\ UNCHANGED <<versions, role, worker, tokens>>
  BY DEF Stop
<1>2. torn' = (torn \/ Between(job[op])) /\ torn' \in BOOLEAN
  BY DEF Stop, Provisions, Between, Provisioning
<1> QED BY <1>1, <1>2, EndsKeeps

LEMMA SecretInvStep ==
    ASSUME NEW op, Ops = {op}
    PROVE  SecretInv /\ [DeployNext]_deployVars => SecretInv'
<1> SUFFICES ASSUME SecretInv, [DeployNext]_deployVars PROVE SecretInv'
  OBVIOUS
<1>1. CASE UNCHANGED secretVars
  BY <1>1 DEF secretVars, SecretInv, SecretsTyped, JobFits, StoreFits, Stored, Latest, Between
<1>2. ASSUME NEW cmd \in Commands, Start(op, cmd) PROVE SecretInv'
  BY <1>2, StartKeeps
<1>3. CASE \/ RoleStatements(op) \/ Current(op) \/ AddVersion(op) \/ ListVersions(op)
           \/ DestroyVersion(op) \/ Pushed(op) \/ Commit(op) \/ PutWorker(op) \/ Stop(op)
  BY <1>3, RoleStatementsKeeps, CurrentKeeps, AddVersionKeeps, ListVersionsKeeps,
     DestroyVersionKeeps, PushedKeeps, FinishKeeps, StopKeeps
<1>4. SecretsNext \/ UNCHANGED secretVars
  BY DEF DeployNext, Serving, Outage, Boot, Shutdown, BeginRecheck, BeginReadyz, EndCheck,
         deployVars, secretVars
<1> QED BY <1>1, <1>2, <1>3, <1>4 DEF SecretsNext

\* With one operator at a time, and wherever a call fails or a script is stopped, the
\* secret can be read, never holds the developer's database, and agrees with the Worker
\* and, unless a provision stopped in between, with the role (secrets.py push and edge,
\* create_login_role.py provision), for any number of versions and tokens.
THEOREM SecretStaysUsable ==
    ASSUME NEW op, Ops = {op}
    PROVE  Spec => []SecretUsable
<1>1. DeployInit => SecretInv
  BY SecretInvInit DEF DeployInit
<1>2. SecretInv /\ [DeployNext]_deployVars => SecretInv'
  BY SecretInvStep
<1>3. SecretInv => SecretUsable
  <2> SUFFICES ASSUME SecretInv PROVE SecretUsable
    OBVIOUS
  <2>1. versions # << >> <=> Stored
    BY StoredNonEmpty DEF SecretInv, SecretsTyped
  <2>2. (\A o \in Ops : job[o].pc = "idle") => \A o \in Ops : ~Between(job[o])
    BY DEF Between
  <2> QED BY <2>1, <2>2 DEF SecretInv, StoreFits, SecretUsable, URL, Edge
<1> QED BY <1>1, <1>2, <1>3, PTL DEF Spec

=============================================================================
