----------------------------- MODULE Deployment -----------------------------
(***************************************************************************)
(* From the settings to the processes of the API: which settings are       *)
(* accepted (core/config.py), which implementation every facility then     *)
(* takes (Redis, PostgreSQL or the memory of one process), what readiness  *)
(* and the doctor say of it, and the account lock on top of it             *)
(* (core/distributed_lock.py), the facility on which publication relies.   *)
(*                                                                         *)
(* Any number of processes may run under the settings: those of one serve  *)
(* or of several Pods, job workers, schedulers, a publication from the     *)
(* command line; the validator looks at UVICORN_WORKERS only.  Each of     *)
(* them reads the settings once.  A Redis lock is a key with the           *)
(* token of its holder that lapses after its TTL, the holder at work or    *)
(* not, and that only the holder of that token deletes; without Redis, or  *)
(* with DISTRIBUTED_LOCKS_ENABLED off, it is a lock in memory, one per     *)
(* process.  The local lock table is taken to be larger than the accounts. *)
(***************************************************************************)
EXTENDS Integers, FiniteSets

CONSTANTS
    MaxWorkers,     \* UVICORN_WORKERS or --workers at most
    Processes,      \* processes that may run under one environment
    LockUsers,      \* requests that take the lock of one account
    ProcessOf,      \* the process that serves each of them
    Profiles,       \* deployment profiles that are tried
    FlagSets,       \* sets of flags that are tried
    Unlocked

WorkerCounts == 1..MaxWorkers
ASSUME ProcessesCounted == MaxWorkers \in Nat /\ IsFiniteSet(Processes)
ASSUME ProcessesServe == ProcessOf \in [LockUsers -> Processes] /\ Unlocked \notin LockUsers

VARIABLES
    settings,       \* the environment that the operator wrote
    serving,        \* processes that run
    uncounted,      \* the ones beyond the number that the validator looked at
    backendUp,      \* whether Redis and PostgreSQL answer
    redisLock,      \* the key of the account's lock in Redis, by its holder
    localLock,      \* the lock of the account in the memory of each process
    inside,         \* requests between the lock and its release
    leaseless,      \* the ones whose lease in Redis ended before that
    health          \* the last answer of readiness or doctor

deployVars == <<settings, serving, uncounted, backendUp, redisLock, localLock,
                inside, leaseless, health>>

-----------------------------------------------------------------------------
(* Settings: the ones that decide where state lives, and the strict mode.  *)

Flags == {"redis", "jobs", "events", "limits", "locks", "postgres", "scheduling",
          "strict", "complete", "secured", "database"}
ASSUME FlagsKnown == FlagSets \subseteq SUBSET Flags
Settings ==
    [production : BOOLEAN, profile : Profiles, workers : WorkerCounts,
     adapter : {"creator_studio", "manual_export"}, on : FlagSets]

Has(s, flag) == flag \in s.on

\* validate_production_security.  "secured" stands for a strong secret and
\* required authentication, "database" for a PostgreSQL URL, and "complete" for
\* everything that the strict mode asks for (issuer, quorum, cost enforcement,
\* audit key and external secrets), of which one missing item is refused.
AsksRedis(s) == \E flag \in {"jobs", "events", "limits", "locks"} : Has(s, flag)
Accepted(s) ==
    /\ s.profile \in {"personal", "team", "enterprise"}
    /\ Has(s, "scheduling") => Has(s, "postgres")
    /\ Has(s, "postgres") => Has(s, "database")
    /\ s.production =>
          /\ Has(s, "secured")
          /\ s.workers > 1 => s.adapter # "creator_studio"
          /\ s.workers > 1 /\ AsksRedis(s) => Has(s, "redis")
          /\ Has(s, "strict") => Has(s, "complete")

\* profile_features, planes and routers.
Planes(s) ==
    {"content", "publish", "ops"} \cup (IF s.profile = "enterprise" THEN {"enterprise"} ELSE {})
Features(s) ==
    Planes(s) \cup (IF s.profile = "personal" THEN {} ELSE {"audit", "oidc"})
              \cup (IF s.profile = "enterprise" THEN {"quota", "approvals", "scim"} ELSE {})
              \cup (IF s.profile = "enterprise" /\ Has(s, "postgres") THEN {"outbox"} ELSE {})
Routers(s) ==
    {"api", "mcp", "a2a"} \cup (IF s.profile \in {"team", "enterprise"} THEN {"metadata"} ELSE {})
                          \cup (IF s.profile = "enterprise" THEN {"enterprise", "scim"} ELSE {})

\* Where each facility keeps its state: JobRepository and JobService,
\* EventBroker, the rate limiters and the lock manager ask for Redis and their
\* flag; CostBudgetService and the services for PostgreSQL.
InRedis(s, facility) == Has(s, "redis") /\ Has(s, facility)
Placed(s) ==
    [facility \in {"jobs", "events", "limits", "locks", "costs", "schedules"} |->
        CASE facility = "costs" /\ Has(s, "postgres") -> "postgres"
          [] facility = "schedules" /\ Has(s, "scheduling") -> "postgres"
          [] InRedis(s, facility) -> "redis"
          [] OTHER -> "local"]

-----------------------------------------------------------------------------
(* Processes.                                                              *)

DeployInit ==
    /\ settings \in Settings
    /\ serving = {} /\ uncounted = {} /\ backendUp = {"redis", "postgres"}
    /\ redisLock = Unlocked /\ localLock = [p \in Processes |-> Unlocked]
    /\ inside = {} /\ leaseless = {} /\ health = [routers |-> {}]

\* serve: the option, or the settings, say how many processes there are; each
\* builds the application from the settings, which are refused or not.  The
\* validator counts up to UVICORN_WORKERS of them.
Serve(pod) ==
    /\ pod \cap serving = {} /\ Cardinality(pod) \in WorkerCounts
    /\ Accepted(settings)
    /\ serving' = serving \cup pod
    /\ uncounted' = IF Cardinality((serving \ uncounted) \cup pod) <= settings.workers
                    THEN uncounted ELSE uncounted \cup pod
    /\ health' = [routers |-> Routers(settings), planes |-> Planes(settings)]
    /\ UNCHANGED <<settings, backendUp, redisLock, localLock, inside, leaseless>>

\* worker, scheduler-worker and publish execute run beside the API, with the
\* lock manager of a process of their own.
StartHelper(p) ==
    /\ p \notin serving /\ Accepted(settings)
    /\ serving' = serving \cup {p} /\ uncounted' = uncounted \cup {p}
    /\ UNCHANGED <<settings, backendUp, redisLock, localLock, inside, leaseless, health>>

\* A process ends: what it held in memory is gone, what it held in Redis waits
\* for its TTL.
ProcessEnds(p) ==
    /\ p \in serving
    /\ serving' = serving \ {p} /\ uncounted' = uncounted \ {p}
    /\ localLock' = [localLock EXCEPT ![p] = Unlocked]
    /\ inside' = {u \in inside : ProcessOf[u] # p}
    /\ leaseless' = {u \in leaseless : ProcessOf[u] # p}
    /\ UNCHANGED <<settings, backendUp, redisLock, health>>

BackendTurns(b) ==
    /\ backendUp' = IF b \in backendUp THEN backendUp \ {b} ELSE backendUp \cup {b}
    /\ UNCHANGED <<settings, serving, uncounted, redisLock, localLock, inside, leaseless, health>>

\* /health/ready asks the backends that the flags name (the cache is not among
\* them); /health/diagnostics tells which implementations are in use.
Ready(s) ==
    /\ Has(s, "redis") /\ AsksRedis(s) => "redis" \in backendUp
    /\ Has(s, "postgres") => "postgres" \in backendUp
Probe(p) ==
    /\ p \in serving
    /\ health' \in {[ready |-> Ready(settings)], [placed |-> Placed(settings)]}
    /\ UNCHANGED <<settings, serving, uncounted, backendUp, redisLock, localLock, inside, leaseless>>

\* run_doctor: only the installation and the self-test of the publication gate
\* are errors; a warning or a remark leaves the report ready.
LevelOf(check) ==
    CASE check \in {"import_path", "publication_gate"} -> "error"
      [] check \in {"model_providers", "embedding_provider", "lambdamart_model",
                    "cross_encoder", "selector_bundle"} -> "warn"
      [] OTHER -> "info"
Doctor(failed) ==
    /\ health' = [ready |-> \A c \in failed : LevelOf(c) # "error",
                  warnings |-> Cardinality({c \in failed : LevelOf(c) = "warn"}),
                  planes |-> Planes(settings)]
    /\ UNCHANGED <<settings, serving, uncounted, backendUp, redisLock, localLock, inside, leaseless>>

-----------------------------------------------------------------------------
(* The lock of an account.                                                 *)

Take(u) ==
    /\ ProcessOf[u] \in serving /\ u \notin inside
    /\ IF InRedis(settings, "locks")
       THEN /\ "redis" \in backendUp /\ redisLock = Unlocked
            /\ redisLock' = u
            /\ UNCHANGED localLock
       ELSE /\ localLock[ProcessOf[u]] = Unlocked
            /\ localLock' = [localLock EXCEPT ![ProcessOf[u]] = u]
            /\ UNCHANGED redisLock
    /\ inside' = inside \cup {u}
    /\ UNCHANGED <<settings, serving, uncounted, backendUp, leaseless, health>>

\* The key in Redis ends with its TTL.
LeaseLapses ==
    /\ redisLock # Unlocked
    /\ redisLock' = Unlocked
    /\ leaseless' = leaseless \cup ({redisLock} \cap inside)
    /\ UNCHANGED <<settings, serving, uncounted, backendUp, localLock, inside, health>>

\* The script deletes the key that still bears the caller's token (a faulty
\* one, whatever is there); Redis may not answer, and the key stays for its TTL.
KeyGone(u) == Unlocked
KeyAfterRelease(u) == IF redisLock = u THEN Unlocked ELSE redisLock
Release(u) ==
    /\ u \in inside
    /\ IF InRedis(settings, "locks")
       THEN /\ redisLock' = IF "redis" \in backendUp THEN KeyAfterRelease(u) ELSE redisLock
            /\ UNCHANGED localLock
       ELSE /\ localLock' = [localLock EXCEPT ![ProcessOf[u]] = Unlocked]
            /\ UNCHANGED redisLock
    /\ inside' = inside \ {u}
    /\ leaseless' = leaseless \ {u}
    /\ UNCHANGED <<settings, serving, uncounted, backendUp, health>>

DeployNext ==
    \/ \E pod \in SUBSET Processes : Serve(pod)
    \/ \E p \in Processes : StartHelper(p) \/ ProcessEnds(p) \/ Probe(p)
    \/ \E b \in {"redis", "postgres"} : BackendTurns(b)
    \/ \E failed \in {{}, {"bandit", "cross_encoder"}, {"publication_gate"}} : Doctor(failed)
    \/ \E u \in LockUsers : Take(u) \/ Release(u)
    \/ LeaseLapses
DeploySpec == DeployInit /\ [][DeployNext]_deployVars

-----------------------------------------------------------------------------
\* "No silent fallback to the local mode" (high-concurrency.md), "Creator Studio
\* browser publishing requires one API process" (config.py): two requests are at
\* once inside the lock of an account only if a lease lapsed, or if the locks are
\* not in Redis and two processes serve them; and in a production deployment
\* whose locks are not switched off, or that publishes by a browser, only if one
\* of these processes is beyond the number that the validator looked at.
LocksHoldAcrossProcesses ==
    \A u \in inside \ leaseless : \A v \in (inside \ leaseless) \ {u} :
        /\ ~InRedis(settings, "locks") /\ ProcessOf[u] # ProcessOf[v]
        /\ settings.production /\ (Has(settings, "locks") \/ settings.adapter = "creator_studio")
           => {ProcessOf[u], ProcessOf[v]} \cap uncounted # {}
=============================================================================
