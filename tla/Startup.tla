------------------------------- MODULE Startup -------------------------------
(***************************************************************************)
(* How a DSS instance comes up: the jobs of db-manager that migrate the    *)
(* schemas, the core-service that waits for them, checks the schemas and   *)
(* retries, and the http-gateway that waits for the core-service.  All of  *)
(* them start together, and the database server and the endpoint of the    *)
(* token keys may be away for a while.                                     *)
(*                                                                         *)
(* The n-th migration step of a schema takes it to the n-th version: of    *)
(* remote ID 1.0.0, 2.0.0, 3.0.0, 3.1.0, 3.1.1, 4.0.0, of SCD 1.0.0,       *)
(* 2.0.0, 3.0.0, 3.1.0, of VRP 1.0.0.                                      *)
(***************************************************************************)
EXTENDS Integers

CONSTANTS
  Enabled,      \* the optional services: enable_scd and enable_vrp
  NumBackoffs,  \* the length of the list of waiting times between retries
  MaxOutages,   \* bound on the outages of the database and of the keys
  MaxCrashes    \* bound on the crashes of db-manager and core-service

ASSUME EnabledAssumption == Enabled \subseteq {"scd", "vrp"}
ASSUME BoundsAssumption == {NumBackoffs - 1, MaxOutages, MaxCrashes} \subseteq Nat

VARIABLES
  dbUp,      \* whether the database server accepts connections
  keysUp,    \* whether the keys that verify access tokens can be resolved
  db,        \* the databases of the server
  mgr,       \* per schema, where its db-manager stands and on which database
  core,      \* where the core-service stands
  store,     \* the store it is creating; "old" is the second attempt at remote ID
  backoff,   \* index of the next waiting time
  crons,     \* how many schedulers with a remote ID garbage collector run in it
  gateway,   \* where the http-gateway stands
  outages,   \* how many outages there were
  crashes    \* how many crashes there were

env == <<dbUp, keysUp, outages, crashes>>
service == <<core, store, backoff, crons>>
vars == <<dbUp, keysUp, db, mgr, core, store, backoff, crons, gateway, outages, crashes>>

Schemas == {"rid"} \cup Enabled
Databases == {"defaultdb"} \cup Schemas

Latest(f) == CASE f = "rid" -> 6 [] f = "scd" -> 4 [] f = "vrp" -> 1

\* The versions of the major version that the service needs.
Supported(f) == CASE f = "rid" -> {6} [] f = "scd" -> {3, 4} [] f = "vrp" -> {1}

\* A database: whether it exists, the version it records (0: none), and
\* whether statements of the next step have been executed that no longer let
\* the step be executed again.
Database == [exists : BOOLEAN, version : 0..6, torn : BOOLEAN]
Absent == [exists |-> FALSE, version |-> 0, torn |-> FALSE]
Empty == [exists |-> TRUE, version |-> 0, torn |-> FALSE]

-----------------------------------------------------------------------------
(* db-manager *)

\* Steps that can be executed again from the start, after any part of them:
\* their statements say IF NOT EXISTS.
Rerunnable(f, n) == <<f, n>> \in {<<"rid", 3>>, <<"rid", 4>>, <<"scd", 4>>}

\* The step of remote ID that renames the database, and records its version there.
Renames(f, n) == f = "rid" /\ n = 6

\* Mutant: a database "rid" is created without a look at "defaultdb".
DatabaseOfSchema(f) == f

\* doesDatabaseExist: remote ID may be in the database of its older name.
DatabaseOf(f) == IF f = "rid" /\ ~db["rid"].exists THEN "defaultdb" ELSE f

\* The next step fails, and fails again however often it is tried.
Stuck(f) ==
  LET d == DatabaseOf(f)  n == db[d].version + 1 IN
  mgr[f].pc = "off" /\ (db[d].torn \/ (Renames(f, n) /\ d = "rid"))

\* db-manager connects, finds or creates the database and reads its version.
MgrStart(f) ==
  /\ mgr[f].pc = "off" /\ dbUp /\ ~Stuck(f)
  /\ LET d == DatabaseOf(f) IN
     /\ db' = IF db[d].exists THEN db ELSE [db EXCEPT ![d] = Empty]
     /\ mgr' = [mgr EXCEPT ![f] = [pc |-> "ready", db |-> d]]
  /\ UNCHANGED <<env, service, gateway>>

\* The statements of the next step up to the point of no return.  The one
\* that renames fails where a database "rid" is there already.
MgrApply(f) ==
  LET d == mgr[f].db  n == db[d].version + 1 IN
  /\ mgr[f].pc = "ready" /\ dbUp
  /\ IF ~Renames(f, n)
     THEN /\ db' = [db EXCEPT ![d].torn = ~Rerunnable(f, n)]
          /\ mgr' = [mgr EXCEPT ![f].pc = "applied"]
     ELSE IF db["rid"].exists
     THEN /\ mgr' = [mgr EXCEPT ![f].pc = "off"]
          /\ UNCHANGED db
     ELSE /\ db' = [db EXCEPT !["rid"] = [db[d] EXCEPT !.torn = TRUE], ![d] = Absent]
          /\ mgr' = [mgr EXCEPT ![f] = [pc |-> "renamed", db |-> "rid"]]
  /\ UNCHANGED <<env, service, gateway>>

\* CREATE DATABASE defaultdb, between renaming and recording.
MgrRecreate(f) ==
  /\ mgr[f].pc = "renamed" /\ dbUp
  /\ db' = [db EXCEPT !["defaultdb"] = Empty]
  /\ mgr' = [mgr EXCEPT ![f].pc = "applied"]
  /\ UNCHANGED <<env, service, gateway>>

\* Mutant: the last step is left out.
ReachedBeforeLast(f, n) == n >= Latest(f) - 1

\* currentVersion.Equal(*targetVersion)
Reached(f, n) == n = Latest(f)

\* The last statement of the step records the version, which is read back.
MgrRecord(f) ==
  LET d == mgr[f].db  n == db[d].version + 1 IN
  /\ mgr[f].pc = "applied" /\ dbUp
  /\ db' = [db EXCEPT ![d] = [exists |-> TRUE, version |-> n, torn |-> FALSE]]
  /\ mgr' = [mgr EXCEPT ![f].pc = IF Reached(f, n) THEN "done" ELSE "ready"]
  /\ UNCHANGED <<env, service, gateway>>

\* log.Panicf when the database is away.
MgrPanic(f) ==
  /\ mgr[f].pc \notin {"off", "done"} /\ ~dbUp
  /\ mgr' = [mgr EXCEPT ![f].pc = "off"]
  /\ UNCHANGED <<env, db, service, gateway>>

MgrCrash(f) ==
  /\ mgr[f].pc \notin {"off", "done"} /\ crashes < MaxCrashes
  /\ mgr' = [mgr EXCEPT ![f].pc = "off"]
  /\ crashes' = crashes + 1
  /\ UNCHANGED <<dbUp, keysUp, outages, db, service, gateway>>

-----------------------------------------------------------------------------
(* core-service *)

\* RunGRPCServer returns an error that may be temporary, or another one.
Wait == core' = "waiting"
Panic == core' = "panicked"

\* Mutant: the scheduler of remote ID goes on when a later store fails.
LeaveCron == UNCHANGED crons

\* ridServer.Cron.Stop()
StopCron == crons' = crons - 1

\* What follows the creation of a store: that of the next one, then the authorizer.
GoOn(f) ==
  IF f = "rid" /\ "scd" \in Enabled THEN core' = "dial" /\ store' = "scd"
  ELSE IF f # "vrp" /\ "vrp" \in Enabled THEN core' = "dial" /\ store' = "vrp"
  ELSE core' = "authorize" /\ UNCHANGED store

\* cockroach.Dial.  A refused connection is held to be temporary at the first
\* attempt of all, and nowhere else.
Dial ==
  /\ core = "dial"
  /\ IF dbUp THEN core' = "check" /\ UNCHANGED crons
     ELSE IF store = "rid" THEN Wait /\ UNCHANGED crons
     ELSE IF store = "old" THEN Panic /\ UNCHANGED crons
     ELSE Panic /\ StopCron
  /\ UNCHANGED <<env, db, mgr, store, backoff, gateway>>

\* Mutant: any version that is recorded will do.
SomeVersion(f, d) == dbUp /\ db[d].exists /\ db[d].version > 0

\* NewStore succeeds: CheckCurrentMajorSchemaVersion finds a supported version.
StoreOK(f, d) == dbUp /\ db[d].exists /\ db[d].version \in Supported(f)

\* "database has not been bootstrapped with Schema Manager": there is no table
\* schema_versions.  Amid the first step it may be there, without a row.
NotBootstrapped(d) == db[d].exists /\ db[d].version = 0

\* NewStore for remote ID in database "rid", or for the older name.
CheckRID ==
  /\ core = "check" /\ store \in {"rid", "old"}
  /\ LET d == IF store = "rid" THEN "rid" ELSE "defaultdb" IN
     IF StoreOK("rid", d) THEN GoOn("rid") /\ crons' = crons + 1
     ELSE IF store = "rid" THEN core' = "dial" /\ store' = "old" /\ UNCHANGED crons
     ELSE /\ \/ (~dbUp \/ NotBootstrapped(d)) /\ Wait
             \/ dbUp /\ (~NotBootstrapped(d) \/ db[d].torn) /\ Panic
          /\ UNCHANGED <<store, crons>>
  /\ UNCHANGED <<env, db, mgr, backoff, gateway>>

\* NewStore for SCD or VRP.  A database that is not there yet is waited for,
\* one that is there but not migrated yet is not.
CheckOther ==
  /\ core = "check" /\ store \in Enabled
  /\ IF StoreOK(store, store) THEN GoOn(store) /\ UNCHANGED crons
     ELSE /\ IF ~dbUp \/ ~db[store].exists THEN Wait ELSE Panic
          /\ StopCron
          /\ UNCHANGED store
  /\ UNCHANGED <<env, db, mgr, backoff, gateway>>

\* NewRSAAuthorizer resolves the keys once; then the server listens.
Authorize ==
  /\ core = "authorize"
  /\ IF keysUp THEN core' = "serving" ELSE Panic
  /\ UNCHANGED <<env, db, mgr, store, backoff, crons, gateway>>

\* The refresh of the keys, as often as KeyRefreshTimeout says: a failure is
\* a panic.
RefreshFails ==
  /\ core = "serving" /\ ~keysUp
  /\ Panic
  /\ UNCHANGED <<env, db, mgr, store, backoff, crons, gateway>>

\* Mutant: the index runs past the end of the list.
NextBackoffUncapped(n) == n + 1

NextBackoff(n) == IF n < NumBackoffs - 1 THEN n + 1 ELSE n

\* The waiting time is over: RunGRPCServer once more.
Retry ==
  /\ core = "waiting"
  /\ core' = "dial" /\ store' = "rid"
  /\ backoff' = NextBackoff(backoff)
  /\ UNCHANGED <<env, db, mgr, crons, gateway>>

\* The orchestrator starts the process again.
Restart ==
  /\ core = "panicked"
  /\ core' = "dial" /\ store' = "rid" /\ backoff' = 0 /\ crons' = 0
  /\ UNCHANGED <<env, db, mgr, gateway>>

CoreCrash ==
  /\ core # "panicked" /\ crashes < MaxCrashes
  /\ Panic
  /\ crashes' = crashes + 1
  /\ UNCHANGED <<dbUp, keysUp, outages, db, mgr, store, backoff, crons, gateway>>

-----------------------------------------------------------------------------
(* http-gateway *)

\* RunHTTPProxy dials the core-service, with a deadline, for every API; once
\* connected the channels reconnect by themselves.
Register ==
  /\ gateway = "registering"
  /\ gateway' = IF core = "serving" THEN "serving" ELSE "waiting"
  /\ UNCHANGED <<env, db, mgr, service>>

RetryRegister ==
  /\ gateway = "waiting"
  /\ gateway' = "registering"
  /\ UNCHANGED <<env, db, mgr, service>>

-----------------------------------------------------------------------------
(* The surroundings *)

DatabaseDown ==
  /\ dbUp /\ outages < MaxOutages
  /\ dbUp' = FALSE /\ outages' = outages + 1
  /\ UNCHANGED <<keysUp, crashes, db, mgr, service, gateway>>

KeysDown ==
  /\ keysUp /\ outages < MaxOutages
  /\ keysUp' = FALSE /\ outages' = outages + 1
  /\ UNCHANGED <<dbUp, crashes, db, mgr, service, gateway>>

Recover ==
  /\ ~dbUp \/ ~keysUp
  /\ dbUp' = TRUE /\ keysUp' = TRUE
  /\ UNCHANGED <<outages, crashes, db, mgr, service, gateway>>

-----------------------------------------------------------------------------
(* The specification *)

\* A new CockroachDB cluster has an empty database "defaultdb".
Init ==
  /\ dbUp \in BOOLEAN /\ keysUp = TRUE
  /\ db = [d \in Databases |-> IF d = "defaultdb" THEN Empty ELSE Absent]
  /\ mgr = [f \in Schemas |-> [pc |-> "off", db |-> f]]
  /\ core = "dial" /\ store = "rid" /\ backoff = 0 /\ crons = 0
  /\ gateway = "registering"
  /\ outages = 0 /\ crashes = 0

Migrate(f) == MgrStart(f) \/ MgrApply(f) \/ MgrRecreate(f) \/ MgrRecord(f)

Serve == Dial \/ CheckRID \/ CheckOther \/ Authorize \/ Retry \/ Restart

Forward == Register \/ RetryRegister

Next ==
  \/ \E f \in Schemas : Migrate(f) \/ MgrPanic(f) \/ MgrCrash(f)
  \/ Serve \/ RefreshFails \/ CoreCrash
  \/ Forward
  \/ DatabaseDown \/ KeysDown \/ Recover

\* Jobs and services run on and are started again when they end with an
\* error, and outages end.  Failures are not fair: they need not happen.
Fairness ==
  /\ \A f \in Schemas : WF_vars(Migrate(f))
  /\ WF_vars(Serve)
  /\ WF_vars(Forward)
  /\ WF_vars(Recover)

Spec == Init /\ [][Next]_vars /\ Fairness

-----------------------------------------------------------------------------
(* Properties *)

\* The state is well-formed; in particular the waiting time is always looked
\* up inside its list.
TypeOK ==
  /\ dbUp \in BOOLEAN /\ keysUp \in BOOLEAN
  /\ db \in [Databases -> Database]
  /\ mgr \in [Schemas -> [pc : {"off", "ready", "renamed", "applied", "done"}, db : Databases]]
  /\ core \in {"dial", "check", "authorize", "serving", "waiting", "panicked"}
  /\ store \in {"old"} \cup Schemas
  /\ backoff \in 0 .. (NumBackoffs - 1)
  /\ crons \in Nat
  /\ gateway \in {"registering", "waiting", "serving"}
  /\ outages \in 0..MaxOutages /\ crashes \in 0..MaxCrashes

\* However often the core-service retries, its process runs one garbage
\* collector when it serves and none while it waits.
OneCollector ==
  /\ crons <= 1
  /\ core \in {"authorize", "serving"} => crons = 1
  /\ core = "waiting" => crons = 0

\* A core-service that serves found the schemas it needs, and they are still
\* there: remote ID under its new name (the attempt at "defaultdb" never
\* succeeds), the others with their tables complete for that version.
ServesSupportedSchemas ==
  core \in {"authorize", "serving"} =>
    /\ \A f \in Schemas : db[f].exists /\ db[f].version \in Supported(f)
    /\ db["defaultdb"].version = 0

\* A migration gets stuck only if db-manager is stopped amid a step, by a
\* crash or an outage: no step fails because of what an earlier one did.
OnlyCrashesStick == (\E f \in Schemas : Stuck(f)) => crashes + outages > 0

\* Whatever the order in which everything starts, the gateway serves in the
\* end, with a core-service behind it, unless a migration is stuck.
EventuallyServing ==
  <>[]((core = "serving" /\ gateway = "serving") \/ \E f \in Schemas : Stuck(f))

=============================================================================
