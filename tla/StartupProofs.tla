---------------------------- MODULE StartupProofs ----------------------------
(***************************************************************************)
(* The safety properties of Startup, for any set of optional services, any *)
(* list of waiting times and any number of outages and crashes.            *)
(*                                                                         *)
(* They hold together: what the core-service may rely on is what the       *)
(* db-managers leave in the databases at every moment (Migrations), and it *)
(* has looked at the stores in their order (Checked).                      *)
(***************************************************************************)
EXTENDS Startup, TLAPS

\* A database that is absent holds nothing.
WellFormed(d) == db[d].exists \/ db[d] = Absent

\* Where the db-manager of an optional service stands says what is in its database.
OtherMigration(f) ==
  /\ mgr[f].db = f
  /\ mgr[f].pc # "renamed"
  /\ db[f].version <= Latest(f)
  /\ mgr[f].pc = "done" <=> db[f].version = Latest(f)
  /\ mgr[f].pc # "off" => db[f].exists
  /\ mgr[f].pc \in {"ready", "done"} => ~db[f].torn

\* Before the renaming, remote ID is in "defaultdb" and never at its last version.
BeforeRenaming ==
  /\ ~db["rid"].exists
  /\ db["defaultdb"].exists /\ db["defaultdb"].version <= 5
  /\ mgr["rid"].pc \in {"off", "ready", "applied"}
  /\ mgr["rid"].pc # "off" => mgr["rid"].db = "defaultdb"
  /\ mgr["rid"].pc = "ready" => ~db["defaultdb"].torn
  /\ mgr["rid"].pc = "applied" => db["defaultdb"].version <= 4

\* After it, "rid" stays at the fifth version until the sixth is recorded.
AfterRenaming ==
  /\ db["rid"].exists
  /\ db["defaultdb"].version = 0 /\ ~db["defaultdb"].torn
  /\ mgr["rid"].pc \in {"off", "renamed", "applied", "done"}
  /\ mgr["rid"].pc # "off" => mgr["rid"].db = "rid"
  /\ IF mgr["rid"].pc = "done"
     THEN db["rid"].version = 6 /\ ~db["rid"].torn
     ELSE db["rid"].version = 5 /\ db["rid"].torn

Migrations ==
  /\ \A d \in Databases : WellFormed(d)
  /\ BeforeRenaming \/ AfterRenaming
  /\ \A f \in Enabled : OtherMigration(f)

\* Statements are left half done only after a crash or an outage.
Halted ==
  outages = 0 /\ crashes = 0 =>
    /\ \A f \in Schemas : mgr[f].pc = "off" => ~db[DatabaseOf(f)].torn /\ ~(f = "rid" /\ db["rid"].exists)
    /\ ~dbUp => \A f \in Schemas : mgr[f].pc = "off"

Good(f) == db[f].exists /\ db[f].version \in Supported(f)

\* Whether the collector of remote ID was started in this attempt.
Started == core \in {"authorize", "serving"} \/ (core \in {"dial", "check"} /\ store \in Enabled)

Checked ==
  /\ Started => Good("rid") /\ crons = 1
  /\ core \in {"dial", "check", "waiting"} /\ ~Started => crons = 0
  /\ core = "panicked" => crons <= 1
  /\ core \in {"dial", "check"} /\ store = "vrp" /\ "scd" \in Enabled => Good("scd")
  /\ core \in {"authorize", "serving"} => \A f \in Enabled : Good(f)

IInv == TypeOK /\ Migrations /\ Halted /\ Checked

-----------------------------------------------------------------------------
(* Schemas, databases and db-managers *)

LEMMA SchemaFacts ==
  /\ "rid" \notin Enabled /\ "rid" \in Schemas /\ "defaultdb" \notin Schemas
  /\ Schemas \subseteq Databases /\ Enabled \subseteq Schemas /\ "defaultdb" \in Databases
  /\ \A f \in Schemas : f # "rid" => f \in Enabled
BY EnabledAssumption DEF Schemas, Databases

LEMMA VersionFacts ==
  /\ Latest("rid") = 6 /\ Supported("rid") = {6}
  /\ \A f \in Enabled : /\ Latest(f) \in 1..4 /\ Latest(f) \in Supported(f)
                        /\ Supported(f) \subseteq 1..Latest(f)
                        /\ \A n \in Supported(f) : n + 1 <= Latest(f) => n + 1 \in Supported(f)
                        /\ \A n \in Nat : ~Renames(f, n)
  /\ \A n \in Nat : Renames("rid", n) <=> n = 6
BY EnabledAssumption DEF Latest, Supported, Renames

\* A db-manager at work has a database before its last version.
LEMMA AtWork ==
  ASSUME TypeOK, Migrations, NEW f \in Schemas, mgr[f].pc \in {"ready", "applied"}
  PROVE  /\ mgr[f].db \in Databases
         /\ db[mgr[f].db].exists
         /\ db[mgr[f].db].version \in 0..5
         /\ db[mgr[f].db].version + 1 <= Latest(f)
<1>1. CASE f = "rid"
  BY <1>1, SchemaFacts, VersionFacts DEF TypeOK, Migrations, BeforeRenaming, AfterRenaming, Database
<1>2. CASE f \in Enabled
  <2>1. OtherMigration(f) /\ db[f] \in Database /\ f \in Databases
    BY <1>2, SchemaFacts DEF Migrations, TypeOK
  <2> QED  BY <1>2, <2>1, VersionFacts DEF OtherMigration, Database
<1> QED  BY <1>1, <1>2, SchemaFacts

LEMMA TypeNext == TypeOK /\ Migrations /\ Checked /\ [Next]_vars => TypeOK'
<1> SUFFICES ASSUME TypeOK, Migrations, Checked, [Next]_vars  PROVE TypeOK'
  OBVIOUS
<1> USE SchemaFacts
<1>1. ASSUME NEW f \in Schemas, MgrStart(f)  PROVE TypeOK'
  <2>1. DatabaseOf(f) \in Databases /\ Empty \in Database  BY DEF DatabaseOf, Empty, Database
  <2> QED  BY <1>1, <2>1 DEF MgrStart, TypeOK, env, service
<1>2. ASSUME NEW f \in Schemas, MgrApply(f)  PROVE TypeOK'
  <2> DEFINE d == mgr[f].db
             n == db[d].version + 1
  <2>1. d \in Databases /\ db[d] \in Database  BY <1>2, AtWork DEF MgrApply, TypeOK
  <2>2. Absent \in Database /\ Rerunnable(f, n) \in BOOLEAN  BY DEF Absent, Database, Rerunnable
  <2>3. \A x \in BOOLEAN : [db[d] EXCEPT !.torn = x] \in Database  BY <2>1 DEF Database
  <2>4. UNCHANGED <<env, service, gateway>>  BY <1>2 DEF MgrApply
  <2>5. CASE ~Renames(f, n)
    <3>1. db' = [db EXCEPT ![d] = [db[d] EXCEPT !.torn = ~Rerunnable(f, n)]]
          /\ mgr' = [mgr EXCEPT ![f].pc = "applied"]
      BY <1>2, <2>5 DEF MgrApply
    <3> QED  BY <2>1, <2>2, <2>3, <2>4, <3>1 DEF TypeOK, env, service
  <2>6. CASE Renames(f, n) /\ db["rid"].exists
    BY <1>2, <2>4, <2>6 DEF MgrApply, TypeOK, env, service
  <2>7. CASE Renames(f, n) /\ ~db["rid"].exists
    <3>1. db' = [db EXCEPT !["rid"] = [db[d] EXCEPT !.torn = TRUE], ![d] = Absent]
          /\ mgr' = [mgr EXCEPT ![f] = [pc |-> "renamed", db |-> "rid"]]
      BY <1>2, <2>7 DEF MgrApply
    <3> QED  BY <2>1, <2>2, <2>3, <2>4, <3>1 DEF TypeOK, env, service
  <2> QED  BY <2>5, <2>6, <2>7
<1>3. ASSUME NEW f \in Schemas, MgrRecreate(f)  PROVE TypeOK'
  <2>1. Empty \in Database  BY DEF Empty, Database
  <2> QED  BY <1>3, <2>1 DEF MgrRecreate, TypeOK, env, service
<1>4. ASSUME NEW f \in Schemas, MgrRecord(f)  PROVE TypeOK'
  <2> DEFINE d == mgr[f].db
             n == db[d].version + 1
  <2>1. d \in Databases /\ n \in 0..6  BY <1>4, AtWork DEF MgrRecord
  <2>2. [exists |-> TRUE, version |-> n, torn |-> FALSE] \in Database  BY <2>1 DEF Database
  <2>3. /\ db' = [db EXCEPT ![d] = [exists |-> TRUE, version |-> n, torn |-> FALSE]]
        /\ mgr' = [mgr EXCEPT ![f].pc = IF Reached(f, n) THEN "done" ELSE "ready"]
        /\ UNCHANGED <<env, service, gateway>>
    BY <1>4 DEF MgrRecord
  <2> QED  BY <2>1, <2>2, <2>3 DEF TypeOK, env, service
<1>5. ASSUME NEW f \in Schemas, MgrPanic(f) \/ MgrCrash(f)  PROVE TypeOK'
  BY <1>5, BoundsAssumption DEF MgrPanic, MgrCrash, TypeOK, env, service
<1>6. ASSUME Dial \/ Authorize \/ RefreshFails \/ Restart \/ CoreCrash \/ Retry \/ CheckRID \/ CheckOther
      PROVE  TypeOK'
  <2>1. /\ dbUp' = dbUp /\ keysUp' = keysUp /\ outages' = outages
        /\ db' = db /\ mgr' = mgr /\ gateway' = gateway /\ crashes' \in 0..MaxCrashes
    BY <1>6, BoundsAssumption
    DEF Dial, Authorize, RefreshFails, Restart, CoreCrash, Retry, CheckRID, CheckOther, TypeOK, env
  <2>2. core' \in {"dial", "check", "authorize", "serving", "waiting", "panicked"}
    BY <1>6 DEF Dial, Authorize, RefreshFails, Restart, CoreCrash, Retry, CheckRID, CheckOther,
                TypeOK, Wait, Panic, GoOn
  <2>3. store' \in {"old"} \cup Schemas
    BY <1>6 DEF Dial, Authorize, RefreshFails, Restart, CoreCrash, Retry, CheckRID, CheckOther,
                TypeOK, GoOn, Schemas
  <2>4. backoff' \in 0 .. (NumBackoffs - 1)
    <3>1. 0 \in 0 .. (NumBackoffs - 1) /\ NextBackoff(backoff) \in 0 .. (NumBackoffs - 1)
      BY BoundsAssumption DEF TypeOK, NextBackoff
    <3> QED
      BY <1>6, <3>1
      DEF Dial, Authorize, RefreshFails, Restart, CoreCrash, Retry, CheckRID, CheckOther, TypeOK
  <2>5. crons' \in Nat
    <3>1. CASE Dial
      BY <3>1, SchemaFacts DEF Dial, StopCron, Checked, Started, TypeOK, Schemas
    <3>2. CASE CheckOther
      BY <3>2 DEF CheckOther, StopCron, Checked, Started, TypeOK
    <3> QED
      BY <1>6, <3>1, <3>2
      DEF Authorize, RefreshFails, Restart, CoreCrash, Retry, CheckRID, TypeOK
  <2> QED  BY <2>1, <2>2, <2>3, <2>4, <2>5 DEF TypeOK
<1>7. ASSUME Forward \/ DatabaseDown \/ KeysDown \/ Recover \/ UNCHANGED vars  PROVE TypeOK'
  <2>1. /\ db' = db /\ mgr' = mgr /\ core' = core /\ store' = store
        /\ backoff' = backoff /\ crons' = crons /\ crashes' = crashes
    BY <1>7 DEF Forward, Register, RetryRegister, DatabaseDown, KeysDown, Recover, vars, env, service
  <2>2. dbUp' \in BOOLEAN /\ keysUp' \in BOOLEAN
    BY <1>7 DEF Forward, Register, RetryRegister, DatabaseDown, KeysDown, Recover, vars, env, TypeOK
  <2>3. gateway' \in {"registering", "waiting", "serving"}
    BY <1>7 DEF Forward, Register, RetryRegister, DatabaseDown, KeysDown, Recover, vars, TypeOK
  <2>4. outages' \in 0..MaxOutages
    BY <1>7, BoundsAssumption
    DEF Forward, Register, RetryRegister, DatabaseDown, KeysDown, Recover, vars, env, TypeOK
  <2> QED  BY <2>1, <2>2, <2>3, <2>4 DEF TypeOK
<1> QED
  BY <1>1, <1>2, <1>3, <1>4, <1>5, <1>6, <1>7 DEF Next, Migrate, Serve

-----------------------------------------------------------------------------
(* What a step of one db-manager leaves to the others *)

\* The databases of one schema: remote ID has two.
Own(f) == IF f = "rid" THEN {"rid", "defaultdb"} ELSE {f}

LEMMA OwnFacts ==
  ASSUME NEW f \in Schemas, NEW g \in Schemas, f # g
  PROVE  Own(f) \cap Own(g) = {}
BY SchemaFacts DEF Own

LEMMA OwnDatabase ==
  ASSUME TypeOK, Migrations, NEW f \in Schemas
  PROVE  /\ DatabaseOf(f) \in Own(f)
         /\ mgr[f].pc # "off" => mgr[f].db \in Own(f)
BY SchemaFacts DEF DatabaseOf, Own, Migrations, OtherMigration, BeforeRenaming, AfterRenaming

\* A db-manager writes only its own databases and its own state.
LEMMA OthersUntouched ==
  ASSUME TypeOK, Migrations, NEW f \in Schemas,
         Migrate(f) \/ MgrPanic(f) \/ MgrCrash(f)
  PROVE  /\ \A g \in Schemas \ {f} : mgr'[g] = mgr[g]
         /\ \A d \in Databases \ Own(f) : db'[d] = db[d]
         /\ service' = service
<1> USE SchemaFacts, OwnDatabase
<1>1. CASE MgrStart(f)     BY <1>1 DEF MgrStart, TypeOK
<1>2. CASE MgrApply(f)
  <2>1. "rid" \in Own(f) \/ ~Renames(f, db[mgr[f].db].version + 1)  BY DEF Own, Renames
  <2> QED  BY <1>2, <2>1 DEF MgrApply, TypeOK
<1>3. CASE MgrRecreate(f)
  <2>1. f = "rid"  BY <1>3 DEF MgrRecreate, Migrations, OtherMigration
  <2> QED  BY <1>3, <2>1 DEF MgrRecreate, TypeOK, Own
<1>4. CASE MgrRecord(f)    BY <1>4 DEF MgrRecord, TypeOK
<1>5. CASE MgrPanic(f) \/ MgrCrash(f)  BY <1>5 DEF MgrPanic, MgrCrash, TypeOK
<1> QED  BY <1>1, <1>2, <1>3, <1>4, <1>5 DEF Migrate

\* A step of the db-manager of an optional service.
LEMMA OtherStep ==
  ASSUME TypeOK, Migrations, NEW f \in Enabled,
         Migrate(f) \/ MgrPanic(f) \/ MgrCrash(f)
  PROVE  OtherMigration(f)' /\ WellFormed(f)' /\ (Good(f) => Good(f)')
<1> USE SchemaFacts
<1>1. /\ OtherMigration(f) /\ WellFormed(f) /\ f \in Schemas /\ f \in Databases /\ f # "rid"
      /\ db[f] \in Database /\ Latest(f) \in 1..4
      /\ mgr[f] \in [pc : {"off", "ready", "renamed", "applied", "done"}, db : Databases]
  BY VersionFacts DEF Migrations, TypeOK
<1>2. CASE MgrStart(f)
  <2>1. /\ DatabaseOf(f) = f /\ ~db[f].torn /\ mgr[f].pc = "off"
        /\ db' = IF db[f].exists THEN db ELSE [db EXCEPT ![f] = Empty]
        /\ mgr' = [mgr EXCEPT ![f] = [pc |-> "ready", db |-> f]]
    BY <1>1, <1>2 DEF MgrStart, DatabaseOf, Stuck
  <2>2. mgr'[f] = [pc |-> "ready", db |-> f] /\ db'[f] = IF db[f].exists THEN db[f] ELSE Empty
    BY <1>1, <2>1 DEF TypeOK
  <2> QED  BY <1>1, <2>1, <2>2 DEF OtherMigration, WellFormed, Good, Empty, Absent
<1>3. CASE MgrApply(f)
  <2>1. /\ mgr[f].pc = "ready" /\ mgr[f].db = f
        /\ db' = [db EXCEPT ![f] = [db[f] EXCEPT !.torn = ~Rerunnable(f, db[f].version + 1)]]
        /\ mgr' = [mgr EXCEPT ![f].pc = "applied"]
    BY <1>1, <1>3, VersionFacts DEF MgrApply, OtherMigration, Renames
  <2>2. /\ mgr'[f].pc = "applied" /\ mgr'[f].db = f
        /\ db'[f].exists = db[f].exists /\ db'[f].version = db[f].version
    BY <1>1, <2>1 DEF TypeOK, Database
  <2> QED  BY <1>1, <2>1, <2>2 DEF OtherMigration, WellFormed, Good
<1>4. CASE MgrRecreate(f)  BY <1>1, <1>4 DEF MgrRecreate, OtherMigration
<1>5. CASE MgrRecord(f)
  <2> DEFINE n == db[f].version + 1
  <2>1. /\ mgr[f].pc = "applied" /\ mgr[f].db = f /\ n \in 1..Latest(f)
        /\ db' = [db EXCEPT ![f] = [exists |-> TRUE, version |-> n, torn |-> FALSE]]
        /\ mgr' = [mgr EXCEPT ![f].pc = IF n = Latest(f) THEN "done" ELSE "ready"]
    BY <1>1, <1>5, AtWork DEF MgrRecord, OtherMigration, Reached, Database
  <2>2. /\ db'[f] = [exists |-> TRUE, version |-> n, torn |-> FALSE]
        /\ mgr'[f].pc = (IF n = Latest(f) THEN "done" ELSE "ready") /\ mgr'[f].db = f
    BY <1>1, <2>1 DEF TypeOK
  <2>3. Good(f) => n \in Supported(f)  BY <2>1, VersionFacts DEF Good
  <2> QED  BY <1>1, <2>1, <2>2, <2>3 DEF OtherMigration, WellFormed, Good
<1>6. CASE MgrPanic(f) \/ MgrCrash(f)
  <2>1. db' = db /\ mgr' = [mgr EXCEPT ![f].pc = "off"] /\ mgr[f].pc \notin {"off", "done"}
    BY <1>6 DEF MgrPanic, MgrCrash
  <2>2. mgr'[f].pc = "off" /\ mgr'[f].db = f  BY <1>1, <2>1 DEF TypeOK, OtherMigration
  <2> QED  BY <1>1, <2>1, <2>2 DEF OtherMigration, WellFormed, Good
<1> QED  BY <1>2, <1>3, <1>4, <1>5, <1>6 DEF Migrate

\* A step of the db-manager of remote ID.
LEMMA RIDStep ==
  ASSUME TypeOK, Migrations, Migrate("rid") \/ MgrPanic("rid") \/ MgrCrash("rid")
  PROVE  /\ BeforeRenaming' \/ AfterRenaming'
         /\ WellFormed("rid")' /\ WellFormed("defaultdb")'
         /\ ~Good("rid")
<1> USE SchemaFacts
<1>1. /\ BeforeRenaming \/ AfterRenaming
      /\ WellFormed("rid") /\ WellFormed("defaultdb")
      /\ db["rid"] \in Database /\ db["defaultdb"] \in Database
      /\ "rid" \in Databases
      /\ mgr["rid"] \in [pc : {"off", "ready", "renamed", "applied", "done"}, db : Databases]
  BY DEF Migrations, TypeOK
<1>2. ~Good("rid")
  <2>1. mgr["rid"].pc # "done"
    <3>1. CASE MgrStart("rid")  BY <3>1 DEF MgrStart
    <3>2. CASE ~MgrStart("rid")
      BY <3>2 DEF Migrate, MgrApply, MgrRecreate, MgrRecord, MgrPanic, MgrCrash
    <3> QED  BY <3>1, <3>2
  <2> QED  BY <1>1, <2>1, VersionFacts DEF BeforeRenaming, AfterRenaming, Good
<1>3. CASE MgrStart("rid")
  <2>1. BeforeRenaming /\ ~db["defaultdb"].torn
    BY <1>1, <1>3, VersionFacts DEF MgrStart, Stuck, DatabaseOf, BeforeRenaming, AfterRenaming
  <2>2. db' = db /\ mgr' = [mgr EXCEPT !["rid"] = [pc |-> "ready", db |-> "defaultdb"]]
    BY <1>3, <2>1 DEF MgrStart, DatabaseOf, BeforeRenaming
  <2>3. mgr'["rid"] = [pc |-> "ready", db |-> "defaultdb"]  BY <2>2 DEF TypeOK
  <2> QED  BY <1>1, <1>2, <2>1, <2>2, <2>3 DEF BeforeRenaming, WellFormed
<1>4. CASE MgrApply("rid")
  <2> DEFINE n == db["defaultdb"].version + 1
  <2>1. /\ BeforeRenaming /\ mgr["rid"].pc = "ready" /\ mgr["rid"].db = "defaultdb"
        /\ n \in 1..6 /\ (Renames("rid", n) <=> n = 6)
    BY <1>1, <1>4, VersionFacts DEF MgrApply, BeforeRenaming, AfterRenaming, Database
  <2>2. CASE n # 6
    <3>1. /\ db' = [db EXCEPT !["defaultdb"] = [db["defaultdb"] EXCEPT !.torn = ~Rerunnable("rid", n)]]
          /\ mgr' = [mgr EXCEPT !["rid"].pc = "applied"]
      BY <1>4, <2>1, <2>2 DEF MgrApply
    <3>2. /\ db'["rid"] = db["rid"]
          /\ db'["defaultdb"].exists = db["defaultdb"].exists
          /\ db'["defaultdb"].version = db["defaultdb"].version
          /\ mgr'["rid"].pc = "applied" /\ mgr'["rid"].db = "defaultdb"
      BY <1>1, <2>1, <3>1 DEF TypeOK, Database
    <3>3. db'["defaultdb"].version <= 4  BY <1>1, <2>1, <2>2, <3>2 DEF Database
    <3>4. BeforeRenaming'  BY <2>1, <3>2, <3>3 DEF BeforeRenaming
    <3> QED  BY <1>1, <1>2, <2>1, <3>2, <3>4 DEF BeforeRenaming, WellFormed
  <2>3. CASE n = 6
    <3>1. /\ db' = [db EXCEPT !["rid"] = [db["defaultdb"] EXCEPT !.torn = TRUE], !["defaultdb"] = Absent]
          /\ mgr' = [mgr EXCEPT !["rid"] = [pc |-> "renamed", db |-> "rid"]]
      BY <1>4, <2>1, <2>3 DEF MgrApply, BeforeRenaming
    <3>2. /\ db'["rid"] = [db["defaultdb"] EXCEPT !.torn = TRUE] /\ db'["defaultdb"] = Absent
          /\ mgr'["rid"] = [pc |-> "renamed", db |-> "rid"]
      BY <1>1, <3>1 DEF TypeOK
    <3>3. db'["rid"].exists /\ db'["rid"].version = 5 /\ db'["rid"].torn
      BY <1>1, <2>1, <2>3, <3>2 DEF BeforeRenaming, Database
    <3>4. db'["defaultdb"].version = 0 /\ ~db'["defaultdb"].torn  BY <3>2 DEF Absent
    <3>5. mgr'["rid"].pc = "renamed" /\ mgr'["rid"].db = "rid"  BY <3>2
    <3>6. AfterRenaming'  BY <3>3, <3>4, <3>5 DEF AfterRenaming
    <3> QED  BY <1>2, <3>2, <3>3, <3>6 DEF WellFormed
  <2> QED  BY <2>2, <2>3
<1>5. CASE MgrRecreate("rid")
  <2>1. /\ AfterRenaming /\ mgr["rid"].pc = "renamed"
        /\ db' = [db EXCEPT !["defaultdb"] = Empty]
        /\ mgr' = [mgr EXCEPT !["rid"].pc = "applied"]
    BY <1>1, <1>5 DEF MgrRecreate, BeforeRenaming
  <2>2. db'["defaultdb"] = Empty /\ db'["rid"] = db["rid"] /\ mgr'["rid"].pc = "applied" /\ mgr'["rid"].db = "rid"
    BY <1>1, <2>1 DEF TypeOK, AfterRenaming
  <2> QED  BY <1>2, <2>1, <2>2 DEF AfterRenaming, WellFormed, Empty
<1>6. CASE MgrRecord("rid")
  <2> DEFINE d == mgr["rid"].db
             n == db[d].version + 1
  <2>1. /\ mgr["rid"].pc = "applied" /\ Latest("rid") = 6
        /\ db' = [db EXCEPT ![d] = [exists |-> TRUE, version |-> n, torn |-> FALSE]]
        /\ mgr' = [mgr EXCEPT !["rid"].pc = IF n = 6 THEN "done" ELSE "ready"]
    BY <1>6, VersionFacts DEF MgrRecord, Reached
  <2>2. CASE BeforeRenaming
    <3>1. d = "defaultdb" /\ n \in 1..5  BY <1>1, <2>1, <2>2 DEF BeforeRenaming, Database
    <3>2. /\ db'["rid"] = db["rid"] /\ db'["defaultdb"] = [exists |-> TRUE, version |-> n, torn |-> FALSE]
          /\ mgr'["rid"].pc = "ready" /\ mgr'["rid"].db = "defaultdb"
      BY <1>1, <2>1, <3>1 DEF TypeOK
    <3> QED  BY <1>1, <1>2, <2>2, <3>1, <3>2 DEF BeforeRenaming, WellFormed
  <2>3. CASE AfterRenaming
    <3>1. d = "rid" /\ n = 6  BY <2>1, <2>3 DEF AfterRenaming
    <3>2. /\ db'["defaultdb"] = db["defaultdb"] /\ db'["rid"] = [exists |-> TRUE, version |-> 6, torn |-> FALSE]
          /\ mgr'["rid"].pc = "done" /\ mgr'["rid"].db = "rid"
      BY <1>1, <2>1, <3>1 DEF TypeOK
    <3> QED  BY <1>1, <1>2, <2>3, <3>2 DEF AfterRenaming, WellFormed
  <2> QED  BY <1>1, <2>2, <2>3
<1>7. CASE MgrPanic("rid") \/ MgrCrash("rid")
  <2>1. db' = db /\ mgr' = [mgr EXCEPT !["rid"].pc = "off"] /\ mgr["rid"].pc \notin {"off", "done"}
    BY <1>7 DEF MgrPanic, MgrCrash
  <2>2. mgr'["rid"].pc = "off"  BY <1>1, <2>1 DEF TypeOK
  <2> QED  BY <1>1, <1>2, <2>1, <2>2 DEF BeforeRenaming, AfterRenaming, WellFormed
<1> QED  BY <1>2, <1>3, <1>4, <1>5, <1>6, <1>7 DEF Migrate

\* Whatever a db-manager does, the migrations stay in order, and a store that
\* the core-service may use remains one.
LEMMA MigrationStep ==
  ASSUME TypeOK, Migrations, NEW f \in Schemas,
         Migrate(f) \/ MgrPanic(f) \/ MgrCrash(f)
  PROVE  Migrations' /\ \A g \in Schemas : Good(g) => Good(g)'
<1> USE SchemaFacts
<1>1. CASE f = "rid"
  <2>1. \A g \in Enabled : mgr'[g] = mgr[g] /\ db'[g] = db[g]
    BY <1>1, OthersUntouched DEF Own
  <2>2. \A g \in Enabled : OtherMigration(g)' /\ WellFormed(g)' /\ (Good(g) => Good(g)')
    BY <2>1 DEF Migrations, OtherMigration, WellFormed, Good
  <2>3. \A d \in Databases : d = "defaultdb" \/ d = "rid" \/ d \in Enabled  BY DEF Databases, Schemas
  <2> QED  BY <1>1, <2>2, <2>3, RIDStep DEF Migrations
<1>2. CASE f \in Enabled
  <2>1. \A g \in Schemas \ {f} : mgr'[g] = mgr[g]  BY OthersUntouched
  <2>2. \A d \in Databases \ {f} : db'[d] = db[d]  BY <1>2, OthersUntouched DEF Own
  <2>3. mgr'["rid"] = mgr["rid"] /\ db'["rid"] = db["rid"] /\ db'["defaultdb"] = db["defaultdb"]
    BY <1>2, <2>1, <2>2
  <2>4. BeforeRenaming' \/ AfterRenaming'
    <3>1. CASE BeforeRenaming  BY <2>3, <3>1 DEF BeforeRenaming
    <3>2. CASE AfterRenaming   BY <2>3, <3>2 DEF AfterRenaming
    <3> QED  BY <3>1, <3>2 DEF Migrations
  <2>5. OtherMigration(f)' /\ WellFormed(f)' /\ (Good(f) => Good(f)')  BY <1>2, OtherStep
  <2>6. \A d \in Databases \ {f} : WellFormed(d)'  BY <2>2 DEF Migrations, WellFormed
  <2>7. \A g \in Enabled \ {f} : OtherMigration(g)'  BY <2>1, <2>2 DEF Migrations, OtherMigration
  <2>8. \A g \in Schemas \ {f} : Good(g) => Good(g)'  BY <2>2 DEF Good
  <2> QED  BY <2>4, <2>5, <2>6, <2>7, <2>8 DEF Migrations
<1> QED  BY <1>1, <1>2

LEMMA MigrationsNext == TypeOK /\ Migrations /\ [Next]_vars => Migrations'
<1> SUFFICES ASSUME TypeOK, Migrations, [Next]_vars  PROVE Migrations'
  OBVIOUS
<1>1. CASE \E f \in Schemas : Migrate(f) \/ MgrPanic(f) \/ MgrCrash(f)
  BY <1>1, MigrationStep
<1>2. CASE ~\E f \in Schemas : Migrate(f) \/ MgrPanic(f) \/ MgrCrash(f)
  <2>1. db' = db /\ mgr' = mgr
    BY <1>2 DEF Next, Serve, Forward, Dial, Authorize, RefreshFails, Restart, CoreCrash, Retry, CheckRID,
                CheckOther, Register, RetryRegister, DatabaseDown, KeysDown, Recover, vars
  <2> QED
    BY <2>1 DEF Migrations, WellFormed, OtherMigration, BeforeRenaming, AfterRenaming
<1> QED  BY <1>1, <1>2

-----------------------------------------------------------------------------
(* What gets stuck *)

\* Statements of a schema are left half done only by a db-manager that stops.
LEMMA HaltedStep ==
  ASSUME TypeOK, Migrations, Halted, NEW f \in Schemas, Migrate(f)
  PROVE  Halted'
<1> USE SchemaFacts
<1> SUFFICES ASSUME outages = 0, crashes = 0
             PROVE  /\ \A g \in Schemas : mgr'[g].pc = "off" =>
                         ~db'[DatabaseOf(g)'].torn /\ ~(g = "rid" /\ db'["rid"].exists)
                    /\ dbUp'
  <2>1. outages' = outages /\ crashes' = crashes
    BY DEF Migrate, MgrStart, MgrApply, MgrRecreate, MgrRecord, env
  <2> QED  BY <2>1 DEF Halted
<1>1. dbUp /\ dbUp' = dbUp
  BY DEF Migrate, MgrStart, MgrApply, MgrRecreate, MgrRecord, env
<1>2. mgr'[f].pc # "off"
  <2>1. CASE MgrStart(f)     BY <2>1 DEF MgrStart, TypeOK
  <2>2. CASE MgrRecreate(f)  BY <2>2 DEF MgrRecreate, TypeOK
  <2>3. CASE MgrRecord(f)    BY <2>3 DEF MgrRecord, TypeOK
  <2>4. CASE MgrApply(f)
    <3>1. ~(Renames(f, db[mgr[f].db].version + 1) /\ db["rid"].exists)
      BY <2>4, AtWork, VersionFacts DEF MgrApply, Migrations, BeforeRenaming, AfterRenaming, Renames
    <3> QED  BY <2>4, <3>1 DEF MgrApply, TypeOK
  <2> QED  BY <2>1, <2>2, <2>3, <2>4 DEF Migrate
<1>3. ASSUME NEW g \in Schemas, mgr'[g].pc = "off"
      PROVE  ~db'[DatabaseOf(g)'].torn /\ ~(g = "rid" /\ db'["rid"].exists)
  <2>1. g # f /\ mgr'[g] = mgr[g]  BY <1>2, <1>3, OthersUntouched
  <2>2. ~db[DatabaseOf(g)].torn /\ ~(g = "rid" /\ db["rid"].exists)
    BY <1>3, <2>1 DEF Halted
  <2>3. \A d \in Own(g) : db'[d] = db[d]
    <3>1. Own(g) \subseteq Databases  BY DEF Own
    <3> QED  BY <2>1, <3>1, OwnFacts, OthersUntouched
  <2>4. DatabaseOf(g)' = DatabaseOf(g)  BY <2>3 DEF DatabaseOf, Own
  <2> QED  BY <2>2, <2>3, <2>4, OwnDatabase DEF Own
<1> QED  BY <1>1, <1>3

LEMMA HaltedNext == TypeOK /\ Migrations /\ Halted /\ [Next]_vars => Halted'
<1> SUFFICES ASSUME TypeOK, Migrations, Halted, [Next]_vars  PROVE Halted'
  OBVIOUS
<1>1. CASE \E f \in Schemas : Migrate(f)  BY <1>1, HaltedStep
<1>2. ASSUME NEW f \in Schemas, MgrPanic(f)  PROVE Halted'
  <2>1. ~(outages = 0 /\ crashes = 0)  BY <1>2 DEF MgrPanic, Halted
  <2> QED  BY <1>2, <2>1 DEF MgrPanic, env, Halted
<1>3. CASE (\E f \in Schemas : MgrCrash(f)) \/ CoreCrash
  <2>1. crashes' # 0  BY <1>3 DEF MgrCrash, CoreCrash, TypeOK
  <2> QED  BY <2>1 DEF Halted
<1>4. CASE DatabaseDown \/ KeysDown
  <2>1. outages' # 0  BY <1>4 DEF DatabaseDown, KeysDown, TypeOK
  <2> QED  BY <2>1 DEF Halted
<1>5. CASE Serve \/ RefreshFails \/ Forward \/ UNCHANGED vars
  <2>1. dbUp' = dbUp /\ db' = db /\ mgr' = mgr /\ outages' = outages /\ crashes' = crashes
    BY <1>5 DEF Serve, Forward, Dial, Authorize, RefreshFails, Restart, Retry, CheckRID,
                CheckOther, Register, RetryRegister, vars, env
  <2> QED  BY <2>1 DEF Halted, DatabaseOf
<1>6. CASE Recover
  BY <1>6 DEF Recover, Halted, DatabaseOf
<1> QED  BY <1>1, <1>2, <1>3, <1>4, <1>5, <1>6 DEF Next

-----------------------------------------------------------------------------
(* The core-service *)

LEMMA CheckedNext == TypeOK /\ Migrations /\ Checked /\ [Next]_vars => Checked'
<1> SUFFICES ASSUME TypeOK, Migrations, Checked, [Next]_vars  PROVE Checked'
  OBVIOUS
<1> USE SchemaFacts
<1>1. ASSUME NEW f \in Schemas, Migrate(f) \/ MgrPanic(f) \/ MgrCrash(f)  PROVE Checked'
  <2>1. core' = core /\ store' = store /\ crons' = crons  BY <1>1, OthersUntouched DEF service
  <2>2. \A g \in Schemas : Good(g) => Good(g)'  BY <1>1, MigrationStep
  <2> QED  BY <2>1, <2>2 DEF Checked, Started
<1>2. ASSUME db' = db  PROVE \A g \in Schemas : Good(g)' <=> Good(g)
  BY <1>2 DEF Good
<1>3. CASE Dial
  <2>1. db' = db /\ store' = store  BY <1>3 DEF Dial
  <2>2. CASE dbUp
    BY <1>2, <1>3, <2>1, <2>2 DEF Dial, Checked, Started
  <2>3. CASE ~dbUp /\ store \in {"rid", "old"}
    BY <1>2, <1>3, <2>1, <2>3, EnabledAssumption DEF Dial, Checked, Started, Wait, Panic
  <2>4. CASE ~dbUp /\ store \notin {"rid", "old"}
    BY <1>2, <1>3, <2>1, <2>4 DEF Dial, Checked, Started, Panic, StopCron, TypeOK, Schemas
  <2> QED  BY <2>2, <2>3, <2>4
<1>4. CASE CheckRID
  <2> DEFINE d == IF store = "rid" THEN "rid" ELSE "defaultdb"
  <2>1. core = "check" /\ store \in {"rid", "old"} /\ db' = db /\ ~Started /\ crons = 0
    BY <1>4, EnabledAssumption DEF CheckRID, Checked, Started
  <2>2. CASE StoreOK("rid", d)
    <3>1. Good("rid")
      <4>1. db["defaultdb"].version # 6  BY DEF Migrations, BeforeRenaming, AfterRenaming
      <4> QED  BY <2>2, <4>1, VersionFacts DEF StoreOK, Good
    <3>2. GoOn("rid") /\ crons' = 1  BY <1>4, <2>1, <2>2 DEF CheckRID
    <3> QED
      BY <1>2, <2>1, <3>1, <3>2, EnabledAssumption DEF GoOn, Checked, Started
  <2>3. CASE ~StoreOK("rid", d)
    <3>1. crons' = 0 /\ (core' \in {"waiting", "panicked"} \/ (core' = "dial" /\ store' = "old"))
      BY <1>4, <2>1, <2>3 DEF CheckRID, Wait, Panic
    <3> QED  BY <3>1, EnabledAssumption DEF Checked, Started
  <2> QED  BY <2>2, <2>3
<1>5. CASE CheckOther
  <2>1. core = "check" /\ store \in Enabled /\ db' = db /\ Started /\ crons = 1 /\ Good("rid")
    BY <1>5 DEF CheckOther, Checked, Started
  <2>2. CASE StoreOK(store, store)
    <3>1. Good(store)  BY <2>2 DEF StoreOK, Good
    <3>2. GoOn(store) /\ crons' = 1  BY <1>5, <2>1, <2>2 DEF CheckOther
    <3>3. store \in {"scd", "vrp"} /\ (store = "vrp" /\ "scd" \in Enabled => Good("scd"))
      BY <2>1, EnabledAssumption DEF Checked
    <3> QED
      BY <1>2, <2>1, <3>1, <3>2, <3>3, EnabledAssumption DEF GoOn, Checked, Started
  <2>3. CASE ~StoreOK(store, store)
    <3>1. crons' = 0 /\ core' \in {"waiting", "panicked"}
      BY <1>5, <2>1, <2>3 DEF CheckOther, Wait, Panic, StopCron
    <3> QED  BY <3>1 DEF Checked, Started
  <2> QED  BY <2>2, <2>3
<1>6. CASE Authorize
  BY <1>2, <1>6 DEF Authorize, Panic, Checked, Started
<1>7. CASE RefreshFails
  BY <1>7 DEF RefreshFails, Panic, Checked, Started
<1>8. CASE Retry \/ Restart
  BY <1>8 DEF Retry, Restart, Checked, Started
<1>9. CASE CoreCrash
  BY <1>9 DEF CoreCrash, Panic, Checked, Started, TypeOK
<1>10. CASE Forward \/ DatabaseDown \/ KeysDown \/ Recover \/ UNCHANGED vars
  <2>1. core' = core /\ store' = store /\ crons' = crons /\ db' = db
    BY <1>10 DEF Forward, Register, RetryRegister, DatabaseDown, KeysDown, Recover, vars, service
  <2> QED  BY <1>2, <2>1 DEF Checked, Started
<1> QED
  BY <1>1, <1>3, <1>4, <1>5, <1>6, <1>7, <1>8, <1>9, <1>10 DEF Next, Serve

-----------------------------------------------------------------------------
(* The theorems *)

LEMMA InvInit == Init => IInv
<1> SUFFICES ASSUME Init  PROVE IInv
  OBVIOUS
<1> USE SchemaFacts
<1>1. Empty \in Database /\ Absent \in Database  BY DEF Empty, Absent, Database
<1>2. TypeOK  BY <1>1, BoundsAssumption DEF Init, TypeOK
<1>3. Migrations
  <2>1. \A d \in Databases : db[d] = IF d = "defaultdb" THEN Empty ELSE Absent  BY DEF Init
  <2>2. \A f \in Schemas : mgr[f] = [pc |-> "off", db |-> f]  BY DEF Init
  <2>3. ASSUME NEW f \in Enabled  PROVE OtherMigration(f)
    <3>1. f # "defaultdb" /\ db[f] = Absent /\ mgr[f] = [pc |-> "off", db |-> f]  BY <2>1, <2>2
    <3>2. db[f].version = 0  BY <3>1 DEF Absent
    <3>3. mgr[f].pc = "off" /\ mgr[f].db = f  BY <3>1
    <3> QED  BY <3>2, <3>3, VersionFacts DEF OtherMigration
  <2>4. BeforeRenaming
    <3>1. db["rid"] = Absent /\ db["defaultdb"] = Empty  BY <2>1
    <3>2. mgr["rid"] = [pc |-> "off", db |-> "rid"]  BY <2>2
    <3>3. mgr["rid"].pc = "off"  BY <3>2
    <3> QED  BY <3>1, <3>3 DEF BeforeRenaming, Absent, Empty
  <2> QED  BY <2>1, <2>3, <2>4 DEF Migrations, WellFormed, Empty
<1>4. Halted
  <2>1. \A d \in Databases : ~db[d].torn  BY DEF Init, Empty, Absent
  <2>2. ~db["rid"].exists  BY DEF Init, Absent
  <2>3. \A f \in Schemas : mgr[f].pc = "off" /\ DatabaseOf(f) \in Databases  BY DEF Init, DatabaseOf
  <2> QED  BY <2>1, <2>2, <2>3 DEF Halted
<1>5. Checked  BY DEF Init, Checked, Started
<1> QED  BY <1>2, <1>3, <1>4, <1>5 DEF IInv

LEMMA InvNext == IInv /\ [Next]_vars => IInv'
BY TypeNext, MigrationsNext, HaltedNext, CheckedNext DEF IInv

LEMMA Invariance == Spec => []IInv
BY InvInit, InvNext, PTL DEF Spec

\* The state of the processes and of the databases is well-formed, and a
\* waiting time is always looked up inside its list.
THEOREM StartupTypeOK == Spec => []TypeOK
<1>1. IInv => TypeOK  BY DEF IInv
<1> QED  BY <1>1, Invariance, PTL

\* However often the core-service retries, one collector runs in it.
THEOREM StartupOneCollector == Spec => []OneCollector
<1>1. IInv => OneCollector
  BY DEF IInv, Checked, Started, OneCollector, TypeOK
<1> QED  BY <1>1, Invariance, PTL

\* A core-service that serves has the schemas it needs, now and later.
THEOREM StartupServesSupportedSchemas == Spec => []ServesSupportedSchemas
<1>1. IInv => ServesSupportedSchemas
  <2> SUFFICES ASSUME IInv, core \in {"authorize", "serving"}
               PROVE  /\ \A f \in Schemas : db[f].exists /\ db[f].version \in Supported(f)
                      /\ db["defaultdb"].version = 0
    BY DEF ServesSupportedSchemas
  <2>1. Good("rid") /\ \A f \in Enabled : Good(f)  BY DEF IInv, Checked, Started
  <2>2. db["defaultdb"].version = 0
    BY <2>1 DEF IInv, Migrations, BeforeRenaming, AfterRenaming, Good
  <2> QED  BY <2>1, <2>2, SchemaFacts DEF Good
<1> QED  BY <1>1, Invariance, PTL

\* A migration gets stuck only after a crash or an outage.
THEOREM StartupOnlyCrashesStick == Spec => []OnlyCrashesStick
<1>1. IInv => OnlyCrashesStick
  <2> SUFFICES ASSUME IInv, NEW f \in Schemas, Stuck(f)  PROVE crashes + outages > 0
    BY DEF OnlyCrashesStick
  <2>1. ~(outages = 0 /\ crashes = 0)
    <3>1. mgr[f].pc = "off" /\ (db[DatabaseOf(f)].torn \/ (f = "rid" /\ DatabaseOf(f) = "rid"))
      BY DEF Stuck, Renames
    <3>2. DatabaseOf(f) = "rid" /\ f = "rid" => db["rid"].exists  BY DEF DatabaseOf
    <3> QED  BY <3>1, <3>2 DEF IInv, Halted
  <2> QED  BY <2>1, BoundsAssumption DEF IInv, TypeOK
<1> QED  BY <1>1, Invariance, PTL

=============================================================================
