------------------------------ MODULE Startup -------------------------------
(***************************************************************************)
(* app, worker and poller start side by side (docker-compose.yml) and each *)
(* does the same before it serves: load_partners, bootstrap_keyring on the *)
(* gnupg volume they share, run_migrations on the database they share      *)
(* (lifespan in main.py, run_worker, run_poller).                          *)
(*                                                                         *)
(* The keyring only grows: nothing removes a key that the configuration    *)
(* no longer names.  run_migrations is ONE transaction: pool.connection()  *)
(* opens it and conn.transaction() inside is a savepoint.  What PostgreSQL *)
(* does with two of them at once is modelled from its documentation: the   *)
(* second creator of a table, a row or a column waits for the first, and   *)
(* fails if the first commits.                                             *)
(***************************************************************************)
EXTENDS Naturals, FiniteSets

CONSTANTS
  Processes,
  NumFiles,       \* the files of db/migrations, in filename order
  Keys, Bits,     \* the key files, and the RSA length of each (0: not RSA)
  MinBits,        \* crypto.min_rsa_key_bits
  Configs,        \* partners.yaml over time: the keys it names, own key included, and
                  \* override, a partial function to crypto_overrides.min_rsa_key_bits
  MaxStarts,      \* bound: starts of one process
  MaxDeaths,      \* bound: processes killed, databases lost, files that fail
  MaxEdits,       \* bound: changes of partners.yaml
  NoProcess

ASSUME StartupAssumption ==
  /\ NumFiles \in Nat /\ MinBits \in Nat
  /\ MaxStarts \in Nat /\ MaxDeaths \in Nat /\ MaxEdits \in Nat
  /\ Bits \in [Keys -> Nat]
  /\ \A c \in Configs : c.keys \subseteq Keys /\ \A k \in DOMAIN c.override : c.override[k] \in Nat
  /\ NoProcess \notin Processes

Files == 1..NumFiles

VARIABLES
  \* the volume and the database
  keyring,
  table,      \* is schema_migrations there
  recorded,   \* its rows
  effects,    \* how often the statements of a file have been committed (history)
  \* the operator
  config, edits,
  \* the processes
  pc, why, conf, toImport,
  creator,    \* whose open transaction has created schema_migrations
  applied,    \* the rows a process has read
  tx,         \* the files its open transaction has run and recorded
  starts, deaths

shared == <<keyring, table, recorded, effects>>
bounds == <<starts, deaths>>
vars == <<shared, config, edits, pc, why, conf, toImport, creator, applied, tx, bounds>>

Init ==
  /\ keyring = {}
  /\ table \in BOOLEAN
  /\ recorded \in {1..n : n \in 0..NumFiles}
  /\ ~table => recorded = {}
  /\ effects = [f \in Files |-> IF f \in recorded THEN 1 ELSE 0]
  /\ config \in Configs
  /\ edits = 0
  /\ pc = [p \in Processes |-> "down"]
  /\ why = [p \in Processes |-> "new"]
  /\ conf = [p \in Processes |-> config]
  /\ toImport = [p \in Processes |-> {}]
  /\ creator = NoProcess
  /\ applied = [p \in Processes |-> {}]
  /\ tx = [p \in Processes |-> {}]
  /\ starts = [p \in Processes |-> 0]
  /\ deaths = 0

Goto(p, l) == pc' = [pc EXCEPT ![p] = l]

-----------------------------------------------------------------------------
(* bootstrap_keyring *)

(* the process is started and reads partners.yaml *)
Start(p) ==
  /\ pc[p] = "down"
  /\ starts[p] < MaxStarts
  /\ starts' = [starts EXCEPT ![p] = @ + 1]
  /\ conf' = [conf EXCEPT ![p] = config]
  /\ toImport' = [toImport EXCEPT ![p] = config.keys]
  /\ Goto(p, "importing")
  /\ UNCHANGED <<shared, config, edits, why, creator, applied, tx, deaths>>

(* gpg.import_keys of our own key, then of the partners' *)
ImportKey(p) ==
  /\ pc[p] = "importing"
  /\ \E k \in toImport[p] :
       /\ keyring' = keyring \cup {k}
       /\ toImport' = [toImport EXCEPT ![p] = @ \ {k}]
  /\ UNCHANGED <<table, recorded, effects, config, edits, pc, why, conf, creator, applied, tx, bounds>>

(* check_key_length, against the override of the key's own partner if any *)
Admits(c, k) ==
  LET floor == IF k \in DOMAIN c.override THEN c.override[k] ELSE MinBits
  IN  Bits[k] > 0 /\ Bits[k] >= floor

(* _validate_key_lengths: everything list_keys returns *)
CheckKeyring(p) ==
  /\ pc[p] = "importing"
  /\ toImport[p] = {}
  /\ IF \A k \in keyring : Admits(conf[p], k)
     THEN Goto(p, "creating") /\ UNCHANGED why
     ELSE Goto(p, "down") /\ why' = [why EXCEPT ![p] = "key"]
  /\ UNCHANGED <<shared, config, edits, conf, toImport, creator, applied, tx, bounds>>

-----------------------------------------------------------------------------
(* run_migrations *)

(* leaving "async with pool.connection()" by an exception *)
Rollback(p) ==
  /\ creator' = IF creator = p THEN NoProcess ELSE creator
  /\ tx' = [tx EXCEPT ![p] = {}]

(* UniqueViolation: another process has got there first *)
LoseRace(p) ==
  /\ Goto(p, "down")
  /\ why' = [why EXCEPT ![p] = "race"]
  /\ Rollback(p)

(* CREATE TABLE IF NOT EXISTS *)
CreateTable(p) ==
  /\ pc[p] = "creating"
  /\ CASE table -> Goto(p, "reading") /\ UNCHANGED creator
       [] ~table /\ creator = NoProcess -> Goto(p, "reading") /\ creator' = p
       [] OTHER -> Goto(p, "waiting") /\ UNCHANGED creator
  /\ UNCHANGED <<shared, config, edits, why, conf, toImport, applied, tx, bounds>>

(* the other creator's transaction is over *)
CreatorIsDone(p) ==
  /\ pc[p] = "waiting"
  /\ creator = NoProcess
  /\ IF table
     THEN LoseRace(p)
     ELSE creator' = p /\ Goto(p, "reading") /\ UNCHANGED <<why, tx>>
  /\ UNCHANGED <<shared, config, edits, conf, toImport, applied, bounds>>

(* SELECT filename FROM schema_migrations *)
ReadApplied(p) ==
  /\ pc[p] = "reading"
  /\ applied' = [applied EXCEPT ![p] = recorded]
  /\ Goto(p, "files")
  /\ UNCHANGED <<shared, config, edits, why, conf, toImport, creator, tx, bounds>>

(* the next file, in filename order, that was not among the rows read *)
IsNext(p, f) ==
  LET toApply == Files \ (applied[p] \cup tx[p])
  IN  f \in toApply /\ \A g \in toApply : f <= g

HeldByAnother(p, f) == \E q \in Processes \ {p} : f \in tx[q]

\* Mutants: INSERT ... ON CONFLICT DO NOTHING; a file that another process is
\* at is left to it; each file in a transaction of its own.
ApplyFile_OnConflict(p, f) ==
  /\ pc[p] = "files" /\ IsNext(p, f) /\ ~HeldByAnother(p, f)
  /\ tx' = [tx EXCEPT ![p] = @ \cup {f}]
  /\ UNCHANGED <<shared, config, edits, pc, why, conf, toImport, creator, applied, bounds>>
ApplyFile_SkipLocked(p, f) ==
  /\ pc[p] = "files" /\ IsNext(p, f) /\ f \notin recorded
  /\ IF HeldByAnother(p, f)
     THEN applied' = [applied EXCEPT ![p] = @ \cup {f}] /\ UNCHANGED tx
     ELSE tx' = [tx EXCEPT ![p] = @ \cup {f}] /\ UNCHANGED applied
  /\ UNCHANGED <<shared, config, edits, pc, why, conf, toImport, creator, bounds>>
ApplyFile_OwnTransaction(p, f) ==
  /\ pc[p] = "files" /\ IsNext(p, f)
  /\ IF f \in recorded
     THEN LoseRace(p) /\ UNCHANGED <<table, recorded, effects, applied>>
     ELSE /\ recorded' = recorded \cup {f}
          /\ applied' = [applied EXCEPT ![p] = @ \cup {f}]
          /\ effects' = [effects EXCEPT ![f] = @ + 1]
          /\ table' = TRUE /\ creator' = NoProcess
          /\ UNCHANGED <<pc, why, tx>>
  /\ UNCHANGED <<keyring, config, edits, conf, toImport, bounds>>

(* A file's statements and its INSERT: they wait for the open transaction  *)
(* of another process that has run it, and fail if it is recorded by now.  *)
ApplyFile(p, f) ==
  /\ pc[p] = "files" /\ IsNext(p, f) /\ ~HeldByAnother(p, f)
  /\ IF f \in recorded
     THEN LoseRace(p)
     ELSE tx' = [tx EXCEPT ![p] = @ \cup {f}] /\ UNCHANGED <<pc, why, creator>>
  /\ UNCHANGED <<shared, config, edits, conf, toImport, applied, bounds>>

\* Mutant: the connection is kept, and its transaction never ended.
Commit_LeftOpen(p) ==
  /\ pc[p] = "files"
  /\ applied[p] \cup tx[p] = Files
  /\ Goto(p, "up")
  /\ UNCHANGED <<shared, config, edits, why, conf, toImport, creator, applied, tx, bounds>>

(* the end of the connection block, and of the start-up *)
Commit(p) ==
  /\ pc[p] = "files"
  /\ applied[p] \cup tx[p] = Files
  /\ recorded' = recorded \cup tx[p]
  /\ effects' = [f \in Files |-> IF f \in tx[p] THEN effects[f] + 1 ELSE effects[f]]
  /\ table' = (table \/ creator = p)
  /\ creator' = IF creator = p THEN NoProcess ELSE creator
  /\ tx' = [tx EXCEPT ![p] = {}]
  /\ Goto(p, "up")
  /\ UNCHANGED <<keyring, config, edits, why, conf, toImport, applied, bounds>>

-----------------------------------------------------------------------------
(* The process is killed or loses the database, a key file or a migration  *)
(* file fails: whatever was not committed is rolled back.                  *)
Die(p) ==
  /\ pc[p] # "down"
  /\ deaths < MaxDeaths
  /\ deaths' = deaths + 1
  /\ Goto(p, "down")
  /\ why' = [why EXCEPT ![p] = "died"]
  /\ Rollback(p)
  /\ UNCHANGED <<shared, config, edits, conf, toImport, applied, starts>>

(* partners.yaml and its key files are changed *)
Edit ==
  /\ edits < MaxEdits
  /\ edits' = edits + 1
  /\ config' \in Configs \ {config}
  /\ UNCHANGED <<shared, pc, why, conf, toImport, creator, applied, tx, bounds>>

Step(p) ==
  \/ ImportKey(p) \/ CheckKeyring(p)
  \/ CreateTable(p) \/ CreatorIsDone(p) \/ ReadApplied(p) \/ Commit(p)
  \/ \E f \in Files : ApplyFile(p, f)

Next == (\E p \in Processes : Start(p) \/ Step(p) \/ Die(p)) \/ Edit

Spec == Init /\ [][Next]_vars

(* A start-up is straight-line code; PostgreSQL wakes every waiter.        *)
(* Nothing is said of starts: docker-compose.yml has no restart policy.    *)
FairSpec == Spec /\ \A p \in Processes : WF_vars(Step(p))

-----------------------------------------------------------------------------
TypeOK ==
  /\ keyring \subseteq Keys
  /\ table \in BOOLEAN
  /\ recorded \subseteq Files
  /\ effects \in [Files -> Nat]
  /\ config \in Configs
  /\ edits \in Nat
  /\ pc \in [Processes -> {"down", "importing", "creating", "waiting", "reading", "files", "up"}]
  /\ why \in [Processes -> {"new", "key", "race", "died"}]
  /\ conf \in [Processes -> Configs]
  /\ toImport \in [Processes -> SUBSET Keys]
  /\ creator \in Processes \cup {NoProcess}
  /\ applied \in [Processes -> SUBSET Files]
  /\ tx \in [Processes -> SUBSET Files]
  /\ starts \in [Processes -> Nat]
  /\ deaths \in Nat

(* run_migrations: "not yet recorded in schema_migrations": though every   *)
(* process decides on rows it read before the others committed, no file is *)
(* committed twice (the PRIMARY KEY on filename).                          *)
AppliedOnce == \A f \in Files : effects[f] <= 1 /\ (effects[f] = 1 <=> f \in recorded)

(* A process that serves finds every migration committed, by whomever, and *)
(* uses only keys that the configuration it runs with admits.              *)
UpIsReady ==
  \A p \in Processes : pc[p] = "up" =>
    /\ recorded = Files
    /\ \A k \in conf[p].keys : k \in keyring /\ Admits(conf[p], k)

(* A process that dies of the migrations' race leaves a database on which  *)
(* all of them are committed: starting it again is enough.                 *)
LostRaceIsOver == \A p \in Processes : why[p] = "race" => recorded = Files

(* No start-up hangs: whoever waits for another's transaction gets on.     *)
StartupEnds == \A p \in Processes : pc[p] = "importing" ~> pc[p] \in {"up", "down"}
=============================================================================
