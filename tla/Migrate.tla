------------------------------ MODULE Migrate ------------------------------
(* internal/db/migrate.go: processes that share a database file (the server, *)
(* migrate up, workspace commands) bring its schema up to date when they     *)
(* start, except a server whose CHEAPSPACE_AUTO_MIGRATE is off: it serves    *)
(* what it finds.  Per file they ask schema_migrations in a query of its     *)
(* own, then run the SQL and the version's row in one transaction, which may *)
(* find that another process has run the file since.                         *)
EXTENDS Integers

CONSTANTS Processes,
          Migrating,    \* those that migrate: every command, and serve if cfg.AutoMigrate
          Servers,      \* the processes docker compose starts again (restart: unless-stopped)
          LastFile,     \* the embedded files, in the order of their names: 1..LastFile
          Idempotent,   \* files of CREATE .. IF NOT EXISTS only, at most the first; the others
                        \* ALTER TABLE .. ADD COLUMN
          MaxFaults     \* bound on crashes and I/O errors

ASSUME MigrateAssumption == /\ LastFile \in Nat /\ MaxFaults \in Nat
                            /\ Servers \subseteq Processes /\ Idempotent \subseteq {1}
                            /\ Migrating # {} /\ Migrating \subseteq Processes

Files == 1..LastFile

VARIABLES recorded,  \* versions in schema_migrations, committed
          schema,    \* files whose tables and columns exist, committed
          pc,        \* pc[p]: the next statement of p
          file,      \* file[p]: the file Migrate's loop is at
          tx,        \* tx[p]: what p's transaction has written: the file's SQL, the version's row
          stale,     \* stale[p]: another process has committed since p's transaction first read
          faults
vars == <<recorded, schema, pc, file, tx, stale, faults>>

Init == /\ recorded = {} /\ schema = {} /\ faults = 0
        /\ pc = [p \in Processes |-> "down"]
        /\ file = [p \in Processes |-> 1]
        /\ tx = [p \in Processes |-> {}]
        /\ stale = [p \in Processes |-> FALSE]

Goto(p, step) == pc' = [pc EXCEPT ![p] = step]

-----------------------------------------------------------------------------
(* SQLite: one transaction writes at a time.  One that has read may only start *)
(* to write while nobody else does and its snapshot is the last commit, and is *)
(* refused at once otherwise; one that has not read waits busy_timeout.        *)
Writing(p) == tx[p] # {}
Locked == \E p \in Processes : Writing(p)
MayWrite(p) == Writing(p) \/ (~Locked /\ ~stale[p])

\* A statement that writes in p's transaction.
Write(p, part, step) == /\ MayWrite(p)
                        /\ tx' = [tx EXCEPT ![p] = @ \cup {part}] /\ Goto(p, step)
                        /\ UNCHANGED <<recorded, schema, file, stale, faults>>

Fail(p) == Goto(p, "failed") /\ tx' = [tx EXCEPT ![p] = {}]

\* Mutant: a file that cannot be applied is skipped.
SkipRefused(p) == /\ Goto(p, "check") /\ tx' = [tx EXCEPT ![p] = {}]
                  /\ file' = [file EXCEPT ![p] = @ + 1]
                  /\ UNCHANGED <<recorded, schema, stale, faults>>

\* Any error rolls back and ends Migrate, and with it the process.
Refused(p) == Fail(p) /\ UNCHANGED <<recorded, schema, file, stale, faults>>

-----------------------------------------------------------------------------
(* Migrate *)

\* Without AutoMigrate serve goes on with the schema as it is.
Start(p) == /\ pc[p] \in {"down", "failed"}
            /\ Goto(p, IF p \in Migrating THEN "check" ELSE "up") /\ file' = [file EXCEPT ![p] = 1]
            /\ UNCHANGED <<recorded, schema, tx, stale, faults>>

\* Mutant: the loop does not stop at the last file.
CheckPast(p) == /\ pc[p] = "check"
                /\ IF file[p] \in recorded THEN file' = [file EXCEPT ![p] = @ + 1] /\ UNCHANGED pc
                                           ELSE Goto(p, "execute") /\ UNCHANGED file
                /\ UNCHANGED <<recorded, schema, tx, stale, faults>>

\* isApplied, outside of the transaction that BEGIN opens next.
Check(p) == /\ pc[p] = "check"
            /\ \/ file[p] > LastFile /\ Goto(p, "up") /\ UNCHANGED file
               \/ file[p] \in recorded /\ file' = [file EXCEPT ![p] = @ + 1] /\ UNCHANGED pc
               \/ file[p] \in Files \ recorded /\ Goto(p, "execute") /\ UNCHANGED file
            /\ UNCHANGED <<recorded, schema, tx, stale, faults>>

\* tx.Exec of a CREATE .. IF NOT EXISTS file: its first statements only read.
ExecuteCreates(p) == /\ pc[p] = "execute" /\ file[p] \in Idempotent
                     /\ Goto(p, IF file[p] \in schema THEN "record" ELSE "create")
                     /\ stale' = [stale EXCEPT ![p] = FALSE]
                     /\ UNCHANGED <<recorded, schema, file, tx, faults>>
CreateTables(p) == pc[p] = "create" /\ (Write(p, "sql", "record") \/ (~MayWrite(p) /\ Refused(p)))

\* Mutant: db.Exec instead of tx.Exec: the column is there before the transaction commits.
AlterOutside(p) ==
  /\ pc[p] = "execute" /\ file[p] \notin Idempotent
  /\ \/ file[p] \in schema /\ Refused(p)
     \/ /\ file[p] \notin schema /\ ~Locked
        /\ schema' = schema \cup {file[p]} /\ Goto(p, "record")
        /\ stale' = [stale EXCEPT ![p] = FALSE]
        /\ UNCHANGED <<recorded, file, tx, faults>>

\* tx.Exec of an ALTER TABLE .. ADD COLUMN file: "duplicate column name", or the first write.
AlterTable(p) ==
  /\ pc[p] = "execute" /\ file[p] \notin Idempotent
  /\ \/ file[p] \in schema /\ Refused(p)
     \/ /\ file[p] \notin schema /\ ~Locked
        /\ tx' = [tx EXCEPT ![p] = {"sql"}] /\ Goto(p, "record")
        /\ stale' = [stale EXCEPT ![p] = FALSE]
        /\ UNCHANGED <<recorded, schema, file, faults>>

\* ALTER TABLE has waited busy_timeout for the writer.
Timeout(p) == pc[p] = "execute" /\ file[p] \notin Idempotent /\ Locked /\ Refused(p)

\* Mutant: the version is not recorded.
RecordNothing(p) == /\ pc[p] = "record" /\ Goto(p, "commit")
                    /\ UNCHANGED <<recorded, schema, file, tx, stale, faults>>

\* INSERT OR REPLACE INTO schema_migrations.
RecordVersion(p) == pc[p] = "record" /\ (Write(p, "version", "commit") \/ (~MayWrite(p) /\ Refused(p)))

Commit(p) == /\ pc[p] = "commit"
             /\ schema' = IF "sql" \in tx[p] THEN schema \cup {file[p]} ELSE schema
             /\ recorded' = IF "version" \in tx[p] THEN recorded \cup {file[p]} ELSE recorded
             /\ tx' = [tx EXCEPT ![p] = {}]
             /\ stale' = [q \in Processes |-> TRUE]
             /\ file' = [file EXCEPT ![p] = @ + 1] /\ Goto(p, "check")
             /\ UNCHANGED faults

\* The command ends, or the server is shut down.
Stop(p) == pc[p] = "up" /\ Goto(p, "down") /\ UNCHANGED <<recorded, schema, file, tx, stale, faults>>

(* A process that is up writes to the tables of the first file, if they exist: *)
(* transactions that have read fall behind.                                    *)
Serve(p) == /\ pc[p] = "up" /\ 1 \in schema /\ ~Locked
            /\ stale' = [q \in Processes |-> TRUE]
            /\ UNCHANGED <<recorded, schema, pc, file, tx, faults>>

\* The process dies, or a statement or the commit fails on I/O; SQLite drops the transaction.
Crash(p) == /\ pc[p] \notin {"down", "failed"} /\ faults < MaxFaults
            /\ faults' = faults + 1 /\ Fail(p)
            /\ UNCHANGED <<recorded, schema, file, stale>>

Advance(p) == \/ Check(p) \/ ExecuteCreates(p) \/ CreateTables(p) \/ AlterTable(p) \/ Timeout(p)
              \/ RecordVersion(p) \/ Commit(p)

Next == \E p \in Processes : Start(p) \/ Advance(p) \/ Serve(p) \/ Stop(p) \/ Crash(p)

Spec == Init /\ [][Next]_vars

(* A started process runs, its wait for the lock ends in the lock or in the    *)
(* timeout, and compose starts a server again whenever it has failed.          *)
FairSpec == /\ Spec
            /\ \A p \in Processes : WF_vars(Advance(p))
            /\ \A p \in Servers : WF_vars(Start(p))

-----------------------------------------------------------------------------
(* Properties *)

(* Types. *)
TypeOK == /\ recorded \subseteq Files /\ schema \subseteq Files
          /\ pc \in [Processes -> {"down", "check", "execute", "create", "record", "commit", "up", "failed"}]
          /\ file \in [Processes -> 1..(LastFile + 1)]
          /\ tx \in [Processes -> SUBSET {"sql", "version"}]
          /\ stale \in [Processes -> BOOLEAN]
          /\ faults \in 0..MaxFaults

(* schema_migrations tells the truth after any crash and any race: a file is    *)
(* recorded exactly when its tables and columns exist, and none before its      *)
(* predecessors.  A column without its record would make every later start fail.*)
RecordIsTrue == /\ recorded = schema
                /\ \A f \in recorded : 1..f \subseteq recorded

(* A process that migrates goes on to its own work only with the whole schema   *)
(* in place, whoever else has migrated, failed or served meanwhile.             *)
UpIsMigrated == \A p \in Migrating : pc[p] = "up" => schema = Files

(* Processes that start together can make each other fail, by the lock, the     *)
(* snapshot or the duplicate column, but never all of them: without a fault     *)
(* there is always one that has not failed, even beside a server that writes    *)
(* without having migrated.                                                     *)
SomeoneMigrates == faults = 0 => \E p \in Migrating : pc[p] # "failed"

(* A server that has started comes up in the end, whoever migrates beside it    *)
(* and however often it is started again for that.                              *)
ServersComeUp == \A p \in Servers : pc[p] # "down" ~> pc[p] = "up"
=============================================================================
