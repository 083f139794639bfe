------------------------------- MODULE LeaseTx -------------------------------
(* Store.LeaseNextJob statement by statement, against every other writer of *)
(* the same SQLite file.  The file is in WAL mode and BeginTx starts a      *)
(* deferred transaction: SELECT fixes a snapshot of the committed database, *)
(* UPDATE asks for the single write lock and is refused when the lock is    *)
(* taken or the snapshot is no longer the latest, COMMIT publishes.         *)
EXTENDS Integers

CONSTANTS Workers,         \* one worker loop per process: serve, workspace new/delete --wait
          MaxJobs,         \* bound on the rows ever inserted in jobs
          MaxDisturbances  \* bound on unrelated commits and on failed or killed transactions

ASSUME LeaseAssumption == /\ MaxJobs \in Nat \ {0}
                          /\ MaxDisturbances \in Nat

VARIABLES status,       \* committed jobs.status
          runner,       \* the job whose executeJob the worker is in
          tx,           \* "none", "read" (after SELECT) or "write" (after UPDATE)
          picked,       \* the row SELECT returned
          stale,        \* somebody committed since that SELECT
          disturbances  \* disturbances so far
vars == <<status, runner, tx, picked, stale, disturbances>>

Board == INSTANCE JobBoard
Jobs     == Board!Jobs
NoJob    == Board!NoJob
Finished == Board!Finished

WriteLocked == \E w \in Workers : tx[w] = "write"

Init == /\ Board!Init
        /\ tx = [w \in Workers |-> "none"]
        /\ picked = [w \in Workers |-> NoJob]
        /\ stale = [w \in Workers |-> FALSE]
        /\ disturbances = 0

\* A commit (by w, or by nobody of Workers) makes every other open snapshot old.
Publish(w) == stale' = [v \in Workers |-> v # w /\ tx[v] # "none"]
Rollback(w) == /\ tx' = [tx EXCEPT ![w] = "none"]
               /\ picked' = [picked EXCEPT ![w] = NoJob]

(* BEGIN and SELECT ... ORDER BY run_after, created_at LIMIT 1.  Without a row *)
(* the transaction is rolled back and nothing changes.  "run_after <= now"     *)
(* keeps a prefix of the order, so a row found is the oldest queued one.       *)
BeginSelect(w) ==
  /\ runner[w] = NoJob /\ tx[w] = "none"
  /\ \E j \in Jobs : /\ Board!IsOldest(j)
                     /\ picked' = [picked EXCEPT ![w] = j]
  /\ tx' = [tx EXCEPT ![w] = "read"]
  /\ stale' = [stale EXCEPT ![w] = FALSE]
  /\ UNCHANGED <<status, runner, disturbances>>

\* Mutant: the UPDATE runs in a transaction of its own, whatever was committed since.
UpgradeAnySnapshot(w) == /\ tx[w] = "read" /\ ~WriteLocked
                         /\ tx' = [tx EXCEPT ![w] = "write"]
                         /\ stale' = [stale EXCEPT ![w] = FALSE]
                         /\ UNCHANGED <<status, runner, picked, disturbances>>

\* UPDATE jobs SET status = 'running' gets the write lock on the latest snapshot.
Upgrade(w) == /\ tx[w] = "read" /\ ~stale[w] /\ ~WriteLocked
              /\ tx' = [tx EXCEPT ![w] = "write"]
              /\ UNCHANGED <<status, runner, picked, stale, disturbances>>

\* Mutant: the error path forgets the rollback, the transaction stays open.
RefusedNoRollback(w) == tx[w] = "read" /\ (stale[w] \/ WriteLocked) /\ UNCHANGED vars

\* UPDATE is refused (SQLITE_BUSY, SQLITE_BUSY_SNAPSHOT): the deferred Rollback runs.
Refused(w) == /\ tx[w] = "read" /\ (stale[w] \/ WriteLocked)
              /\ Rollback(w)
              /\ stale' = [stale EXCEPT ![w] = FALSE]
              /\ UNCHANGED <<status, runner, disturbances>>

\* tx.Commit: the row is running and RunOneJob goes on to executeJob.
CommitLease(w) == /\ tx[w] = "write"
                  /\ status' = [status EXCEPT ![picked[w]] = "running"]
                  /\ runner' = [runner EXCEPT ![w] = picked[w]]
                  /\ Rollback(w) /\ Publish(w)
                  /\ UNCHANGED disturbances

\* The process dies inside the transaction, or UPDATE or Commit fails otherwise.
Abort(w) == /\ tx[w] # "none" /\ disturbances < MaxDisturbances
            /\ Rollback(w)
            /\ stale' = [stale EXCEPT ![w] = FALSE]
            /\ disturbances' = disturbances + 1
            /\ UNCHANGED <<status, runner>>

\* executeJob ends in SetJobStatus, a statement of its own.
SetJobStatus(w, s) == /\ runner[w] # NoJob /\ ~WriteLocked
                      /\ status' = [status EXCEPT ![runner[w]] = s]
                      /\ runner' = [runner EXCEPT ![w] = NoJob]
                      /\ Publish(w)
                      /\ UNCHANGED <<tx, picked, disturbances>>

\* executeJob returns on a failed write, or the process dies: the row stays running.
Lose(w) == Board!Lose(w) /\ UNCHANGED <<tx, picked, stale, disturbances>>

\* Mutant: the row is inserted with the first state of a workspace.
InsertPending(j) == /\ status[j] = "absent" /\ ~WriteLocked
                    /\ status' = [status EXCEPT ![j] = "pending"]
                    /\ stale' = [v \in Workers |-> tx[v] # "none"]
                    /\ UNCHANGED <<runner, tx, picked, disturbances>>

\* CreateWorkspace, QueueWorkspaceDelete, ResumeJob or a follow-up inserts a row.
InsertJob(j) == /\ status[j] = "absent" /\ ~WriteLocked
                /\ status' = [status EXCEPT ![j] = "queued"]
                /\ stale' = [v \in Workers |-> tx[v] # "none"]
                /\ UNCHANGED <<runner, tx, picked, disturbances>>

\* Mutant: DELETE FROM jobs WHERE id = ? without the status condition.
DeleteAnyJob(j) == /\ status[j] \notin {"absent", "erased"} /\ ~WriteLocked
                   /\ status' = [status EXCEPT ![j] = "erased"]
                   /\ stale' = [v \in Workers |-> tx[v] # "none"]
                   /\ UNCHANGED <<runner, tx, picked, disturbances>>

\* DELETE FROM jobs WHERE id = ? AND status != 'running'.
DeleteJob(j) == /\ status[j] \notin {"absent", "running", "erased"} /\ ~WriteLocked
                /\ status' = [status EXCEPT ![j] = "erased"]
                /\ stale' = [v \in Workers |-> tx[v] # "none"]
                /\ UNCHANGED <<runner, tx, picked, disturbances>>

\* Any other commit on the file: a log line, a workspace row, a cancel flag.
OtherWrite == /\ disturbances < MaxDisturbances /\ ~WriteLocked
              /\ disturbances' = disturbances + 1
              /\ stale' = [v \in Workers |-> tx[v] # "none"]
              /\ UNCHANGED <<status, runner, tx, picked>>

Worker(w) == \/ BeginSelect(w) \/ Upgrade(w) \/ Refused(w) \/ CommitLease(w)
             \/ \E s \in Finished : SetJobStatus(w, s)

Next == \/ \E w \in Workers : Worker(w) \/ Abort(w) \/ Lose(w)
        \/ \E j \in Jobs : InsertJob(j) \/ DeleteJob(j)
        \/ OtherWrite

Spec == Init /\ [][Next]_vars
\* Service.Start loops for ever and every store call returns.
FairSpec == Spec /\ \A w \in Workers : WF_vars(Worker(w))

-----------------------------------------------------------------------------
(* Types of the committed tables and of the open transactions. *)
TypeOK == /\ Board!TypeOK
          /\ tx \in [Workers -> {"none", "read", "write"}]
          /\ picked \in [Workers -> Jobs \cup {NoJob}]
          /\ stale \in [Workers -> BOOLEAN]
          /\ disturbances \in 0..MaxDisturbances

(* A transaction whose snapshot is the latest still reads its row as the      *)
(* oldest queued one: what LeaseNextJob's UPDATE relies on without testing    *)
(* "AND status = 'queued'".                                                   *)
SnapshotHolds == \A w \in Workers : tx[w] # "none" /\ ~stale[w] => Board!IsOldest(picked[w])

(* The write lock is exclusive and its owner looks at the latest database, so *)
(* between UPDATE and COMMIT of LeaseNextJob nobody else commits.             *)
WriterAlone == /\ \A w \in Workers : tx[w] = "write" => ~stale[w]
               /\ \A v, w \in Workers : tx[v] = "write" /\ tx[w] = "write" => v = w

(* No two workers execute the same job, and what a worker executes is running.*)
OneRunner == Board!Exclusive

(* LeaseNextJob implements the atomic Take of the jobs queue. *)
ImplementsBoard == Board!Spec

(* A queued job is leased or removed in the end, whatever lost the race for   *)
(* the write lock: Start retries after every failed LeaseNextJob.             *)
EveryJobLeased == \A j \in Jobs : (status[j] = "queued") ~> (status[j] # "queued")
=============================================================================
