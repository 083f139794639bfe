------------------------------ MODULE JobBoard ------------------------------
(* What the jobs table of internal/db promises to its users, stated without *)
(* transactions: a queue ordered by (run_after, created_at) from which a    *)
(* worker takes the oldest entry, alone, and whose entries end once.        *)
(* LeaseTx and Lifecycle are shown to implement it; CliWait is built on it. *)
EXTENDS Integers

CONSTANTS Workers,  \* the worker loops sharing the database: server, CLI commands
          MaxJobs   \* bound on the rows ever inserted in jobs

(* A job is its rank in the order LeaseNextJob sorts by: run_after and        *)
(* created_at are equal, and compared as text.  Rows need not be inserted in  *)
(* rank order: a handler takes its timestamp before its INSERT.               *)
Jobs  == 1..MaxJobs
NoJob == 0

Finished == {"done", "failed", "cancelled"}
Statuses == {"absent", "queued", "running", "erased"} \cup Finished

VARIABLES status,  \* status[j]: jobs.status ("absent": not inserted, "erased": row removed)
          runner   \* runner[w]: the job worker w took and has not ended
vars == <<status, runner>>

Queued      == {j \in Jobs : status[j] = "queued"}
IsOldest(j) == j \in Queued /\ \A k \in Queued : j <= k

Init == /\ status = [j \in Jobs |-> "absent"]
        /\ runner = [w \in Workers |-> NoJob]

\* A row enters the queue.
Post(j) == /\ status[j] = "absent"
           /\ status' = [status EXCEPT ![j] = "queued"]
           /\ UNCHANGED runner

\* A free worker takes the oldest queued row.
Take(w) == /\ runner[w] = NoJob
           /\ \E j \in Jobs : /\ IsOldest(j)
                              /\ status' = [status EXCEPT ![j] = "running"]
                              /\ runner' = [runner EXCEPT ![w] = j]

\* The worker that took a row ends it.
Finish(w, s) == /\ runner[w] # NoJob
                /\ status' = [status EXCEPT ![runner[w]] = s]
                /\ runner' = [runner EXCEPT ![w] = NoJob]

\* The worker dies, or gives up on a failing write: nobody holds the row any more.
Lose(w) == /\ runner[w] # NoJob
           /\ runner' = [runner EXCEPT ![w] = NoJob]
           /\ UNCHANGED status

\* A row that is not running is removed.
Erase(j) == /\ status[j] \in {"queued"} \cup Finished
            /\ status' = [status EXCEPT ![j] = "erased"]
            /\ UNCHANGED runner

Next == \/ \E j \in Jobs : Post(j) \/ Erase(j)
        \/ \E w \in Workers : Take(w) \/ Lose(w) \/ \E s \in Finished : Finish(w, s)

Spec == Init /\ [][Next]_vars

-----------------------------------------------------------------------------
TypeOK == /\ status \in [Jobs -> Statuses]
          /\ runner \in [Workers -> Jobs \cup {NoJob}]

\* A row that a worker holds is running, and no two workers hold the same row.
Exclusive == /\ \A w \in Workers : runner[w] # NoJob => status[runner[w]] = "running"
             /\ \A v, w \in Workers : v # w /\ runner[v] # NoJob => runner[v] # runner[w]
=============================================================================
