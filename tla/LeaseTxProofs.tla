----------------------------- MODULE LeaseTxProofs -----------------------------
(* LeaseNextJob hands every job to one worker, for any number of processes.   *)
(* The argument is SnapshotHolds: the row a transaction picked can change     *)
(* only by a commit, and a commit makes every other open snapshot stale,      *)
(* which UPDATE refuses.                                                      *)
EXTENDS LeaseTx, TLAPS

-----------------------------------------------------------------------------
(* The queue itself *)

(* Every step keeps the types of the table and of the workers' memory. *)
LEMMA BoardTyped == ASSUME Board!TypeOK, [Board!Next]_(Board!vars) PROVE Board!TypeOK'
<1> USE DEF Board!TypeOK, Board!Statuses, Board!Finished
<1>1. ASSUME NEW j \in Board!Jobs, Board!Post(j) PROVE Board!TypeOK'
  BY <1>1 DEF Board!Post
<1>2. ASSUME NEW j \in Board!Jobs, Board!Erase(j) PROVE Board!TypeOK'
  BY <1>2 DEF Board!Erase
<1>3. ASSUME NEW w \in Workers, Board!Take(w) PROVE Board!TypeOK'
  BY <1>3 DEF Board!Take
<1>4. ASSUME NEW w \in Workers, Board!Lose(w) PROVE Board!TypeOK'
  BY <1>4 DEF Board!Lose
<1>5. ASSUME NEW w \in Workers, NEW s \in Board!Finished, Board!Finish(w, s) PROVE Board!TypeOK'
  BY <1>5 DEF Board!Finish
<1>6. CASE UNCHANGED Board!vars
  BY <1>6 DEF Board!vars
<1> QED BY <1>1, <1>2, <1>3, <1>4, <1>5, <1>6 DEF Board!Next

(* Every step keeps the rows of the workers apart: taking looks at queued rows *)
(* only, and a row a worker holds is running.                                  *)
LEMMA BoardExclusive == ASSUME Board!TypeOK, Board!Exclusive, [Board!Next]_(Board!vars) PROVE Board!Exclusive'
<1> USE DEF Board!TypeOK, Board!Exclusive
<1> 0 \notin Board!Jobs
  BY DEF Board!Jobs
<1>1. ASSUME NEW j \in Board!Jobs, Board!Post(j) PROVE Board!Exclusive'
  BY <1>1 DEF Board!Post
<1>2. ASSUME NEW j \in Board!Jobs, Board!Erase(j) PROVE Board!Exclusive'
  BY <1>2 DEF Board!Erase, Board!Finished
<1>3. ASSUME NEW w \in Workers, Board!Take(w) PROVE Board!Exclusive'
  <2> PICK j \in Board!Jobs : /\ Board!IsOldest(j)
                              /\ status' = [status EXCEPT ![j] = "running"]
                              /\ runner' = [runner EXCEPT ![w] = j]
    BY <1>3 DEF Board!Take
  <2>1. status[j] = "queued"
    BY DEF Board!IsOldest, Board!Queued
  <2> QED BY <2>1
<1>4. ASSUME NEW w \in Workers, Board!Lose(w) PROVE Board!Exclusive'
  BY <1>4 DEF Board!Lose
<1>5. ASSUME NEW w \in Workers, NEW s \in Board!Finished, Board!Finish(w, s) PROVE Board!Exclusive'
  BY <1>5 DEF Board!Finish
<1>6. CASE UNCHANGED Board!vars
  BY <1>6 DEF Board!vars
<1> QED BY <1>1, <1>2, <1>3, <1>4, <1>5, <1>6 DEF Board!Next

(* No two workers ever run the same job, and the job a worker runs is marked so.*)
THEOREM BoardSafe == Board!Spec => [](Board!TypeOK /\ Board!Exclusive)
<1>1. Board!Init => Board!TypeOK /\ Board!Exclusive
  BY DEF Board!Init, Board!TypeOK, Board!Exclusive, Board!Statuses
<1> QED BY <1>1, BoardTyped, BoardExclusive, PTL DEF Board!Spec
-----------------------------------------------------------------------------
(* The transactions *)

(* A worker inside LeaseNextJob executes no job. *)
LeasingIsFree == \A w \in Workers : tx[w] # "none" => runner[w] = NoJob

LeaseInv == TypeOK /\ SnapshotHolds /\ WriterAlone /\ OneRunner /\ LeasingIsFree

LEMMA JobFacts == NoJob \notin Jobs /\ "running" \notin Finished /\ "queued" \notin Finished
  BY DEF NoJob, Jobs, Finished, Board!NoJob, Board!Jobs, Board!Finished

(* Every step of LeaseTx is a step of JobBoard or leaves its variables alone. *)
LEMMA StepImplements == ASSUME LeaseInv, [Next]_vars PROVE [Board!Next]_(Board!vars)
<1> USE DEF LeaseInv, Board!vars
<1>1. ASSUME NEW w \in Workers, BeginSelect(w) \/ Upgrade(w) \/ Refused(w) \/ Abort(w)
      PROVE UNCHANGED Board!vars
  BY <1>1 DEF BeginSelect, Upgrade, Refused, Abort
<1>2. ASSUME NEW w \in Workers, CommitLease(w) PROVE Board!Take(w)
  <2>1. tx[w] = "write" /\ ~stale[w]
    BY <1>2 DEF CommitLease, WriterAlone
  <2>2. Board!IsOldest(picked[w]) /\ runner[w] = Board!NoJob
    BY <2>1 DEF SnapshotHolds, LeasingIsFree, NoJob
  <2>3. picked[w] \in Board!Jobs
    BY <2>2 DEF Board!IsOldest, Board!Queued
  <2> QED BY <1>2, <2>2, <2>3 DEF CommitLease, Board!Take
<1>3. ASSUME NEW w \in Workers, NEW s \in Finished, SetJobStatus(w, s) PROVE Board!Finish(w, s)
  BY <1>3 DEF SetJobStatus, Board!Finish, NoJob
<1>4. ASSUME NEW w \in Workers, Lose(w) PROVE Board!Lose(w)
  BY <1>4 DEF Lose
<1>5. ASSUME NEW j \in Jobs, InsertJob(j) PROVE Board!Post(j)
  BY <1>5 DEF InsertJob, Board!Post
<1>6. ASSUME NEW j \in Jobs, DeleteJob(j) PROVE Board!Erase(j)
  <2>1. status[j] \in Board!Statuses
    BY DEF TypeOK, Board!TypeOK, Jobs
  <2> QED BY <1>6, <2>1 DEF DeleteJob, Board!Erase, Board!Statuses, Board!Finished
<1>7. CASE OtherWrite
  BY <1>7 DEF OtherWrite
<1>8. CASE UNCHANGED vars
  BY <1>8 DEF vars
<1> QED BY <1>1, <1>2, <1>3, <1>4, <1>5, <1>6, <1>7, <1>8
     DEF Next, Worker, Board!Next, Jobs, Finished

(* The types are preserved. *)
LEMMA LeaseTyped == ASSUME LeaseAssumption, LeaseInv, [Next]_vars PROVE TypeOK'
<1> USE DEF LeaseInv, TypeOK, Board!TypeOK, Board!Statuses, LeaseAssumption
<1>1. ASSUME NEW w \in Workers, BeginSelect(w) PROVE TypeOK'
  BY <1>1 DEF BeginSelect
<1>2. ASSUME NEW w \in Workers, Upgrade(w) PROVE TypeOK'
  BY <1>2 DEF Upgrade
<1>3. ASSUME NEW w \in Workers, Refused(w) PROVE TypeOK'
  BY <1>3 DEF Refused, Rollback
<1>4. ASSUME NEW w \in Workers, CommitLease(w) PROVE TypeOK'
  BY <1>4, JobFacts DEF CommitLease, Rollback, Publish, NoJob, Jobs
<1>5. ASSUME NEW w \in Workers, Abort(w) PROVE TypeOK'
  BY <1>5 DEF Abort, Rollback
<1>6. ASSUME NEW w \in Workers, NEW s \in Finished, SetJobStatus(w, s) PROVE TypeOK'
  BY <1>6 DEF SetJobStatus, Publish, Finished, NoJob, Jobs
<1>7. ASSUME NEW w \in Workers, Lose(w) PROVE TypeOK'
  BY <1>7 DEF Lose, Board!Lose
<1>8. ASSUME NEW j \in Jobs, InsertJob(j) PROVE TypeOK'
  BY <1>8 DEF InsertJob
<1>9. ASSUME NEW j \in Jobs, DeleteJob(j) PROVE TypeOK'
  BY <1>9 DEF DeleteJob
<1>10. CASE OtherWrite
  BY <1>10 DEF OtherWrite
<1>11. CASE UNCHANGED vars
  BY <1>11 DEF vars
<1> QED BY <1>1, <1>2, <1>3, <1>4, <1>5, <1>6, <1>7, <1>8, <1>9, <1>10, <1>11 DEF Next, Worker

(* The snapshots stay honest: what commits makes the others stale. *)
LEMMA LeaseSnapshots ==
  ASSUME LeaseInv, [Next]_vars PROVE (SnapshotHolds /\ WriterAlone /\ LeasingIsFree)'
<1> DEFINE Goal == SnapshotHolds /\ WriterAlone /\ LeasingIsFree
<1> USE DEF LeaseInv, TypeOK, SnapshotHolds, WriterAlone, LeasingIsFree
<1>1. ASSUME NEW w \in Workers, BeginSelect(w) PROVE Goal'
  BY <1>1 DEF BeginSelect, Board!IsOldest, Board!Queued
<1>2. ASSUME NEW w \in Workers, Upgrade(w) PROVE Goal'
  <2>1. \A v \in Workers : tx[v] # "write"
    BY <1>2 DEF Upgrade, WriteLocked
  <2>2. UNCHANGED <<status, runner, picked, stale>> /\ tx' = [tx EXCEPT ![w] = "write"]
    BY <1>2 DEF Upgrade
  <2>3. WriterAlone' /\ LeasingIsFree'
    BY <1>2, <2>1, <2>2 DEF Upgrade
  <2>4. SnapshotHolds'
    BY <1>2, <2>2 DEF Upgrade, Board!IsOldest, Board!Queued
  <2> QED BY <2>3, <2>4
<1>3. ASSUME NEW w \in Workers, Refused(w) PROVE Goal'
  BY <1>3 DEF Refused, Rollback, Board!IsOldest, Board!Queued
<1>4. ASSUME NEW w \in Workers, CommitLease(w) PROVE Goal'
  <2>1. tx[w] = "write" /\ \A v \in Workers \ {w} : tx[v] # "write"
    BY <1>4 DEF CommitLease
  <2>2. tx' = [tx EXCEPT ![w] = "none"] /\ runner' = [runner EXCEPT ![w] = picked[w]]
    BY <1>4 DEF CommitLease, Rollback
  <2>3. stale' = [v \in Workers |-> v # w /\ tx[v] # "none"]
    BY <1>4 DEF CommitLease, Publish
  <2>4. \A v \in Workers : tx'[v] # "none" => v # w /\ tx'[v] = tx[v] /\ stale'[v]
    BY <2>2, <2>3
  <2>5. SnapshotHolds'
    BY <2>4
  <2>6. WriterAlone'
    BY <2>1, <2>4
  <2>7. LeasingIsFree'
    BY <2>2, <2>4 DEF Board!TypeOK
  <2> QED BY <2>5, <2>6, <2>7
<1>5. ASSUME NEW w \in Workers, Abort(w) PROVE Goal'
  BY <1>5 DEF Abort, Rollback, Board!IsOldest, Board!Queued
<1>6. ASSUME NEW w \in Workers, NEW s \in Finished, SetJobStatus(w, s) PROVE Goal'
  <2>1. tx[w] = "none" /\ \A v \in Workers : tx[v] # "write"
    BY <1>6 DEF SetJobStatus, WriteLocked
  <2>2. tx' = tx /\ runner' = [runner EXCEPT ![w] = NoJob]
    BY <1>6 DEF SetJobStatus, NoJob
  <2>3. \A v \in Workers : tx'[v] # "none" => stale'[v]
    BY <1>6, <2>1 DEF SetJobStatus, Publish
  <2> QED BY <2>1, <2>2, <2>3 DEF Board!TypeOK
<1>7. ASSUME NEW w \in Workers, Lose(w) PROVE Goal'
  BY <1>7 DEF Lose, Board!Lose, Board!TypeOK, Board!IsOldest, Board!Queued, NoJob
<1>8. ASSUME NEW j \in Jobs, InsertJob(j) \/ DeleteJob(j) PROVE Goal'
  BY <1>8 DEF InsertJob, DeleteJob, WriteLocked
<1>9. CASE OtherWrite
  BY <1>9 DEF OtherWrite, WriteLocked
<1>10. CASE UNCHANGED vars
  BY <1>10 DEF vars, Board!IsOldest, Board!Queued
<1> QED BY <1>1, <1>2, <1>3, <1>4, <1>5, <1>6, <1>7, <1>8, <1>9, <1>10 DEF Next, Worker

(* LeaseInv is inductive; OneRunner comes from the queue it implements. *)
LEMMA LeaseInductive == ASSUME LeaseAssumption, LeaseInv, [Next]_vars PROVE LeaseInv'
<1>1. [Board!Next]_(Board!vars)
  BY StepImplements
<1>2. OneRunner'
  BY <1>1, BoardExclusive DEF LeaseInv, TypeOK, OneRunner
<1> QED BY <1>2, LeaseTyped, LeaseSnapshots DEF LeaseInv

LEMMA LeaseStarts == ASSUME LeaseAssumption, Init PROVE LeaseInv
<1>1. TypeOK
  BY DEF LeaseAssumption, Init, TypeOK, Board!Init, Board!TypeOK, Board!Statuses, NoJob
<1>2. SnapshotHolds /\ WriterAlone /\ OneRunner /\ LeasingIsFree
  BY DEF Init, SnapshotHolds, WriterAlone, OneRunner, LeasingIsFree, Board!Init, Board!Exclusive
<1> QED BY <1>1, <1>2 DEF LeaseInv

(* No two processes execute the same job, and between UPDATE and COMMIT of a  *)
(* lease the picked row is still the oldest queued one.                       *)
THEOREM LeaseSafe == Spec => [](TypeOK /\ SnapshotHolds /\ WriterAlone /\ OneRunner)
<1>1. LeaseInv => TypeOK /\ SnapshotHolds /\ WriterAlone /\ OneRunner
  BY DEF LeaseInv
<1> QED BY <1>1, LeaseAssumption, LeaseStarts, LeaseInductive, PTL DEF Spec

(* LeaseNextJob over SQLite snapshots implements the atomic queue of JobBoard. *)
THEOREM LeaseImplementsBoard == Spec => ImplementsBoard
<1>1. Init => Board!Init
  BY DEF Init
<1> QED BY <1>1, LeaseAssumption, LeaseStarts, LeaseInductive, StepImplements, PTL
        DEF Spec, ImplementsBoard, Board!Spec

(* The queue and the lease transactions keep their types. *)
THEOREM LeaseTxTyped == Spec => []TypeOK
<1>1. LeaseInv => TypeOK
  BY DEF LeaseInv
<1> QED BY <1>1, LeaseAssumption, LeaseStarts, LeaseInductive, PTL DEF Spec
=============================================================================
