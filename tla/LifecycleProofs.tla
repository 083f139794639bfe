---------------------------- MODULE LifecycleProofs ----------------------------
(* What Lifecycle keeps for any number of workspaces, workers, ports and jobs.*)
EXTENDS Lifecycle, FiniteSetTheorems, TLAPS

-----------------------------------------------------------------------------
(* The inductive invariant *)

Tasks == [ws : Workspaces, type : JobTypes]

BuildSteps     == {"build_check", "build", "set_image", "follow_up"}
ProvisionSteps == {"allocate", "provision_check", "image", "volume", "create", "start_check",
                   "start_container", "record", "release"}
DeleteSteps    == {"delete_check", "remove_container", "remove_volume", "delete_release", "mark_deleted"}
FailSteps      == {"release", "fail", "fail_state"}

\* A row of jobs names its workspace from its INSERT on.
JobsKnown == \A j \in Jobs : IF status[j] = "absent" THEN task[j] = NoTask ELSE task[j] \in Tasks

\* A worker between two jobs holds none; one in a job holds a row that was leased.
HeldKnown == \A w \in Workers : /\ pc[w] = "idle" <=> held[w] = NoJob
                                /\ held[w] # NoJob => status[held[w]] \notin {"absent", "queued"}

\* The step of a worker belongs to the type of its job; failJob knows its outcome.
StepsMatch == \A w \in Workers : /\ pc[w] \in BuildSteps => Type(w) = "build_image"
                                 /\ pc[w] \in ProvisionSteps => Type(w) = "provision_workspace"
                                 /\ pc[w] \in DeleteSteps => Type(w) = "delete_workspace"
                                 /\ pc[w] = "start" => Type(w) # "delete_workspace"
                                 /\ pc[w] \in FailSteps => outcome[w] \in {"failed", "cancelled"}

Core == TypeOK /\ JobsKnown /\ HeldKnown /\ StepsMatch

(* A job in a worker's hands has a workspace. *)
LEMMA HeldTask == ASSUME Core, NEW w \in Workers, pc[w] # "idle"
                  PROVE held[w] \in Jobs /\ task[held[w]] \in Tasks /\ Here(w) \in Workspaces /\ Type(w) \in JobTypes
  BY DEF Core, TypeOK, JobsKnown, HeldKnown, Tasks, Here, Type

(* The initial state is as the tables and workers should be. *)
LEMMA CoreStarts == ASSUME LifecycleAssumption, Init PROVE Core
<1>1. TypeOK
  BY DEF LifecycleAssumption, Init, TypeOK, States, Rows, NoRow, NewRow, NoBox, PCs, AnyPort, NoTask
<1>2. JobsKnown /\ HeldKnown /\ StepsMatch
  BY DEF Init, JobsKnown, HeldKnown, StepsMatch, BuildSteps, ProvisionSteps, DeleteSteps, FailSteps
<1> QED BY <1>1, <1>2 DEF Core

-----------------------------------------------------------------------------
(* Handlers *)

(* Inserting a row keeps the jobs table well formed. *)
LEMMA InsertCore == ASSUME Core, NEW ws \in Workspaces, NEW type \in JobTypes, InsertJob(ws, type)
                    PROVE /\ status' \in [Jobs -> {"absent", "queued", "running", "erased"} \cup Finished]
                          /\ task' \in [Jobs -> Tasks \cup {NoTask}]
                          /\ JobsKnown'
                          /\ \E j \in Jobs : /\ status[j] = "absent"
                                             /\ \A k \in Jobs \ {j} : status'[k] = status[k] /\ task'[k] = task[k]
  BY DEF Core, TypeOK, JobsKnown, InsertJob, Tasks

(* A worker's job is an older row than the one inserted. *)
LEMMA InsertKeepsWorkers == ASSUME Core, NEW ws \in Workspaces, NEW type \in JobTypes, InsertJob(ws, type),
                                   UNCHANGED worker
                            PROVE HeldKnown' /\ StepsMatch'
<1>1. PICK j \in Jobs : /\ status[j] = "absent"
                        /\ \A k \in Jobs \ {j} : status'[k] = status[k] /\ task'[k] = task[k]
  BY InsertCore
<1>2. ASSUME NEW w \in Workers
      PROVE /\ held[w] # NoJob => status'[held[w]] = status[held[w]] /\ task'[held[w]] = task[held[w]]
            /\ held[w] = NoJob => pc[w] = "idle"
  BY <1>1 DEF Core, TypeOK, HeldKnown
<1>3. HeldKnown'
  BY <1>2 DEF Core, HeldKnown, worker
<1>4. StepsMatch'
  BY <1>2 DEF Core, HeldKnown, StepsMatch, worker, Type, BuildSteps, ProvisionSteps, DeleteSteps, FailSteps
<1> QED BY <1>3, <1>4

(* Each handler keeps Core. *)
LEMMA HandlersCore == ASSUME LifecycleAssumption, Core, Handlers PROVE Core'
<1> USE DEF worker, ghosts, store
<1>1. ASSUME NEW ws \in Workspaces, NEW input \in Inputs, CreateWorkspace(ws, input) PROVE Core'
  <2>1. FirstJob(input.built) \in JobTypes
    BY DEF FirstJob, JobTypes
  <2>2. NewRow(input) \in Rows
    BY DEF LifecycleAssumption, NewRow, Rows
  <2>3. InsertJob(ws, FirstJob(input.built))
    BY <1>1 DEF CreateWorkspace
  <2>4. TypeOK'
    BY <1>1, <2>1, <2>2, <2>3, InsertCore DEF CreateWorkspace, Core, TypeOK, States, Tasks
  <2>5. HeldKnown' /\ StepsMatch'
    BY <1>1, <2>1, <2>3, InsertKeepsWorkers DEF CreateWorkspace
  <2> QED BY <2>1, <2>3, <2>4, <2>5, InsertCore DEF Core
<1>2. ASSUME NEW ws \in Workspaces, QueueDeleteJob(ws) PROVE Core'
  <2>1. "delete_workspace" \in JobTypes /\ InsertJob(ws, "delete_workspace")
    BY <1>2 DEF QueueDeleteJob, JobTypes
  <2>2. TypeOK'
    BY <1>2, <2>1, InsertCore DEF QueueDeleteJob, Core, TypeOK, Tasks
  <2>3. HeldKnown' /\ StepsMatch'
    BY <1>2, <2>1, InsertKeepsWorkers DEF QueueDeleteJob
  <2> QED BY <2>1, <2>2, <2>3, InsertCore DEF Core
<1>3. ASSUME NEW ws \in Workspaces, SetDeleting(ws) PROVE Core'
  BY <1>3 DEF SetDeleting, Core, TypeOK, JobsKnown, HeldKnown, StepsMatch, Type, States
<1>4. ASSUME NEW j \in Jobs, RequestCancel(j) PROVE Core'
  BY <1>4 DEF RequestCancel, Core, TypeOK, JobsKnown, HeldKnown, StepsMatch, Type
<1>5. ASSUME NEW j \in Jobs, ResumeJob(j) PROVE Core'
  <2>1. task[j] \in Tasks
    BY <1>5 DEF ResumeJob, Core, JobsKnown, Finished
  <2>2. task[j].ws \in Workspaces /\ task[j].type \in JobTypes /\ InsertJob(task[j].ws, task[j].type)
    BY <1>5, <2>1 DEF ResumeJob, Tasks
  <2>3. TypeOK'
    BY <1>5, <2>2, InsertCore DEF ResumeJob, Core, TypeOK, Tasks
  <2>4. HeldKnown' /\ StepsMatch'
    BY <1>5, <2>2, InsertKeepsWorkers DEF ResumeJob
  <2> QED BY <2>2, <2>3, <2>4, InsertCore DEF Core
<1>6. ASSUME NEW j \in Jobs, DeleteJob(j) PROVE Core'
  <2>1. task[j].ws \in Workspaces
    BY <1>6 DEF DeleteJob, Core, JobsKnown, Finished, Tasks
  <2> QED BY <1>6, <2>1 DEF DeleteJob, Core, TypeOK, JobsKnown, HeldKnown, StepsMatch, Type, Finished
<1> QED BY <1>1, <1>2, <1>3, <1>4, <1>5, <1>6 DEF Handlers

-----------------------------------------------------------------------------
(* Workers *)

ControlTyped == /\ pc \in [Workers -> PCs]
                /\ held \in [Workers -> Jobs \cup {NoJob}]
                /\ seen \in [Workers -> Rows]
                /\ port \in [Workers -> Ports \cup {AnyPort}]
                /\ outcome \in [Workers -> {"none", "failed", "cancelled"}]

StoreTyped == /\ state \in [Workspaces -> States]
              /\ row \in [Workspaces -> Rows]
              /\ status \in [Jobs -> {"absent", "queued", "running", "erased"} \cup Finished]
              /\ task \in [Jobs -> Tasks \cup {NoTask}]
              /\ cancel \in [Jobs -> {"no", "queued", "running"}]
              /\ lease \in [Ports -> Workspaces \cup {NoWorkspace}]
              /\ box \in [Workspaces -> [container : {"none", "created", "running"},
                                         port : Ports \cup {AnyPort}, volume : BOOLEAN]]
              /\ pendingDelete \subseteq Workspaces /\ disturbed \subseteq Workspaces
              /\ faults \in 0..MaxFaults

(* The type invariant in two halves, so that a leaf sees only the half it needs. *)
LEMMA TypeParts == (TypeOK <=> ControlTyped /\ StoreTyped) /\ (TypeOK' <=> ControlTyped' /\ StoreTyped')
  BY DEF TypeOK, ControlTyped, StoreTyped, Tasks

(* Moving a worker to another step keeps its memory well typed. *)
LEMMA MoveTyped ==
  ASSUME TypeOK, NEW w \in Workers, NEW step \in PCs, NEW s \in {"failed", "cancelled"},
         Goto(w, step) \/ Fail(w, step, s) \/ GoIdle(w)
  PROVE ControlTyped'
<1>1. "idle" \in PCs /\ NoRow \in Rows
  BY DEF PCs, NoRow, NewRow, Rows
<1>2. CASE Goto(w, step)
  BY <1>2 DEF TypeOK, ControlTyped, Goto
<1>3. CASE Fail(w, step, s)
  BY <1>3 DEF TypeOK, ControlTyped, Fail
<1>4. CASE GoIdle(w)
  BY <1>1, <1>4 DEF TypeOK, ControlTyped, GoIdle
<1> QED BY <1>2, <1>3, <1>4

(* A cancellation check only moves the worker. *)
LEMMA CheckTyped ==
  ASSUME TypeOK, NEW w \in Workers, NEW at, NEW step \in PCs, NEW failed \in PCs, Check(w, at, step, failed)
  PROVE TypeOK'
<1>1. ControlTyped'
  BY MoveTyped DEF Check
<1>2. StoreTyped'
  BY TypeParts DEF Check, StoreTyped, store, ghosts
<1> QED BY <1>1, <1>2, TypeParts

(* Where an ignored error happens and where it leads. *)
LEMMA IgnoredSteps == ASSUME NEW step \in DOMAIN AfterIgnored
                      PROVE step # "idle" /\ AfterIgnored[step] \in PCs
  BY DEF AfterIgnored, PCs

(* Every step of a worker, faults included, keeps the types. *)
LEMMA WorkTyped == ASSUME LifecycleAssumption, Core, NEW w \in Workers, Work(w) \/ WorkerFault(w) PROVE TypeOK'
<1> USE DEF Core
<1>1. ASSUME LeaseNextJob(w) PROVE TypeOK'
  BY <1>1, HeldTask DEF LeaseNextJob, TypeOK, PCs, store, ghosts
<1>2. ASSUME LoadWorkspace(w) PROVE TypeOK'
  BY <1>2, HeldTask DEF LoadWorkspace, TypeOK, PCs, store, ghosts
<1>3. ASSUME StartJob(w) PROVE TypeOK'
  <2>1. ControlTyped'
    BY <1>3, MoveTyped DEF StartJob, PCs
  <2>2. StoreTyped'
    BY <1>3, HeldTask, TypeParts DEF StartJob, SetState, States, StoreTyped, StepsMatch, FailSteps, worker, store, ghosts
  <2> QED BY <2>1, <2>2, TypeParts
<1>4. ASSUME SetDone(w) PROVE TypeOK'
  <2>1. ControlTyped'
    BY <1>4, MoveTyped DEF SetDone, PCs
  <2>2. StoreTyped'
    BY <1>4, HeldTask, TypeParts DEF SetDone, SetStatus, Finished, StoreTyped, StepsMatch, FailSteps, worker, store, ghosts
  <2> QED BY <2>1, <2>2, TypeParts
<1>5. ASSUME ReleaseAfterError(w) PROVE TypeOK'
  <2>1. ControlTyped'
    BY <1>5, MoveTyped DEF ReleaseAfterError, PCs
  <2>2. StoreTyped'
    BY <1>5, HeldTask, TypeParts DEF ReleaseAfterError, FreePorts, StoreTyped, StepsMatch, FailSteps, worker, store, ghosts
  <2> QED BY <2>1, <2>2, TypeParts
<1>6. ASSUME FailJob(w) PROVE TypeOK'
  <2>1. ControlTyped'
    BY <1>6, MoveTyped DEF FailJob, PCs
  <2>2. StoreTyped'
    BY <1>6, HeldTask, TypeParts DEF FailJob, SetStatus, Finished, StoreTyped, StepsMatch, FailSteps, worker, store, ghosts
  <2> QED BY <2>1, <2>2, TypeParts
<1>7. ASSUME FailWorkspace(w) PROVE TypeOK'
  <2>1. ControlTyped'
    BY <1>7, MoveTyped DEF FailWorkspace, PCs
  <2>2. StoreTyped'
    BY <1>7, HeldTask, TypeParts DEF FailWorkspace, SetState, States, StoreTyped, StepsMatch, FailSteps, worker, store, ghosts
  <2> QED BY <2>1, <2>2, TypeParts
<1>8. ASSUME BuildCheck(w) PROVE TypeOK'
  BY <1>8, CheckTyped DEF BuildCheck, PCs
<1>9. ASSUME BuildImage(w) PROVE TypeOK'
  <2>1. ControlTyped'
    BY <1>9, MoveTyped DEF BuildImage, PCs
  <2>2. StoreTyped'
    BY <1>9, HeldTask, TypeParts DEF BuildImage, StoreTyped, StepsMatch, FailSteps, worker, store, ghosts
  <2> QED BY <2>1, <2>2, TypeParts
<1>10. ASSUME SetImage(w) PROVE TypeOK'
  <2>1. ControlTyped'
    BY <1>10, MoveTyped DEF SetImage, PCs
  <2>2. StoreTyped'
    <3>1. Here(w) \in Workspaces
      BY <1>10, HeldTask DEF SetImage
    <3>2. row' \in [Workspaces -> Rows]
      <4>1. row \in [Workspaces -> Rows] /\ row' = [row EXCEPT ![Here(w)].image = TRUE]
        BY <1>10, TypeParts DEF SetImage, StoreTyped
      <4> QED BY <3>1, <4>1 DEF Rows
    <3> QED BY <1>10, <3>1, <3>2, TypeParts DEF SetImage, StoreTyped, worker, store, ghosts
  <2> QED BY <2>1, <2>2, TypeParts
<1>11. ASSUME AllocatePort(w) PROVE TypeOK'
  <2>1. ControlTyped'
    <3>1. \E p \in Ports : port' = [port EXCEPT ![w] = p]
      BY <1>11 DEF AllocatePort, Leased, FreeCandidates, Candidates, TypeOK, Rows
    <3>2. pc' = [pc EXCEPT ![w] = "provision_check"] /\ UNCHANGED <<held, seen, outcome>>
      BY <1>11 DEF AllocatePort
    <3> QED BY <3>1, <3>2, TypeParts DEF ControlTyped, PCs
  <2>2. StoreTyped'
    BY <1>11, HeldTask, TypeParts DEF AllocatePort, Leased, FreeCandidates, Candidates, StoreTyped, StepsMatch, FailSteps, worker, store, ghosts
  <2> QED BY <2>1, <2>2, TypeParts
<1>12. ASSUME EnqueueFollowUp(w) PROVE TypeOK'
  <2>1. ControlTyped'
    BY <1>12, MoveTyped DEF EnqueueFollowUp, PCs
  <2>2. StoreTyped'
    BY <1>12, HeldTask, TypeParts, InsertCore DEF EnqueueFollowUp, StoreTyped, JobTypes, Tasks, ghosts
  <2> QED BY <2>1, <2>2, TypeParts
<1>13. ASSUME AllocateFails(w) PROVE TypeOK'
  <2>1. ControlTyped'
    BY <1>13, MoveTyped DEF AllocateFails, PCs
  <2>2. StoreTyped'
    BY <1>13, HeldTask, TypeParts DEF AllocateFails, StoreTyped, StepsMatch, FailSteps, worker, store, ghosts
  <2> QED BY <2>1, <2>2, TypeParts
<1>14. ASSUME ProvisionCheck(w) PROVE TypeOK'
  BY <1>14, CheckTyped DEF ProvisionCheck, PCs
<1>15. ASSUME RequireImage(w) PROVE TypeOK'
  <2>1. ControlTyped'
    BY <1>15, MoveTyped DEF RequireImage, PCs
  <2>2. StoreTyped'
    BY <1>15, HeldTask, TypeParts DEF RequireImage, StoreTyped, StepsMatch, FailSteps, worker, store, ghosts
  <2> QED BY <2>1, <2>2, TypeParts
<1>16. ASSUME CommandFails(w) PROVE TypeOK'
  <2>1. ControlTyped'
    BY <1>16, MoveTyped DEF CommandFails, PCs
  <2>2. StoreTyped'
    BY <1>16, HeldTask, TypeParts DEF CommandFails, StoreTyped, StepsMatch, FailSteps, worker, store, ghosts
  <2> QED BY <2>1, <2>2, TypeParts
<1>17. ASSUME CreateVolume(w) PROVE TypeOK'
  <2>1. ControlTyped'
    BY <1>17, MoveTyped DEF CreateVolume, PCs
  <2>2. StoreTyped'
    BY <1>17, HeldTask, TypeParts DEF CreateVolume, StoreTyped, StepsMatch, FailSteps, worker, store, ghosts
  <2> QED BY <2>1, <2>2, TypeParts
<1>18. ASSUME CreateContainer(w) PROVE TypeOK'
  <2>1. ControlTyped'
    BY <1>18, MoveTyped DEF CreateContainer, PCs
  <2>2. StoreTyped'
    BY <1>18, HeldTask, TypeParts DEF CreateContainer, ControlTyped, StoreTyped, StepsMatch, FailSteps, worker, store, ghosts
  <2> QED BY <2>1, <2>2, TypeParts
<1>19. ASSUME StartCheck(w) PROVE TypeOK'
  BY <1>19, CheckTyped DEF StartCheck, PCs
<1>20. ASSUME StartContainer(w) PROVE TypeOK'
  <2>1. ControlTyped'
    BY <1>20, MoveTyped DEF StartContainer, PCs
  <2>2. StoreTyped'
    BY <1>20, HeldTask, TypeParts DEF StartContainer, StoreTyped, StepsMatch, FailSteps, worker, store, ghosts
  <2> QED BY <2>1, <2>2, TypeParts
<1>21. ASSUME RecordProvisioned(w) PROVE TypeOK'
  <2>1. ControlTyped'
    BY <1>21, MoveTyped DEF RecordProvisioned, PCs
  <2>2. StoreTyped'
    <3>1. Here(w) \in Workspaces /\ port[w] \in Ports \cup {AnyPort}
      BY <1>21, HeldTask, TypeParts DEF RecordProvisioned, ControlTyped
    <3>2. row' \in [Workspaces -> Rows]
      <4>1. [row[Here(w)] EXCEPT !.recorded = TRUE, !.sshPort = port[w]] \in Rows
        <5>1. row[Here(w)] \in Rows
          BY <3>1, TypeParts DEF StoreTyped
        <5> QED BY <3>1, <5>1 DEF Rows
      <4> QED BY <1>21, <3>1, <4>1, TypeParts DEF RecordProvisioned, StoreTyped
    <3>3. state' \in [Workspaces -> States]
      BY <1>21, <3>1, TypeParts DEF RecordProvisioned, SetState, StoreTyped, States
    <3> QED BY <1>21, <3>2, <3>3, TypeParts DEF RecordProvisioned, StoreTyped, ghosts
  <2> QED BY <2>1, <2>2, TypeParts
<1>22. ASSUME DeleteCheck(w) PROVE TypeOK'
  BY <1>22, CheckTyped DEF DeleteCheck, PCs
<1>23. ASSUME RemoveContainer(w) PROVE TypeOK'
  <2>1. ControlTyped'
    BY <1>23, MoveTyped DEF RemoveContainer, PCs
  <2>2. StoreTyped'
    BY <1>23, HeldTask, TypeParts DEF RemoveContainer, AnyPort, StoreTyped, StepsMatch, FailSteps, worker, store, ghosts
  <2> QED BY <2>1, <2>2, TypeParts
<1>24. ASSUME RemoveVolume(w) PROVE TypeOK'
  <2>1. ControlTyped'
    BY <1>24, MoveTyped DEF RemoveVolume, PCs
  <2>2. StoreTyped'
    BY <1>24, HeldTask, TypeParts DEF RemoveVolume, StoreTyped, StepsMatch, FailSteps, worker, store, ghosts
  <2> QED BY <2>1, <2>2, TypeParts
<1>25. ASSUME ReleaseDeleted(w) PROVE TypeOK'
  <2>1. ControlTyped'
    BY <1>25, MoveTyped DEF ReleaseDeleted, PCs
  <2>2. StoreTyped'
    BY <1>25, HeldTask, TypeParts DEF ReleaseDeleted, FreePorts, StoreTyped, StepsMatch, FailSteps, worker, store, ghosts
  <2> QED BY <2>1, <2>2, TypeParts
<1>26. ASSUME MarkDeleted(w) PROVE TypeOK'
  <2>1. ControlTyped'
    BY <1>26, MoveTyped DEF MarkDeleted, PCs
  <2>2. StoreTyped'
    BY <1>26, HeldTask, TypeParts DEF MarkDeleted, SetState, States, StoreTyped, StepsMatch, FailSteps, worker, store, ghosts
  <2> QED BY <2>1, <2>2, TypeParts
<1>27. ASSUME Crash(w) PROVE TypeOK'
  <2>1. ControlTyped'
    BY <1>27, MoveTyped DEF Crash, PCs
  <2>2. StoreTyped'
    BY <1>27, HeldTask, TypeParts DEF Crash, Disturb, StoreTyped, StepsMatch, FailSteps, worker, store, ghosts
  <2> QED BY <2>1, <2>2, TypeParts
<1>28. ASSUME LoadFails(w) PROVE TypeOK'
  <2>1. ControlTyped'
    BY <1>28, MoveTyped DEF LoadFails, PCs
  <2>2. StoreTyped'
    BY <1>28, HeldTask, TypeParts DEF LoadFails, Disturb, SetStatus, Finished, StoreTyped, StepsMatch, FailSteps, worker, store, ghosts
  <2> QED BY <2>1, <2>2, TypeParts
<1>29. ASSUME StatementFails(w) PROVE TypeOK'
  <2>1. ControlTyped'
    BY <1>29, MoveTyped DEF StatementFails, PCs
  <2>2. StoreTyped'
    BY <1>29, HeldTask, TypeParts DEF StatementFails, Disturb, StoreTyped, StepsMatch, FailSteps, worker, store, ghosts
  <2> QED BY <2>1, <2>2, TypeParts
<1>30. ASSUME AllocateOrSecretFails(w) PROVE TypeOK'
  <2>1. ControlTyped'
    BY <1>30, MoveTyped DEF AllocateOrSecretFails, PCs
  <2>2. StoreTyped'
    BY <1>30, HeldTask, TypeParts DEF AllocateOrSecretFails, Disturb, StoreTyped, StepsMatch, FailSteps, worker, store, ghosts
  <2> QED BY <2>1, <2>2, TypeParts
<1>31. ASSUME ErrorIgnored(w) PROVE TypeOK'
  <2>1. ControlTyped'
    <3>1. ASSUME pc[w] \in DOMAIN AfterIgnored, Goto(w, AfterIgnored[pc[w]]) PROVE ControlTyped'
      BY <3>1, IgnoredSteps, MoveTyped
    <3>2. ASSUME GoIdle(w) PROVE ControlTyped'
      BY <3>2, MoveTyped DEF PCs
    <3> QED BY <1>31, <3>1, <3>2 DEF ErrorIgnored
  <2>2. StoreTyped'
    BY <1>31, HeldTask, IgnoredSteps, TypeParts DEF ErrorIgnored, Disturb, StoreTyped, store
  <2> QED BY <2>1, <2>2, TypeParts
<1> QED BY <1>1, <1>2, <1>3, <1>4, <1>5, <1>6, <1>7, <1>8, <1>9, <1>10, <1>11, <1>12, <1>13, <1>14, <1>15, <1>16, <1>17, <1>18, <1>19, <1>20, <1>21, <1>22, <1>23, <1>24, <1>25, <1>26, <1>27, <1>28, <1>29, <1>30, <1>31 DEF Work, WorkerFault

(* Every step of a worker keeps jobs, workers and their steps matching. *)
LEMMA WorkKnown == ASSUME LifecycleAssumption, Core, TypeOK', NEW w \in Workers, Work(w) \/ WorkerFault(w)
                   PROVE JobsKnown' /\ HeldKnown' /\ StepsMatch'
<1> USE DEF worker, ghosts, store, Core, TypeOK, JobsKnown, HeldKnown, StepsMatch, Type,
            BuildSteps, ProvisionSteps, DeleteSteps, FailSteps, JobTypes
<1> DEFINE Known == JobsKnown /\ HeldKnown /\ StepsMatch
<1>1. ASSUME LeaseNextJob(w) PROVE Known'
  BY <1>1, HeldTask DEF LeaseNextJob, Finished, NoJob, Jobs
<1>2. ASSUME LoadWorkspace(w) PROVE Known'
  BY <1>2, HeldTask DEF LoadWorkspace, Finished, NoJob, Jobs
<1>3. ASSUME StartJob(w) PROVE Known'
  BY <1>3, HeldTask DEF StartJob, SetState, Goto, Finished, NoJob, Jobs
<1>4. ASSUME SetDone(w) PROVE Known'
  <2>1. status' = [status EXCEPT ![held[w]] = "done"] /\ task' = task /\ held[w] \in Jobs /\ pc[w] = "set_done"
    BY <1>4, HeldTask DEF SetDone, SetStatus
  <2>2. JobsKnown'
    BY <2>1
  <2>3. CASE Type(w) = "build_image" /\ Goto(w, "follow_up")
    BY <2>1, <2>2, <2>3 DEF Goto
  <2>4. CASE GoIdle(w)
    BY <2>1, <2>2, <2>4 DEF GoIdle, NoJob, Jobs
  <2> QED BY <1>4, <2>3, <2>4 DEF SetDone
<1>5. ASSUME ReleaseAfterError(w) PROVE Known'
  BY <1>5, HeldTask DEF ReleaseAfterError, FreePorts, Goto, Finished, NoJob, Jobs
<1>6. ASSUME FailJob(w) PROVE Known'
  BY <1>6, HeldTask DEF FailJob, SetStatus, Goto, Finished, NoJob, Jobs
<1>7. ASSUME FailWorkspace(w) PROVE Known'
  BY <1>7, HeldTask DEF FailWorkspace, SetState, GoIdle, Finished, NoJob, Jobs
<1>8. ASSUME BuildCheck(w) PROVE Known'
  BY <1>8, HeldTask DEF BuildCheck, Check, Goto, Fail, Finished, NoJob, Jobs
<1>9. ASSUME BuildImage(w) PROVE Known'
  BY <1>9, HeldTask DEF BuildImage, Goto, Fail, Finished, NoJob, Jobs
<1>10. ASSUME SetImage(w) PROVE Known'
  BY <1>10, HeldTask DEF SetImage, Goto, Finished, NoJob, Jobs
<1>11. ASSUME AllocatePort(w) PROVE Known'
  BY <1>11, HeldTask DEF AllocatePort, Leased, FreeCandidates, Candidates, Finished, NoJob, Jobs
<1>12. ASSUME EnqueueFollowUp(w) PROVE Known'
  <2>1. InsertJob(Here(w), "provision_workspace") /\ GoIdle(w) /\ Here(w) \in Workspaces
    BY <1>12, HeldTask DEF EnqueueFollowUp
  <2>2. JobsKnown' /\ \E j \in Jobs : /\ status[j] = "absent"
                                     /\ \A k \in Jobs \ {j} : status'[k] = status[k] /\ task'[k] = task[k]
    BY <2>1, InsertCore
  <2>3. \A v \in Workers : held[v] # NoJob => status'[held[v]] = status[held[v]] /\ task'[held[v]] = task[held[v]]
    BY <2>2
  <2> QED BY <2>1, <2>2, <2>3 DEF GoIdle, NoJob
<1>13. ASSUME AllocateFails(w) PROVE Known'
  BY <1>13, HeldTask DEF AllocateFails, Fail, Finished, NoJob, Jobs
<1>14. ASSUME ProvisionCheck(w) PROVE Known'
  BY <1>14, HeldTask DEF ProvisionCheck, Check, Goto, Fail, Finished, NoJob, Jobs
<1>15. ASSUME RequireImage(w) PROVE Known'
  BY <1>15, HeldTask DEF RequireImage, Goto, Fail, Finished, NoJob, Jobs
<1>16. ASSUME CommandFails(w) PROVE Known'
  BY <1>16, HeldTask DEF CommandFails, Fail, Finished, NoJob, Jobs
<1>17. ASSUME CreateVolume(w) PROVE Known'
  BY <1>17, HeldTask DEF CreateVolume, Goto, Finished, NoJob, Jobs
<1>18. ASSUME CreateContainer(w) PROVE Known'
  BY <1>18, HeldTask DEF CreateContainer, Goto, Finished, NoJob, Jobs
<1>19. ASSUME StartCheck(w) PROVE Known'
  BY <1>19, HeldTask DEF StartCheck, Check, Goto, Fail, Finished, NoJob, Jobs
<1>20. ASSUME StartContainer(w) PROVE Known'
  BY <1>20, HeldTask DEF StartContainer, Goto, Finished, NoJob, Jobs
<1>21. ASSUME RecordProvisioned(w) PROVE Known'
  BY <1>21, HeldTask DEF RecordProvisioned, SetState, Goto, Finished, NoJob, Jobs
<1>22. ASSUME DeleteCheck(w) PROVE Known'
  BY <1>22, HeldTask DEF DeleteCheck, Check, Goto, Fail, Finished, NoJob, Jobs
<1>23. ASSUME RemoveContainer(w) PROVE Known'
  BY <1>23, HeldTask DEF RemoveContainer, Goto, Finished, NoJob, Jobs
<1>24. ASSUME RemoveVolume(w) PROVE Known'
  BY <1>24, HeldTask DEF RemoveVolume, Goto, Finished, NoJob, Jobs
<1>25. ASSUME ReleaseDeleted(w) PROVE Known'
  BY <1>25, HeldTask DEF ReleaseDeleted, FreePorts, Goto, Finished, NoJob, Jobs
<1>26. ASSUME MarkDeleted(w) PROVE Known'
  BY <1>26, HeldTask DEF MarkDeleted, SetState, Goto, Finished, NoJob, Jobs
<1>27. ASSUME Crash(w) PROVE Known'
  BY <1>27, HeldTask DEF Crash, Disturb, GoIdle, Finished, NoJob, Jobs
<1>28. ASSUME LoadFails(w) PROVE Known'
  BY <1>28, HeldTask DEF LoadFails, Disturb, SetStatus, GoIdle, Finished, NoJob, Jobs
<1>29. ASSUME StatementFails(w) PROVE Known'
  BY <1>29, HeldTask DEF StatementFails, Disturb, GoIdle, Finished, NoJob, Jobs
<1>30. ASSUME AllocateOrSecretFails(w) PROVE Known'
  BY <1>30, HeldTask DEF AllocateOrSecretFails, Disturb, Fail, Finished, NoJob, Jobs
<1>31. ASSUME ErrorIgnored(w) PROVE Known'
  <2>1. UNCHANGED <<status, task>> /\ held[w] \in Jobs /\ pc[w] # "idle"
    BY <1>31, HeldTask, IgnoredSteps DEF ErrorIgnored
  <2>2. CASE GoIdle(w)
    BY <2>1, <2>2 DEF GoIdle, NoJob, Jobs
  <2>3. CASE ~GoIdle(w)
    <3>1. pc[w] \in DOMAIN AfterIgnored /\ Goto(w, AfterIgnored[pc[w]])
      BY <1>31, <2>3 DEF ErrorIgnored
    <3>2. \/ pc[w] = "build_check" /\ Goto(w, "build") 
          \/ pc[w] = "provision_check" /\ Goto(w, "image")
          \/ pc[w] = "start_check" /\ Goto(w, "start_container")
          \/ pc[w] = "delete_check" /\ Goto(w, "remove_container")
          \/ pc[w] = "remove_container" /\ Goto(w, "remove_volume")
          \/ pc[w] = "remove_volume" /\ Goto(w, "delete_release")
          \/ pc[w] = "release" /\ Goto(w, "fail")
          \/ pc[w] = "fail" /\ Goto(w, "fail_state")
      BY <3>1 DEF AfterIgnored
    <3> QED BY <2>1, <3>2 DEF Goto
  <2> QED BY <2>2, <2>3
<1> QED BY <1>1, <1>2, <1>3, <1>4, <1>5, <1>6, <1>7, <1>8, <1>9, <1>10, <1>11, <1>12, <1>13, <1>14, <1>15, <1>16, <1>17, <1>18, <1>19, <1>20, <1>21, <1>22, <1>23, <1>24, <1>25, <1>26, <1>27, <1>28, <1>29, <1>30, <1>31 DEF Work, WorkerFault

(* A delete handler that is dropped changes no table. *)
(* A delete request that breaks off between its statements keeps Core. *)
LEMMA DropCore == ASSUME LifecycleAssumption, Core, NEW ws \in Workspaces, DropDelete(ws) PROVE Core'
  BY DEF LifecycleAssumption, DropDelete, Disturb, Core, TypeOK, JobsKnown, HeldKnown, StepsMatch, Type, worker, store

(* Core is inductive. *)
LEMMA CoreInductive == ASSUME LifecycleAssumption, Core, [Next]_vars PROVE Core'
<1>1. CASE Handlers
  BY <1>1, HandlersCore
<1>2. ASSUME NEW w \in Workers, Work(w) \/ WorkerFault(w) PROVE Core'
  BY <1>2, WorkTyped, WorkKnown DEF Core
<1>3. ASSUME NEW ws \in Workspaces, DropDelete(ws) PROVE Core'
  BY <1>3, DropCore
<1>4. CASE UNCHANGED vars
  BY <1>4 DEF vars, store, worker, ghosts, Core, TypeOK, JobsKnown, HeldKnown, StepsMatch, Type
<1> QED BY <1>1, <1>2, <1>3, <1>4 DEF Next

(* The tables, Docker's objects and the workers' memories keep their types; a    *)
(* worker between two jobs holds none, and in a job one that has been leased; a *)
(* worker's step belongs to the type of its job, so executeJob never mixes the  *)
(* steps of two types, and failJob always knows the outcome it writes.          *)
THEOREM LifecycleTyped == Spec => [](TypeOK /\ JobsKnown /\ HeldKnown /\ StepsMatch)
<1>1. Core => TypeOK /\ JobsKnown /\ HeldKnown /\ StepsMatch
  BY DEF Core
<1> QED BY <1>1, LifecycleAssumption, CoreStarts, CoreInductive, PTL DEF Spec

-----------------------------------------------------------------------------
(* Jobs end, and end once *)

\* Where a worker is tells whether its job still runs; two workers hold different jobs.
EndsKnown == \A w \in Workers :
  /\ pc[w] \notin {"idle", "follow_up", "fail_state"} => status[held[w]] = "running"
  /\ pc[w] = "follow_up" => status[held[w]] # "running"
  /\ pc[w] = "fail_state" /\ Here(w) \notin disturbed => status[held[w]] # "running"
HeldApart == \A v, w \in Workers : v # w /\ held[v] # NoJob => held[v] # held[w]

JobInv == Core /\ EndsKnown /\ HeldApart /\ RunningJobHeld

(* A worker that goes idle drops its job and leaves the others theirs. *)
LEMMA MoveIdle == ASSUME TypeOK, NEW w \in Workers, GoIdle(w)
                  PROVE /\ pc'[w] = "idle" /\ held'[w] = NoJob
                        /\ \A v \in Workers \ {w} : held'[v] = held[v] /\ pc'[v] = pc[v]
                        /\ HeldApart => HeldApart'
<1>1. /\ pc'[w] = "idle" /\ held'[w] = NoJob
      /\ \A v \in Workers \ {w} : held'[v] = held[v] /\ pc'[v] = pc[v]
  BY DEF TypeOK, GoIdle
<1>2. ASSUME HeldApart, NEW u \in Workers, NEW v \in Workers, u # v, held'[u] # NoJob
      PROVE held'[u] # held'[v]
  <2>1. u # w /\ held'[u] = held[u]
    BY <1>1, <1>2
  <2>2. CASE v = w
    BY <1>1, <1>2, <2>2
  <2>3. CASE v # w
    BY <1>1, <1>2, <2>1, <2>3 DEF HeldApart
  <2> QED BY <2>2, <2>3
<1> QED BY <1>1, <1>2 DEF HeldApart

(* Handlers insert queued rows and remove rows that no worker runs. *)
LEMMA HandlersJobs == ASSUME LifecycleAssumption, JobInv, Core', Handlers PROVE JobInv'
<1> USE DEF JobInv, Core, TypeOK, EndsKnown, HeldApart, RunningJobHeld, Here, HeldKnown, worker, ghosts
<1>1. ASSUME NEW j \in Jobs, status[j] = "absent", status' = [status EXCEPT ![j] = "queued"],
             \A k \in Jobs \ {j} : task'[k] = task[k], UNCHANGED <<worker, disturbed>>
      PROVE JobInv'
  <2>1. \A w \in Workers : held[w] # NoJob => held[w] # j
    BY <1>1
  <2>2. EndsKnown'
    BY <1>1, <2>1
  <2>3. RunningJobHeld'
    BY <1>1
  <2> QED BY <1>1, <2>2, <2>3
<1>2. ASSUME NEW ws \in Workspaces, NEW input \in Inputs, CreateWorkspace(ws, input) PROVE JobInv'
  BY <1>1, <1>2 DEF CreateWorkspace, InsertJob
<1>3. ASSUME NEW ws \in Workspaces, QueueDeleteJob(ws) PROVE JobInv'
  BY <1>1, <1>3 DEF QueueDeleteJob, InsertJob
<1>4. ASSUME NEW ws \in Workspaces, SetDeleting(ws) PROVE JobInv'
  BY <1>4 DEF SetDeleting
<1>5. ASSUME NEW j \in Jobs, RequestCancel(j) PROVE JobInv'
  BY <1>5 DEF RequestCancel
<1>6. ASSUME NEW j \in Jobs, ResumeJob(j) PROVE JobInv'
  BY <1>1, <1>6 DEF ResumeJob, InsertJob
<1>7. ASSUME NEW j \in Jobs, DeleteJob(j) PROVE JobInv'
  BY <1>7 DEF DeleteJob, Finished
<1> QED BY <1>2, <1>3, <1>4, <1>5, <1>6, <1>7 DEF Handlers

(* A job that still runs keeps running while its worker moves on. *)
LEMMA MoveJobs ==
  ASSUME JobInv, Core', NEW w \in Workers, pc[w] \notin {"idle", "follow_up", "fail_state"},
         NEW step \in PCs \ {"idle", "follow_up", "fail_state"}, pc' = [pc EXCEPT ![w] = step],
         UNCHANGED <<status, task, held>>, disturbed \subseteq disturbed'
  PROVE  JobInv'
<1>1. EndsKnown'
  <2>1. \A v \in Workers : v # w => pc'[v] = pc[v] /\ Here(v)' = Here(v)
    BY DEF JobInv, Core, TypeOK, Here
  <2>2. pc'[w] = step /\ status'[held'[w]] = "running"
    BY DEF JobInv, EndsKnown, Core, TypeOK
  <2> QED BY <2>1, <2>2 DEF JobInv, EndsKnown
<1>2. HeldApart' /\ RunningJobHeld'
  BY DEF JobInv, HeldApart, RunningJobHeld
<1> QED BY <1>1, <1>2 DEF JobInv

(* A worker that drops its job through a fault leaves a disturbed workspace. *)
LEMMA DropJobs ==
  ASSUME JobInv, Core', NEW w \in Workers, pc[w] # "idle", GoIdle(w),
         UNCHANGED <<status, task>>, disturbed' = disturbed \cup {Here(w)}
  PROVE  JobInv'
<1>1. HeldApart'
  BY MoveIdle DEF JobInv, Core
<1>2. \A v \in Workers \ {w} : Here(v)' = Here(v) /\ status'[held'[v]] = status[held[v]] /\ pc'[v] = pc[v]
  BY MoveIdle DEF JobInv, Core, Here
<1>3. EndsKnown'
  <2>1. pc'[w] = "idle"
    BY MoveIdle DEF JobInv, Core
  <2>2. ASSUME NEW v \in Workers \ {w}
        PROVE /\ pc'[v] \notin {"idle", "follow_up", "fail_state"} => status'[held'[v]] = "running"
              /\ pc'[v] = "follow_up" => status'[held'[v]] # "running"
              /\ pc'[v] = "fail_state" /\ Here(v)' \notin disturbed' => status'[held'[v]] # "running"
    <3>1. Here(v) \in disturbed => Here(v)' \in disturbed'
      BY <1>2
    <3> QED BY <1>2, <3>1 DEF JobInv, EndsKnown
  <2> QED BY <2>1, <2>2 DEF EndsKnown
<1>4. RunningJobHeld'
  BY MoveIdle DEF JobInv, Core, RunningJobHeld, Here
<1> QED BY <1>1, <1>3, <1>4 DEF JobInv

(* A worker leaves its job only after ending it, or through a fault. *)
LEMMA WorkJobs == ASSUME LifecycleAssumption, JobInv, Core', NEW w \in Workers, Work(w) \/ WorkerFault(w)
                  PROVE JobInv'
<1> USE DEF JobInv, Core, TypeOK, HeldKnown, StepsMatch, FailSteps, BuildSteps, ProvisionSteps, DeleteSteps,
        EndsKnown, HeldApart, RunningJobHeld, Here, worker, ghosts, store, NoJob, Jobs
<1>1. ASSUME LeaseNextJob(w) PROVE JobInv'
  BY <1>1, HeldTask DEF LeaseNextJob
<1>2. ASSUME SetDone(w) PROVE JobInv'
  <2>1. /\ status' = [status EXCEPT ![held[w]] = "done"] /\ task' = task /\ disturbed' = disturbed
        /\ held[w] \in Jobs /\ "done" # "running"
    BY <1>2, HeldTask DEF SetDone, SetStatus
  <2>2. HeldApart' /\ \A v \in Workers \ {w} : held'[v] = held[v] /\ pc'[v] = pc[v]
    <3>1. CASE Goto(w, "follow_up")
      BY <3>1 DEF Goto
    <3>2. CASE GoIdle(w)
      BY <3>2, MoveIdle
    <3> QED BY <1>2, <3>1, <3>2 DEF SetDone
  <2>3. EndsKnown'
    BY <1>2, <2>1, <2>2 DEF SetDone, Goto, GoIdle
  <2>4. RunningJobHeld'
    BY <2>1, <2>2
  <2> QED BY <2>2, <2>3, <2>4
<1>3. ASSUME FailJob(w) PROVE JobInv'
  <2>1. /\ status' = [status EXCEPT ![held[w]] = outcome[w]] /\ task' = task /\ disturbed' = disturbed
        /\ held[w] \in Jobs /\ outcome[w] # "running"
    BY <1>3, HeldTask DEF FailJob, SetStatus
  <2>2. HeldApart' /\ \A v \in Workers \ {w} : held'[v] = held[v] /\ pc'[v] = pc[v]
    BY <1>3 DEF FailJob, Goto, GoIdle
  <2>3. EndsKnown'
    BY <1>3, <2>1, <2>2 DEF FailJob, Goto, GoIdle
  <2>4. RunningJobHeld'
    BY <2>1, <2>2
  <2> QED BY <2>2, <2>3, <2>4
<1>4. ASSUME FailWorkspace(w) PROVE JobInv'
  BY <1>4, HeldTask DEF FailWorkspace, SetState, GoIdle
<1>5. ASSUME EnqueueFollowUp(w) PROVE JobInv'
  BY <1>5, HeldTask DEF EnqueueFollowUp, InsertJob, GoIdle
<1>6. ASSUME Crash(w) PROVE JobInv'
  BY <1>6, DropJobs DEF Crash, Disturb
<1>7. ASSUME LoadFails(w) PROVE JobInv'
  <2>1. /\ status' = [status EXCEPT ![held[w]] = "failed"] /\ task' = task
        /\ disturbed \subseteq disturbed' /\ held[w] \in Jobs /\ "failed" # "running"
    BY <1>7, HeldTask DEF LoadFails, Disturb, SetStatus
  <2>2. /\ pc[w] # "idle" /\ pc'[w] = "idle" /\ held'[w] = NoJob
        /\ HeldApart' /\ \A v \in Workers \ {w} : held'[v] = held[v] /\ pc'[v] = pc[v]
    BY <1>7, MoveIdle DEF LoadFails
  <2>3. EndsKnown'
    <3>1. ASSUME NEW v \in Workers \ {w}
          PROVE  Here(v)' = Here(v) /\ status'[held'[v]] = status[held[v]] /\ pc'[v] = pc[v]
      BY <2>1, <2>2
    <3> QED BY <2>1, <2>2, <3>1
  <2>4. RunningJobHeld'
    BY <2>1, <2>2
  <2> QED BY <2>2, <2>3, <2>4
<1>8. ASSUME StatementFails(w) PROVE JobInv'
  BY <1>8, DropJobs DEF StatementFails, Disturb
<1>9. ASSUME ErrorIgnored(w) PROVE JobInv'
  <2>1. /\ UNCHANGED <<status, task>> /\ held[w] \in Jobs /\ pc[w] \notin {"idle", "follow_up"}
        /\ disturbed' = disturbed \cup {Here(w)}
    BY <1>9, HeldTask, IgnoredSteps DEF ErrorIgnored, Disturb, AfterIgnored
  <2>2. CASE GoIdle(w)
    BY <2>1, <2>2, DropJobs
  <2>3. CASE ~GoIdle(w)
    <3>1. pc[w] \in DOMAIN AfterIgnored /\ Goto(w, AfterIgnored[pc[w]])
      BY <1>9, <2>3 DEF ErrorIgnored
    <3>2. pc[w] # "fail_state" /\ AfterIgnored[pc[w]] \notin {"idle", "follow_up"}
      BY <3>1 DEF AfterIgnored
    <3> QED BY <2>1, <3>1, <3>2 DEF Goto
  <2> QED BY <2>2, <2>3
<1> HIDE DEF JobInv, Core, TypeOK, HeldKnown, StepsMatch, FailSteps, BuildSteps, ProvisionSteps, DeleteSteps,
        EndsKnown, HeldApart, RunningJobHeld, Here, worker, ghosts, store, NoJob, Jobs
<1>10. ASSUME LoadWorkspace(w) PROVE JobInv'
  BY <1>10, MoveJobs DEF LoadWorkspace, PCs, store, ghosts
<1>11. ASSUME StartJob(w) PROVE JobInv'
  BY <1>11, MoveJobs DEF StartJob, Goto, PCs, store, ghosts
<1>12. ASSUME ReleaseAfterError(w) PROVE JobInv'
  BY <1>12, MoveJobs DEF ReleaseAfterError, Goto, PCs, store, ghosts
<1>13. ASSUME BuildCheck(w) PROVE JobInv'
  BY <1>13, MoveJobs DEF BuildCheck, Check, Goto, Fail, PCs, store, ghosts
<1>14. ASSUME BuildImage(w) PROVE JobInv'
  BY <1>14, MoveJobs DEF BuildImage, Goto, Fail, PCs, store, ghosts
<1>15. ASSUME SetImage(w) PROVE JobInv'
  BY <1>15, MoveJobs DEF SetImage, Goto, PCs, store, ghosts
<1>16. ASSUME AllocatePort(w) PROVE JobInv'
  BY <1>16, MoveJobs DEF AllocatePort, PCs, store, ghosts
<1>17. ASSUME AllocateFails(w) PROVE JobInv'
  BY <1>17, MoveJobs DEF AllocateFails, Fail, PCs, store, ghosts
<1>18. ASSUME ProvisionCheck(w) PROVE JobInv'
  BY <1>18, MoveJobs DEF ProvisionCheck, Check, Goto, Fail, PCs, store, ghosts
<1>19. ASSUME RequireImage(w) PROVE JobInv'
  BY <1>19, MoveJobs DEF RequireImage, Goto, Fail, PCs, store, ghosts
<1>20. ASSUME CommandFails(w) PROVE JobInv'
  BY <1>20, MoveJobs DEF CommandFails, Fail, PCs, store, ghosts
<1>21. ASSUME CreateVolume(w) PROVE JobInv'
  BY <1>21, MoveJobs DEF CreateVolume, Goto, PCs, store, ghosts
<1>22. ASSUME CreateContainer(w) PROVE JobInv'
  BY <1>22, MoveJobs DEF CreateContainer, Goto, PCs, store, ghosts
<1>23. ASSUME StartCheck(w) PROVE JobInv'
  BY <1>23, MoveJobs DEF StartCheck, Check, Goto, Fail, PCs, store, ghosts
<1>24. ASSUME StartContainer(w) PROVE JobInv'
  BY <1>24, MoveJobs DEF StartContainer, Goto, PCs, store, ghosts
<1>25. ASSUME RecordProvisioned(w) PROVE JobInv'
  BY <1>25, MoveJobs DEF RecordProvisioned, Goto, PCs, store, ghosts
<1>26. ASSUME DeleteCheck(w) PROVE JobInv'
  BY <1>26, MoveJobs DEF DeleteCheck, Check, Goto, Fail, PCs, store, ghosts
<1>27. ASSUME RemoveContainer(w) PROVE JobInv'
  BY <1>27, MoveJobs DEF RemoveContainer, Goto, PCs, store, ghosts
<1>28. ASSUME RemoveVolume(w) PROVE JobInv'
  BY <1>28, MoveJobs DEF RemoveVolume, Goto, PCs, store, ghosts
<1>29. ASSUME ReleaseDeleted(w) PROVE JobInv'
  BY <1>29, MoveJobs DEF ReleaseDeleted, Goto, PCs, store, ghosts
<1>30. ASSUME MarkDeleted(w) PROVE JobInv'
  BY <1>30, MoveJobs DEF MarkDeleted, Goto, PCs, store, ghosts
<1>31. ASSUME AllocateOrSecretFails(w) PROVE JobInv'
  BY <1>31, MoveJobs DEF AllocateOrSecretFails, Fail, Disturb, PCs, store, ghosts
<1> QED BY <1>1, <1>2, <1>3, <1>4, <1>5, <1>6, <1>7, <1>8, <1>9, <1>10, <1>11, <1>12, <1>13, <1>14, <1>15, <1>16, <1>17, <1>18, <1>19, <1>20, <1>21, <1>22, <1>23, <1>24, <1>25, <1>26, <1>27, <1>28, <1>29, <1>30, <1>31 DEF Work, WorkerFault

(* No worker holds a job at the start. *)
LEMMA JobInvStarts == ASSUME LifecycleAssumption, Init PROVE JobInv
<1>1. EndsKnown /\ HeldApart /\ RunningJobHeld
  BY DEF Init, EndsKnown, HeldApart, RunningJobHeld
<1> QED BY <1>1, CoreStarts DEF JobInv

(* JobInv is inductive. *)
LEMMA JobInvInductive == ASSUME LifecycleAssumption, JobInv, [Next]_vars PROVE JobInv'
<1>0. Core'
  BY CoreInductive DEF JobInv
<1>1. CASE Handlers
  BY <1>0, <1>1, HandlersJobs
<1>2. ASSUME NEW w \in Workers, Work(w) \/ WorkerFault(w) PROVE JobInv'
  BY <1>0, <1>2, WorkJobs
<1>3. ASSUME NEW ws \in Workspaces, DropDelete(ws) PROVE JobInv'
  BY <1>0, <1>3 DEF DropDelete, Disturb, JobInv, EndsKnown, HeldApart, RunningJobHeld, Here, store, worker
<1>4. CASE UNCHANGED vars
  BY <1>0, <1>4 DEF vars, store, worker, ghosts, JobInv, EndsKnown, HeldApart, RunningJobHeld, Here
<1> QED BY <1>1, <1>2, <1>3, <1>4 DEF Next

(* Every path through executeJob ends its job: only a fault leaves a running   *)
(* row in nobody's hands.                                                      *)
THEOREM JobsHeld == Spec => []RunningJobHeld
<1>1. JobInv => RunningJobHeld
  BY DEF JobInv
<1> QED BY <1>1, LifecycleAssumption, JobInvStarts, JobInvInductive, PTL DEF Spec

-----------------------------------------------------------------------------
(* The worker loops implement the queue of JobBoard *)

Runner == [w \in Workers |-> IF held[w] # NoJob /\ status[held[w]] = "running" THEN held[w] ELSE NoJob]

\* The moves of the queue, by what they do to jobs.status and to the held jobs.

(* An INSERT that no worker notices posts a job. *)
LEMMA PostStep == ASSUME JobInv, NEW j \in Jobs, status[j] = "absent",
                         status' = [status EXCEPT ![j] = "queued"], Runner' = Runner
                  PROVE Board!Next
<1>1. Board!Post(j)
  BY DEF Board!Post, Runner
<1> QED BY <1>1 DEF Board!Next, Board!Jobs, Jobs

(* SetJobStatus and failJob end the job the worker runs. *)
LEMMA FinishStep == ASSUME JobInv, NEW w \in Workers, pc[w] \notin {"idle", "follow_up", "fail_state"},
                           NEW s \in Finished, status' = [status EXCEPT ![held[w]] = s],
                           held'[w] \in {held[w], NoJob}, \A v \in Workers \ {w} : held'[v] = held[v]
                    PROVE Board!Next
<1>1. held[w] \in Jobs /\ held[w] # NoJob /\ status[held[w]] = "running" /\ s # "running"
  BY HeldTask DEF JobInv, Core, EndsKnown, HeldKnown, Finished
<1>2. Runner[w] = held[w] /\ Runner'[w] = NoJob
  BY <1>1 DEF Runner, JobInv, Core, TypeOK
<1>3. ASSUME NEW v \in Workers \ {w} PROVE Runner'[v] = Runner[v]
  <2>1. held[v] # NoJob => held[v] # held[w] /\ held[v] \in Jobs
    BY DEF JobInv, HeldApart, Core, TypeOK
  <2> QED BY <1>1, <2>1 DEF Runner, JobInv, Core, TypeOK
<1>4. Runner' = [Runner EXCEPT ![w] = NoJob]
  BY <1>2, <1>3 DEF Runner
<1>5. Board!Finish(w, s)
  BY <1>1, <1>2, <1>4 DEF Board!Finish, Board!NoJob, NoJob, Runner
<1> QED BY <1>5 DEF Board!Next, Board!Finished, Finished

(* A worker that goes idle without a write drops its job, if it still ran. *)
LEMMA IdleStep == ASSUME JobInv, NEW w \in Workers, status' = status, GoIdle(w)
                  PROVE [Board!Next]_(Board!vars)
<1>1. Runner' = [Runner EXCEPT ![w] = NoJob]
  BY MoveIdle DEF JobInv, Core, Runner
<1>2. CASE Runner[w] = NoJob
  BY <1>1, <1>2 DEF Board!vars, Runner
<1>3. CASE Runner[w] # NoJob
  <2>1. Board!Lose(w)
    BY <1>1, <1>3 DEF Board!Lose, Runner, Board!NoJob, NoJob
  <2> QED BY <2>1 DEF Board!Next
<1> QED BY <1>2, <1>3

(* A step that leaves jobs.status and the held jobs alone is no step of the queue. *)
LEMMA SameJobs == ASSUME UNCHANGED <<status, held>> PROVE UNCHANGED Board!vars
  BY DEF Board!vars

(* A handler posts a job, erases one or leaves the queue alone. *)
LEMMA HandlersBoard == ASSUME JobInv, Handlers PROVE [Board!Next]_(Board!vars)
<1>1. ASSUME NEW ws \in Workspaces, NEW type \in JobTypes, InsertJob(ws, type), UNCHANGED worker
      PROVE Board!Next
  <2>1. PICK j \in Jobs : status[j] = "absent" /\ status' = [status EXCEPT ![j] = "queued"]
    BY <1>1 DEF InsertJob
  <2>2. Runner' = Runner
    BY <1>1, <2>1 DEF Runner, JobInv, Core, HeldKnown, TypeOK, worker
  <2> QED BY <2>1, <2>2, PostStep
<1>2. ASSUME NEW ws \in Workspaces, NEW input \in Inputs, CreateWorkspace(ws, input) PROVE Board!Next
  BY <1>1, <1>2 DEF CreateWorkspace, FirstJob, JobTypes
<1>3. ASSUME NEW ws \in Workspaces, QueueDeleteJob(ws) PROVE Board!Next
  BY <1>1, <1>3 DEF QueueDeleteJob, JobTypes
<1>4. ASSUME NEW ws \in Workspaces, SetDeleting(ws) PROVE UNCHANGED Board!vars
  BY <1>4, SameJobs DEF SetDeleting, worker
<1>5. ASSUME NEW j \in Jobs, RequestCancel(j) PROVE UNCHANGED Board!vars
  BY <1>5, SameJobs DEF RequestCancel, worker
<1>6. ASSUME NEW j \in Jobs, ResumeJob(j) PROVE Board!Next
  BY <1>1, <1>6 DEF ResumeJob, Finished, JobInv, Core, JobsKnown, Tasks
<1>7. ASSUME NEW j \in Jobs, DeleteJob(j) PROVE Board!Next
  <2>1. status[j] # "running" /\ status' = [status EXCEPT ![j] = "erased"] /\ held' = held
    BY <1>7 DEF DeleteJob, Finished, worker
  <2>2. Runner' = Runner
    BY <2>1 DEF Runner, JobInv, Core, TypeOK
  <2>3. Board!Erase(j)
    BY <1>7, <2>2 DEF DeleteJob, Board!Erase, Runner, Board!Finished, Finished
  <2> QED BY <2>3 DEF Board!Next, Board!Jobs, Jobs
<1> QED BY <1>2, <1>3, <1>4, <1>5, <1>6, <1>7 DEF Handlers

(* A worker takes a job, ends it, loses it or leaves the queue alone. *)
LEMMA WorkBoard == ASSUME JobInv, NEW w \in Workers, Work(w) \/ WorkerFault(w)
                   PROVE [Board!Next]_(Board!vars)
<1>1. CASE LeaseNextJob(w)
  <2>1. PICK j \in Jobs : /\ status[j] = "queued" /\ \A k \in Jobs : status[k] = "queued" => j <= k
                          /\ status' = [status EXCEPT ![j] = "running"]
                          /\ held' = [held EXCEPT ![w] = j]
    BY <1>1 DEF LeaseNextJob
  <2>2. held[w] = NoJob /\ j # NoJob
    BY <1>1 DEF LeaseNextJob, JobInv, Core, HeldKnown, Jobs, NoJob
  <2>3. Runner[w] = NoJob /\ Runner'[w] = j
    BY <2>1, <2>2 DEF Runner, JobInv, Core, TypeOK
  <2>4. ASSUME NEW v \in Workers \ {w} PROVE Runner'[v] = Runner[v]
    <3>1. held'[v] = held[v] /\ (held[v] # NoJob => held[v] # j /\ held[v] \in Jobs)
      BY <2>1 DEF JobInv, Core, HeldKnown, TypeOK
    <3> QED BY <2>1, <3>1 DEF Runner, JobInv, Core, TypeOK
  <2>5. Runner' = [Runner EXCEPT ![w] = j]
    BY <2>3, <2>4 DEF Runner
  <2>6. Board!Take(w)
    BY <2>1, <2>3, <2>5 DEF Board!Take, Board!IsOldest, Board!Queued, Board!Jobs, Jobs, Board!NoJob, NoJob, Runner
  <2> QED BY <2>6 DEF Board!Next
<1>2. CASE SetDone(w)
  <2>1. held'[w] \in {held[w], NoJob} /\ \A v \in Workers \ {w} : held'[v] = held[v]
    BY <1>2, MoveIdle DEF SetDone, Goto, JobInv, Core
  <2> QED BY <1>2, <2>1, FinishStep DEF SetDone, SetStatus, Finished
<1>3. CASE FailJob(w)
  <2>1. outcome[w] \in Finished
    BY <1>3 DEF FailJob, JobInv, Core, StepsMatch, FailSteps, Finished
  <2> QED BY <1>3, <2>1, FinishStep DEF FailJob, SetStatus, Goto
<1>4. CASE LoadFails(w)
  <2>1. held'[w] = NoJob /\ \A v \in Workers \ {w} : held'[v] = held[v]
    BY <1>4, MoveIdle DEF LoadFails, JobInv, Core
  <2> QED BY <1>4, <2>1, FinishStep DEF LoadFails, SetStatus, Finished
<1>5. CASE EnqueueFollowUp(w)
  <2>1. PICK j \in Jobs : status[j] = "absent" /\ status' = [status EXCEPT ![j] = "queued"]
    BY <1>5 DEF EnqueueFollowUp, InsertJob
  <2>2. /\ status[held[w]] # "running" /\ held'[w] = NoJob
        /\ \A v \in Workers \ {w} : held'[v] = held[v]
    BY <1>5, MoveIdle DEF EnqueueFollowUp, JobInv, Core, EndsKnown
  <2>3. ASSUME NEW v \in Workers \ {w} PROVE Runner'[v] = Runner[v]
    <3>1. held[v] # NoJob => held[v] # j /\ held[v] \in Jobs
      BY <2>1 DEF JobInv, Core, HeldKnown, TypeOK
    <3> QED BY <2>1, <2>2, <3>1 DEF Runner, JobInv, Core, TypeOK
  <2>4. Runner' = Runner
    BY <2>2, <2>3 DEF Runner
  <2> QED BY <2>1, <2>4, PostStep
<1>6. CASE FailWorkspace(w) \/ Crash(w) \/ StatementFails(w)
  BY <1>6, IdleStep DEF FailWorkspace, Crash, StatementFails, store
<1>7. CASE ErrorIgnored(w)
  <2>1. CASE GoIdle(w)
    BY <1>7, <2>1, IdleStep DEF ErrorIgnored, store
  <2>2. CASE ~GoIdle(w)
    BY <1>7, <2>2, SameJobs DEF ErrorIgnored, Goto, store
  <2> QED BY <2>1, <2>2
<1>8. CASE \/ LoadWorkspace(w) \/ StartJob(w) \/ ReleaseAfterError(w) \/ SetImage(w)
          \/ AllocatePort(w) \/ CreateVolume(w) \/ CreateContainer(w) \/ StartContainer(w)
          \/ RecordProvisioned(w) \/ RemoveContainer(w) \/ RemoveVolume(w) \/ ReleaseDeleted(w) \/ MarkDeleted(w)
  BY <1>8, SameJobs DEF LoadWorkspace, StartJob, ReleaseAfterError, SetImage, AllocatePort, CreateVolume,
     CreateContainer, StartContainer, RecordProvisioned, RemoveContainer, RemoveVolume, ReleaseDeleted,
     MarkDeleted, Goto, store
<1>9. CASE \/ BuildCheck(w) \/ BuildImage(w) \/ AllocateFails(w) \/ ProvisionCheck(w) \/ RequireImage(w)
          \/ CommandFails(w) \/ StartCheck(w) \/ DeleteCheck(w) \/ AllocateOrSecretFails(w)
  BY <1>9, SameJobs DEF BuildCheck, BuildImage, AllocateFails, ProvisionCheck, RequireImage, CommandFails,
     StartCheck, DeleteCheck, AllocateOrSecretFails, Check, Goto, Fail, store
<1> QED BY <1>1, <1>2, <1>3, <1>4, <1>5, <1>6, <1>7, <1>8, <1>9 DEF Work, WorkerFault

(* A step of the control plane is a step of the queue, or leaves it alone. *)
LEMMA BoardStep == ASSUME JobInv, [Next]_vars PROVE [Board!Next]_(Board!vars)
<1>1. CASE Handlers
  BY <1>1, HandlersBoard
<1>2. ASSUME NEW w \in Workers, Work(w) \/ WorkerFault(w) PROVE [Board!Next]_(Board!vars)
  BY <1>2, WorkBoard
<1>3. ASSUME NEW ws \in Workspaces, DropDelete(ws) PROVE UNCHANGED Board!vars
  BY <1>3, SameJobs DEF DropDelete, store, worker
<1>4. CASE UNCHANGED vars
  BY <1>4, SameJobs DEF vars, store, worker
<1> QED BY <1>1, <1>2, <1>3, <1>4 DEF Next

(* Jobs are taken oldest first, by one worker each, and end once: the jobs      *)
(* table as executeJob uses it is the queue LeaseTx implements over SQLite.     *)
THEOREM LifecycleImplementsBoard == Spec => ImplementsBoard
<1>1. Init => Board!Init
  BY DEF Init, Board!Init, Board!Jobs, Jobs, Board!NoJob, NoJob
<1> QED BY <1>1, LifecycleAssumption, JobInvStarts, JobInvInductive, BoardStep, PTL
        DEF Spec, ImplementsBoard, Board!Spec

-----------------------------------------------------------------------------
(* Ports *)

(* AllocatePort is the only step that leases a port, and only to a workspace    *)
(* that has none.                                                               *)
LEMMA WorkLease == ASSUME Core, OneLeasePerWorkspace, NEW w \in Workers, Work(w) \/ WorkerFault(w)
                   PROVE OneLeasePerWorkspace'
<1> USE DEF OneLeasePerWorkspace
<1>1. CASE AllocatePort(w)
  <2>1. CASE lease' = lease
    BY <2>1
  <2>2. ASSUME Leased(Here(w)) = {}, NEW p \in Ports, lease' = [lease EXCEPT ![p] = Here(w)]
        PROVE OneLeasePerWorkspace'
    BY <2>2 DEF Leased, Core, TypeOK
  <2>3. \/ lease' = lease
        \/ Leased(Here(w)) = {} /\ \E p \in Ports \cup Candidates(seen[w].sshPort) :
              p \in FreeCandidates(seen[w].sshPort) /\ lease' = [lease EXCEPT ![p] = Here(w)]
    BY <1>1 DEF AllocatePort, FreeCandidates
  <2>4. Candidates(seen[w].sshPort) \subseteq Ports
    BY DEF Candidates, Core, TypeOK, Rows
  <2> QED BY <2>1, <2>2, <2>3, <2>4
<1>2. CASE ReleaseAfterError(w) \/ ReleaseDeleted(w)
  <2>1. lease' = [p \in Ports |-> IF lease[p] = Here(w) THEN NoWorkspace ELSE lease[p]]
    BY <1>2 DEF ReleaseAfterError, ReleaseDeleted, FreePorts
  <2> QED BY <2>1 DEF Core, TypeOK
<1>3. CASE ~AllocatePort(w) /\ ~ReleaseAfterError(w) /\ ~ReleaseDeleted(w)
  <2>1. lease' = lease
    BY <1>3 DEF Work, WorkerFault, LeaseNextJob, LoadWorkspace, StartJob, SetDone, FailJob, FailWorkspace,
       BuildCheck, BuildImage, SetImage, EnqueueFollowUp, AllocateFails, ProvisionCheck, RequireImage,
       CommandFails, CreateVolume, CreateContainer, StartCheck, StartContainer, RecordProvisioned,
       DeleteCheck, RemoveContainer, RemoveVolume, MarkDeleted, Check, Crash, LoadFails, StatementFails,
       AllocateOrSecretFails, ErrorIgnored, store
  <2> QED BY <2>1
<1> QED BY <1>1, <1>2, <1>3

(* Whatever job asks again, and however jobs on a workspace overlap, it never   *)
(* holds two ports.                                                             *)
THEOREM OneLease == Spec => []OneLeasePerWorkspace
<1>1. Init => OneLeasePerWorkspace
  BY DEF Init, OneLeasePerWorkspace
<1>2. ASSUME Core, OneLeasePerWorkspace, [Next]_vars PROVE OneLeasePerWorkspace'
  <2>1. CASE \E w \in Workers : Work(w) \/ WorkerFault(w)
    BY <1>2, <2>1, WorkLease
  <2>2. CASE Handlers
    BY <1>2, <2>2 DEF Handlers, CreateWorkspace, QueueDeleteJob, SetDeleting, RequestCancel, ResumeJob,
       DeleteJob, OneLeasePerWorkspace
  <2>3. CASE (\E ws \in Workspaces : DropDelete(ws)) \/ UNCHANGED vars
    BY <1>2, <2>3 DEF DropDelete, vars, store, OneLeasePerWorkspace
  <2> QED BY <1>2, <2>1, <2>2, <2>3 DEF Next
<1> QED BY <1>1, <1>2, LifecycleAssumption, CoreStarts, CoreInductive, PTL DEF Spec

-----------------------------------------------------------------------------
(* The jobs use port_leases as PortTable promises *)

\* A worker has no port before AllocatePort answers it.
BeforeAllocate == {"idle", "load", "start", "allocate"}
PortKnown == \A w \in Workers : pc[w] \in BeforeAllocate => port[w] = AnyPort

(* A worker that goes idle forgets its port. *)
LEMMA IdlePort == ASSUME Core, PortKnown, NEW w \in Workers, GoIdle(w)
                  PROVE PortKnown' /\ (lease' = lease => PortLeases!Next)
<1>1. PortKnown'
  BY DEF GoIdle, PortKnown, Core, TypeOK
<1>2. ASSUME lease' = lease PROVE PortLeases!Forget(w)
  BY <1>2 DEF GoIdle, PortLeases!Forget, PortLeases!AnyPort, AnyPort
<1> QED BY <1>1, <1>2 DEF PortLeases!Next

(* A worker that moves on with the port it has. *)
LEMMA KeepPort == ASSUME Core, PortKnown, NEW w \in Workers, NEW step,
                         step \in BeforeAllocate => pc[w] \in BeforeAllocate,
                         pc' = [pc EXCEPT ![w] = step], port' = port
                  PROVE PortKnown'
  BY DEF PortKnown, Core, TypeOK

(* AllocatePort answers as the table promises. *)
LEMMA AllocateGrants == ASSUME LifecycleAssumption, Core, PortKnown, NEW w \in Workers, AllocatePort(w)
                        PROVE PortKnown' /\ PortLeases!Next
<1>1. pc[w] = "allocate" /\ Here(w) \in Workspaces /\ port[w] = AnyPort /\ seen[w].sshPort \in Ports \cup {AnyPort}
  BY HeldTask DEF AllocatePort, PortKnown, BeforeAllocate, Core, TypeOK, Rows
<1>2. PICK ws \in Workspaces, want \in Ports \cup {AnyPort} : ws = Here(w) /\ want = seen[w].sshPort
  BY <1>1
<1>3. PortKnown'
  BY DEF AllocatePort, PortKnown, BeforeAllocate, Core, TypeOK
<1>4. CASE \E p \in Leased(Here(w)) : port' = [port EXCEPT ![w] = p] /\ lease' = lease
  <2>1. PortLeases!Again(w, ws)
    BY <1>1, <1>2, <1>4 DEF PortLeases!Again, PortLeases!Leased, Leased, PortLeases!AnyPort, AnyPort
  <2> QED BY <1>3, <2>1 DEF PortLeases!Next
<1>5. CASE /\ Leased(Here(w)) = {}
           /\ \E p \in FreeCandidates(seen[w].sshPort) :
                 /\ \A q \in FreeCandidates(seen[w].sshPort) : p <= q
                 /\ port' = [port EXCEPT ![w] = p]
                 /\ lease' = [lease EXCEPT ![p] = Here(w)]
  <2>1. FreeCandidates(want) = {q \in PortLeases!Candidates(want) : lease[q] = NoWorkspace}
    BY DEF FreeCandidates, Candidates, PortLeases!Candidates, PortLeases!AnyPort, AnyPort
  <2>2. Candidates(want) \subseteq Ports
    BY DEF Candidates
  <2>3. PortLeases!Leased(ws) = {}
    BY <1>2, <1>5 DEF PortLeases!Leased, Leased
  <2>4. PICK p \in FreeCandidates(want) : /\ \A q \in FreeCandidates(want) : p <= q
                                          /\ port' = [port EXCEPT ![w] = p]
                                          /\ lease' = [lease EXCEPT ![p] = ws]
    BY <1>2, <1>5
  <2>5. p \in Ports /\ PortLeases!IsLowestFree(p, want)
    BY <2>1, <2>2, <2>4 DEF PortLeases!IsLowestFree, FreeCandidates
  <2>6. PortLeases!Grant(w, ws, want)
    BY <1>1, <2>3, <2>4, <2>5 DEF PortLeases!Grant, PortLeases!AnyPort, AnyPort
  <2> QED BY <1>3, <2>6 DEF PortLeases!Next, PortLeases!AnyPort, AnyPort
<1> QED BY <1>4, <1>5 DEF AllocatePort

(* Every other step of a worker gives ports back, forgets one or leaves them.  *)
LEMMA WorkPorts == ASSUME LifecycleAssumption, Core, PortKnown, NEW w \in Workers, Work(w) \/ WorkerFault(w)
                   PROVE PortKnown' /\ [PortLeases!Next]_(PortLeases!vars)
<1>1. CASE AllocatePort(w)
  BY <1>1, AllocateGrants
<1>2. CASE ReleaseAfterError(w) \/ ReleaseDeleted(w)
  <2>1. Here(w) \in Workspaces
    BY <1>2, HeldTask DEF ReleaseAfterError, ReleaseDeleted
  <2>2. lease' = [p \in Ports |-> IF lease[p] = Here(w) THEN NoWorkspace ELSE lease[p]] /\ port' = port
    BY <1>2 DEF ReleaseAfterError, ReleaseDeleted, FreePorts, Goto
  <2>3. PICK ws \in Workspaces : ws = Here(w)
    BY <2>1
  <2>4. PortLeases!Release(ws)
    BY <2>2, <2>3 DEF PortLeases!Release
  <2>5. PortKnown'
    BY <1>2, KeepPort DEF ReleaseAfterError, ReleaseDeleted, Goto, BeforeAllocate
  <2> QED BY <2>4, <2>5 DEF PortLeases!Next
<1>3. CASE \/ LeaseNextJob(w) \/ LoadWorkspace(w)
  <2>1. lease' = lease /\ port' = port
    BY <1>3 DEF LeaseNextJob, LoadWorkspace, store
  <2>2. PortKnown'
    BY <1>3, <2>1 DEF LeaseNextJob, LoadWorkspace, PortKnown, BeforeAllocate, Core, TypeOK
  <2> QED BY <2>1, <2>2 DEF PortLeases!vars
<1>4. CASE \/ StartJob(w) \/ SetImage(w) \/ CreateVolume(w) \/ CreateContainer(w) \/ StartContainer(w)
           \/ RecordProvisioned(w) \/ RemoveContainer(w) \/ RemoveVolume(w) \/ MarkDeleted(w) \/ FailJob(w)
  <2>1. lease' = lease /\ port' = port
    BY <1>4 DEF StartJob, SetImage, CreateVolume, CreateContainer, StartContainer, RecordProvisioned,
       RemoveContainer, RemoveVolume, MarkDeleted, FailJob, Goto, store
  <2>2. \E step : /\ step \in BeforeAllocate => pc[w] \in BeforeAllocate
                  /\ pc' = [pc EXCEPT ![w] = step]
    BY <1>4 DEF StartJob, SetImage, CreateVolume, CreateContainer, StartContainer, RecordProvisioned,
       RemoveContainer, RemoveVolume, MarkDeleted, FailJob, Goto, BeforeAllocate
  <2> QED BY <2>1, <2>2, KeepPort DEF PortLeases!vars
<1>5. CASE BuildCheck(w) \/ ProvisionCheck(w) \/ StartCheck(w) \/ DeleteCheck(w)
  <2>1. lease' = lease /\ port' = port
    BY <1>5 DEF BuildCheck, ProvisionCheck, StartCheck, DeleteCheck, Check, Goto, Fail, store
  <2>2. \E step \in {"build", "image", "start_container", "remove_container", "fail", "release"} :
          pc' = [pc EXCEPT ![w] = step]
    <3>1. ASSUME NEW at, NEW step, NEW onCancel, Check(w, at, step, onCancel)
          PROVE pc' = [pc EXCEPT ![w] = step] \/ pc' = [pc EXCEPT ![w] = onCancel]
      BY <3>1 DEF Check, Goto, Fail
    <3>2. CASE BuildCheck(w)
      BY <3>1, <3>2 DEF BuildCheck
    <3>3. CASE ProvisionCheck(w)
      BY <3>1, <3>3 DEF ProvisionCheck
    <3>4. CASE StartCheck(w)
      BY <3>1, <3>4 DEF StartCheck
    <3>5. CASE DeleteCheck(w)
      BY <3>1, <3>5 DEF DeleteCheck
    <3> QED BY <1>5, <3>2, <3>3, <3>4, <3>5
  <2>3. PortKnown'
    BY <2>1, <2>2, KeepPort DEF BeforeAllocate
  <2> QED BY <2>1, <2>3 DEF PortLeases!vars
<1>9. CASE BuildImage(w) \/ AllocateFails(w) \/ RequireImage(w) \/ CommandFails(w) \/ AllocateOrSecretFails(w)
  <2>1. lease' = lease /\ port' = port
    BY <1>9 DEF BuildImage, AllocateFails, RequireImage, CommandFails, AllocateOrSecretFails, Goto, Fail, store
  <2>2. PICK step \in {"set_image", "volume", "fail", "release"} : pc' = [pc EXCEPT ![w] = step]
    BY <1>9 DEF BuildImage, AllocateFails, RequireImage, CommandFails, AllocateOrSecretFails, Goto, Fail
  <2> QED BY <2>1, <2>2, KeepPort DEF BeforeAllocate, PortLeases!vars
<1>6. CASE \/ FailWorkspace(w) \/ EnqueueFollowUp(w) \/ Crash(w) \/ LoadFails(w) \/ StatementFails(w)
  BY <1>6, IdlePort DEF FailWorkspace, EnqueueFollowUp, Crash, LoadFails, StatementFails, store
<1>7. CASE SetDone(w)
  <2>1. lease' = lease
    BY <1>7 DEF SetDone
  <2>2. CASE Goto(w, "follow_up")
    BY <2>1, <2>2, KeepPort DEF Goto, BeforeAllocate, PortLeases!vars
  <2> QED BY <1>7, <2>1, <2>2, IdlePort DEF SetDone
<1>8. CASE ErrorIgnored(w)
  <2>1. lease' = lease
    BY <1>8 DEF ErrorIgnored, store
  <2>2. CASE pc[w] \in DOMAIN AfterIgnored /\ Goto(w, AfterIgnored[pc[w]])
    <3>1. AfterIgnored[pc[w]] \notin BeforeAllocate
      BY <2>2 DEF AfterIgnored, BeforeAllocate
    <3>2. PICK step : step \notin BeforeAllocate /\ Goto(w, step)
      BY <2>2, <3>1
    <3>3. PortKnown' /\ port' = port
      BY <3>2, KeepPort DEF Goto
    <3> QED BY <2>1, <3>3 DEF PortLeases!vars
  <2> QED BY <1>8, <2>1, <2>2, IdlePort DEF ErrorIgnored
<1> QED BY <1>1, <1>2, <1>3, <1>4, <1>5, <1>6, <1>7, <1>8, <1>9 DEF Work, WorkerFault

(* Provisioning, error paths, deletions and crashes together use the table as   *)
(* it promises: no path gives a workspace a second port or takes one in use.    *)
THEOREM LifecycleImplementsPorts == Spec => ImplementsPorts
<1>1. Init => PortKnown /\ PortLeases!Init
  BY DEF Init, PortKnown, PortLeases!Init, PortLeases!AnyPort, AnyPort
<1>2. ASSUME LifecycleAssumption, Core, PortKnown, [Next]_vars
      PROVE PortKnown' /\ [PortLeases!Next]_(PortLeases!vars)
  <2>1. CASE \E w \in Workers : Work(w) \/ WorkerFault(w)
    BY <1>2, <2>1, WorkPorts
  <2>2. CASE Handlers \/ (\E ws \in Workspaces : DropDelete(ws)) \/ UNCHANGED vars
    <3>1. lease' = lease /\ port' = port /\ pc' = pc
      BY <2>2 DEF Handlers, CreateWorkspace, QueueDeleteJob, SetDeleting, RequestCancel, ResumeJob,
         DeleteJob, DropDelete, vars, store, worker
    <3> QED BY <1>2, <3>1 DEF PortKnown, PortLeases!vars
  <2> QED BY <1>2, <2>1, <2>2 DEF Next
<1> QED BY <1>1, <1>2, LifecycleAssumption, CoreStarts, CoreInductive, PTL
        DEF Spec, ImplementsPorts, PortLeases!Spec

-----------------------------------------------------------------------------
(* A stop that comes before a job is leased is seen before the job does anything *)

EarlySteps == {"load", "start", "build_check", "allocate", "provision_check", "delete_check",
               "release", "fail", "fail_state"}

(* A worker with an early-stopped job may move on among the early steps only.   *)
LEMMA EarlyMove ==
  ASSUME Core, EarlyCancelHonoured, NEW w \in Workers, NEW step,
         pc' = [pc EXCEPT ![w] = step], UNCHANGED <<held, task, cancel>>, disturbed \subseteq disturbed',
         pc[w] \in EarlySteps /\ cancel[held[w]] = "queued" /\ Here(w) \notin disturbed'
           => step \in EarlySteps
  PROVE  EarlyCancelHonoured'
<1> SUFFICES ASSUME NEW v \in Workers, held[v] # NoJob, cancel[held[v]] = "queued", Here(v) \notin disturbed'
             PROVE  pc'[v] \in EarlySteps
  BY DEF EarlyCancelHonoured, EarlySteps, Here
<1>1. pc[v] \in EarlySteps
  BY DEF EarlyCancelHonoured, EarlySteps
<1>2. pc'[v] = IF v = w THEN step ELSE pc[v]
  BY DEF Core, TypeOK
<1> QED BY <1>1, <1>2

(* A worker that lets its job go has none that could be stopped. *)
LEMMA EarlyIdle ==
  ASSUME Core, EarlyCancelHonoured, NEW w \in Workers, GoIdle(w), cancel' = cancel,
         \A v \in Workers : held[v] # NoJob => task'[held[v]] = task[held[v]],
         disturbed \subseteq disturbed'
  PROVE  EarlyCancelHonoured'
<1>1. held'[w] = NoJob /\ \A v \in Workers \ {w} : held'[v] = held[v] /\ pc'[v] = pc[v]
  BY MoveIdle DEF Core
<1>2. \A v \in Workers \ {w} : held[v] # NoJob => Here(v)' = Here(v)
  BY <1>1 DEF Here
<1> QED BY <1>1, <1>2 DEF EarlyCancelHonoured

(* A row inserted by somebody is no row a worker holds. *)
LEMMA InsertSpares == ASSUME Core, NEW ws \in Workspaces, NEW type \in JobTypes, InsertJob(ws, type)
                      PROVE \A v \in Workers : held[v] # NoJob => task'[held[v]] = task[held[v]]
<1>1. \E j \in Jobs : status[j] = "absent" /\ \A k \in Jobs \ {j} : task'[k] = task[k]
  BY InsertCore
<1>2. \A v \in Workers : held[v] # NoJob => held[v] \in Jobs /\ status[held[v]] # "absent"
  BY DEF Core, TypeOK, HeldKnown
<1> QED BY <1>1, <1>2

(* Every step of a worker leads an early-stopped job to failJob. *)
LEMMA WorkEarly == ASSUME LifecycleAssumption, Core, EarlyCancelHonoured, NEW w \in Workers,
                          Work(w) \/ WorkerFault(w)
                   PROVE EarlyCancelHonoured'
<1>1. CASE LeaseNextJob(w)
  <2>1. /\ pc' = [pc EXCEPT ![w] = "load"] /\ UNCHANGED <<task, cancel, disturbed>>
        /\ \A v \in Workers \ {w} : held'[v] = held[v]
    BY <1>1 DEF LeaseNextJob, ghosts, Core, TypeOK
  <2>2. \A v \in Workers \ {w} : Here(v)' = Here(v) /\ pc'[v] = pc[v]
    BY <2>1 DEF Here, Core, TypeOK
  <2>3. pc'[w] = "load"
    BY <2>1 DEF Core, TypeOK
  <2> QED BY <2>1, <2>2, <2>3 DEF EarlyCancelHonoured
<1>2. CASE LoadWorkspace(w)
  BY <1>2, EarlyMove DEF LoadWorkspace, EarlySteps, store, ghosts
<1>3. CASE StartJob(w) \/ ReleaseAfterError(w) \/ FailJob(w) \/ AllocateFails(w) \/ AllocatePort(w)
  <2>1. UNCHANGED <<held, task, cancel, disturbed>>
    BY <1>3 DEF StartJob, ReleaseAfterError, FailJob, AllocateFails, AllocatePort, Goto, Fail, store, ghosts
  <2>2. PICK step \in EarlySteps : pc' = [pc EXCEPT ![w] = step]
    BY <1>3 DEF StartJob, ReleaseAfterError, FailJob, AllocateFails, AllocatePort, Goto, Fail, EarlySteps
  <2> QED BY <2>1, <2>2, EarlyMove
<1>4. CASE \/ BuildImage(w) \/ SetImage(w) \/ RequireImage(w) \/ CommandFails(w) \/ CreateVolume(w)
           \/ CreateContainer(w) \/ StartContainer(w) \/ RecordProvisioned(w)
           \/ RemoveContainer(w) \/ RemoveVolume(w) \/ ReleaseDeleted(w) \/ MarkDeleted(w)
  <2>1. UNCHANGED <<held, task, cancel, disturbed>> /\ pc[w] \notin EarlySteps
    BY <1>4 DEF BuildImage, SetImage, RequireImage, CommandFails, CreateVolume, CreateContainer, StartContainer,
       RecordProvisioned, RemoveContainer, RemoveVolume, ReleaseDeleted, MarkDeleted, Goto, Fail, store,
       ghosts, EarlySteps
  <2>2. \E step : pc' = [pc EXCEPT ![w] = step]
    BY <1>4 DEF BuildImage, SetImage, RequireImage, CommandFails, CreateVolume, CreateContainer, StartContainer,
       RecordProvisioned, RemoveContainer, RemoveVolume, ReleaseDeleted, MarkDeleted, Goto, Fail
  <2> QED BY <2>1, <2>2, EarlyMove
<1>5. CASE BuildCheck(w) \/ ProvisionCheck(w) \/ StartCheck(w) \/ DeleteCheck(w)
  <2>1. ASSUME NEW at, NEW step, NEW onCancel, Check(w, at, step, onCancel),
               at \in EarlySteps => onCancel \in EarlySteps
        PROVE  EarlyCancelHonoured'
    <3>1. UNCHANGED <<held, task, cancel, disturbed>> /\ pc[w] = at
      BY <2>1 DEF Check, Goto, Fail, store, ghosts
    <3>2. CASE cancel[held[w]] = "no" /\ pc' = [pc EXCEPT ![w] = step]
      BY <3>1, <3>2, EarlyMove
    <3>3. CASE pc' = [pc EXCEPT ![w] = onCancel]
      BY <2>1, <3>1, <3>3, EarlyMove
    <3> QED BY <2>1, <3>2, <3>3 DEF Check, Goto, Fail
  <2> QED BY <1>5, <2>1 DEF BuildCheck, ProvisionCheck, StartCheck, DeleteCheck, EarlySteps
<1>6. CASE SetDone(w)
  <2>1. UNCHANGED <<task, cancel, disturbed>> /\ pc[w] = "set_done"
    BY <1>6 DEF SetDone, ghosts
  <2>2. CASE Goto(w, "follow_up")
    BY <2>1, <2>2, EarlyMove DEF Goto, EarlySteps
  <2>3. CASE GoIdle(w)
    BY <2>1, <2>3, EarlyIdle
  <2> QED BY <1>6, <2>2, <2>3 DEF SetDone
<1>7. CASE FailWorkspace(w) \/ Crash(w) \/ LoadFails(w) \/ StatementFails(w)
  <2>1. GoIdle(w) /\ UNCHANGED <<task, cancel>> /\ disturbed \subseteq disturbed'
    BY <1>7 DEF FailWorkspace, Crash, LoadFails, StatementFails, Disturb, store, ghosts
  <2> QED BY <2>1, EarlyIdle
<1>8. CASE EnqueueFollowUp(w)
  <2>1. GoIdle(w) /\ cancel' = cancel /\ disturbed' = disturbed /\ InsertJob(Here(w), "provision_workspace")
        /\ pc[w] = "follow_up"
    BY <1>8 DEF EnqueueFollowUp, ghosts
  <2>2. \A v \in Workers : held[v] # NoJob => task'[held[v]] = task[held[v]]
    <3>1. Here(w) \in Workspaces /\ "provision_workspace" \in JobTypes
      BY <2>1, HeldTask DEF JobTypes
    <3> QED BY <2>1, <3>1, InsertSpares
  <2> QED BY <2>1, <2>2, EarlyIdle
<1>9. CASE AllocateOrSecretFails(w)
  BY <1>9, EarlyMove DEF AllocateOrSecretFails, Disturb, Fail, EarlySteps, store
<1>10. CASE ErrorIgnored(w)
  <2>1. UNCHANGED <<task, cancel>> /\ disturbed' = disturbed \cup {Here(w)}
    BY <1>10 DEF ErrorIgnored, Disturb, store
  <2>2. CASE pc[w] \in DOMAIN AfterIgnored /\ Goto(w, AfterIgnored[pc[w]])
    <3>1. \E step : pc' = [pc EXCEPT ![w] = step] /\ UNCHANGED held
      BY <2>2 DEF Goto
    <3> QED BY <2>1, <3>1, EarlyMove
  <2>3. CASE GoIdle(w)
    BY <2>1, <2>3, EarlyIdle
  <2> QED BY <1>10, <2>2, <2>3 DEF ErrorIgnored
<1> QED BY <1>1, <1>2, <1>3, <1>4, <1>5, <1>6, <1>7, <1>8, <1>9, <1>10 DEF Work, WorkerFault

\* What a handler leaves alone of the job in a worker's hands.
Spared(v) == /\ task'[held[v]] = task[held[v]]
             /\ disturbed \subseteq disturbed'
             /\ cancel'[held[v]] = "queued" => cancel[held[v]] = "queued"

(* No handler touches a job in a worker's hands, and a stop that is asked for   *)
(* by then comes too late to be early.                                          *)
LEMMA HandlersSpare == ASSUME Core, Handlers
                       PROVE \A v \in Workers : held[v] # NoJob => Spared(v)
<1> SUFFICES ASSUME NEW v \in Workers, held[v] # NoJob PROVE Spared(v)
  OBVIOUS
<1>3. held[v] \in Jobs /\ task[held[v]] \in Tasks /\ status[held[v]] # "queued"
  BY HeldTask DEF Core, HeldKnown
<1>4. ASSUME NEW ws \in Workspaces, NEW type \in JobTypes, InsertJob(ws, type), cancel' = cancel,
             disturbed' = disturbed
      PROVE  Spared(v)
  BY <1>4, InsertSpares DEF Spared
<1>5. ASSUME NEW ws \in Workspaces, NEW input \in Inputs, CreateWorkspace(ws, input) PROVE Spared(v)
  BY <1>4, <1>5 DEF CreateWorkspace, FirstJob, JobTypes, ghosts
<1>6. ASSUME NEW ws \in Workspaces, QueueDeleteJob(ws) PROVE Spared(v)
  BY <1>4, <1>6 DEF QueueDeleteJob, JobTypes, ghosts
<1>7. ASSUME NEW ws \in Workspaces, SetDeleting(ws) PROVE Spared(v)
  BY <1>7 DEF SetDeleting, ghosts, Spared
<1>8. ASSUME NEW j \in Jobs, RequestCancel(j) PROVE Spared(v)
  <2>1. cancel' = [cancel EXCEPT ![j] = status[j]] /\ UNCHANGED <<task, disturbed>>
    BY <1>8 DEF RequestCancel, ghosts
  <2> QED BY <1>3, <2>1 DEF Core, TypeOK, Spared
<1>9. ASSUME NEW j \in Jobs, ResumeJob(j) PROVE Spared(v)
  <2>1. status[j] # "absent" /\ InsertJob(task[j].ws, task[j].type) /\ UNCHANGED <<cancel, disturbed>>
    BY <1>9 DEF ResumeJob, Finished, ghosts
  <2>2. task[j].ws \in Workspaces /\ task[j].type \in JobTypes
    BY <2>1 DEF Core, JobsKnown, Tasks
  <2> QED BY <1>4, <2>1, <2>2
<1>10. ASSUME NEW j \in Jobs, DeleteJob(j) PROVE Spared(v)
  BY <1>10 DEF DeleteJob, Spared
<1> QED BY <1>5, <1>6, <1>7, <1>8, <1>9, <1>10 DEF Handlers

(* Handlers leave workers and their jobs alone. *)
LEMMA HandlersEarly == ASSUME Core, EarlyCancelHonoured, Handlers PROVE EarlyCancelHonoured'
<1>1. UNCHANGED worker
  BY DEF Handlers, CreateWorkspace, QueueDeleteJob, SetDeleting, RequestCancel, ResumeJob, DeleteJob
<1> QED BY <1>1, HandlersSpare DEF EarlyCancelHonoured, Here, worker, Spared

(* A stop requested before a job is leased is seen before the job builds,       *)
(* creates or removes anything: every path to such a step passes a check.       *)
THEOREM EarlyCancel == Spec => []EarlyCancelHonoured
<1>1. Init => EarlyCancelHonoured
  BY DEF Init, EarlyCancelHonoured
<1>2. ASSUME LifecycleAssumption, Core, EarlyCancelHonoured, [Next]_vars PROVE EarlyCancelHonoured'
  <2>1. CASE \E w \in Workers : Work(w) \/ WorkerFault(w)
    BY <1>2, <2>1, WorkEarly
  <2>2. CASE Handlers
    BY <1>2, <2>2, HandlersEarly
  <2>3. CASE (\E ws \in Workspaces : DropDelete(ws)) \/ UNCHANGED vars
    <3>1. UNCHANGED <<task, cancel, pc, held>> /\ disturbed \subseteq disturbed'
      BY <2>3 DEF DropDelete, Disturb, vars, store, worker, ghosts
    <3> QED BY <1>2, <3>1 DEF EarlyCancelHonoured, Here
  <2> QED BY <1>2, <2>1, <2>2, <2>3 DEF Next
<1> QED BY <1>1, <1>2, LifecycleAssumption, CoreStarts, CoreInductive, PTL DEF Spec

-----------------------------------------------------------------------------
(* A job ends as cancelled only when somebody asked for it *)

StopAsked(j) == cancel[j] # "no"
CancelledByStop == \A j \in Jobs : status[j] = "cancelled" => StopAsked(j)

\* A worker that is failing its job as cancelled has seen the flag.
FlagSeen == \A w \in Workers : outcome[w] = "cancelled" => held[w] \in Jobs /\ StopAsked(held[w])

StopInv == CancelledByStop /\ FlagSeen

(* A check that leads to failJob has read the flag; no other step gives the     *)
(* outcome "cancelled", and failJob writes the outcome its worker has.          *)
LEMMA WorkStops == ASSUME Core, StopInv, NEW w \in Workers, Work(w) \/ WorkerFault(w) PROVE StopInv'
<1>1. cancel' = cancel /\ \A v \in Workers \ {w} : held'[v] = held[v] /\ outcome'[v] = outcome[v]
  BY DEF Work, WorkerFault, LoadWorkspace, StartJob, FailWorkspace, MarkDeleted, SetImage, RecordProvisioned,
       ReleaseAfterError, ReleaseDeleted, BuildCheck, BuildImage, AllocatePort, AllocateFails, ProvisionCheck,
       RequireImage, CommandFails, CreateVolume, CreateContainer, StartCheck, StartContainer,
       DeleteCheck, RemoveContainer, RemoveVolume, Check, Crash, StatementFails,
       AllocateOrSecretFails, ErrorIgnored, LeaseNextJob, SetDone, FailJob, LoadFails, EnqueueFollowUp,
       Goto, Fail, GoIdle, Core, TypeOK, store
<1>2. outcome'[w] = "cancelled" => held'[w] \in Jobs /\ StopAsked(held'[w])
  <2>1. CASE BuildCheck(w) \/ ProvisionCheck(w) \/ StartCheck(w) \/ DeleteCheck(w)
    <3>1. held' = held /\ pc[w] # "idle" /\ (outcome' = outcome \/ StopAsked(held[w]))
      BY <2>1 DEF BuildCheck, ProvisionCheck, StartCheck, DeleteCheck, Check, Goto, Fail, StopAsked
    <3> QED BY <3>1, HeldTask DEF StopInv, FlagSeen
  <2>2. CASE LeaseNextJob(w)
    <3>1. outcome' = outcome /\ held[w] = NoJob
      BY <2>2 DEF LeaseNextJob, Core, HeldKnown
    <3>2. NoJob \notin Jobs
      BY DEF Jobs, NoJob
    <3> QED BY <3>1, <3>2 DEF StopInv, FlagSeen
  <2>3. CASE ~(BuildCheck(w) \/ ProvisionCheck(w) \/ StartCheck(w) \/ DeleteCheck(w) \/ LeaseNextJob(w))
    <3>1. outcome'[w] # "cancelled" \/ (held' = held /\ outcome' = outcome)
      BY <2>3 DEF Work, WorkerFault, LoadWorkspace, StartJob, FailWorkspace, MarkDeleted, SetImage, RecordProvisioned,
       ReleaseAfterError, ReleaseDeleted, BuildImage, AllocatePort, AllocateFails, RequireImage, CommandFails,
       CreateVolume, CreateContainer, StartContainer, RemoveContainer, RemoveVolume, Crash, StatementFails,
       AllocateOrSecretFails, ErrorIgnored, SetDone, FailJob, LoadFails, EnqueueFollowUp,
       Goto, Fail, GoIdle, Core, TypeOK
    <3> QED BY <3>1 DEF StopInv, FlagSeen
  <2> QED BY <2>1, <2>2, <2>3
<1>3. ASSUME NEW j \in Jobs, status'[j] = "cancelled", status[j] # "cancelled" PROVE StopAsked(j)
  <2>1. CASE FailJob(w)
    <3>1. outcome[w] = "cancelled" /\ held[w] = j
      BY <1>3, <2>1 DEF FailJob, SetStatus, Core, TypeOK
    <3> QED BY <3>1 DEF StopInv, FlagSeen
  <2>2. CASE ~FailJob(w)
    <3>1. \/ status' = status
          \/ \E i \in Jobs, s \in {"queued", "running", "done", "failed"} : status' = [status EXCEPT ![i] = s]
      <4>1. pc[w] # "idle" => held[w] \in Jobs
        BY HeldTask
      <4> QED BY <2>2, <4>1 DEF Work, WorkerFault, LoadWorkspace, StartJob, FailWorkspace, MarkDeleted, SetImage,
       RecordProvisioned, ReleaseAfterError, ReleaseDeleted, BuildCheck, BuildImage, AllocatePort, AllocateFails,
       ProvisionCheck, RequireImage, CommandFails, CreateVolume, CreateContainer, StartCheck, StartContainer,
       DeleteCheck, RemoveContainer, RemoveVolume, Check, Crash, StatementFails, AllocateOrSecretFails,
       ErrorIgnored, LeaseNextJob, SetDone, LoadFails, EnqueueFollowUp, InsertJob, SetStatus, store
    <3> QED BY <1>3, <3>1 DEF Core, TypeOK
  <2> QED BY <2>1, <2>2
<1>4. CancelledByStop'
  BY <1>1, <1>3 DEF StopInv, CancelledByStop, StopAsked
<1>5. FlagSeen'
  BY <1>1, <1>2 DEF StopInv, FlagSeen, StopAsked
<1> QED BY <1>4, <1>5 DEF StopInv

(* Handlers end no job, and take no request to stop back. *)
LEMMA HandlersStop == ASSUME Core, StopInv, Handlers PROVE StopInv'
<1>1. UNCHANGED worker
  BY DEF Handlers, CreateWorkspace, QueueDeleteJob, SetDeleting, RequestCancel, ResumeJob, DeleteJob
<1>2. \A j \in Jobs : StopAsked(j) => StopAsked(j)'
  BY DEF Handlers, CreateWorkspace, QueueDeleteJob, SetDeleting, RequestCancel, ResumeJob, DeleteJob, StopAsked,
         Core, TypeOK
<1>3. \A j \in Jobs : status'[j] = "cancelled" => status[j] = "cancelled"
  BY DEF Handlers, CreateWorkspace, QueueDeleteJob, SetDeleting, RequestCancel, ResumeJob, DeleteJob, InsertJob,
         Core, TypeOK
<1> QED BY <1>1, <1>2, <1>3 DEF StopInv, CancelledByStop, FlagSeen, worker, StopAsked

(* No job ends as cancelled unless somebody asked for its stop, whatever failed *)
(* in between: failJob's other callers write "failed".                          *)
THEOREM CancelNeedsStop == Spec => []CancelledByStop
<1>1. Init => StopInv
  BY DEF Init, StopInv, CancelledByStop, FlagSeen
<1>2. ASSUME Core, StopInv, [Next]_vars PROVE StopInv'
  <2>1. CASE \E w \in Workers : Work(w) \/ WorkerFault(w)
    BY <1>2, <2>1, WorkStops
  <2>2. CASE Handlers
    BY <1>2, <2>2, HandlersStop
  <2>3. CASE (\E ws \in Workspaces : DropDelete(ws)) \/ UNCHANGED vars
    <3>1. UNCHANGED <<status, cancel, outcome, held>>
      BY <2>3 DEF DropDelete, vars, store, worker
    <3> QED BY <1>2, <3>1 DEF StopInv, CancelledByStop, FlagSeen, StopAsked
  <2> QED BY <1>2, <2>1, <2>2, <2>3 DEF Next
<1>3. StopInv => CancelledByStop
  BY DEF StopInv
<1> QED BY <1>1, <1>2, <1>3, LifecycleAssumption, CoreStarts, CoreInductive, PTL DEF Spec

-----------------------------------------------------------------------------
(* A leased port serves a container or is on its way back *)

ReturningSteps == {"provision_check", "image", "volume", "create", "start_check", "start_container", "release"}
Returning(w, step) == \/ Type(w) = "provision_workspace" /\ step \in ReturningSteps
                      \/ step \in {"remove_volume", "delete_release"}

\* What a step leaves of the jobs in the workers' hands.
KeepsTasks == /\ \A v \in Workers : held[v] # NoJob => task'[held[v]] = task[held[v]]
              /\ disturbed \subseteq disturbed'

(* The step a worker takes next says whether it will give the port back. *)
LEMMA ReturnsPortStep == ASSUME NEW w \in Workers, NEW ws
                         PROVE  ReturnsPort(w, ws) <=> Acting(w, ws) /\ Returning(w, pc[w])
  BY DEF ReturnsPort, Returning, ReturningSteps

(* A worker that moves on with its job has the port of its workspace in use, in *)
(* its hands or returned, or had nothing to do with it.                         *)
LEMMA LeakMove ==
  ASSUME Core, NoPortLeak, NEW w \in Workers, pc[w] # "idle", NEW step, step # "idle",
         pc' = [pc EXCEPT ![w] = step], held' = held, KeepsTasks,
         \A ws \in Workspaces \ {Here(w)} : box'[ws] = box[ws],
         \A p \in Ports : lease'[p] = lease[p] \/ lease'[p] \in {NoWorkspace, Here(w)},
         \/ Here(w) \in disturbed'
         \/ \A p \in Ports : lease'[p] # Here(w)
         \/ box'[Here(w)].container = "running"
         \/ Returning(w, step)
         \/ ~Returning(w, pc[w]) /\ UNCHANGED <<lease, box>>
  PROVE  NoPortLeak'
<1> SUFFICES ASSUME NEW p \in Ports, lease'[p] # NoWorkspace, lease'[p] \notin disturbed',
                    box'[lease'[p]].container # "running"
             PROVE  (\E v \in Workers : ReturnsPort(v, lease[p]))'
  BY DEF NoPortLeak
<1>1. \A v \in Workers : held[v] # NoJob => Here(v)' = Here(v) /\ Type(v)' = Type(v)
  BY DEF KeepsTasks, Here, Type
<1>2. pc'[w] = step /\ held[w] # NoJob /\ \A v \in Workers \ {w} : pc'[v] = pc[v]
  BY DEF Core, TypeOK, HeldKnown
<1>3. CASE lease'[p] = Here(w) /\ Returning(w, step)
  <2>1. ReturnsPort(w, lease[p])'
    BY <1>1, <1>2, <1>3, ReturnsPortStep DEF ReturnsPort, Acting, Returning, ReturningSteps
  <2> QED BY <2>1
<1>4. ASSUME lease'[p] = lease[p], box'[lease[p]] = box[lease[p]],
             Here(w) = lease[p] => ~Returning(w, pc[w])
      PROVE  \E v \in Workers : ReturnsPort(v, lease[p])'
  <2>1. PICK v \in Workers : ReturnsPort(v, lease[p])
    BY <1>4 DEF NoPortLeak, KeepsTasks
  <2>2. v # w /\ held[v] # NoJob
    BY <1>4, <2>1, ReturnsPortStep DEF Acting, Core, HeldKnown
  <2>3. ReturnsPort(v, lease[p])'
    BY <1>1, <1>2, <1>4, <2>1, <2>2 DEF ReturnsPort, Acting
  <2> QED BY <2>3
<1>5. CASE lease'[p] # Here(w)
  <2>1. lease'[p] = lease[p] /\ lease[p] \in Workspaces \ {Here(w)}
    BY <1>5 DEF Core, TypeOK
  <2> QED BY <1>4, <2>1
<1>6. CASE lease'[p] = Here(w) /\ ~Returning(w, step)
  <2>1. ~Returning(w, pc[w]) /\ UNCHANGED <<lease, box>>
    BY <1>6
  <2> QED BY <1>4, <1>6, <2>1
<1> QED BY <1>3, <1>5, <1>6

(* A worker that goes idle leaves no port behind. *)
LEMMA LeakIdle ==
  ASSUME Core, NoPortLeak, NEW w \in Workers, GoIdle(w), KeepsTasks, UNCHANGED <<lease, box>>,
         Here(w) \in disturbed' \/ ~Returning(w, pc[w])
  PROVE  NoPortLeak'
<1> SUFFICES ASSUME NEW p \in Ports, lease[p] # NoWorkspace, lease[p] \notin disturbed',
                    box[lease[p]].container # "running"
             PROVE  \E v \in Workers : ReturnsPort(v, lease[p])'
  BY DEF NoPortLeak
<1>1. PICK v \in Workers : ReturnsPort(v, lease[p])
  BY DEF NoPortLeak, KeepsTasks
<1>2. v # w /\ held[v] # NoJob
  BY <1>1, ReturnsPortStep DEF Acting, Core, HeldKnown
<1>3. held'[v] = held[v] /\ pc'[v] = pc[v]
  BY <1>2, MoveIdle DEF Core
<1>4. ReturnsPort(v, lease[p])'
  BY <1>1, <1>2, <1>3 DEF KeepsTasks, ReturnsPort, Acting, Here, Type
<1> QED BY <1>4

(* Every path of a job that takes a port uses it or gives it back. *)
LEMMA WorkLeak == ASSUME LifecycleAssumption, Core, NoPortLeak, NEW w \in Workers,
                         Work(w) \/ WorkerFault(w)
                  PROVE NoPortLeak'
<1>1. CASE LeaseNextJob(w)
  <2>1. /\ pc[w] = "idle" /\ UNCHANGED <<lease, box, task, disturbed>>
        /\ \A v \in Workers \ {w} : pc'[v] = pc[v] /\ held'[v] = held[v]
    BY <1>1 DEF LeaseNextJob, ghosts, Core, TypeOK
  <2>2. \A v \in Workers : \A ws \in Workspaces : ReturnsPort(v, ws) => v # w
    BY <2>1 DEF ReturnsPort, Acting
  <2>3. \A v \in Workers : \A ws \in Workspaces : ReturnsPort(v, ws) => ReturnsPort(v, ws)'
    BY <2>1, <2>2 DEF ReturnsPort, Acting, Here, Type
  <2> QED BY <2>1, <2>3 DEF NoPortLeak, Core, TypeOK
<1>2. CASE \/ LoadWorkspace(w) \/ StartJob(w) \/ BuildImage(w) \/ SetImage(w) \/ AllocateFails(w) \/ FailJob(w)
           \/ RecordProvisioned(w) \/ MarkDeleted(w)
  <2>1. UNCHANGED <<lease, box, task, held, disturbed>>
    BY <1>2 DEF LoadWorkspace, StartJob, BuildImage, SetImage, AllocateFails, FailJob, RecordProvisioned,
       MarkDeleted, Goto, Fail, store, ghosts
  <2>2. /\ pc[w] \notin {"idle", "remove_volume", "delete_release"} \cup ReturningSteps
        /\ \E step : step # "idle" /\ pc' = [pc EXCEPT ![w] = step]
    BY <1>2 DEF LoadWorkspace, StartJob, BuildImage, SetImage, AllocateFails, FailJob, RecordProvisioned,
       MarkDeleted, Goto, Fail, ReturningSteps
  <2> QED BY <2>1, <2>2, LeakMove DEF KeepsTasks, Returning
<1>3. CASE AllocatePort(w)
  <2>1. /\ pc[w] = "allocate" /\ pc' = [pc EXCEPT ![w] = "provision_check"]
        /\ UNCHANGED <<box, task, held, disturbed>>
        /\ lease' = lease \/ \E p : lease' = [lease EXCEPT ![p] = Here(w)]
    BY <1>3 DEF AllocatePort, ghosts
  <2>2. \A p \in Ports : lease'[p] = lease[p] \/ lease'[p] \in {NoWorkspace, Here(w)}
    BY <2>1 DEF Core, TypeOK
  <2>3. Returning(w, "provision_check")
    BY <2>1 DEF Returning, ReturningSteps, Core, StepsMatch, ProvisionSteps
  <2> QED BY <2>1, <2>2, <2>3, LeakMove DEF KeepsTasks
<1>4. CASE RequireImage(w) \/ CommandFails(w) \/ CreateVolume(w) \/ CreateContainer(w)
  <2>1. UNCHANGED <<lease, task, held, disturbed>> /\ pc[w] \in {"image", "volume", "create", "start_container"}
    BY <1>4 DEF RequireImage, CommandFails, CreateVolume, CreateContainer, Goto, Fail, store, ghosts
  <2>2. PICK step \in ReturningSteps : pc' = [pc EXCEPT ![w] = step]
    BY <1>4 DEF RequireImage, CommandFails, CreateVolume, CreateContainer, Goto, Fail, ReturningSteps
  <2>3. Returning(w, step) /\ step # "idle"
    BY <2>1, <2>2 DEF Returning, ReturningSteps, Core, StepsMatch, ProvisionSteps
  <2>4. \A ws \in Workspaces \ {Here(w)} : box'[ws] = box[ws]
    BY <1>4 DEF RequireImage, CommandFails, CreateVolume, CreateContainer, Core, TypeOK
  <2> QED BY <2>1, <2>2, <2>3, <2>4, LeakMove DEF KeepsTasks
<1>5. CASE StartContainer(w)
  <2>1. /\ UNCHANGED <<lease, task, held, disturbed>> /\ pc[w] = "start_container"
        /\ pc' = [pc EXCEPT ![w] = "record"] /\ box' = [box EXCEPT ![Here(w)].container = "running"]
    BY <1>5 DEF StartContainer, Goto, store, ghosts
  <2>2. box'[Here(w)].container = "running"
    BY <2>1, HeldTask DEF Core, TypeOK
  <2>3. \A ws \in Workspaces \ {Here(w)} : box'[ws] = box[ws]
    BY <2>1 DEF Core, TypeOK
  <2> QED BY <2>1, <2>2, <2>3, LeakMove DEF KeepsTasks
<1>6. CASE RemoveContainer(w) \/ RemoveVolume(w)
  <2>1. UNCHANGED <<lease, task, held, disturbed>> /\ pc[w] # "idle"
    BY <1>6 DEF RemoveContainer, RemoveVolume, Goto, store, ghosts
  <2>2. PICK step \in {"remove_volume", "delete_release"} : pc' = [pc EXCEPT ![w] = step]
    BY <1>6 DEF RemoveContainer, RemoveVolume, Goto
  <2>3. \A ws \in Workspaces \ {Here(w)} : box'[ws] = box[ws]
    BY <1>6 DEF RemoveContainer, RemoveVolume, Core, TypeOK
  <2> QED BY <2>1, <2>2, <2>3, LeakMove DEF KeepsTasks, Returning
<1>7. CASE ReleaseAfterError(w) \/ ReleaseDeleted(w)
  <2>1. /\ UNCHANGED <<box, task, held, disturbed>> /\ pc[w] # "idle"
        /\ lease' = [p \in Ports |-> IF lease[p] = Here(w) THEN NoWorkspace ELSE lease[p]]
        /\ \E step \in {"fail", "mark_deleted"} : pc' = [pc EXCEPT ![w] = step]
    BY <1>7 DEF ReleaseAfterError, ReleaseDeleted, FreePorts, Goto, ghosts
  <2>2. Here(w) # NoWorkspace
    BY <2>1, HeldTask DEF LifecycleAssumption
  <2>3. \A p \in Ports : /\ lease'[p] # Here(w)
                         /\ lease'[p] = lease[p] \/ lease'[p] \in {NoWorkspace, Here(w)}
    BY <2>1, <2>2
  <2> QED BY <2>1, <2>3, LeakMove DEF KeepsTasks
<1>8. CASE BuildCheck(w) \/ ProvisionCheck(w) \/ StartCheck(w) \/ DeleteCheck(w)
  <2>1. ASSUME NEW at, NEW step, NEW onCancel, Check(w, at, step, onCancel),
               at # "idle", step # "idle", onCancel # "idle",
               \/ Returning(w, step) /\ Returning(w, onCancel)
               \/ at \in {"build_check", "delete_check"}
        PROVE  NoPortLeak'
    <3>1. UNCHANGED <<lease, box, task, held, disturbed>> /\ pc[w] = at
      BY <2>1 DEF Check, Goto, Fail, store, ghosts
    <3>2. \E next \in {step, onCancel} : pc' = [pc EXCEPT ![w] = next]
      BY <2>1 DEF Check, Goto, Fail
    <3>3. at \in {"build_check", "delete_check"} => ~Returning(w, pc[w])
      BY <3>1 DEF Returning, ReturningSteps
    <3> QED BY <2>1, <3>1, <3>2, <3>3, LeakMove DEF KeepsTasks
  <2>2. pc[w] \in {"provision_check", "start_check"} => Type(w) = "provision_workspace"
    BY DEF Core, StepsMatch, ProvisionSteps
  <2>3. CASE ProvisionCheck(w) \/ StartCheck(w)
    <3>1. Returning(w, "image") /\ Returning(w, "start_container") /\ Returning(w, "release")
      BY <2>2, <2>3 DEF ProvisionCheck, StartCheck, Check, Returning, ReturningSteps
    <3> QED BY <2>1, <2>3, <3>1 DEF ProvisionCheck, StartCheck
  <2> QED BY <1>8, <2>1, <2>3 DEF BuildCheck, DeleteCheck
<1>9. CASE SetDone(w)
  <2>1. pc[w] = "set_done" /\ UNCHANGED <<lease, box, task, disturbed>>
    BY <1>9 DEF SetDone, ghosts
  <2>2. ~Returning(w, pc[w])
    BY <2>1 DEF Returning, ReturningSteps
  <2>3. CASE Goto(w, "follow_up")
    BY <2>1, <2>2, <2>3, LeakMove DEF KeepsTasks, Goto
  <2> QED BY <1>9, <2>1, <2>2, <2>3, LeakIdle DEF SetDone, KeepsTasks
<1>10. CASE EnqueueFollowUp(w) \/ FailWorkspace(w)
  <2>1. /\ GoIdle(w) /\ UNCHANGED <<lease, box, disturbed>> /\ pc[w] \in {"follow_up", "fail_state"}
        /\ task' = task \/ InsertJob(Here(w), "provision_workspace")
    BY <1>10 DEF EnqueueFollowUp, FailWorkspace, ghosts
  <2>2. KeepsTasks
    BY <2>1, HeldTask, InsertSpares DEF KeepsTasks, JobTypes
  <2> QED BY <2>1, <2>2, LeakIdle DEF Returning, ReturningSteps
<1>11. CASE Crash(w) \/ LoadFails(w) \/ StatementFails(w)
  <2>1. GoIdle(w) /\ UNCHANGED <<lease, box, task>> /\ disturbed' = disturbed \cup {Here(w)}
    BY <1>11 DEF Crash, LoadFails, StatementFails, Disturb, store
  <2> QED BY <2>1, LeakIdle DEF KeepsTasks
<1>12. CASE AllocateOrSecretFails(w) \/ ErrorIgnored(w)
  <2>1. /\ UNCHANGED <<lease, box, task>> /\ disturbed' = disturbed \cup {Here(w)}
        /\ pc[w] # "idle"
    BY <1>12 DEF AllocateOrSecretFails, ErrorIgnored, AfterIgnored, Disturb, store
  <2>2. CASE GoIdle(w)
    BY <2>1, <2>2, LeakIdle DEF KeepsTasks
  <2>3. CASE ~GoIdle(w)
    <3>1. held' = held /\ \E step : step # "idle" /\ pc' = [pc EXCEPT ![w] = step]
      BY <1>12, <2>3 DEF AllocateOrSecretFails, ErrorIgnored, AfterIgnored, Goto, Fail
    <3> QED BY <2>1, <3>1, LeakMove DEF KeepsTasks
  <2> QED BY <2>2, <2>3
<1> QED BY <1>1, <1>2, <1>3, <1>4, <1>5, <1>6, <1>7, <1>8, <1>9, <1>10, <1>11, <1>12 DEF Work, WorkerFault

(* No sequence of failures, stops and overlapping jobs uses up the port range:  *)
(* a leased port serves a running container or is about to be given back.       *)
THEOREM PortsReturned == Spec => []NoPortLeak
<1>1. Init => NoPortLeak
  BY DEF Init, NoPortLeak
<1>2. ASSUME LifecycleAssumption, Core, NoPortLeak, [Next]_vars PROVE NoPortLeak'
  <2>1. CASE \E w \in Workers : Work(w) \/ WorkerFault(w)
    BY <1>2, <2>1, WorkLeak
  <2>2. ASSUME UNCHANGED worker, KeepsTasks, UNCHANGED <<lease, box>> PROVE NoPortLeak'
    <3>1. ASSUME NEW v \in Workers, NEW ws \in Workspaces, ReturnsPort(v, ws) PROVE ReturnsPort(v, ws)'
      <4>1. held[v] # NoJob
        BY <1>2, <3>1 DEF ReturnsPort, Acting, Core, HeldKnown
      <4> QED BY <2>2, <3>1, <4>1 DEF ReturnsPort, Acting, Here, Type, worker, KeepsTasks
    <3> QED BY <1>2, <2>2, <3>1 DEF NoPortLeak, KeepsTasks, Core, TypeOK
  <2>3. CASE Handlers
    <3>1. UNCHANGED <<lease, box>> /\ UNCHANGED worker /\ disturbed \subseteq disturbed'
      BY <2>3 DEF Handlers, CreateWorkspace, QueueDeleteJob, SetDeleting, RequestCancel, ResumeJob, DeleteJob, ghosts
    <3>2. KeepsTasks
      BY <1>2, <2>3, <3>1, HandlersSpare DEF KeepsTasks, Spared
    <3> QED BY <2>2, <3>1, <3>2
  <2>4. CASE (\E ws \in Workspaces : DropDelete(ws)) \/ UNCHANGED vars
    <3>1. UNCHANGED worker /\ UNCHANGED <<task, lease, box>> /\ disturbed \subseteq disturbed'
      BY <2>4 DEF DropDelete, Disturb, vars, store, ghosts
    <3> QED BY <2>2, <3>1 DEF KeepsTasks
  <2> QED BY <1>2, <2>1, <2>3, <2>4 DEF Next
<1> QED BY <1>1, <1>2, LifecycleAssumption, CoreStarts, CoreInductive, PTL DEF Spec

-----------------------------------------------------------------------------
(* A workspace shown as building or provisioning is on its way somewhere *)

Underway == {"building", "provisioning"}
QueuedFor(ws) == \E j \in Jobs : /\ status[j] = "queued" /\ task[j].ws = ws
                                 /\ task[j].type # "delete_workspace"

\* A step that takes no job off the queue.
KeepsQueue == /\ KeepsTasks
              /\ \A j \in Jobs : status[j] = "queued" => status'[j] = "queued" /\ task'[j] = task[j]

(* A worker that moves on with its job still settles the state it wrote. *)
LEMMA StrandMove ==
  ASSUME Core, NoStranded, NEW w \in Workers, pc[w] # "idle", NEW step, step # "idle",
         pc' = [pc EXCEPT ![w] = step], held' = held, KeepsQueue,
         \A ws \in Workspaces \ {Here(w)} : state'[ws] = state[ws],
         step = "set_done" /\ Type(w) = "provision_workspace" /\ Here(w) \notin disturbed'
           => state'[Here(w)] \notin Underway,
         Type(w) = "delete_workspace" /\ state'[Here(w)] \in Underway => state[Here(w)] \in Underway,
         pc[w] = "set_done" => step # "set_done" /\ Type(w) = "build_image"
  PROVE  NoStranded'
<1> SUFFICES ASSUME NEW ws \in Workspaces, ws \notin disturbed', state'[ws] \in Underway
             PROVE  (\E v \in Workers : Settles(v, ws)') \/ QueuedFor(ws)'
  BY DEF NoStranded, Underway, QueuedFor
<1>1. \A v \in Workers : held[v] # NoJob => Here(v)' = Here(v) /\ Type(v)' = Type(v)
  BY DEF KeepsQueue, KeepsTasks, Here, Type
<1>2. pc'[w] = step /\ held[w] # NoJob /\ \A v \in Workers \ {w} : pc'[v] = pc[v]
  BY DEF Core, TypeOK, HeldKnown
<1>3. CASE ws = Here(w) /\ Type(w) # "delete_workspace"
  <2>1. Settles(w, ws)'
    BY <1>1, <1>2, <1>3 DEF Settles, Acting
  <2> QED BY <2>1
<1>4. CASE ws # Here(w) \/ Type(w) = "delete_workspace"
  <2>1. state[ws] \in Underway /\ ws \notin disturbed
    BY <1>4 DEF KeepsQueue, KeepsTasks
  <2>2. CASE QueuedFor(ws)
    BY <2>2 DEF QueuedFor, KeepsQueue, KeepsTasks
  <2>3. CASE \E v \in Workers : Settles(v, ws)
    <3>1. PICK v \in Workers : Settles(v, ws)
      BY <2>3
    <3>2. v # w /\ held[v] # NoJob
      BY <1>4, <3>1 DEF Settles, Acting, Core, HeldKnown
    <3>3. Settles(v, ws)'
      BY <1>1, <1>2, <3>1, <3>2 DEF Settles, Acting
    <3> QED BY <3>3
  <2> QED BY <2>1, <2>2, <2>3 DEF NoStranded, Underway, QueuedFor
<1> QED BY <1>3, <1>4

(* A worker that goes idle has settled it, or somebody else will. *)
LEMMA StrandIdle ==
  ASSUME Core, NoStranded, NEW w \in Workers, pc[w] # "idle", GoIdle(w), KeepsQueue,
         \A ws \in Workspaces : state'[ws] \in Underway => state[ws] = state'[ws],
         \/ Here(w) \in disturbed' \/ state'[Here(w)] \notin Underway
         \/ ~Settles(w, Here(w))
         \/ \E ws \in Workspaces : ws = Here(w) /\ QueuedFor(ws)'
  PROVE  NoStranded'
<1> SUFFICES ASSUME NEW ws \in Workspaces, ws \notin disturbed', state'[ws] \in Underway
             PROVE  (\E v \in Workers : Settles(v, ws)') \/ QueuedFor(ws)'
  BY DEF NoStranded, Underway, QueuedFor
<1>1. \A v \in Workers : held[v] # NoJob => task'[held[v]] = task[held[v]]
  BY DEF KeepsQueue, KeepsTasks
<1>2. \A v \in Workers \ {w} : held'[v] = held[v] /\ pc'[v] = pc[v]
  BY MoveIdle DEF Core
<1>3. state[ws] \in Underway /\ ws \notin disturbed
  BY DEF KeepsQueue, KeepsTasks
<1>4. CASE QueuedFor(ws)
  BY <1>4 DEF QueuedFor, KeepsQueue, KeepsTasks
<1>5. CASE \E v \in Workers : Settles(v, ws)
  <2>1. PICK v \in Workers : Settles(v, ws)
    BY <1>5
  <2>2. CASE v = w
    BY <2>1, <2>2 DEF Settles, Acting
  <2>3. CASE v # w
    <3>1. held[v] # NoJob /\ held'[v] = held[v] /\ pc'[v] = pc[v]
      BY <1>2, <2>1, <2>3 DEF Settles, Acting, Core, HeldKnown
    <3>2. Settles(v, ws)'
      BY <1>1, <2>1, <3>1 DEF Settles, Acting, Here, Type
    <3> QED BY <3>2
  <2> QED BY <2>2, <2>3
<1> QED BY <1>3, <1>4, <1>5 DEF NoStranded, Underway, QueuedFor

(* Every path of a job, the cancelled and the failed ones too, writes the state *)
(* again or leaves that to a queued job.                                        *)
LEMMA WorkStrand == ASSUME LifecycleAssumption, Core, NoStranded, NEW w \in Workers,
                           Work(w) \/ WorkerFault(w)
                    PROVE NoStranded'
<1>1. CASE LeaseNextJob(w)
  <2>1. PICK j \in Jobs : /\ pc[w] = "idle" /\ status[j] = "queued"
                          /\ status' = [status EXCEPT ![j] = "running"]
                          /\ held' = [held EXCEPT ![w] = j]
                          /\ pc' = [pc EXCEPT ![w] = "load"] /\ UNCHANGED <<state, task, disturbed>>
    BY <1>1 DEF LeaseNextJob, ghosts
  <2> SUFFICES ASSUME NEW ws \in Workspaces, ws \notin disturbed, state[ws] \in Underway
               PROVE  (\E v \in Workers : Settles(v, ws)') \/ QueuedFor(ws)'
    BY <2>1 DEF NoStranded, Underway, QueuedFor
  <2>2. pc'[w] = "load" /\ held'[w] = j /\ \A v \in Workers \ {w} : pc'[v] = pc[v] /\ held'[v] = held[v]
    BY <2>1 DEF Core, TypeOK
  <2>3. CASE \E v \in Workers : Settles(v, ws)
    <3>1. PICK v \in Workers : Settles(v, ws) /\ v # w
      BY <2>1, <2>3 DEF Settles, Acting
    <3>2. Settles(v, ws)'
      BY <2>1, <2>2, <3>1 DEF Settles, Acting, Here, Type
    <3> QED BY <3>2
  <2>4. CASE QueuedFor(ws)
    <3>1. PICK k \in Jobs : status[k] = "queued" /\ task[k].ws = ws /\ task[k].type # "delete_workspace"
      BY <2>4 DEF QueuedFor
    <3>2. CASE k = j
      <4>1. Settles(w, ws)'
        BY <2>1, <2>2, <3>1, <3>2 DEF Settles, Acting, Here, Type
      <4> QED BY <4>1
    <3>3. CASE k # j
      <4>1. status'[k] = "queued"
        BY <2>1, <3>1, <3>3 DEF Core, TypeOK
      <4> QED BY <2>1, <3>1, <4>1 DEF QueuedFor
    <3> QED BY <3>2, <3>3
  <2> QED BY <2>3, <2>4 DEF NoStranded, Underway, QueuedFor
<1>2. CASE \/ LoadWorkspace(w) \/ BuildImage(w) \/ SetImage(w) \/ AllocatePort(w) \/ AllocateFails(w)
           \/ ReleaseAfterError(w) \/ RequireImage(w) \/ CommandFails(w) \/ CreateVolume(w)
           \/ CreateContainer(w) \/ StartContainer(w) \/ RemoveContainer(w) \/ RemoveVolume(w) \/ ReleaseDeleted(w)
  <2>1. UNCHANGED <<state, status, task, held, disturbed>>
    BY <1>2 DEF LoadWorkspace, BuildImage, SetImage, AllocatePort, AllocateFails, ReleaseAfterError, RequireImage,
       CommandFails, CreateVolume, CreateContainer, StartContainer, RemoveContainer, RemoveVolume, ReleaseDeleted,
       Goto, Fail, store, ghosts
  <2>2. pc[w] \notin {"idle", "set_done"} /\ \E step : /\ pc' = [pc EXCEPT ![w] = step] /\ step # "idle"
                                                       /\ step = "set_done" => pc[w] = "set_image"
    BY <1>2 DEF LoadWorkspace, BuildImage, SetImage, AllocatePort, AllocateFails, ReleaseAfterError, RequireImage,
       CommandFails, CreateVolume, CreateContainer, StartContainer, RemoveContainer, RemoveVolume, ReleaseDeleted,
       Goto, Fail
  <2>3. pc[w] = "set_image" => Type(w) = "build_image"
    BY DEF Core, StepsMatch, BuildSteps
  <2> QED BY <2>1, <2>2, <2>3, StrandMove DEF KeepsQueue, KeepsTasks
<1>3. CASE StartJob(w)
  <2>1. /\ UNCHANGED <<status, task, held, disturbed>> /\ pc[w] = "start"
        /\ Type(w) # "delete_workspace"
        /\ \E step \in {"build_check", "allocate"} : pc' = [pc EXCEPT ![w] = step]
        /\ \E s : SetState(w, s)
    BY <1>3 DEF StartJob, Goto, ghosts
  <2>2. \A ws \in Workspaces \ {Here(w)} : state'[ws] = state[ws]
    BY <2>1 DEF SetState, Core, TypeOK
  <2> QED BY <2>1, <2>2, StrandMove DEF KeepsQueue, KeepsTasks
<1>4. CASE BuildCheck(w) \/ ProvisionCheck(w) \/ StartCheck(w) \/ DeleteCheck(w)
  <2>1. ASSUME NEW at, NEW step, NEW onCancel, Check(w, at, step, onCancel),
               at \notin {"idle", "set_done"}, {step, onCancel} \cap {"idle", "set_done"} = {}
        PROVE  NoStranded'
    <3>1. UNCHANGED <<state, status, task, held, disturbed>> /\ pc[w] = at
      BY <2>1 DEF Check, Goto, Fail, store, ghosts
    <3>2. \E next \in {step, onCancel} : pc' = [pc EXCEPT ![w] = next]
      BY <2>1 DEF Check, Goto, Fail
    <3> QED BY <2>1, <3>1, <3>2, StrandMove DEF KeepsQueue, KeepsTasks
  <2> QED BY <1>4, <2>1 DEF BuildCheck, ProvisionCheck, StartCheck, DeleteCheck
<1>5. CASE RecordProvisioned(w) \/ MarkDeleted(w)
  <2>1. /\ UNCHANGED <<status, task, held, disturbed>> /\ pc[w] \in {"record", "mark_deleted"}
        /\ pc' = [pc EXCEPT ![w] = "set_done"]
        /\ \E s \in {"running", "deleted"} : SetState(w, s)
    BY <1>5 DEF RecordProvisioned, MarkDeleted, Goto, ghosts
  <2>2. \A ws \in Workspaces \ {Here(w)} : state'[ws] = state[ws]
    BY <2>1 DEF SetState, Core, TypeOK
  <2>3. state'[Here(w)] \notin Underway
    BY <2>1, HeldTask DEF SetState, Core, TypeOK, Underway
  <2> QED BY <2>1, <2>2, <2>3, StrandMove DEF KeepsQueue, KeepsTasks
<1>6. CASE SetDone(w) \/ FailJob(w)
  <2>1. /\ pc[w] \in {"set_done", "fail"} /\ UNCHANGED <<state, task, disturbed>>
        /\ \E s : status' = [status EXCEPT ![held[w]] = s]
    BY <1>6 DEF SetDone, FailJob, SetStatus, ghosts
  <2>2. status[held[w]] # "queued" /\ Type(w) \in JobTypes
    BY <2>1, HeldTask DEF Core, HeldKnown
  <2>3. KeepsQueue
    BY <2>1, <2>2 DEF KeepsQueue, KeepsTasks, Core, TypeOK
  <2>4. CASE FailJob(w)
    BY <2>1, <2>3, <2>4, StrandMove DEF FailJob, Goto
  <2>5. CASE SetDone(w) /\ Type(w) = "build_image"
    BY <2>1, <2>3, <2>5, StrandMove DEF SetDone, Goto
  <2>6. CASE SetDone(w) /\ Type(w) # "build_image"
    <3>1. ~Settles(w, Here(w)) /\ GoIdle(w)
      BY <2>2, <2>6 DEF SetDone, Settles, JobTypes
    <3> QED BY <2>1, <2>3, <3>1, StrandIdle
  <2> QED BY <1>6, <2>4, <2>5, <2>6
<1>7. CASE FailWorkspace(w)
  <2>1. /\ pc[w] = "fail_state" /\ GoIdle(w) /\ UNCHANGED <<status, task, disturbed>>
        /\ \E s \in {"pending", "failed"} : SetState(w, s)
    BY <1>7 DEF FailWorkspace, ghosts
  <2>2. state'[Here(w)] \notin Underway /\ \A ws \in Workspaces \ {Here(w)} : state'[ws] = state[ws]
    BY <2>1, HeldTask DEF SetState, Core, TypeOK, Underway
  <2> QED BY <2>1, <2>2, StrandIdle DEF KeepsQueue, KeepsTasks
<1>8. CASE EnqueueFollowUp(w)
  <2>1. /\ pc[w] = "follow_up" /\ GoIdle(w) /\ UNCHANGED <<state, disturbed>>
        /\ InsertJob(Here(w), "provision_workspace")
    BY <1>8 DEF EnqueueFollowUp, ghosts
  <2>2. PICK j \in Jobs : /\ status[j] = "absent" /\ status' = [status EXCEPT ![j] = "queued"]
                          /\ task' = [task EXCEPT ![j] = [ws |-> Here(w), type |-> "provision_workspace"]]
    BY <2>1 DEF InsertJob
  <2>3. \E ws \in Workspaces : ws = Here(w) /\ QueuedFor(ws)'
    <3>1. PICK ws \in Workspaces : ws = Here(w)
      BY <2>1, HeldTask
    <3>2. status'[j] = "queued" /\ task'[j] = [ws |-> ws, type |-> "provision_workspace"]
      BY <2>2, <3>1 DEF Core, TypeOK
    <3>3. QueuedFor(ws)'
      BY <3>2 DEF QueuedFor
    <3> QED BY <3>1, <3>3
  <2>4. KeepsQueue
    <3>1. \A v \in Workers : held[v] # NoJob => held[v] # j
      BY <2>2 DEF Core, HeldKnown
    <3> QED BY <2>1, <2>2, <3>1 DEF KeepsQueue, KeepsTasks, Core, TypeOK
  <2> QED BY <2>1, <2>3, <2>4, StrandIdle
<1>9. CASE Crash(w) \/ LoadFails(w) \/ StatementFails(w)
  <2>1. /\ pc[w] # "idle" /\ GoIdle(w) /\ UNCHANGED <<state, task>> /\ disturbed' = disturbed \cup {Here(w)}
        /\ status' = status \/ status' = [status EXCEPT ![held[w]] = "failed"]
    BY <1>9 DEF Crash, LoadFails, StatementFails, Disturb, SetStatus, store
  <2>2. status[held[w]] # "queued"
    BY <2>1, HeldTask DEF Core, HeldKnown
  <2>3. KeepsQueue
    BY <2>1, <2>2 DEF KeepsQueue, KeepsTasks, Core, TypeOK
  <2> QED BY <2>1, <2>3, StrandIdle
<1>10. CASE AllocateOrSecretFails(w) \/ ErrorIgnored(w)
  <2>1. UNCHANGED <<state, status, task>> /\ disturbed' = disturbed \cup {Here(w)}
    BY <1>10 DEF AllocateOrSecretFails, ErrorIgnored, Disturb, store
  <2>2. pc[w] \notin {"idle", "set_done"}
    BY <1>10 DEF AllocateOrSecretFails, ErrorIgnored, AfterIgnored
  <2>3. CASE GoIdle(w)
    BY <2>1, <2>2, <2>3, StrandIdle DEF KeepsQueue, KeepsTasks
  <2>4. CASE ~GoIdle(w)
    <3>1. held' = held /\ \E step : step # "idle" /\ pc' = [pc EXCEPT ![w] = step]
      BY <1>10, <2>4 DEF AllocateOrSecretFails, ErrorIgnored, AfterIgnored, Goto, Fail
    <3> QED BY <2>1, <2>2, <3>1, StrandMove DEF KeepsQueue, KeepsTasks
  <2> QED BY <2>3, <2>4
<1> QED BY <1>1, <1>2, <1>3, <1>4, <1>5, <1>6, <1>7, <1>8, <1>9, <1>10 DEF Work, WorkerFault

(* Handlers write no such state, and take a queued row away only with a trace. *)
LEMMA HandlersStrand == ASSUME LifecycleAssumption, Core, NoStranded, Handlers PROVE NoStranded'
<1>1. UNCHANGED worker
  BY DEF Handlers, CreateWorkspace, QueueDeleteJob, SetDeleting, RequestCancel, ResumeJob, DeleteJob
<1>2. ASSUME KeepsQueue, \A ws \in Workspaces : state'[ws] \in Underway => state'[ws] = state[ws]
      PROVE  NoStranded'
  <2> SUFFICES ASSUME NEW ws \in Workspaces, ws \notin disturbed', state'[ws] \in Underway
               PROVE  (\E v \in Workers : Settles(v, ws)') \/ QueuedFor(ws)'
    BY DEF NoStranded, Underway, QueuedFor
  <2>1. \A v \in Workers : Settles(v, ws) => Settles(v, ws)'
    BY <1>1, <1>2 DEF KeepsQueue, KeepsTasks, Settles, Acting, Here, Type, worker, Core, HeldKnown
  <2>2. QueuedFor(ws) => QueuedFor(ws)'
    BY <1>2 DEF KeepsQueue, KeepsTasks, QueuedFor
  <2>3. state[ws] \in Underway /\ ws \notin disturbed
    BY <1>2 DEF KeepsQueue, KeepsTasks
  <2> QED BY <2>1, <2>2, <2>3 DEF NoStranded, Underway, QueuedFor
<1>3. ASSUME NEW ws \in Workspaces, NEW type \in JobTypes, InsertJob(ws, type), disturbed' = disturbed
      PROVE  KeepsQueue
  <2>1. PICK j \in Jobs : /\ status[j] = "absent" /\ status' = [status EXCEPT ![j] = "queued"]
                          /\ \E t : task' = [task EXCEPT ![j] = t]
    BY <1>3 DEF InsertJob
  <2>2. \A v \in Workers : held[v] # NoJob => held[v] # j
    BY <2>1 DEF Core, HeldKnown
  <2> QED BY <1>3, <2>1, <2>2 DEF KeepsQueue, KeepsTasks, Core, TypeOK
<1>4. ASSUME NEW ws \in Workspaces, NEW input \in Inputs, CreateWorkspace(ws, input) PROVE NoStranded'
  <2>1. KeepsQueue
    BY <1>3, <1>4 DEF CreateWorkspace, FirstJob, JobTypes, ghosts
  <2>2. \A x \in Workspaces : state'[x] \in Underway => state'[x] = state[x]
    BY <1>4 DEF CreateWorkspace, Underway, Core, TypeOK
  <2> QED BY <1>2, <2>1, <2>2
<1>5. ASSUME NEW ws \in Workspaces, QueueDeleteJob(ws) PROVE NoStranded'
  BY <1>2, <1>3, <1>5 DEF QueueDeleteJob, JobTypes, ghosts
<1>6. ASSUME NEW ws \in Workspaces, SetDeleting(ws) PROVE NoStranded'
  <2>1. \A x \in Workspaces : state'[x] \in Underway => state'[x] = state[x]
    BY <1>6 DEF SetDeleting, Underway, Core, TypeOK
  <2> QED BY <1>2, <1>6, <2>1 DEF SetDeleting, KeepsQueue, KeepsTasks, ghosts
<1>7. ASSUME NEW j \in Jobs, RequestCancel(j) PROVE NoStranded'
  BY <1>2, <1>7 DEF RequestCancel, KeepsQueue, KeepsTasks, ghosts
<1>8. ASSUME NEW j \in Jobs, ResumeJob(j) PROVE NoStranded'
  <2>1. status[j] # "absent" /\ InsertJob(task[j].ws, task[j].type) /\ UNCHANGED <<state, disturbed>>
    BY <1>8 DEF ResumeJob, Finished, ghosts
  <2>2. task[j].ws \in Workspaces /\ task[j].type \in JobTypes
    BY <2>1 DEF Core, JobsKnown, Tasks
  <2> QED BY <1>2, <1>3, <2>1, <2>2
<1>9. ASSUME NEW j \in Jobs, DeleteJob(j) PROVE NoStranded'
  <2> SUFFICES ASSUME NEW ws \in Workspaces, ws \notin disturbed', state'[ws] \in Underway
               PROVE  (\E v \in Workers : Settles(v, ws)') \/ QueuedFor(ws)'
    BY DEF NoStranded, Underway, QueuedFor
  <2>1. /\ status' = [status EXCEPT ![j] = "erased"] /\ UNCHANGED <<state, task>>
        /\ disturbed \subseteq disturbed' /\ (status[j] = "queued" => task[j].ws # ws)
    BY <1>9 DEF DeleteJob
  <2>2. \A v \in Workers : Settles(v, ws) => Settles(v, ws)'
    BY <1>1, <2>1 DEF Settles, Acting, Here, Type, worker
  <2>3. QueuedFor(ws) => QueuedFor(ws)'
    BY <2>1 DEF QueuedFor, Core, TypeOK
  <2> QED BY <2>1, <2>2, <2>3 DEF NoStranded, Underway, QueuedFor
<1> QED BY <1>4, <1>5, <1>6, <1>7, <1>8, <1>9 DEF Handlers

(* No workspace is left shown as building or provisioning: a queued job or a    *)
(* worker will still write its state, however its jobs overlap and end.         *)
THEOREM NothingStranded == Spec => []NoStranded
<1>1. Init => NoStranded
  BY DEF Init, NoStranded
<1>2. ASSUME LifecycleAssumption, Core, NoStranded, [Next]_vars PROVE NoStranded'
  <2>1. CASE \E w \in Workers : Work(w) \/ WorkerFault(w)
    BY <1>2, <2>1, WorkStrand
  <2>2. CASE Handlers
    BY <1>2, <2>2, HandlersStrand
  <2>3. CASE (\E ws \in Workspaces : DropDelete(ws)) \/ UNCHANGED vars
    <3>1. UNCHANGED <<state, status, task, pc, held>> /\ disturbed \subseteq disturbed'
      BY <2>3 DEF DropDelete, Disturb, vars, store, worker, ghosts
    <3> QED BY <1>2, <3>1 DEF NoStranded, Settles, Acting, Here, Type
  <2> QED BY <1>2, <2>1, <2>2, <2>3 DEF Next
<1> QED BY <1>1, <1>2, LifecycleAssumption, CoreStarts, CoreInductive, PTL DEF Spec

-----------------------------------------------------------------------------
(* Provisioning finds an image *)

\* Whoever asked for a job, its workspace exists, with its image if the job needs one.
JobsOfCreated == \A j \in Jobs : status[j] # "absent" =>
                   /\ state[task[j].ws] # "absent"
                   /\ task[j].type = "provision_workspace" => ImageKnown(row[task[j].ws])

\* A build has stored its image when it ends and asks for the provisioning.
BuiltKnown == \A w \in Workers : pc[w] \in {"set_done", "follow_up"} /\ Type(w) = "build_image"
                                   => ImageKnown(row[Here(w)])

\* A provisioning works on a row read with its image in it.
SeenKnown == \A w \in Workers : pc[w] \notin {"idle", "load"} /\ Type(w) = "provision_workspace"
                                  => ImageKnown(seen[w])

ImageInv == JobsOfCreated /\ BuiltKnown /\ SeenKnown

\* No step takes a workspace back to before its INSERT, or its image out of its row.
RowsGrow == \A ws \in Workspaces : state[ws] # "absent" =>
              state'[ws] # "absent" /\ (ImageKnown(row[ws]) => ImageKnown(row'[ws]))

(* A worker's step changes only its own workspace's row, and never for less. *)
LEMMA WorkGrows == ASSUME Core, NEW w \in Workers, Work(w) \/ WorkerFault(w) PROVE RowsGrow
<1>1. CASE StartJob(w) \/ FailWorkspace(w) \/ MarkDeleted(w)
  <2>1. row' = row /\ \E s \in States \ {"absent"} : state' = [state EXCEPT ![Here(w)] = s]
    BY <1>1 DEF StartJob, FailWorkspace, MarkDeleted, SetState, States
  <2> QED BY <2>1 DEF RowsGrow, Core, TypeOK
<1>2. CASE SetImage(w)
  <2>1. state' = state /\ row' = [row EXCEPT ![Here(w)].image = TRUE] /\ Here(w) \in Workspaces
    BY <1>2, HeldTask DEF SetImage
  <2> QED BY <2>1 DEF RowsGrow, ImageKnown, Core, TypeOK, Rows
<1>3. CASE RecordProvisioned(w)
  <2>1. /\ state' = [state EXCEPT ![Here(w)] = "running"] /\ Here(w) \in Workspaces
        /\ row' = [row EXCEPT ![Here(w)] = [@ EXCEPT !.recorded = TRUE, !.sshPort = port[w]]]
    BY <1>3, HeldTask DEF RecordProvisioned, SetState
  <2> QED BY <2>1 DEF RowsGrow, ImageKnown, Core, TypeOK, Rows
<1>4. CASE ~StartJob(w) /\ ~FailWorkspace(w) /\ ~MarkDeleted(w) /\ ~SetImage(w) /\ ~RecordProvisioned(w)
  <2>1. UNCHANGED <<state, row>>
    BY <1>4 DEF Work, WorkerFault, LeaseNextJob, LoadWorkspace, SetDone, FailJob, ReleaseAfterError, ReleaseDeleted,
       BuildCheck, BuildImage, EnqueueFollowUp, AllocatePort, AllocateFails, ProvisionCheck, RequireImage,
       CommandFails, CreateVolume, CreateContainer, StartCheck, StartContainer,
       DeleteCheck, RemoveContainer, RemoveVolume, Check, Crash, LoadFails, StatementFails,
       AllocateOrSecretFails, ErrorIgnored, store
  <2> QED BY <2>1 DEF RowsGrow
<1> QED BY <1>1, <1>2, <1>3, <1>4

(* Rows of jobs that are there stay right while the rows they name grow. *)
LEMMA SameJobsCreated ==
  ASSUME Core, JobsOfCreated, RowsGrow, task' = task,
         \A j \in Jobs : status'[j] # "absent" => status[j] # "absent"
  PROVE  JobsOfCreated'
<1> SUFFICES ASSUME NEW j \in Jobs, status'[j] # "absent"
             PROVE  /\ state'[task[j].ws] # "absent"
                    /\ task[j].type = "provision_workspace" => ImageKnown(row'[task[j].ws])
  BY DEF JobsOfCreated, ImageKnown
<1>1. task[j].ws \in Workspaces
  BY DEF Core, JobsKnown, Tasks
<1> QED BY <1>1 DEF JobsOfCreated, RowsGrow

(* So are they with a job more, if it is one its workspace is ready for. *)
LEMMA InsertCreated ==
  ASSUME Core, JobsOfCreated, RowsGrow, NEW ws \in Workspaces, NEW type \in JobTypes, InsertJob(ws, type),
         state'[ws] # "absent", type = "provision_workspace" => ImageKnown(row'[ws])
  PROVE  JobsOfCreated'
<1>1. PICK i \in Jobs : /\ status' = [status EXCEPT ![i] = "queued"]
                        /\ task' = [task EXCEPT ![i] = [ws |-> ws, type |-> type]]
  BY DEF InsertJob
<1> SUFFICES ASSUME NEW j \in Jobs, status'[j] # "absent"
             PROVE  /\ state'[task'[j].ws] # "absent"
                    /\ task'[j].type = "provision_workspace" => ImageKnown(row'[task'[j].ws])
  BY DEF JobsOfCreated, ImageKnown
<1>2. CASE j = i
  <2>1. task'[j] = [ws |-> ws, type |-> type]
    BY <1>1, <1>2 DEF Core, TypeOK
  <2> QED BY <2>1
<1>3. CASE j # i
  <2>1. status[j] # "absent" /\ task'[j] = task[j]
    BY <1>1, <1>3 DEF Core, TypeOK
  <2>2. task[j].ws \in Workspaces
    BY <2>1 DEF Core, JobsKnown, Tasks
  <2> QED BY <2>1, <2>2 DEF JobsOfCreated, RowsGrow
<1> QED BY <1>2, <1>3

(* What other workers know stays true. *)
LEMMA OthersKnow ==
  ASSUME Core, ImageInv, RowsGrow, KeepsTasks, NEW v \in Workers,
         held[v] # NoJob, held'[v] = held[v], seen'[v] = seen[v], pc'[v] = pc[v]
  PROVE  /\ pc'[v] \in {"set_done", "follow_up"} /\ Type(v)' = "build_image" => ImageKnown(row'[Here(v)'])
         /\ pc'[v] \notin {"idle", "load"} /\ Type(v)' = "provision_workspace" => ImageKnown(seen'[v])
<1>1. Here(v)' = Here(v) /\ Type(v)' = Type(v) /\ held[v] \in Jobs /\ status[held[v]] # "absent"
  BY DEF KeepsTasks, Here, Type, Core, TypeOK, HeldKnown
<1>2. Here(v) \in Workspaces /\ state[Here(v)] # "absent"
  BY <1>1 DEF Here, Core, JobsKnown, Tasks, ImageInv, JobsOfCreated
<1> QED BY <1>1, <1>2 DEF ImageInv, BuiltKnown, SeenKnown, RowsGrow

(* A worker that moves on with what it has read. *)
LEMMA ImageMove ==
  ASSUME Core, ImageInv, RowsGrow, NEW w \in Workers, pc[w] # "idle", NEW step, step \notin {"idle", "load"},
         pc' = [pc EXCEPT ![w] = step], held' = held, task' = task, disturbed \subseteq disturbed',
         \A j \in Jobs : status'[j] # "absent" => status[j] # "absent",
         \/ pc[w] # "load" /\ seen' = seen
         \/ seen' = [seen EXCEPT ![w] = row[Here(w)]],
         step \in {"set_done", "follow_up"} /\ Type(w) = "build_image" /\ pc[w] # "set_done" => ImageKnown(row'[Here(w)])
  PROVE  ImageInv'
<1>1. JobsOfCreated'
  BY SameJobsCreated DEF ImageInv
<1>2. KeepsTasks
  BY DEF KeepsTasks
<1>3. held[w] # NoJob /\ pc'[w] = step /\ Here(w)' = Here(w) /\ Type(w)' = Type(w)
  BY DEF Core, TypeOK, HeldKnown, Here, Type
<1>4. held[w] \in Jobs /\ status[held[w]] # "absent" /\ Here(w) \in Workspaces
  BY <1>3, HeldTask DEF Core, HeldKnown
<1>5. state[Here(w)] # "absent" /\ (Type(w) = "provision_workspace" => ImageKnown(row[Here(w)]))
  BY <1>4 DEF ImageInv, JobsOfCreated, Here, Type
<1>6. step \in {"set_done", "follow_up"} /\ Type(w) = "build_image" => ImageKnown(row'[Here(w)])
  BY <1>4, <1>5 DEF ImageInv, BuiltKnown, RowsGrow
<1>7. Type(w) = "provision_workspace" => ImageKnown(seen'[w])
  <2>1. CASE pc[w] # "load" /\ seen' = seen
    BY <2>1 DEF ImageInv, SeenKnown
  <2>2. CASE seen' = [seen EXCEPT ![w] = row[Here(w)]]
    BY <1>5, <2>2 DEF Core, TypeOK
  <2> QED BY <2>1, <2>2
<1>8. ASSUME NEW v \in Workers \ {w}
      PROVE  /\ pc'[v] \in {"set_done", "follow_up"} /\ Type(v)' = "build_image" => ImageKnown(row'[Here(v)'])
             /\ pc'[v] \notin {"idle", "load"} /\ Type(v)' = "provision_workspace" => ImageKnown(seen'[v])
  <2>1. pc'[v] = pc[v] /\ seen'[v] = seen[v]
    BY DEF Core, TypeOK
  <2>2. CASE held[v] = NoJob
    BY <2>1, <2>2 DEF Core, HeldKnown
  <2> QED BY <1>2, <2>1, <2>2, OthersKnow
<1>9. BuiltKnown' /\ SeenKnown'
  <2>1. BuiltKnown'
    BY <1>3, <1>6, <1>8 DEF BuiltKnown, ImageKnown
  <2>2. SeenKnown'
    BY <1>3, <1>7, <1>8 DEF SeenKnown, ImageKnown
  <2> QED BY <2>1, <2>2
<1> QED BY <1>1, <1>9 DEF ImageInv

(* A worker that goes idle knows nothing. *)
LEMMA ImageIdle ==
  ASSUME Core, ImageInv, RowsGrow, NEW w \in Workers, GoIdle(w), KeepsTasks, JobsOfCreated'
  PROVE  ImageInv'
<1>1. pc'[w] = "idle" /\ \A v \in Workers \ {w} : held'[v] = held[v] /\ pc'[v] = pc[v]
  BY MoveIdle DEF Core
<1>2. ASSUME NEW v \in Workers \ {w}
      PROVE  /\ pc'[v] \in {"set_done", "follow_up"} /\ Type(v)' = "build_image" => ImageKnown(row'[Here(v)'])
             /\ pc'[v] \notin {"idle", "load"} /\ Type(v)' = "provision_workspace" => ImageKnown(seen'[v])
  <2>1. seen'[v] = seen[v]
    BY DEF GoIdle, Core, TypeOK
  <2>2. CASE held[v] = NoJob
    BY <1>1, <2>2 DEF Core, HeldKnown
  <2> QED BY <1>1, <2>1, <2>2, OthersKnow
<1> QED BY <1>1, <1>2 DEF ImageInv, BuiltKnown, SeenKnown, ImageKnown

(* Every step of a worker reads or stores the image where the next one needs it. *)
LEMMA WorkImage == ASSUME LifecycleAssumption, Core, ImageInv, NEW w \in Workers, Work(w) \/ WorkerFault(w)
                   PROVE ImageInv'
<1>1. RowsGrow
  BY WorkGrows
<1>2. CASE LeaseNextJob(w)
  <2>1. PICK j \in Jobs : status[j] = "queued" /\ status' = [status EXCEPT ![j] = "running"]
    BY <1>2 DEF LeaseNextJob
  <2>2. /\ UNCHANGED <<task, row, seen>> /\ disturbed' = disturbed
        /\ pc'[w] = "load" /\ \A v \in Workers \ {w} : pc'[v] = pc[v] /\ held'[v] = held[v]
    BY <1>2 DEF LeaseNextJob, ghosts, Core, TypeOK
  <2>3. \A k \in Jobs : status'[k] # "absent" => status[k] # "absent"
    BY <2>1 DEF Core, TypeOK
  <2>4. JobsOfCreated'
    BY <1>1, <2>2, <2>3, SameJobsCreated DEF ImageInv
  <2>5. \A v \in Workers \ {w} : Here(v)' = Here(v) /\ Type(v)' = Type(v)
    BY <2>2 DEF Here, Type
  <2>6. BuiltKnown' /\ SeenKnown'
    BY <2>2, <2>5 DEF ImageInv, BuiltKnown, SeenKnown, ImageKnown
  <2> QED BY <2>4, <2>6 DEF ImageInv
<1>3. CASE LoadWorkspace(w)
  <2>1. /\ pc[w] # "idle" /\ UNCHANGED <<status, task, held, disturbed>>
        /\ seen' = [seen EXCEPT ![w] = row[Here(w)]]
        /\ \E step \in {"delete_check", "start"} : pc' = [pc EXCEPT ![w] = step]
    BY <1>3 DEF LoadWorkspace, store, ghosts
  <2> QED BY <1>1, <2>1, ImageMove
<1>4. CASE \/ StartJob(w) \/ BuildImage(w) \/ AllocatePort(w) \/ AllocateFails(w) \/ ReleaseAfterError(w)
           \/ RequireImage(w) \/ CommandFails(w) \/ CreateVolume(w) \/ CreateContainer(w) \/ StartContainer(w)
           \/ RemoveContainer(w) \/ RemoveVolume(w) \/ ReleaseDeleted(w)
  <2>1. UNCHANGED <<status, task, held, seen, disturbed>> /\ pc[w] \notin {"idle", "load"}
    BY <1>4 DEF StartJob, BuildImage, AllocatePort, AllocateFails, ReleaseAfterError, RequireImage,
       CommandFails, CreateVolume, CreateContainer, StartContainer, RemoveContainer, RemoveVolume, ReleaseDeleted,
       Goto, Fail, store, ghosts
  <2>2. \E step : pc' = [pc EXCEPT ![w] = step] /\ step \notin {"idle", "load", "set_done", "follow_up"}
    BY <1>4 DEF StartJob, BuildImage, AllocatePort, AllocateFails, ReleaseAfterError, RequireImage,
       CommandFails, CreateVolume, CreateContainer, StartContainer, RemoveContainer, RemoveVolume, ReleaseDeleted,
       Goto, Fail
  <2> QED BY <1>1, <2>1, <2>2, ImageMove
<1>5. CASE SetImage(w)
  <2>1. /\ pc[w] = "set_image" /\ UNCHANGED <<status, task, held, seen, disturbed>>
        /\ pc' = [pc EXCEPT ![w] = "set_done"] /\ row' = [row EXCEPT ![Here(w)].image = TRUE]
    BY <1>5 DEF SetImage, Goto, ghosts
  <2>2. ImageKnown(row'[Here(w)])
    BY <2>1, HeldTask DEF Core, TypeOK, Rows, ImageKnown
  <2> QED BY <1>1, <2>1, <2>2, ImageMove
<1>6. CASE RecordProvisioned(w) \/ MarkDeleted(w)
  <2>1. /\ pc[w] \in {"record", "mark_deleted"} /\ UNCHANGED <<status, task, held, seen, disturbed>>
        /\ pc' = [pc EXCEPT ![w] = "set_done"]
    BY <1>6 DEF RecordProvisioned, MarkDeleted, Goto, ghosts
  <2>2. Type(w) # "build_image"
    BY <2>1 DEF Core, StepsMatch, ProvisionSteps, DeleteSteps
  <2> QED BY <1>1, <2>1, <2>2, ImageMove
<1>7. CASE BuildCheck(w) \/ ProvisionCheck(w) \/ StartCheck(w) \/ DeleteCheck(w)
  <2>1. ASSUME NEW at, NEW step, NEW onCancel, Check(w, at, step, onCancel),
               {at, step, onCancel} \cap {"idle", "load", "set_done", "follow_up"} = {}
        PROVE  ImageInv'
    <3>1. UNCHANGED <<status, task, held, seen, disturbed>> /\ pc[w] = at
      BY <2>1 DEF Check, Goto, Fail, store, ghosts
    <3>2. \E next \in {step, onCancel} : pc' = [pc EXCEPT ![w] = next]
      BY <2>1 DEF Check, Goto, Fail
    <3> QED BY <1>1, <2>1, <3>1, <3>2, ImageMove
  <2> QED BY <1>7, <2>1 DEF BuildCheck, ProvisionCheck, StartCheck, DeleteCheck
<1>8. CASE SetDone(w) \/ FailJob(w)
  <2>1. /\ pc[w] \in {"set_done", "fail"} /\ UNCHANGED <<task, disturbed>>
        /\ \E s : status' = [status EXCEPT ![held[w]] = s]
    BY <1>8 DEF SetDone, FailJob, SetStatus, ghosts
  <2>2. status[held[w]] # "absent" /\ held[w] \in Jobs
    BY <2>1, HeldTask DEF Core, HeldKnown
  <2>3. \A k \in Jobs : status'[k] # "absent" => status[k] # "absent"
    BY <2>1, <2>2 DEF Core, TypeOK
  <2>4. CASE FailJob(w)
    BY <1>1, <2>1, <2>3, <2>4, ImageMove DEF FailJob, Goto
  <2>5. CASE SetDone(w) /\ Goto(w, "follow_up")
    <3>1. pc[w] = "set_done"
      BY <2>5 DEF SetDone
    <3> QED BY <1>1, <2>1, <2>3, <2>5, <3>1, ImageMove DEF Goto
  <2>6. CASE GoIdle(w)
    BY <1>1, <2>1, <2>3, <2>6, ImageIdle, SameJobsCreated DEF ImageInv, KeepsTasks
  <2> QED BY <1>8, <2>4, <2>5, <2>6 DEF SetDone
<1>9. CASE EnqueueFollowUp(w)
  <2>1. /\ pc[w] = "follow_up" /\ GoIdle(w) /\ UNCHANGED <<state, row, disturbed>>
        /\ InsertJob(Here(w), "provision_workspace")
    BY <1>9 DEF EnqueueFollowUp, ghosts
  <2>2. Here(w) \in Workspaces /\ "provision_workspace" \in JobTypes /\ Type(w) = "build_image"
    BY <2>1, HeldTask DEF JobTypes, Core, StepsMatch, BuildSteps
  <2>3. ImageKnown(row[Here(w)]) /\ state[Here(w)] # "absent"
    <3>1. held[w] \in Jobs /\ status[held[w]] # "absent"
      BY <2>1, HeldTask DEF Core, HeldKnown
    <3> QED BY <2>1, <2>2, <3>1 DEF ImageInv, BuiltKnown, JobsOfCreated, Here
  <2>4. JobsOfCreated'
    BY <1>1, <2>1, <2>2, <2>3, InsertCreated DEF ImageInv
  <2>5. KeepsTasks
    BY <2>1, <2>2, InsertSpares DEF KeepsTasks
  <2> QED BY <1>1, <2>1, <2>4, <2>5, ImageIdle
<1>10. CASE FailWorkspace(w) \/ Crash(w) \/ LoadFails(w) \/ StatementFails(w)
  <2>1. /\ pc[w] # "idle" /\ GoIdle(w) /\ task' = task /\ disturbed \subseteq disturbed'
        /\ status' = status \/ \E s : status' = [status EXCEPT ![held[w]] = s]
    BY <1>10 DEF FailWorkspace, Crash, LoadFails, StatementFails, Disturb, SetStatus, store, ghosts
  <2>2. status[held[w]] # "absent" /\ held[w] \in Jobs
    BY <2>1, HeldTask DEF Core, HeldKnown
  <2>3. \A k \in Jobs : status'[k] # "absent" => status[k] # "absent"
    BY <2>1, <2>2 DEF Core, TypeOK
  <2> QED BY <1>1, <2>1, <2>3, ImageIdle, SameJobsCreated DEF ImageInv, KeepsTasks
<1>11. CASE AllocateOrSecretFails(w) \/ ErrorIgnored(w)
  <2>1. /\ UNCHANGED <<status, task>> /\ disturbed \subseteq disturbed'
        /\ pc[w] \notin {"idle", "load", "set_done"}
    BY <1>11 DEF AllocateOrSecretFails, ErrorIgnored, AfterIgnored, Disturb, store
  <2>2. CASE GoIdle(w)
    BY <1>1, <2>1, <2>2, ImageIdle, SameJobsCreated DEF ImageInv, KeepsTasks
  <2>3. CASE ~GoIdle(w)
    <3>1. /\ UNCHANGED <<held, seen>>
          /\ \E step : /\ step \notin {"idle", "load", "set_done", "follow_up"}
                       /\ pc' = [pc EXCEPT ![w] = step]
      BY <1>11, <2>3 DEF AllocateOrSecretFails, ErrorIgnored, AfterIgnored, Goto, Fail
    <3> QED BY <1>1, <2>1, <3>1, ImageMove
  <2> QED BY <2>2, <2>3
<1> QED BY <1>2, <1>3, <1>4, <1>5, <1>6, <1>7, <1>8, <1>9, <1>10, <1>11 DEF Work, WorkerFault

(* No handler asks for a provisioning that has no image to come. *)
LEMMA HandlersImage == ASSUME LifecycleAssumption, Core, ImageInv, Handlers PROVE ImageInv'
<1>1. UNCHANGED worker /\ KeepsTasks
  <2>1. UNCHANGED worker /\ disturbed \subseteq disturbed'
    BY DEF Handlers, CreateWorkspace, QueueDeleteJob, SetDeleting, RequestCancel, ResumeJob, DeleteJob, ghosts
  <2> QED BY <2>1, HandlersSpare DEF KeepsTasks, Spared
<1>2. ASSUME RowsGrow, JobsOfCreated' PROVE ImageInv'
  <2>1. ASSUME NEW v \in Workers
        PROVE  /\ pc'[v] \in {"set_done", "follow_up"} /\ Type(v)' = "build_image" => ImageKnown(row'[Here(v)'])
               /\ pc'[v] \notin {"idle", "load"} /\ Type(v)' = "provision_workspace" => ImageKnown(seen'[v])
    <3>1. CASE held[v] = NoJob
      BY <1>1, <3>1 DEF worker, Core, HeldKnown
    <3> QED BY <1>1, <1>2, <3>1, OthersKnow DEF worker
  <2> QED BY <1>2, <2>1 DEF ImageInv, BuiltKnown, SeenKnown, ImageKnown
<1>3. ASSUME NEW ws \in Workspaces, NEW input \in Inputs, CreateWorkspace(ws, input) PROVE ImageInv'
  <2>1. /\ state[ws] = "absent" /\ state' = [state EXCEPT ![ws] = "pending"]
        /\ row' = [row EXCEPT ![ws] = NewRow(input)]
        /\ InsertJob(ws, FirstJob(input.built)) /\ FirstJob(input.built) \in JobTypes
    BY <1>3 DEF CreateWorkspace, FirstJob, JobTypes
  <2>2. RowsGrow
    BY <2>1 DEF RowsGrow, Core, TypeOK
  <2>3. state'[ws] = "pending" /\ row'[ws] = NewRow(input)
    BY <2>1 DEF Core, TypeOK
  <2>4. FirstJob(input.built) = "provision_workspace" => ImageKnown(row'[ws])
    BY <2>3 DEF FirstJob, ImageKnown, NewRow
  <2> QED BY <1>2, <2>1, <2>2, <2>3, <2>4, InsertCreated DEF ImageInv
<1>4. ASSUME NEW ws \in Workspaces, QueueDeleteJob(ws) PROVE ImageInv'
  <2>1. RowsGrow /\ state'[ws] # "absent" /\ InsertJob(ws, "delete_workspace")
    BY <1>4 DEF QueueDeleteJob, RowsGrow
  <2> QED BY <1>2, <2>1, InsertCreated DEF ImageInv, JobTypes
<1>5. ASSUME NEW ws \in Workspaces, SetDeleting(ws) PROVE ImageInv'
  <2>1. RowsGrow /\ UNCHANGED <<status, task>>
    BY <1>5 DEF SetDeleting, RowsGrow, Core, TypeOK
  <2> QED BY <1>2, <2>1, SameJobsCreated DEF ImageInv
<1>6. ASSUME NEW j \in Jobs, RequestCancel(j) \/ DeleteJob(j) PROVE ImageInv'
  <2>1. RowsGrow /\ task' = task /\ \A k \in Jobs : status'[k] # "absent" => status[k] # "absent"
    BY <1>6 DEF RequestCancel, DeleteJob, RowsGrow, Core, TypeOK, Finished
  <2> QED BY <1>2, <2>1, SameJobsCreated DEF ImageInv
<1>7. ASSUME NEW j \in Jobs, ResumeJob(j) PROVE ImageInv'
  <2>1. status[j] # "absent" /\ InsertJob(task[j].ws, task[j].type) /\ RowsGrow /\ UNCHANGED <<state, row>>
    BY <1>7 DEF ResumeJob, Finished, RowsGrow
  <2>2. task[j].ws \in Workspaces /\ task[j].type \in JobTypes
    BY <2>1 DEF Core, JobsKnown, Tasks
  <2> QED BY <1>2, <2>1, <2>2, InsertCreated DEF ImageInv, JobsOfCreated
<1> QED BY <1>3, <1>4, <1>5, <1>6, <1>7 DEF Handlers

(* Provision never finds its workspace without an image reference: however jobs *)
(* are resumed and overlap, a provisioning comes after the build it needs.      *)
THEOREM ImageFirst == Spec => []ProvisionHasImage
<1>1. Init => ImageInv
  BY DEF Init, ImageInv, JobsOfCreated, BuiltKnown, SeenKnown
<1>2. ASSUME LifecycleAssumption, Core, ImageInv, [Next]_vars PROVE ImageInv'
  <2>1. CASE \E w \in Workers : Work(w) \/ WorkerFault(w)
    BY <1>2, <2>1, WorkImage
  <2>2. CASE Handlers
    BY <1>2, <2>2, HandlersImage
  <2>3. CASE (\E ws \in Workspaces : DropDelete(ws)) \/ UNCHANGED vars
    <3>1. UNCHANGED <<state, row, status, task, pc, held, seen>>
      BY <2>3 DEF DropDelete, vars, store, worker
    <3> QED BY <1>2, <3>1 DEF ImageInv, JobsOfCreated, BuiltKnown, SeenKnown, Here, Type, ImageKnown
  <2> QED BY <1>2, <2>1, <2>2, <2>3 DEF Next
<1>3. Core /\ ImageInv => ProvisionHasImage
  BY DEF Core, StepsMatch, ProvisionSteps, ImageInv, SeenKnown, ProvisionHasImage
<1> QED BY <1>1, <1>2, <1>3, LifecycleAssumption, CoreStarts, CoreInductive, PTL DEF Spec

-----------------------------------------------------------------------------
(* While the server is the only one to execute jobs, for any number of          *)
(* workspaces, ports and jobs and with faults.  With a second worker jobs of    *)
(* one workspace overlap, and the theorems on OneWorker are not true.           *)

(* One worker: the state a workspace shows is the state of its container *)

OneWorker == \A v, w \in Workers : v = w

\* The container a provisioning has created is its own until it is recorded.
ContainerKnown(w) ==
  /\ pc[w] \in {"start_check", "start_container", "record"} => box[Here(w)].port = port[w]
  /\ pc[w] = "record" => box[Here(w)].container = "running"

\* A deletion that is over has left its mark, which only another job removes.
MarkKnown(w) == pc[w] = "set_done" /\ Type(w) = "delete_workspace" => state[Here(w)] # "running"

\* A workspace shown as running has its container, or its deletion is under way.
RealAt(ws) == state[ws] = "running" =>
                \/ box[ws].container = "running" /\ box[ws].port = row[ws].sshPort
                \/ \E w \in Workers : Acting(w, ws) /\ Type(w) = "delete_workspace"

RealInv == /\ \A ws \in Workspaces \ disturbed : RealAt(ws)
           /\ \A w \in Workers : ContainerKnown(w) /\ MarkKnown(w)

(* The only worker leaves other workspaces as they are. *)
LEMMA OthersReal ==
  ASSUME OneWorker, Core, RealInv, NEW w \in Workers, NEW ws \in Workspaces \ disturbed,
         Here(w) # ws \/ Type(w) # "delete_workspace" \/ pc[w] = "idle",
         state'[ws] = "running" => state[ws] = "running",
         box'[ws].container = box[ws].container, box'[ws].port = box[ws].port,
         row'[ws].sshPort = row[ws].sshPort
  PROVE  RealAt(ws)'
<1>1. ~\E v \in Workers : Acting(v, ws) /\ Type(v) = "delete_workspace"
  BY DEF OneWorker, Acting
<1> QED BY <1>1 DEF RealInv, RealAt

(* A worker's step keeps shown and real state together: it creates before it    *)
(* records, and a deletion is at work from its first docker command on.         *)
LEMMA WorkReal == ASSUME OneWorker, LifecycleAssumption, Core, RealInv, NEW w \in Workers, Work(w) \/ WorkerFault(w)
                  PROVE RealInv'
<1> DEFINE Same(ws) == /\ state'[ws] = "running" => state[ws] = "running"
                       /\ box'[ws].container = box[ws].container /\ box'[ws].port = box[ws].port
                       /\ row'[ws].sshPort = row[ws].sshPort
<1>1. ASSUME pc[w] # "idle", held' = held, task' = task, disturbed \subseteq disturbed',
             \A ws \in Workspaces \ {Here(w)} : Same(ws),
             Type(w) = "delete_workspace" \/ Same(Here(w)),
             NEW step, step # "idle", pc' = [pc EXCEPT ![w] = step],
             ContainerKnown(w)', MarkKnown(w)'
      PROVE  RealInv'
  <2>1. ASSUME NEW ws \in Workspaces \ disturbed' PROVE RealAt(ws)'
    <3>1. CASE ws = Here(w) /\ Type(w) = "delete_workspace"
      <4>1. (Acting(w, ws) /\ Type(w) = "delete_workspace")'
        BY <1>1, <3>1 DEF Acting, Here, Type, Core, TypeOK
      <4> QED BY <4>1 DEF RealAt
    <3>2. CASE ws # Here(w) \/ Type(w) # "delete_workspace"
      BY <1>1, <2>1, <3>2, OthersReal
    <3> QED BY <3>1, <3>2
  <2> QED BY <1>1, <2>1 DEF OneWorker, RealInv
<1>2. ASSUME GoIdle(w), UNCHANGED <<box, row>>, disturbed \subseteq disturbed',
             \A ws \in Workspaces \ {Here(w)} : state'[ws] = state[ws],
             Here(w) \in disturbed' \/ Type(w) # "delete_workspace" \/ state'[Here(w)] # "running",
             state'[Here(w)] = "running" => state[Here(w)] = "running"
      PROVE  RealInv'
  <2>1. \A v \in Workers : pc'[v] = "idle"
    BY <1>2, MoveIdle DEF OneWorker, Core
  <2>2. ASSUME NEW ws \in Workspaces \ disturbed' PROVE RealAt(ws)'
    <3>1. CASE ws = Here(w) /\ state'[ws] # "running"
      BY <3>1 DEF RealAt
    <3>2. CASE ws # Here(w) \/ Type(w) # "delete_workspace"
      BY <1>2, <2>2, <3>2, OthersReal
    <3> QED BY <1>2, <2>2, <3>1, <3>2
  <2> QED BY <2>1, <2>2 DEF RealInv, ContainerKnown, MarkKnown
<1> HIDE DEF Same
<1>3. CASE LeaseNextJob(w)
  <2>1. /\ pc[w] = "idle" /\ UNCHANGED <<state, row, box, disturbed>> /\ pc' = [pc EXCEPT ![w] = "load"]
    BY <1>3 DEF LeaseNextJob, ghosts
  <2>2. \A v \in Workers : pc'[v] = "load"
    BY <2>1 DEF OneWorker, Core, TypeOK
  <2> QED BY <2>1, <2>2, OthersReal DEF RealInv, ContainerKnown, MarkKnown
<1>4. CASE \/ LoadWorkspace(w) \/ BuildImage(w) \/ SetImage(w) \/ AllocatePort(w) \/ AllocateFails(w)
           \/ ReleaseAfterError(w) \/ RequireImage(w) \/ CommandFails(w) \/ ReleaseDeleted(w) \/ FailJob(w)
  <2>1. UNCHANGED <<state, task, held, box, disturbed>> /\ pc[w] # "idle"
    BY <1>4 DEF LoadWorkspace, BuildImage, SetImage, AllocatePort, AllocateFails, ReleaseAfterError, RequireImage,
       CommandFails, ReleaseDeleted, FailJob, Goto, Fail, store, ghosts
  <2>2. PICK step : /\ pc' = [pc EXCEPT ![w] = step]
                    /\ step \notin {"idle", "start_check", "start_container", "record"}
                    /\ step = "set_done" => pc[w] = "set_image"
    BY <1>4 DEF LoadWorkspace, BuildImage, SetImage, AllocatePort, AllocateFails, ReleaseAfterError, RequireImage,
       CommandFails, ReleaseDeleted, FailJob, Goto, Fail
  <2>3. \A ws \in Workspaces : row'[ws].sshPort = row[ws].sshPort
    BY <1>4 DEF LoadWorkspace, BuildImage, SetImage, AllocatePort, AllocateFails, ReleaseAfterError, RequireImage,
       CommandFails, ReleaseDeleted, FailJob, store, Core, TypeOK, Rows
  <2>4. pc'[w] = step /\ (pc[w] = "set_image" => Type(w) # "delete_workspace") /\ Type(w)' = Type(w)
    BY <2>1, <2>2 DEF Core, TypeOK, StepsMatch, BuildSteps, Type
  <2>5. ContainerKnown(w)' /\ MarkKnown(w)'
    BY <2>2, <2>4 DEF ContainerKnown, MarkKnown
  <2>6. \A ws \in Workspaces : Same(ws)
    BY <2>1, <2>3 DEF Same
  <2> QED BY <1>1, <2>1, <2>2, <2>5, <2>6, HeldTask
<1>5. CASE BuildCheck(w) \/ ProvisionCheck(w) \/ StartCheck(w) \/ DeleteCheck(w)
  <2>1. ASSUME NEW at, NEW step, NEW onCancel, Check(w, at, step, onCancel), at # "idle",
               {step, onCancel} \cap {"idle", "set_done", "start_check", "record"} = {},
               onCancel # "start_container", step = "start_container" => at = "start_check"
        PROVE  RealInv'
    <3>1. UNCHANGED <<state, row, task, held, box, port, disturbed>> /\ pc[w] = at
      BY <2>1 DEF Check, Goto, Fail, store, ghosts
    <3>2. PICK next \in {step, onCancel} : pc' = [pc EXCEPT ![w] = next]
      BY <2>1 DEF Check, Goto, Fail
    <3>3. pc'[w] = next /\ Here(w)' = Here(w)
      BY <3>1, <3>2 DEF Core, TypeOK, Here
    <3>4. ContainerKnown(w)' /\ MarkKnown(w)'
      BY <2>1, <3>1, <3>2, <3>3 DEF RealInv, ContainerKnown, MarkKnown
    <3>5. \A ws \in Workspaces : Same(ws)
      BY <3>1 DEF Same
    <3> QED BY <1>1, <2>1, <3>1, <3>2, <3>4, <3>5, HeldTask
  <2> QED BY <1>5, <2>1 DEF BuildCheck, ProvisionCheck, StartCheck, DeleteCheck
<1>6. CASE StartJob(w)
  <2>1. /\ UNCHANGED <<row, task, held, box, disturbed>> /\ pc[w] = "start"
        /\ \E step \in {"build_check", "allocate"} : pc' = [pc EXCEPT ![w] = step]
        /\ \E s \in {"building", "provisioning"} : state' = [state EXCEPT ![Here(w)] = s]
    BY <1>6 DEF StartJob, SetState, Goto, ghosts
  <2>2. PICK step \in {"build_check", "allocate"} : pc' = [pc EXCEPT ![w] = step]
    BY <2>1
  <2>3. ContainerKnown(w)' /\ MarkKnown(w)'
    BY <2>2 DEF ContainerKnown, MarkKnown, Core, TypeOK
  <2>4. \A ws \in Workspaces : Same(ws)
    BY <2>1, HeldTask DEF Same, Core, TypeOK
  <2> QED BY <1>1, <2>1, <2>2, <2>3, <2>4, HeldTask
<1>7. CASE CreateVolume(w)
  <2>1. /\ UNCHANGED <<state, row, task, held, disturbed>> /\ pc[w] = "volume"
        /\ pc' = [pc EXCEPT ![w] = "create"] /\ box' = [box EXCEPT ![Here(w)].volume = TRUE]
    BY <1>7 DEF CreateVolume, Goto, store, ghosts
  <2>2. ContainerKnown(w)' /\ MarkKnown(w)'
    BY <2>1 DEF ContainerKnown, MarkKnown, Core, TypeOK
  <2>3. \A ws \in Workspaces : Same(ws)
    BY <2>1, HeldTask DEF Same, Core, TypeOK
  <2> QED BY <1>1, <2>1, <2>2, <2>3, HeldTask
<1>8. CASE CreateContainer(w)
  <2>1. /\ UNCHANGED <<state, row, task, held, port, disturbed>> /\ pc[w] = "create"
        /\ pc' = [pc EXCEPT ![w] = "start_check"] /\ box[Here(w)].container = "none"
        /\ box' = [box EXCEPT ![Here(w)] = [container |-> "created", port |-> port[w], volume |-> TRUE]]
    BY <1>8 DEF CreateContainer, Goto, store, ghosts
  <2>2. Here(w)' = Here(w) /\ Here(w) \in Workspaces /\ pc'[w] = "start_check"
    BY <2>1, HeldTask DEF Here, Core, TypeOK
  <2>3. ContainerKnown(w)' /\ MarkKnown(w)'
    BY <2>1, <2>2 DEF ContainerKnown, MarkKnown, Core, TypeOK
  <2>4. \A ws \in Workspaces \ {Here(w)} : Same(ws)
    BY <2>1 DEF Same, Core, TypeOK
  <2>5. Type(w) = "provision_workspace" /\ (Here(w) \notin disturbed => state[Here(w)] # "running")
    <3>1. Type(w) = "provision_workspace"
      BY <2>1 DEF Core, StepsMatch, ProvisionSteps
    <3> QED BY <2>1, <2>2, <3>1 DEF RealInv, RealAt, OneWorker, Acting
  <2>6. ASSUME NEW ws \in Workspaces \ disturbed' PROVE RealAt(ws)'
    <3>1. CASE ws = Here(w)
      BY <2>1, <2>5, <2>6, <3>1 DEF RealAt
    <3>2. CASE ws # Here(w)
      BY <2>1, <2>4, <2>6, <3>2, OthersReal DEF Same
    <3> QED BY <3>1, <3>2
  <2> QED BY <2>3, <2>6 DEF RealInv, OneWorker
<1>9. CASE StartContainer(w)
  <2>1. /\ UNCHANGED <<state, row, task, held, port, disturbed>> /\ pc[w] = "start_container"
        /\ pc' = [pc EXCEPT ![w] = "record"]
        /\ box' = [box EXCEPT ![Here(w)].container = "running"]
    BY <1>9 DEF StartContainer, Goto, store, ghosts
  <2>2. Here(w)' = Here(w) /\ Here(w) \in Workspaces /\ pc'[w] = "record"
    BY <2>1, HeldTask DEF Here, Core, TypeOK
  <2>3. box'[Here(w)].container = "running" /\ box'[Here(w)].port = box[Here(w)].port
    BY <2>1, <2>2 DEF Core, TypeOK
  <2>4. ContainerKnown(w)' /\ MarkKnown(w)'
    BY <2>1, <2>2, <2>3 DEF RealInv, ContainerKnown, MarkKnown
  <2>5. \A ws \in Workspaces \ {Here(w)} : Same(ws)
    BY <2>1 DEF Same, Core, TypeOK
  <2>6. ASSUME NEW ws \in Workspaces \ disturbed' PROVE RealAt(ws)'
    <3>1. Type(w) = "provision_workspace"
      BY <2>1 DEF Core, StepsMatch, ProvisionSteps
    <3>2. CASE ws = Here(w)
      <4>1. state[ws] = "running" => box[ws].port = row[ws].sshPort
        BY <2>1, <2>6, <3>1, <3>2 DEF RealInv, RealAt, OneWorker, Acting
      <4> QED BY <2>1, <2>3, <3>2, <4>1 DEF RealAt
    <3>3. CASE ws # Here(w)
      BY <2>1, <2>5, <2>6, <3>3, OthersReal DEF Same
    <3> QED BY <3>2, <3>3
  <2> QED BY <2>4, <2>6 DEF RealInv, OneWorker
<1>10. CASE RecordProvisioned(w)
  <2>1. /\ UNCHANGED <<task, held, port, box, disturbed>> /\ pc[w] = "record"
        /\ pc' = [pc EXCEPT ![w] = "set_done"] /\ state' = [state EXCEPT ![Here(w)] = "running"]
        /\ row' = [row EXCEPT ![Here(w)] = [@ EXCEPT !.recorded = TRUE, !.sshPort = port[w]]]
    BY <1>10 DEF RecordProvisioned, SetState, Goto, ghosts
  <2>2. /\ Here(w)' = Here(w) /\ Here(w) \in Workspaces /\ pc'[w] = "set_done"
        /\ Type(w) = "provision_workspace" /\ Type(w)' = Type(w)
    BY <2>1, HeldTask DEF Here, Type, Core, TypeOK, StepsMatch, ProvisionSteps
  <2>3. ContainerKnown(w)' /\ MarkKnown(w)'
    BY <2>2 DEF ContainerKnown, MarkKnown
  <2>4. \A ws \in Workspaces \ {Here(w)} : Same(ws)
    BY <2>1 DEF Same, Core, TypeOK
  <2>5. row'[Here(w)].sshPort = port[w]
    BY <2>1, <2>2 DEF Core, TypeOK, Rows
  <2>6. box[Here(w)].container = "running" /\ box[Here(w)].port = port[w]
    BY <2>1 DEF RealInv, ContainerKnown
  <2>7. ASSUME NEW ws \in Workspaces \ disturbed' PROVE RealAt(ws)'
    <3>1. CASE ws = Here(w)
      BY <2>1, <2>5, <2>6, <3>1 DEF RealAt
    <3>2. CASE ws # Here(w)
      BY <2>1, <2>4, <2>7, <3>2, OthersReal DEF Same
    <3> QED BY <3>1, <3>2
  <2> QED BY <2>3, <2>7 DEF RealInv, OneWorker
<1>11. CASE RemoveContainer(w) \/ RemoveVolume(w)
  <2>1. /\ UNCHANGED <<state, row, task, held, disturbed>> /\ pc[w] \in {"remove_container", "remove_volume"}
    BY <1>11 DEF RemoveContainer, RemoveVolume, Goto, store, ghosts
  <2>2. PICK step \in {"remove_volume", "delete_release"} : pc' = [pc EXCEPT ![w] = step]
    BY <1>11 DEF RemoveContainer, RemoveVolume, Goto
  <2>3. ContainerKnown(w)' /\ MarkKnown(w)'
    BY <2>2 DEF ContainerKnown, MarkKnown, Core, TypeOK
  <2>4. \A ws \in Workspaces \ {Here(w)} : box'[ws] = box[ws]
    BY <1>11 DEF RemoveContainer, RemoveVolume, Core, TypeOK
  <2>5. \A ws \in Workspaces \ {Here(w)} : Same(ws)
    BY <2>1, <2>4 DEF Same
  <2>6. Type(w) = "delete_workspace"
    BY <2>1 DEF Core, StepsMatch, DeleteSteps
  <2> QED BY <1>1, <2>1, <2>2, <2>3, <2>5, <2>6
<1>12. CASE MarkDeleted(w)
  <2>1. /\ UNCHANGED <<row, task, held, box, disturbed>> /\ pc[w] = "mark_deleted"
        /\ pc' = [pc EXCEPT ![w] = "set_done"] /\ state' = [state EXCEPT ![Here(w)] = "deleted"]
    BY <1>12 DEF MarkDeleted, SetState, Goto, ghosts
  <2>2. Here(w)' = Here(w) /\ Here(w) \in Workspaces /\ pc'[w] = "set_done"
    BY <2>1, HeldTask DEF Here, Core, TypeOK
  <2>3. ContainerKnown(w)' /\ MarkKnown(w)'
    BY <2>1, <2>2 DEF ContainerKnown, MarkKnown, Core, TypeOK
  <2>4. \A ws \in Workspaces : Same(ws)
    BY <2>1 DEF Same, Core, TypeOK
  <2> QED BY <1>1, <2>1, <2>2, <2>3, <2>4
<1>13. CASE SetDone(w)
  <2>1. pc[w] = "set_done" /\ UNCHANGED <<state, row, task, box, disturbed>>
    BY <1>13 DEF SetDone, ghosts
  <2>2. CASE Goto(w, "follow_up")
    <3>1. ContainerKnown(w)' /\ MarkKnown(w)'
      BY <2>2 DEF Goto, ContainerKnown, MarkKnown, Core, TypeOK
    <3>2. \A ws \in Workspaces : Same(ws)
      BY <2>1 DEF Same
    <3> QED BY <1>1, <2>1, <2>2, <3>1, <3>2, HeldTask DEF Goto
  <2>3. CASE GoIdle(w)
    BY <1>2, <2>1, <2>3 DEF RealInv, MarkKnown
  <2> QED BY <1>13, <2>2, <2>3 DEF SetDone
<1>14. CASE FailWorkspace(w)
  <2>1. /\ pc[w] = "fail_state" /\ GoIdle(w) /\ UNCHANGED <<row, box, disturbed>>
        /\ \E s \in {"pending", "failed"} : state' = [state EXCEPT ![Here(w)] = s]
    BY <1>14 DEF FailWorkspace, SetState, ghosts
  <2>2. state'[Here(w)] # "running" /\ \A ws \in Workspaces \ {Here(w)} : state'[ws] = state[ws]
    BY <2>1, HeldTask DEF Core, TypeOK
  <2> QED BY <1>2, <2>1, <2>2
<1>15. CASE EnqueueFollowUp(w) \/ Crash(w) \/ LoadFails(w) \/ StatementFails(w)
  <2>1. /\ GoIdle(w) /\ UNCHANGED <<state, row, box>> /\ disturbed \subseteq disturbed'
        /\ Here(w) \in disturbed' \/ pc[w] = "follow_up"
    BY <1>15 DEF EnqueueFollowUp, Crash, LoadFails, StatementFails, Disturb, store, ghosts
  <2>2. pc[w] = "follow_up" => Type(w) # "delete_workspace"
    BY DEF Core, StepsMatch, BuildSteps
  <2> QED BY <1>2, <2>1, <2>2
<1>16. CASE AllocateOrSecretFails(w) \/ ErrorIgnored(w)
  <2>1. /\ UNCHANGED <<state, row, task, box>> /\ disturbed' = disturbed \cup {Here(w)} /\ pc[w] # "idle"
    BY <1>16 DEF AllocateOrSecretFails, ErrorIgnored, AfterIgnored, Disturb, store
  <2>2. CASE GoIdle(w)
    BY <1>2, <2>1, <2>2
  <2>3. CASE ~GoIdle(w)
    <3>1. UNCHANGED <<held, port>>
      BY <1>16, <2>3 DEF AllocateOrSecretFails, ErrorIgnored, Goto, Fail
    <3>2. PICK step : /\ step \notin {"idle", "start_check", "record", "set_done"}
                      /\ pc' = [pc EXCEPT ![w] = step]
                      /\ step = "start_container" => pc[w] = "start_check"
      BY <1>16, <2>3 DEF AllocateOrSecretFails, ErrorIgnored, AfterIgnored, Goto, Fail
    <3>3. pc'[w] = step /\ Here(w)' = Here(w)
      BY <2>1, <3>1, <3>2 DEF Core, TypeOK, Here
    <3>4. ContainerKnown(w)' /\ MarkKnown(w)'
      BY <2>1, <3>1, <3>2, <3>3 DEF RealInv, ContainerKnown, MarkKnown
    <3>5. \A ws \in Workspaces : Same(ws)
      BY <2>1 DEF Same
    <3> QED BY <1>1, <2>1, <3>1, <3>2, <3>4, <3>5, HeldTask
  <2> QED BY <2>2, <2>3
<1> QED BY <1>3, <1>4, <1>5, <1>6, <1>7, <1>8, <1>9, <1>10, <1>11, <1>12, <1>13, <1>14, <1>15, <1>16
        DEF Work, WorkerFault

\* What a handler leaves of the tables: only a new row, or the state of a workspace to be deleted.
HandlersKeep == /\ UNCHANGED <<lease, box>> /\ UNCHANGED worker /\ KeepsTasks
                /\ \A ws \in Workspaces : state'[ws] = state[ws] \/ state'[ws] \in {"pending", "deleting"}
                /\ \A ws \in Workspaces : state[ws] # "absent" => row'[ws] = row[ws]

(* Every handler keeps the rest of the tables. *)
LEMMA HandlersKept == ASSUME LifecycleAssumption, Core, Handlers PROVE HandlersKeep
<1>1. UNCHANGED <<lease, box>> /\ UNCHANGED worker /\ disturbed \subseteq disturbed'
  BY DEF Handlers, CreateWorkspace, QueueDeleteJob, SetDeleting, RequestCancel, ResumeJob, DeleteJob, ghosts
<1>2. KeepsTasks
  BY <1>1, HandlersSpare DEF KeepsTasks, Spared
<1>3. \/ UNCHANGED <<state, row>>
      \/ \E ws \in Workspaces : row' = row /\ state' = [state EXCEPT ![ws] = "deleting"]
      \/ \E ws \in Workspaces : /\ state[ws] = "absent" /\ state' = [state EXCEPT ![ws] = "pending"]
                                /\ \E r : row' = [row EXCEPT ![ws] = r]
  BY DEF Handlers, CreateWorkspace, QueueDeleteJob, SetDeleting, RequestCancel, ResumeJob, DeleteJob
<1>4. /\ \A ws \in Workspaces : state'[ws] = state[ws] \/ state'[ws] \in {"pending", "deleting"}
      /\ \A ws \in Workspaces : state[ws] # "absent" => row'[ws] = row[ws]
  BY <1>3 DEF Core, TypeOK
<1> QED BY <1>1, <1>2, <1>4 DEF HandlersKeep

(* Handlers write no "running" and leave the containers alone. *)
LEMMA HandlersReal == ASSUME LifecycleAssumption, Core, RealInv, Handlers PROVE RealInv'
<1>1. HandlersKeep
  BY HandlersKept
<1>2. \A v \in Workers : pc[v] # "idle" => Here(v)' = Here(v) /\ Type(v)' = Type(v) /\ Here(v) \in Workspaces
  BY <1>1, HeldTask DEF HandlersKeep, KeepsTasks, worker, Here, Type, Core, HeldKnown
<1>3. ASSUME NEW ws \in Workspaces \ disturbed' PROVE RealAt(ws)'
  <2>1. CASE state'[ws] = "running"
    <3>1. state[ws] = "running" /\ row'[ws] = row[ws] /\ ws \notin disturbed
      BY <1>1, <2>1, <1>3 DEF HandlersKeep, KeepsTasks
    <3>2. \A v \in Workers : Acting(v, ws) /\ Type(v) = "delete_workspace"
                             => (Acting(v, ws) /\ Type(v) = "delete_workspace")'
      BY <1>1, <1>2 DEF HandlersKeep, worker, Acting
    <3> QED BY <1>1, <3>1, <3>2 DEF RealInv, RealAt, HandlersKeep
  <2> QED BY <2>1 DEF RealAt
<1>4. ASSUME NEW v \in Workers PROVE ContainerKnown(v)' /\ MarkKnown(v)'
  <2>1. pc[v] # "idle" => (state'[Here(v)] = "running" => state[Here(v)] = "running")
    BY <1>1, <1>2 DEF HandlersKeep
  <2> QED BY <1>1, <1>2, <2>1 DEF RealInv, ContainerKnown, MarkKnown, HandlersKeep, worker
<1> QED BY <1>3, <1>4 DEF RealInv

(* With one worker, a workspace shown as running has its container, running, on *)
(* the port its row names, unless a job that deletes it is at work.             *)
THEOREM RunningReal == ASSUME OneWorker PROVE Spec => []RunningIsReal
<1>1. Init => RealInv
  BY DEF Init, RealInv, RealAt, ContainerKnown, MarkKnown
<1>2. ASSUME LifecycleAssumption, Core, RealInv, [Next]_vars PROVE RealInv'
  <2>1. CASE \E w \in Workers : Work(w) \/ WorkerFault(w)
    BY <1>2, <2>1, WorkReal
  <2>2. CASE Handlers
    BY <1>2, <2>2, HandlersReal
  <2>3. CASE (\E ws \in Workspaces : DropDelete(ws)) \/ UNCHANGED vars
    <3>1. UNCHANGED <<state, row, box, task, pc, held, port>> /\ disturbed \subseteq disturbed'
      BY <2>3 DEF DropDelete, Disturb, vars, store, worker, ghosts
    <3> QED BY <1>2, <3>1 DEF RealInv, RealAt, ContainerKnown, MarkKnown, Acting, Here, Type
  <2> QED BY <1>2, <2>1, <2>2, <2>3 DEF Next
<1>3. RealInv => RunningIsReal
  BY DEF RealInv, RealAt, RunningIsReal
<1> QED BY <1>1, <1>2, <1>3, LifecycleAssumption, CoreStarts, CoreInductive, PTL DEF Spec

-----------------------------------------------------------------------------
(* One worker: the port of a running container is leased to its workspace *)

\* A job keeps its task, and is queued once.
JobsStay == \A j \in Jobs : status[j] # "absent" =>
              task'[j] = task[j] /\ (status[j] # "queued" => status'[j] \notin {"absent", "queued"})

\* The steps of a provisioning after its docker create.
Late == {"start_check", "start_container", "record", "set_done", "release", "fail", "fail_state"}

\* A worker keeps its job or takes a queued one, and does not provision twice.
HandsKeep == \A v \in Workers : held'[v] # NoJob =>
               \/ /\ held'[v] = held[v]
                  /\ pc[v] \in Late /\ Type(v) = "provision_workspace" => pc'[v] \in Late
               \/ status[held'[v]] = "queued"

\* Some job has created the container, and will not do it again.
MadeBy(ws) == \E j \in Jobs : /\ status[j] \notin {"absent", "queued"}
                              /\ task[j] = [ws |-> ws, type |-> "provision_workspace"]
                              /\ \A w \in Workers : held[w] = j => pc[w] \in Late

(* Inserting a row disturbs no other. *)
LEMMA InsertStays == ASSUME Core, NEW ws \in Workspaces, NEW type \in JobTypes, InsertJob(ws, type)
                     PROVE JobsStay
<1>1. PICK i \in Jobs : /\ status[i] = "absent" /\ status' = [status EXCEPT ![i] = "queued"]
                        /\ \E t : task' = [task EXCEPT ![i] = t]
  BY DEF InsertJob
<1> QED BY <1>1 DEF JobsStay, Core, TypeOK

(* Nor does ending or leasing one. *)
LEMMA StatusStays == ASSUME Core, NEW i \in Jobs, NEW s, s \notin {"absent", "queued"},
                            status' = [status EXCEPT ![i] = s], task' = task
                     PROVE JobsStay
  BY DEF JobsStay, Core, TypeOK

(* No worker takes a job back to the queue, or changes what it is for. *)
LEMMA WorkStays == ASSUME Core, NEW w \in Workers, Work(w) \/ WorkerFault(w) PROVE JobsStay
<1>1. CASE LeaseNextJob(w)
  <2>1. PICK j \in Jobs : status' = [status EXCEPT ![j] = "running"] /\ task' = task
    BY <1>1 DEF LeaseNextJob
  <2> QED BY <2>1, StatusStays
<1>2. CASE SetDone(w) \/ FailJob(w) \/ LoadFails(w)
  <2>1. held[w] \in Jobs /\ (pc[w] = "fail" => outcome[w] \notin {"absent", "queued"})
    BY <1>2, HeldTask DEF SetDone, FailJob, LoadFails, Core, StepsMatch, FailSteps
  <2> QED BY <1>2, <2>1, StatusStays DEF SetDone, FailJob, LoadFails, SetStatus
<1>3. CASE EnqueueFollowUp(w)
  <2>1. Here(w) \in Workspaces /\ "provision_workspace" \in JobTypes
    BY <1>3, HeldTask DEF EnqueueFollowUp, JobTypes
  <2> QED BY <1>3, <2>1, InsertStays DEF EnqueueFollowUp
<1>4. CASE ~LeaseNextJob(w) /\ ~SetDone(w) /\ ~FailJob(w) /\ ~LoadFails(w) /\ ~EnqueueFollowUp(w)
  <2>1. UNCHANGED <<status, task>>
    BY <1>4 DEF Work, WorkerFault, LoadWorkspace, StartJob, FailWorkspace, MarkDeleted, SetImage, RecordProvisioned,
       ReleaseAfterError, ReleaseDeleted, BuildCheck, BuildImage, AllocatePort, AllocateFails, ProvisionCheck,
       RequireImage, CommandFails, CreateVolume, CreateContainer, StartCheck, StartContainer,
       DeleteCheck, RemoveContainer, RemoveVolume, Check, Crash, StatementFails,
       AllocateOrSecretFails, ErrorIgnored, store
  <2> QED BY <2>1 DEF JobsStay
<1> QED BY <1>1, <1>2, <1>3, <1>4

(* Nor does a handler. *)
LEMMA HandlersStay == ASSUME LifecycleAssumption, Core, Handlers PROVE JobsStay
<1>1. ASSUME NEW ws \in Workspaces, NEW input \in Inputs, CreateWorkspace(ws, input) PROVE JobsStay
  BY <1>1, InsertStays DEF CreateWorkspace, FirstJob, JobTypes
<1>2. ASSUME NEW ws \in Workspaces, QueueDeleteJob(ws) PROVE JobsStay
  BY <1>2, InsertStays DEF QueueDeleteJob, JobTypes
<1>3. ASSUME NEW ws \in Workspaces, SetDeleting(ws) PROVE JobsStay
  BY <1>3 DEF SetDeleting, JobsStay
<1>4. ASSUME NEW j \in Jobs, RequestCancel(j) PROVE JobsStay
  BY <1>4 DEF RequestCancel, JobsStay
<1>5. ASSUME NEW j \in Jobs, ResumeJob(j) PROVE JobsStay
  <2>1. task[j].ws \in Workspaces /\ task[j].type \in JobTypes
    BY <1>5 DEF ResumeJob, Finished, Core, JobsKnown, Tasks
  <2> QED BY <1>5, <2>1, InsertStays DEF ResumeJob
<1>6. ASSUME NEW j \in Jobs, DeleteJob(j) PROVE JobsStay
  BY <1>6, StatusStays DEF DeleteJob
<1> QED BY <1>1, <1>2, <1>3, <1>4, <1>5, <1>6 DEF Handlers

(* No step of a worker leads from after docker create to before it. *)
LEMMA WorkHands == ASSUME Core, NEW w \in Workers, Work(w) \/ WorkerFault(w) PROVE HandsKeep
<1>1. ASSUME NEW v \in Workers \ {w} PROVE held'[v] = held[v] /\ pc'[v] = pc[v]
  BY DEF Work, WorkerFault, LoadWorkspace, StartJob, FailWorkspace, MarkDeleted, SetImage, RecordProvisioned,
       ReleaseAfterError, ReleaseDeleted, BuildCheck, BuildImage, AllocatePort, AllocateFails, ProvisionCheck,
       RequireImage, CommandFails, CreateVolume, CreateContainer, StartCheck, StartContainer,
       DeleteCheck, RemoveContainer, RemoveVolume, Check, Crash, StatementFails,
       AllocateOrSecretFails, ErrorIgnored, LeaseNextJob, SetDone, FailJob, LoadFails, EnqueueFollowUp,
       Goto, Fail, GoIdle, Core, TypeOK
<1>2. held'[w] # NoJob => \/ /\ held'[w] = held[w]
                             /\ pc[w] \in Late /\ Type(w) = "provision_workspace" => pc'[w] \in Late
                          \/ status[held'[w]] = "queued"
  <2>1. CASE LeaseNextJob(w)
    BY <2>1 DEF LeaseNextJob, Core, TypeOK
  <2>2. CASE ~LeaseNextJob(w)
    <3>1. held' = held \/ GoIdle(w)
      BY <2>2 DEF Work, WorkerFault, LoadWorkspace, StartJob, FailWorkspace, MarkDeleted, SetImage, RecordProvisioned,
         ReleaseAfterError, ReleaseDeleted, BuildCheck, BuildImage, AllocatePort, AllocateFails, ProvisionCheck,
         RequireImage, CommandFails, CreateVolume, CreateContainer, StartCheck, StartContainer,
         DeleteCheck, RemoveContainer, RemoveVolume, Check, Crash, StatementFails,
         AllocateOrSecretFails, ErrorIgnored, SetDone, FailJob, LoadFails, EnqueueFollowUp, Goto, Fail
    <3>2. CASE pc[w] \in Late /\ Type(w) = "provision_workspace" /\ ~GoIdle(w)
      <4>1. \E step \in Late : pc' = [pc EXCEPT ![w] = step]
        BY <2>2, <3>2 DEF Late, Work, WorkerFault, LoadWorkspace, StartJob, FailWorkspace, MarkDeleted, SetImage,
           RecordProvisioned,
           ReleaseAfterError, ReleaseDeleted, BuildCheck, BuildImage, AllocatePort, AllocateFails, ProvisionCheck,
           RequireImage, CommandFails, CreateVolume, CreateContainer, StartCheck, StartContainer,
           DeleteCheck, RemoveContainer, RemoveVolume, Check, Crash, StatementFails, AfterIgnored,
           AllocateOrSecretFails, ErrorIgnored, SetDone, FailJob, LoadFails, EnqueueFollowUp, Goto, Fail
      <4> QED BY <3>1, <3>2, <4>1 DEF Core, TypeOK
    <3>3. CASE GoIdle(w)
      BY <3>3 DEF GoIdle, Core, TypeOK
    <3> QED BY <3>1, <3>2, <3>3
  <2> QED BY <2>1, <2>2
<1> QED BY <1>1, <1>2 DEF HandsKeep

(* What was made by a job stays made by it. *)
LEMMA MadeStays == ASSUME Core, JobsStay, HandsKeep, NEW ws \in Workspaces, MadeBy(ws) PROVE MadeBy(ws)'
<1>1. PICK j \in Jobs : /\ status[j] \notin {"absent", "queued"}
                        /\ task[j] = [ws |-> ws, type |-> "provision_workspace"]
                        /\ \A v \in Workers : held[v] = j => pc[v] \in Late
  BY DEF MadeBy
<1>2. status'[j] \notin {"absent", "queued"} /\ task'[j] = task[j]
  BY <1>1 DEF JobsStay
<1>3. ASSUME NEW v \in Workers, held'[v] = j PROVE pc'[v] \in Late
  BY <1>1, <1>3 DEF HandsKeep, Type, NoJob, Jobs
<1> QED BY <1>1, <1>2, <1>3 DEF MadeBy

(* A resumed job stays resumed. *)
LEMMA ResumedStays == ASSUME LifecycleAssumption, Core, JobsStay, NEW ws \in Workspaces, Resumed(ws)
                      PROVE Resumed(ws)'
<1>1. PICK j, k \in Jobs : j # k /\ task[j] = task[k] /\ task[j].ws = ws /\ task[j].type # "delete_workspace"
  BY DEF Resumed
<1>2. status[j] # "absent" /\ status[k] # "absent"
  BY <1>1 DEF Core, JobsKnown, NoTask, LifecycleAssumption
<1> QED BY <1>1, <1>2 DEF JobsStay, Resumed

(* A provisioning that meets a container of its workspace before docker create  *)
(* is not the one that has created it.                                          *)
LEMMA SecondProvision ==
  ASSUME Core, NEW w \in Workers, pc[w] \in {"allocate", "provision_check", "image", "volume", "create"},
         MadeBy(Here(w))
  PROVE  Resumed(Here(w))
<1>1. held[w] \in Jobs /\ task[held[w]] = [ws |-> Here(w), type |-> "provision_workspace"]
  BY HeldTask DEF Core, StepsMatch, ProvisionSteps, Tasks, Here, Type
<1>2. PICK j \in Jobs : /\ task[j] = [ws |-> Here(w), type |-> "provision_workspace"]
                        /\ \A v \in Workers : held[v] = j => pc[v] \in Late
  BY DEF MadeBy
<1>3. j # held[w]
  BY <1>2 DEF Late
<1> QED BY <1>1, <1>2, <1>3 DEF Resumed

\* A container has a creator and a port; a running one is in its row and in the table.
LeaseAt(ws) ==
  /\ box[ws].container # "none" => MadeBy(ws) /\ box[ws].port \in Ports
  /\ ws \notin disturbed /\ box[ws].container = "running" =>
       /\ row[ws].recorded \/ \E w \in Workers : Acting(w, ws) /\ pc[w] = "record"
       /\ lease[box[ws].port] = ws \/ Resumed(ws)

\* A provisioning holds its port until it is recorded, or given back.
PortHeld(w) == pc[w] \in {"provision_check", "image", "volume", "create", "start_check", "start_container", "record"}
                 => port[w] \in Ports /\ lease[port[w]] = Here(w)

\* What it gives back is no running container's port, unless of an earlier attempt.
ReleaseKnown(w) ==
  /\ pc[w] \in {"start_check", "start_container"} => box[Here(w)].container = "created"
  /\ pc[w] = "release" /\ Here(w) \notin disturbed =>
       box[Here(w)].container # "running" \/ Resumed(Here(w))

\* A deletion knows a running container from the row, and removes it first.
RemovalKnown(w) == Here(w) \notin disturbed =>
  /\ pc[w] \in {"delete_check", "remove_container"} /\ box[Here(w)].container = "running" => seen[w].recorded
  /\ pc[w] \in {"remove_volume", "delete_release", "mark_deleted"} => box[Here(w)].container # "running"

LeaseInv == /\ \A ws \in Workspaces : LeaseAt(ws)
            /\ \A w \in Workers : PortHeld(w) /\ ReleaseKnown(w) /\ RemovalKnown(w)

(* A workspace whose container and port a step leaves alone. *)
LEMMA OthersLease ==
  ASSUME OneWorker, LifecycleAssumption, Core, LeaseInv, JobsStay, HandsKeep,
         NEW w \in Workers, NEW ws \in Workspaces, disturbed \subseteq disturbed',
         box'[ws].container = box[ws].container, box'[ws].port = box[ws].port,
         row[ws].recorded => row'[ws].recorded,
         pc[w] = "record" /\ Here(w) = ws => ws \in disturbed' \/ row'[ws].recorded,
         ws \notin disturbed' /\ box[ws].container = "running" /\ lease[box[ws].port] = ws
           => lease'[box[ws].port] = ws \/ Resumed(ws)
  PROVE  LeaseAt(ws)'
<1>1. box'[ws].container # "none" => MadeBy(ws)' /\ box'[ws].port \in Ports
  BY MadeStays DEF LeaseInv, LeaseAt
<1>2. ASSUME ws \notin disturbed', box[ws].container = "running"
      PROVE  /\ row'[ws].recorded
             /\ lease'[box[ws].port] = ws \/ Resumed(ws)'
  <2>1. row[ws].recorded \/ (Here(w) = ws /\ pc[w] = "record")
    BY <1>2 DEF LeaseInv, LeaseAt, OneWorker, Acting
  <2>2. lease[box[ws].port] = ws \/ Resumed(ws)
    BY <1>2 DEF LeaseInv, LeaseAt
  <2> QED BY <1>2, <2>1, <2>2, ResumedStays
<1> QED BY <1>1, <1>2 DEF LeaseAt

(* A worker moves on: what it knows of its job at its next step. *)
LEMMA WorkLeases ==
  ASSUME OneWorker, LifecycleAssumption, Core, RealInv, LeaseInv, NEW w \in Workers, Work(w) \/ WorkerFault(w)
  PROVE LeaseInv'
<1>0. JobsStay /\ HandsKeep
  BY WorkStays, WorkHands
<1> DEFINE Same(ws) == /\ box'[ws].container = box[ws].container /\ box'[ws].port = box[ws].port
                       /\ row[ws].recorded => row'[ws].recorded
           Known == PortHeld(w)' /\ ReleaseKnown(w)' /\ RemovalKnown(w)'
<1>1. ASSUME lease' = lease, disturbed \subseteq disturbed', \A ws \in Workspaces : Same(ws),
             pc[w] = "record" => Here(w) \in disturbed' \/ row'[Here(w)].recorded, Known
      PROVE  LeaseInv'
  BY <1>0, <1>1, OthersLease DEF OneWorker, LeaseInv
<1>2. ASSUME GoIdle(w), UNCHANGED <<lease, row, box>>, disturbed \subseteq disturbed',
             pc[w] = "record" => Here(w) \in disturbed'
      PROVE  LeaseInv'
  <2>1. Known
    BY <1>2, MoveIdle DEF PortHeld, ReleaseKnown, RemovalKnown, Core
  <2> QED BY <1>1, <1>2, <2>1
<1>3. ASSUME UNCHANGED <<lease, row, box, task, held, port>>, disturbed \subseteq disturbed',
             pc[w] \notin {"idle", "record"}, NEW step, pc' = [pc EXCEPT ![w] = step],
             Here(w) \in disturbed' \/ step \notin {"delete_check", "remove_container", "remove_volume", "delete_release", "mark_deleted"}
             \/ (seen' = seen /\ pc[w] = "delete_check" /\ step = "remove_container")
             \/ (pc[w] = "load" /\ seen' = [seen EXCEPT ![w] = row[Here(w)]] /\ step = "delete_check"),
             step \in {"provision_check", "create", "start_check", "record"} => FALSE,
             step = "image" => pc[w] = "provision_check",
             step = "volume" => pc[w] = "image",
             step = "start_container" => pc[w] = "start_check",
             step = "release" => pc[w] \in {"provision_check", "image", "volume", "create", "start_check", "start_container"}
      PROVE  LeaseInv'
  <2>1. pc'[w] = step /\ Here(w)' = Here(w) /\ Here(w) \in Workspaces
    BY <1>3, HeldTask DEF Core, TypeOK, Here
  <2>2. PortHeld(w)'
    BY <1>3, <2>1 DEF PortHeld, LeaseInv
  <2>3. ReleaseKnown(w)'
    <3>1. CASE step = "release" /\ Here(w) \notin disturbed' /\ box[Here(w)].container = "running"
      <4>1. pc[w] \notin {"start_check", "start_container"}
        BY <3>1 DEF LeaseInv, ReleaseKnown
      <4>2. MadeBy(Here(w))
        BY <2>1, <3>1 DEF LeaseInv, LeaseAt
      <4>3. Resumed(Here(w))
        BY <1>3, <3>1, <4>1, <4>2, SecondProvision
      <4> QED BY <1>0, <2>1, <3>1, <4>3, ResumedStays DEF ReleaseKnown
    <3>2. CASE ~(step = "release" /\ Here(w) \notin disturbed' /\ box[Here(w)].container = "running")
      BY <1>3, <2>1, <3>2 DEF ReleaseKnown, LeaseInv
    <3> QED BY <3>1, <3>2
  <2>4. RemovalKnown(w)'
    <3>1. CASE pc[w] = "load" /\ seen' = [seen EXCEPT ![w] = row[Here(w)]] /\ step = "delete_check"
      <4>1. seen'[w] = row[Here(w)]
        BY <3>1 DEF Core, TypeOK
      <4>2. Here(w) \notin disturbed /\ box[Here(w)].container = "running" => row[Here(w)].recorded
        BY <2>1, <3>1 DEF LeaseInv, LeaseAt, OneWorker, Acting
      <4> QED BY <1>3, <2>1, <3>1, <4>1, <4>2 DEF RemovalKnown
    <3>2. CASE ~(pc[w] = "load" /\ seen' = [seen EXCEPT ![w] = row[Here(w)]] /\ step = "delete_check")
      BY <1>3, <2>1, <3>2 DEF RemovalKnown, LeaseInv
    <3> QED BY <3>1, <3>2
  <2> QED BY <1>1, <1>3, <2>2, <2>3, <2>4
<1> HIDE DEF Same, Known
<1>4. CASE LeaseNextJob(w)
  <2>1. /\ pc[w] = "idle" /\ UNCHANGED <<row, box, lease, disturbed>> /\ pc' = [pc EXCEPT ![w] = "load"]
    BY <1>4 DEF LeaseNextJob, ghosts
  <2>2. pc'[w] = "load"
    BY <2>1 DEF Core, TypeOK
  <2>3. Known
    BY <2>2 DEF Known, PortHeld, ReleaseKnown, RemovalKnown
  <2>4. \A ws \in Workspaces : Same(ws)
    BY <2>1 DEF Same
  <2> QED BY <1>1, <2>1, <2>3, <2>4
<1>5. CASE LoadWorkspace(w)
  <2>1. UNCHANGED <<lease, row, box, task, held, port, disturbed>> /\ pc[w] = "load"
        /\ seen' = [seen EXCEPT ![w] = row[Here(w)]]
    BY <1>5 DEF LoadWorkspace, store, ghosts
  <2>2. PICK step \in {"delete_check", "start"} : pc' = [pc EXCEPT ![w] = step]
    BY <1>5 DEF LoadWorkspace
  <2> QED BY <1>3, <2>1, <2>2
<1>6. CASE StartJob(w) \/ BuildImage(w) \/ AllocateFails(w) \/ FailJob(w) \/ MarkDeleted(w)
  <2>1. UNCHANGED <<lease, row, box, task, held, port, disturbed>> /\ pc[w] \notin {"idle", "record"}
    BY <1>6 DEF StartJob, BuildImage, AllocateFails, FailJob, MarkDeleted, Goto, Fail, store, ghosts
  <2>2. PICK step \in {"build_check", "allocate", "set_image", "fail", "fail_state", "set_done"} :
           pc' = [pc EXCEPT ![w] = step]
    BY <1>6 DEF StartJob, BuildImage, AllocateFails, FailJob, MarkDeleted, Goto, Fail
  <2> QED BY <1>3, <2>1, <2>2
<1>18. CASE RequireImage(w)
  <2>1. UNCHANGED <<lease, row, box, task, held, port, disturbed>> /\ pc[w] = "image"
    BY <1>18 DEF RequireImage, Goto, Fail, store, ghosts
  <2>2. PICK step \in {"volume", "release"} : pc' = [pc EXCEPT ![w] = step]
    BY <1>18 DEF RequireImage, Goto, Fail
  <2> QED BY <1>3, <2>1, <2>2
<1>19. CASE CommandFails(w)
  <2>1. /\ UNCHANGED <<lease, row, box, task, held, port, disturbed>> /\ pc[w] \in {"volume", "create", "start_container"}
        /\ pc' = [pc EXCEPT ![w] = "release"]
    BY <1>19 DEF CommandFails, Fail, store, ghosts
  <2> QED BY <1>3, <2>1
<1>7. CASE BuildCheck(w) \/ ProvisionCheck(w) \/ StartCheck(w) \/ DeleteCheck(w)
  <2>1. ASSUME NEW at, NEW step, NEW onCancel, Check(w, at, step, onCancel)
        PROVE  /\ UNCHANGED <<lease, row, box, task, held, port, seen, disturbed>> /\ pc[w] = at
               /\ \E next \in {step, onCancel} : pc' = [pc EXCEPT ![w] = next]
    BY <2>1 DEF Check, Goto, Fail, store, ghosts
  <2>2. CASE BuildCheck(w)
    <3>1. PICK next \in {"build", "fail"} : pc' = [pc EXCEPT ![w] = next]
      BY <2>1, <2>2 DEF BuildCheck
    <3>2. UNCHANGED <<lease, row, box, task, held, port, seen, disturbed>> /\ pc[w] = "build_check"
      BY <2>1, <2>2 DEF BuildCheck
    <3> QED BY <1>3, <3>1, <3>2
  <2>3. CASE ProvisionCheck(w)
    <3>1. PICK next \in {"image", "release"} : pc' = [pc EXCEPT ![w] = next]
      BY <2>1, <2>3 DEF ProvisionCheck
    <3>2. UNCHANGED <<lease, row, box, task, held, port, seen, disturbed>> /\ pc[w] = "provision_check"
      BY <2>1, <2>3 DEF ProvisionCheck
    <3> QED BY <1>3, <3>1, <3>2
  <2>4. CASE StartCheck(w)
    <3>1. PICK next \in {"start_container", "release"} : pc' = [pc EXCEPT ![w] = next]
      BY <2>1, <2>4 DEF StartCheck
    <3>2. UNCHANGED <<lease, row, box, task, held, port, seen, disturbed>> /\ pc[w] = "start_check"
      BY <2>1, <2>4 DEF StartCheck
    <3> QED BY <1>3, <3>1, <3>2
  <2>5. CASE DeleteCheck(w)
    <3>1. PICK next \in {"remove_container", "fail"} : pc' = [pc EXCEPT ![w] = next]
      BY <2>1, <2>5 DEF DeleteCheck
    <3>2. UNCHANGED <<lease, row, box, task, held, port, seen, disturbed>> /\ pc[w] = "delete_check"
      BY <2>1, <2>5 DEF DeleteCheck
    <3> QED BY <1>3, <3>1, <3>2
  <2> QED BY <1>7, <2>2, <2>3, <2>4, <2>5
<1>8. CASE SetImage(w) \/ RecordProvisioned(w)
  <2>1. UNCHANGED <<lease, box, disturbed>> /\ pc' = [pc EXCEPT ![w] = "set_done"] /\ pc[w] # "idle"
    BY <1>8 DEF SetImage, RecordProvisioned, Goto, ghosts
  <2>2. pc'[w] = "set_done" /\ Here(w) \in Workspaces
    BY <2>1, HeldTask DEF Core, TypeOK
  <2>3. Known
    BY <2>2 DEF Known, PortHeld, ReleaseKnown, RemovalKnown
  <2>4. /\ \A ws \in Workspaces : row[ws].recorded => row'[ws].recorded
        /\ pc[w] = "record" => row'[Here(w)].recorded
    <3>1. CASE SetImage(w)
      BY <2>2, <3>1 DEF SetImage, Core, TypeOK, Rows
    <3>2. CASE RecordProvisioned(w)
      <4>1. row' = [row EXCEPT ![Here(w)] = [@ EXCEPT !.recorded = TRUE, !.sshPort = port[w]]]
        BY <3>2 DEF RecordProvisioned
      <4> QED BY <2>2, <4>1 DEF Core, TypeOK, Rows
    <3> QED BY <1>8, <3>1, <3>2
  <2>5. \A ws \in Workspaces : Same(ws)
    BY <2>1, <2>4 DEF Same
  <2> QED BY <1>1, <2>1, <2>3, <2>4, <2>5
<1>9. CASE SetDone(w) \/ EnqueueFollowUp(w) \/ FailWorkspace(w) \/ Crash(w) \/ LoadFails(w) \/ StatementFails(w)
  <2>1. /\ UNCHANGED <<lease, row, box>> /\ disturbed \subseteq disturbed'
        /\ pc[w] = "record" => Here(w) \in disturbed'
    BY <1>9 DEF SetDone, EnqueueFollowUp, FailWorkspace, Crash, LoadFails, StatementFails, Disturb, store, ghosts
  <2>2. CASE GoIdle(w)
    BY <1>2, <2>1, <2>2
  <2>3. CASE SetDone(w) /\ Goto(w, "follow_up")
    <3>1. UNCHANGED <<task, held, port>> /\ pc[w] = "set_done"
      BY <2>3 DEF SetDone, Goto
    <3> QED BY <1>3, <2>1, <2>3, <3>1 DEF Goto
  <2> QED BY <1>9, <2>2, <2>3 DEF SetDone, EnqueueFollowUp, FailWorkspace, Crash, LoadFails, StatementFails
<1>10. CASE AllocateOrSecretFails(w) \/ ErrorIgnored(w)
  <2>1. /\ UNCHANGED <<lease, row, box, task>> /\ disturbed' = disturbed \cup {Here(w)} /\ pc[w] \notin {"idle", "record"}
    BY <1>10 DEF AllocateOrSecretFails, ErrorIgnored, AfterIgnored, Disturb, store
  <2>2. CASE GoIdle(w)
    BY <1>2, <2>1, <2>2
  <2>3. CASE ~GoIdle(w)
    <3>1. UNCHANGED <<held, port>>
      BY <1>10, <2>3 DEF AllocateOrSecretFails, ErrorIgnored, Goto, Fail
    <3>2. PICK step : /\ step \notin {"provision_check", "create", "start_check", "record", "volume", "release"}
                      /\ pc' = [pc EXCEPT ![w] = step]
                      /\ step = "start_container" => pc[w] = "start_check"
                      /\ step = "image" => pc[w] = "provision_check"
      BY <1>10, <2>3 DEF AllocateOrSecretFails, ErrorIgnored, AfterIgnored, Goto, Fail
    <3> QED BY <1>3, <2>1, <3>1, <3>2
  <2> QED BY <2>2, <2>3
<1>11. CASE AllocatePort(w)
  <2>1. /\ UNCHANGED <<row, box, task, held, disturbed>> /\ pc' = [pc EXCEPT ![w] = "provision_check"]
        /\ pc[w] = "allocate"
    BY <1>11 DEF AllocatePort, ghosts
  <2>2. Here(w)' = Here(w) /\ Here(w) \in Workspaces /\ pc'[w] = "provision_check" /\ Here(w) # NoWorkspace
    BY <2>1, HeldTask DEF Here, Core, TypeOK, LifecycleAssumption
  <2>3. PICK p \in Ports : /\ port' = [port EXCEPT ![w] = p]
                           /\ \/ lease[p] = Here(w) /\ lease' = lease
                              \/ lease[p] = NoWorkspace /\ lease' = [lease EXCEPT ![p] = Here(w)]
    <3>1. FreeCandidates(seen[w].sshPort) \subseteq Ports /\ \A q \in FreeCandidates(seen[w].sshPort) : lease[q] = NoWorkspace
      BY DEF FreeCandidates, Candidates, Core, TypeOK, Rows
    <3> QED BY <1>11, <3>1 DEF AllocatePort, Leased
  <2>4. port'[w] = p /\ lease'[p] = Here(w)
    BY <2>3 DEF Core, TypeOK
  <2>5. Known
    BY <2>2, <2>4 DEF Known, PortHeld, ReleaseKnown, RemovalKnown
  <2>6. ASSUME NEW ws \in Workspaces PROVE LeaseAt(ws)'
    <3>1. box[ws].container = "running" /\ lease[box[ws].port] = ws => lease'[box[ws].port] = ws
      BY <2>3 DEF LeaseInv, LeaseAt, Core, TypeOK, LifecycleAssumption
    <3> QED BY <1>0, <2>1, <3>1, OthersLease
  <2> QED BY <2>5, <2>6 DEF Known, LeaseInv, OneWorker
<1>12. CASE ReleaseAfterError(w) \/ ReleaseDeleted(w)
  <2>1. /\ UNCHANGED <<row, box, task, held, disturbed>> /\ pc[w] \in {"release", "delete_release"}
        /\ lease' = [p \in Ports |-> IF lease[p] = Here(w) THEN NoWorkspace ELSE lease[p]]
        /\ \/ pc' = [pc EXCEPT ![w] = "fail"]
           \/ pc[w] = "delete_release" /\ pc' = [pc EXCEPT ![w] = "mark_deleted"]
    BY <1>12 DEF ReleaseAfterError, ReleaseDeleted, FreePorts, Goto, ghosts
  <2>2. /\ Here(w)' = Here(w)
        /\ pc'[w] = "fail" \/ (pc[w] = "delete_release" /\ pc'[w] = "mark_deleted")
        /\ Here(w) \in Workspaces
    BY <2>1, HeldTask DEF Here, Core, TypeOK
  <2>3. Known
    BY <2>1, <2>2 DEF Known, PortHeld, ReleaseKnown, RemovalKnown, LeaseInv
  <2>4. ASSUME NEW ws \in Workspaces PROVE LeaseAt(ws)'
    <3>1. ws \notin disturbed' /\ box[ws].container = "running" /\ lease[box[ws].port] = ws
            => lease'[box[ws].port] = ws \/ Resumed(ws)
      BY <2>1 DEF LeaseInv, LeaseAt, ReleaseKnown, RemovalKnown
    <3> QED BY <1>0, <2>1, <3>1, OthersLease
  <2> QED BY <2>3, <2>4 DEF Known, LeaseInv, OneWorker
<1>13. CASE CreateVolume(w)
  <2>1. /\ UNCHANGED <<row, lease, task, held, port, disturbed>> /\ pc[w] = "volume"
        /\ pc' = [pc EXCEPT ![w] = "create"] /\ box' = [box EXCEPT ![Here(w)].volume = TRUE]
    BY <1>13 DEF CreateVolume, Goto, store, ghosts
  <2>2. Here(w)' = Here(w) /\ pc'[w] = "create"
    BY <2>1 DEF Here, Core, TypeOK
  <2>3. Known
    BY <2>1, <2>2 DEF Known, PortHeld, ReleaseKnown, RemovalKnown, LeaseInv
  <2>4. \A ws \in Workspaces : Same(ws)
    BY <2>1, HeldTask DEF Same, Core, TypeOK
  <2> QED BY <1>1, <2>1, <2>3, <2>4
<1>14. CASE CreateContainer(w)
  <2>1. /\ UNCHANGED <<row, lease, task, held, port, status, disturbed>> /\ pc[w] = "create"
        /\ pc' = [pc EXCEPT ![w] = "start_check"]
        /\ box' = [box EXCEPT ![Here(w)] = [container |-> "created", port |-> port[w], volume |-> TRUE]]
    BY <1>14 DEF CreateContainer, Goto, store, ghosts
  <2>2. Here(w)' = Here(w) /\ pc'[w] = "start_check" /\ Here(w) \in Workspaces
    BY <2>1, HeldTask DEF Here, Core, TypeOK
  <2>3. box'[Here(w)].container = "created" /\ box'[Here(w)].port = port[w] /\ port[w] \in Ports
    BY <2>1, <2>2 DEF Core, TypeOK, LeaseInv, PortHeld
  <2>4. Known
    BY <2>1, <2>2, <2>3 DEF Known, PortHeld, ReleaseKnown, RemovalKnown, LeaseInv
  <2>5. ASSUME NEW ws \in Workspaces PROVE LeaseAt(ws)'
    <3>1. CASE ws = Here(w)
      <4>1. /\ held[w] \in Jobs /\ task[held[w]] = [ws |-> ws, type |-> "provision_workspace"]
            /\ status[held[w]] \notin {"absent", "queued"}
        BY <2>1, <3>1, HeldTask DEF Core, HeldKnown, StepsMatch, ProvisionSteps, Tasks, Here, Type
      <4>2. MadeBy(ws)'
        BY <2>1, <2>2, <4>1 DEF MadeBy, Late, OneWorker
      <4> QED BY <2>3, <3>1, <4>2 DEF LeaseAt
    <3>2. CASE ws # Here(w)
      <4>1. box'[ws] = box[ws]
        BY <2>1, <3>2 DEF Core, TypeOK
      <4> QED BY <1>0, <2>1, <4>1, OthersLease
    <3> QED BY <3>1, <3>2
  <2> QED BY <2>4, <2>5 DEF Known, LeaseInv, OneWorker
<1>15. CASE StartContainer(w)
  <2>1. /\ UNCHANGED <<row, lease, task, held, port, status, disturbed>> /\ pc[w] = "start_container"
        /\ pc' = [pc EXCEPT ![w] = "record"] /\ box' = [box EXCEPT ![Here(w)].container = "running"]
    BY <1>15 DEF StartContainer, Goto, store, ghosts
  <2>2. Here(w)' = Here(w) /\ pc'[w] = "record" /\ Here(w) \in Workspaces
    BY <2>1, HeldTask DEF Here, Core, TypeOK
  <2>3. box'[Here(w)].container = "running" /\ box'[Here(w)].port = port[w] /\ port[w] \in Ports /\ lease[port[w]] = Here(w)
    BY <2>1, <2>2 DEF Core, TypeOK, LeaseInv, PortHeld, RealInv, ContainerKnown
  <2>4. Known
    BY <2>1, <2>2, <2>3 DEF Known, PortHeld, ReleaseKnown, RemovalKnown, LeaseInv
  <2>5. ASSUME NEW ws \in Workspaces PROVE LeaseAt(ws)'
    <3>1. CASE ws = Here(w)
      <4>1. MadeBy(ws)'
        BY <1>0, <2>1, <2>2, <3>1, MadeStays DEF LeaseInv, LeaseAt, ReleaseKnown
      <4>2. (Acting(w, ws) /\ pc[w] = "record")'
        BY <2>2, <3>1 DEF Acting
      <4> QED BY <2>1, <2>3, <3>1, <4>1, <4>2 DEF LeaseAt
    <3>2. CASE ws # Here(w)
      <4>1. box'[ws] = box[ws]
        BY <2>1, <3>2 DEF Core, TypeOK
      <4> QED BY <1>0, <2>1, <4>1, OthersLease
    <3> QED BY <3>1, <3>2
  <2> QED BY <2>4, <2>5 DEF Known, LeaseInv, OneWorker
<1>16. CASE RemoveContainer(w)
  <2>1. /\ UNCHANGED <<row, lease, task, held, seen, disturbed>> /\ pc[w] = "remove_container"
        /\ pc' = [pc EXCEPT ![w] = "remove_volume"]
        /\ box' = IF seen[w].recorded THEN [box EXCEPT ![Here(w)].container = "none", ![Here(w)].port = AnyPort] ELSE box
    BY <1>16 DEF RemoveContainer, Goto, store, ghosts
  <2>2. Here(w)' = Here(w) /\ pc'[w] = "remove_volume" /\ Here(w) \in Workspaces
    BY <2>1, HeldTask DEF Here, Core, TypeOK
  <2>3. \/ box' = box /\ ~seen[w].recorded
        \/ box'[Here(w)].container = "none" /\ \A ws \in Workspaces \ {Here(w)} : box'[ws] = box[ws]
    BY <2>1, <2>2 DEF Core, TypeOK
  <2>4. Known
    BY <2>1, <2>2, <2>3 DEF Known, PortHeld, ReleaseKnown, RemovalKnown, LeaseInv
  <2>5. ASSUME NEW ws \in Workspaces PROVE LeaseAt(ws)'
    <3>1. CASE box'[ws].container = "none"
      BY <3>1 DEF LeaseAt
    <3>2. CASE box'[ws] = box[ws]
      BY <1>0, <2>1, <3>2, OthersLease
    <3> QED BY <2>3, <3>1, <3>2
  <2> QED BY <2>4, <2>5 DEF Known, LeaseInv, OneWorker
<1>17. CASE RemoveVolume(w)
  <2>1. /\ UNCHANGED <<row, lease, task, held, seen, disturbed>> /\ pc[w] = "remove_volume"
        /\ pc' = [pc EXCEPT ![w] = "delete_release"]
        /\ box' = box \/ box' = [box EXCEPT ![Here(w)].volume = FALSE]
    BY <1>17 DEF RemoveVolume, Goto, store, ghosts
  <2>2. Here(w)' = Here(w) /\ pc'[w] = "delete_release" /\ Here(w) \in Workspaces
    BY <2>1, HeldTask DEF Here, Core, TypeOK
  <2>3. \A ws \in Workspaces : Same(ws)
    BY <2>1 DEF Same, Core, TypeOK
  <2>4. Known
    BY <2>1, <2>2, <2>3 DEF Same, Known, PortHeld, ReleaseKnown, RemovalKnown, LeaseInv
  <2> QED BY <1>1, <2>1, <2>3, <2>4
<1> QED BY <1>4, <1>5, <1>6, <1>7, <1>8, <1>9, <1>10, <1>11, <1>12, <1>13, <1>14, <1>15, <1>16, <1>17, <1>18, <1>19
        DEF Work, WorkerFault

(* Handlers leave ports and containers alone, and rows of workspaces that exist. *)
LEMMA HandlersLease == ASSUME OneWorker, LifecycleAssumption, Core, JobsOfCreated, LeaseInv, Handlers PROVE LeaseInv'
<1>1. HandlersKeep /\ JobsStay
  BY HandlersKept, HandlersStay
<1>2. HandsKeep /\ disturbed \subseteq disturbed'
  BY <1>1 DEF HandlersKeep, KeepsTasks, worker, HandsKeep
<1>3. \A v \in Workers : pc[v] # "idle" => Here(v)' = Here(v) /\ Here(v) \in Workspaces
  BY <1>1, HeldTask DEF HandlersKeep, KeepsTasks, worker, Here, Core, HeldKnown
<1>4. ASSUME NEW ws \in Workspaces PROVE LeaseAt(ws)'
  <2>1. CASE box[ws].container = "none"
    BY <1>1, <2>1 DEF LeaseAt, HandlersKeep
  <2>2. CASE box[ws].container # "none"
    <3>1. MadeBy(ws)' /\ box[ws].port \in Ports
      BY <1>1, <1>2, <2>2, MadeStays DEF LeaseInv, LeaseAt
    <3>2. row'[ws] = row[ws]
      <4>1. PICK j \in Jobs : status[j] # "absent" /\ task[j].ws = ws
        <5>1. MadeBy(ws)
          BY <2>2 DEF LeaseInv, LeaseAt
        <5> QED BY <5>1 DEF MadeBy
      <4> QED BY <1>1, <4>1 DEF JobsOfCreated, HandlersKeep
    <3>3. \A v \in Workers : Acting(v, ws) /\ pc[v] = "record" => (Acting(v, ws) /\ pc[v] = "record")'
      BY <1>1, <1>3 DEF HandlersKeep, worker, Acting
    <3>4. Resumed(ws) => Resumed(ws)'
      BY <1>1, ResumedStays
    <3> QED BY <1>1, <1>2, <3>1, <3>2, <3>3, <3>4 DEF LeaseInv, LeaseAt, HandlersKeep
  <2> QED BY <2>1, <2>2
<1>5. ASSUME NEW v \in Workers PROVE PortHeld(v)' /\ ReleaseKnown(v)' /\ RemovalKnown(v)'
  <2>1. pc[v] # "idle" => (Resumed(Here(v)) => Resumed(Here(v))')
    BY <1>1, <1>3, ResumedStays
  <2> QED BY <1>1, <1>2, <1>3, <2>1 DEF LeaseInv, PortHeld, ReleaseKnown, RemovalKnown, HandlersKeep, worker
<1> QED BY <1>4, <1>5 DEF LeaseInv

(* With one worker, a running container listens on the port its workspace       *)
(* leases, unless a job of the workspace was resumed: the table that prevents   *)
(* conflicts is right about what is running.                                    *)
THEOREM RunningLeased == ASSUME OneWorker PROVE Spec => []RunningHasLease
<1>1. Init => LeaseInv /\ RealInv /\ ImageInv
  BY DEF Init, LeaseInv, LeaseAt, PortHeld, ReleaseKnown, RemovalKnown, NoBox, RealInv, RealAt, ContainerKnown,
     MarkKnown, ImageInv, JobsOfCreated, BuiltKnown, SeenKnown
<1>2. ASSUME LifecycleAssumption, Core, RealInv, ImageInv, LeaseInv, [Next]_vars PROVE RealInv' /\ ImageInv' /\ LeaseInv'
  <2>1. CASE \E w \in Workers : Work(w) \/ WorkerFault(w)
    BY <1>2, <2>1, WorkReal, WorkImage, WorkLeases
  <2>2. CASE Handlers
    BY <1>2, <2>2, HandlersReal, HandlersImage, HandlersLease DEF ImageInv
  <2>3. CASE (\E ws \in Workspaces : DropDelete(ws)) \/ UNCHANGED vars
    <3>1. UNCHANGED <<state, row, status, box, lease, task, pc, held, seen, port>> /\ disturbed \subseteq disturbed'
      BY <2>3 DEF DropDelete, Disturb, vars, store, worker, ghosts
    <3>2. RealInv'
      BY <1>2, <3>1 DEF RealInv, RealAt, ContainerKnown, MarkKnown, Acting, Here, Type
    <3>3. ImageInv'
      BY <1>2, <3>1 DEF ImageInv, JobsOfCreated, BuiltKnown, SeenKnown, Here, Type, ImageKnown
    <3>4. LeaseInv'
      BY <1>2, <3>1 DEF LeaseInv, LeaseAt, MadeBy, Resumed, PortHeld, ReleaseKnown, RemovalKnown, Acting, Here
    <3> QED BY <3>2, <3>3, <3>4
  <2> QED BY <1>2, <2>1, <2>2, <2>3 DEF Next
<1>3. LeaseInv => RunningHasLease
  BY DEF LeaseInv, LeaseAt, RunningHasLease
<1> QED BY <1>1, <1>2, <1>3, LifecycleAssumption, CoreStarts, CoreInductive, PTL DEF Spec

-----------------------------------------------------------------------------
(* One worker: a deleted workspace holds nothing *)

\* The steps of a provisioning that has created something and not yet ended.
Making == {"create", "start_check", "start_container", "record", "release", "fail"}

\* What a workspace shown as deleted holds.
DeletedAt(ws) == ws \notin disturbed /\ state[ws] = "deleted" =>
  /\ Leased(ws) = {} /\ box[ws].container # "running"
  /\ box[ws] = NoBox \/ BrokenOff(ws)

\* What Docker has is in the row, or left by a provisioning that ended badly or still goes on.
ScrapAt(ws) == ws \notin disturbed /\ box[ws] # NoBox =>
  \/ row[ws].recorded \/ BrokenOff(ws)
  \/ \E w \in Workers : Acting(w, ws) /\ Type(w) = "provision_workspace" /\ pc[w] \in Making

\* Only a deletion is at work on a deleted workspace, and works from its row.
DeletionKnown(w) ==
  /\ pc[w] \notin {"idle", "load", "start"} /\ Type(w) # "delete_workspace" => state[Here(w)] # "deleted"
  /\ pc[w] \in {"delete_check", "remove_container", "remove_volume"} => seen[w].recorded = row[Here(w)].recorded
  /\ pc[w] = "mark_deleted" => Leased(Here(w)) = {}

\* A deletion removes what its row names, and what it leaves is of a broken-off job.
RemovedKnown(w) == Here(w) \notin disturbed =>
  /\ pc[w] = "remove_volume" /\ seen[w].recorded
       => box[Here(w)].container = "none" /\ box[Here(w)].port = AnyPort
  /\ pc[w] \in {"delete_release", "mark_deleted"} => box[Here(w)] = NoBox \/ BrokenOff(Here(w))

DeletedInv == /\ \A ws \in Workspaces : DeletedAt(ws) /\ ScrapAt(ws)
              /\ \A w \in Workers : DeletionKnown(w) /\ RemovedKnown(w)

\* A job that failed or was stopped stays so.
EndsStay == \A j \in Jobs : status[j] \in {"failed", "cancelled"} => status'[j] = status[j] /\ task'[j] = task[j]

(* A workspace with a broken-off provisioning keeps it. *)
LEMMA BrokenStays == ASSUME EndsStay, NEW ws, BrokenOff(ws) PROVE BrokenOff(ws)'
  BY DEF EndsStay, BrokenOff

(* Workers end only running jobs. *)
LEMMA WorkEnds == ASSUME JobInv, NEW w \in Workers, Work(w) \/ WorkerFault(w) PROVE EndsStay
<1> USE DEF JobInv
<1>1. CASE LeaseNextJob(w)
  BY <1>1 DEF LeaseNextJob, EndsStay, Core, TypeOK
<1>2. CASE SetDone(w) \/ FailJob(w) \/ LoadFails(w)
  <2>1. held[w] \in Jobs /\ status[held[w]] = "running" /\ task' = task /\ \E s : status' = [status EXCEPT ![held[w]] = s]
    BY <1>2, HeldTask DEF SetDone, FailJob, LoadFails, SetStatus, EndsKnown
  <2> QED BY <2>1 DEF EndsStay, Core, TypeOK
<1>3. CASE EnqueueFollowUp(w)
  BY <1>3 DEF EnqueueFollowUp, InsertJob, EndsStay, Core, TypeOK
<1>4. CASE ~LeaseNextJob(w) /\ ~SetDone(w) /\ ~FailJob(w) /\ ~LoadFails(w) /\ ~EnqueueFollowUp(w)
  <2>1. UNCHANGED <<status, task>>
    BY <1>4 DEF Work, WorkerFault, LoadWorkspace, StartJob, FailWorkspace, MarkDeleted, SetImage, RecordProvisioned,
       ReleaseAfterError, ReleaseDeleted, BuildCheck, BuildImage, AllocatePort, AllocateFails, ProvisionCheck,
       RequireImage, CommandFails, CreateVolume, CreateContainer, StartCheck, StartContainer,
       DeleteCheck, RemoveContainer, RemoveVolume, Check, Crash, StatementFails,
       AllocateOrSecretFails, ErrorIgnored, store
  <2> QED BY <2>1 DEF EndsStay
<1> QED BY <1>1, <1>2, <1>3, <1>4

(* Handlers change ended jobs only by removing them. *)
LEMMA HandlersEnds == ASSUME Core, "remove" \notin Requests, Handlers PROVE EndsStay
<1>1. ASSUME NEW ws, NEW type, InsertJob(ws, type) PROVE EndsStay
  BY <1>1 DEF InsertJob, EndsStay, Core, TypeOK
<1>2. UNCHANGED <<status, task>> \/ \E ws, type : InsertJob(ws, type)
  BY DEF Handlers, CreateWorkspace, QueueDeleteJob, SetDeleting, RequestCancel, ResumeJob, DeleteJob
<1> QED BY <1>1, <1>2 DEF EndsStay

(* A workspace a step does nothing for. *)
LEMMA OthersDeleted ==
  ASSUME OneWorker, DeletedInv, EndsStay, NEW w \in Workers, NEW ws \in Workspaces, disturbed \subseteq disturbed',
         state'[ws] = "deleted" => state[ws] = "deleted",
         box'[ws] = box[ws], row[ws].recorded => row'[ws].recorded, Leased(ws)' \subseteq Leased(ws),
         pc[w] \in Making /\ Type(w) = "provision_workspace" /\ Acting(w, ws) =>
           \/ ws \in disturbed' \/ row'[ws].recorded \/ BrokenOff(ws)'
           \/ (Acting(w, ws) /\ Type(w) = "provision_workspace" /\ pc[w] \in Making)'
  PROVE  DeletedAt(ws)' /\ ScrapAt(ws)'
<1>1. BrokenOff(ws) => BrokenOff(ws)'
  BY BrokenStays
<1>2. DeletedAt(ws)'
  BY <1>1 DEF DeletedInv, DeletedAt, NoBox
<1>3. ScrapAt(ws)'
  BY <1>1 DEF DeletedInv, ScrapAt, OneWorker, NoBox
<1> QED BY <1>2, <1>3

(* What docker rm and docker volume rm leave of a container and its volume. *)
LEMMA EmptiedBox ==
  ASSUME NEW b \in [container : {"none", "created", "running"}, port : Ports \cup {AnyPort}, volume : BOOLEAN]
  PROVE  /\ [b EXCEPT !.container = "none", !.port = AnyPort].container = "none"
         /\ [b EXCEPT !.container = "none", !.port = AnyPort].port = AnyPort
         /\ [b EXCEPT !.volume = FALSE].container = b.container
         /\ b = NoBox => [b EXCEPT !.container = "none", !.port = AnyPort] = NoBox
         /\ b = NoBox => [b EXCEPT !.volume = FALSE] = NoBox
         /\ b.container = "none" /\ b.port = AnyPort => [b EXCEPT !.volume = FALSE] = NoBox
<1>1. /\ [b EXCEPT !.container = "none", !.port = AnyPort].container = "none"
      /\ [b EXCEPT !.container = "none", !.port = AnyPort].port = AnyPort
      /\ [b EXCEPT !.volume = FALSE].container = b.container
  OBVIOUS
<1> DEFINE Boxes == [container : {"none", "created", "running"}, port : Ports \cup {AnyPort}, volume : BOOLEAN]
<1>5. ASSUME NEW c \in Boxes, NEW d \in Boxes, c.container = d.container, c.port = d.port, c.volume = d.volume
      PROVE  c = d
  BY <1>5
<1>6. /\ NoBox \in Boxes /\ [b EXCEPT !.volume = FALSE] \in Boxes
      /\ [b EXCEPT !.container = "none", !.port = AnyPort] \in Boxes
  BY DEF NoBox
<1>7. NoBox.container = "none" /\ NoBox.port = AnyPort /\ NoBox.volume = FALSE
  BY DEF NoBox
<1>8. /\ [b EXCEPT !.container = "none", !.port = AnyPort].volume = b.volume
      /\ [b EXCEPT !.volume = FALSE].port = b.port /\ [b EXCEPT !.volume = FALSE].volume = FALSE
  OBVIOUS
<1> HIDE DEF Boxes
<1>2. b = NoBox => [b EXCEPT !.container = "none", !.port = AnyPort] = NoBox
  BY <1>1, <1>5, <1>6, <1>7, <1>8
<1>3. b.container = "none" /\ b.port = AnyPort => [b EXCEPT !.volume = FALSE] = NoBox
  BY <1>1, <1>5, <1>6, <1>7, <1>8
<1>4. b = NoBox => b.container = "none" /\ b.port = AnyPort
  BY DEF NoBox
<1> QED BY <1>1, <1>2, <1>3, <1>4

(* A worker moves on: what it leaves behind, and what a deletion finds. *)
LEMMA WorkDeleted ==
  ASSUME OneWorker, LifecycleAssumption, JobInv, LeaseInv, DeletedInv, NEW w \in Workers, Work(w) \/ WorkerFault(w)
  PROVE  DeletedInv'
<1>0. Core /\ EndsStay
  BY WorkEnds DEF JobInv
<1> DEFINE Same(ws) == /\ state'[ws] = "deleted" => state[ws] = "deleted"
                       /\ box'[ws] = box[ws] /\ (row[ws].recorded => row'[ws].recorded)
                       /\ Leased(ws)' \subseteq Leased(ws)
           Ended == pc[w] \in Making /\ Type(w) = "provision_workspace" =>
                      \/ Here(w) \in disturbed' \/ row'[Here(w)].recorded
                      \/ /\ Here(w)' = Here(w)
                         /\ BrokenOff(Here(w))' \/ (Type(w) = "provision_workspace" /\ pc[w] \in Making)'
           Known == DeletionKnown(w)' /\ RemovedKnown(w)'
<1>1. ASSUME disturbed \subseteq disturbed', NEW ws \in Workspaces, Same(ws), Ended
      PROVE  DeletedAt(ws)' /\ ScrapAt(ws)'
  <2>1. pc[w] \in Making /\ Type(w) = "provision_workspace" /\ Acting(w, ws) =>
           \/ ws \in disturbed' \/ row'[ws].recorded \/ BrokenOff(ws)'
           \/ (Acting(w, ws) /\ Type(w) = "provision_workspace" /\ pc[w] \in Making)'
    BY <1>1 DEF Acting, Making
  <2> QED BY <1>0, <1>1, <2>1, OthersDeleted
<1>2. ASSUME disturbed \subseteq disturbed', \A ws \in Workspaces : Same(ws), Ended, Known
      PROVE  DeletedInv'
  BY <1>1, <1>2 DEF OneWorker, DeletedInv
<1>3. ASSUME UNCHANGED <<state, row, box, lease>> PROVE \A ws \in Workspaces : Same(ws)
  BY <1>3 DEF Leased
<1>4. ASSUME GoIdle(w), disturbed \subseteq disturbed', \A ws \in Workspaces : Same(ws),
             pc[w] \in Making /\ Type(w) = "provision_workspace" => Here(w) \in disturbed'
      PROVE  DeletedInv'
  <2>1. Known
    BY <1>0, <1>4, MoveIdle DEF DeletionKnown, RemovedKnown, Core
  <2> QED BY <1>2, <1>4, <2>1
<1>5. ASSUME UNCHANGED <<state, row, box, lease, task, held>>, disturbed \subseteq disturbed',
             pc[w] \notin {"idle", "record"}, NEW step, pc' = [pc EXCEPT ![w] = step],
             pc[w] = "start" => Type(w) = "delete_workspace",
             pc[w] = "load" => Type(w) = "delete_workspace" \/ step = "start",
             pc[w] \in Making => step \in Making \/ Here(w) \in disturbed' \/ BrokenOff(Here(w))'
                                 \/ Type(w) # "provision_workspace",
             step = "mark_deleted" => FALSE,
             step \in {"delete_release", "remove_volume"} => Here(w) \in disturbed',
             \/ step \notin {"delete_check", "remove_container", "remove_volume"}
             \/ seen' = seen /\ pc[w] \in {"delete_check", "remove_container"}
             \/ seen' = [seen EXCEPT ![w] = row[Here(w)]]
      PROVE  DeletedInv'
  <2>1. pc'[w] = step /\ Here(w)' = Here(w) /\ Type(w)' = Type(w) /\ Here(w) \in Workspaces
    BY <1>0, <1>5, HeldTask DEF Core, TypeOK, Here, Type
  <2>2. Ended
    BY <1>5, <2>1
  <2>3. DeletionKnown(w)'
    <3>1. step \notin {"idle", "load", "start"} /\ Type(w) # "delete_workspace" => state[Here(w)] # "deleted"
      BY <1>5 DEF DeletedInv, DeletionKnown
    <3>2. step \in {"delete_check", "remove_container", "remove_volume"} => seen'[w].recorded = row[Here(w)].recorded
      BY <1>0, <1>5 DEF DeletedInv, DeletionKnown, Core, TypeOK
    <3> QED BY <1>5, <2>1, <3>1, <3>2 DEF DeletionKnown
  <2>4. RemovedKnown(w)'
    BY <1>5, <2>1 DEF RemovedKnown
  <2> QED BY <1>2, <1>3, <1>5, <2>2, <2>3, <2>4
<1> HIDE DEF Same, Ended, Known
<1>6. CASE LeaseNextJob(w)
  <2>1. /\ pc[w] = "idle" /\ UNCHANGED <<state, row, box, lease, disturbed>> /\ pc' = [pc EXCEPT ![w] = "load"]
    BY <1>6 DEF LeaseNextJob, ghosts
  <2>2. pc'[w] = "load"
    BY <1>0, <2>1 DEF Core, TypeOK
  <2>3. Known /\ Ended
    BY <2>1, <2>2 DEF Known, Ended, DeletionKnown, RemovedKnown, Making
  <2> QED BY <1>2, <1>3, <2>1, <2>3
<1>7. CASE LoadWorkspace(w)
  <2>1. UNCHANGED <<state, lease, row, box, task, held, disturbed>> /\ pc[w] = "load"
        /\ seen' = [seen EXCEPT ![w] = row[Here(w)]]
    BY <1>7 DEF LoadWorkspace, store, ghosts
  <2>2. PICK step \in {"delete_check", "start"} : /\ pc' = [pc EXCEPT ![w] = step]
                                                  /\ Type(w) = "delete_workspace" \/ step = "start"
    BY <1>7 DEF LoadWorkspace
  <2> QED BY <1>5, <2>1, <2>2 DEF Making
<1>8. CASE StartJob(w)
  <2>1. UNCHANGED <<lease, row, box, task, held, disturbed>> /\ pc[w] = "start"
        /\ \E s \in {"building", "provisioning"} : state' = [state EXCEPT ![Here(w)] = s]
    BY <1>8 DEF StartJob, Goto, SetState, store, ghosts
  <2>2. PICK step \in {"build_check", "allocate"} : pc' = [pc EXCEPT ![w] = step]
    BY <1>8 DEF StartJob, Goto
  <2>3. pc'[w] = step /\ Here(w)' = Here(w) /\ Here(w) \in Workspaces /\ state'[Here(w)] # "deleted"
    BY <1>0, <2>1, <2>2, HeldTask DEF Core, TypeOK, Here
  <2>4. Known /\ Ended
    BY <2>1, <2>3 DEF Known, Ended, DeletionKnown, RemovedKnown, Making
  <2>5. \A ws \in Workspaces : Same(ws)
    BY <1>0, <2>1 DEF Same, Leased, Core, TypeOK
  <2> QED BY <1>2, <2>1, <2>4, <2>5
<1>9. CASE BuildImage(w) \/ AllocateFails(w) \/ RequireImage(w) \/ CommandFails(w)
  <2>1. UNCHANGED <<state, lease, row, box, task, held, disturbed>>
        /\ pc[w] \in {"build", "allocate", "image", "volume", "create", "start_container"}
    BY <1>9 DEF BuildImage, AllocateFails, RequireImage, CommandFails, Goto, Fail, store, ghosts
  <2>2. PICK step \in {"set_image", "fail", "release", "volume"} :
           pc' = [pc EXCEPT ![w] = step] /\ (pc[w] \in {"create", "start_container"} => step = "release")
    BY <1>9 DEF BuildImage, AllocateFails, RequireImage, CommandFails, Goto, Fail
  <2> QED BY <1>5, <2>1, <2>2 DEF Making
<1>10. CASE FailJob(w)
  <2>1. UNCHANGED <<state, lease, row, box, task, held, disturbed>> /\ pc[w] = "fail"
        /\ pc' = [pc EXCEPT ![w] = "fail_state"] /\ status' = [status EXCEPT ![held[w]] = outcome[w]]
    BY <1>10 DEF FailJob, SetStatus, Goto, ghosts
  <2>2. /\ held[w] \in Jobs /\ task[held[w]] = [ws |-> Here(w), type |-> Type(w)]
        /\ outcome[w] \in {"failed", "cancelled"}
    BY <1>0, <2>1, HeldTask DEF Core, TypeOK, StepsMatch, FailSteps, Tasks, Here, Type
  <2>3. status'[held[w]] \in {"failed", "cancelled"} /\ task' = task
    BY <1>0, <2>1, <2>2 DEF Core, TypeOK
  <2>4. Type(w) = "provision_workspace" => BrokenOff(Here(w))'
    BY <2>1, <2>2, <2>3 DEF BrokenOff, Here
  <2>5. PICK step \in {"fail_state"} : pc' = [pc EXCEPT ![w] = step]
    BY <2>1
  <2> QED BY <1>5, <2>1, <2>4, <2>5
<1>11. CASE BuildCheck(w) \/ ProvisionCheck(w) \/ StartCheck(w) \/ DeleteCheck(w)
  <2>1. PICK at, step, onCancel :
           /\ Check(w, at, step, onCancel)
           /\ <<at, step, onCancel>> \in {<<"build_check", "build", "fail">>, <<"provision_check", "image", "release">>,
                <<"start_check", "start_container", "release">>, <<"delete_check", "remove_container", "fail">>}
    BY <1>11 DEF BuildCheck, ProvisionCheck, StartCheck, DeleteCheck
  <2>2. /\ UNCHANGED <<state, lease, row, box, task, held, seen, disturbed>> /\ pc[w] = at
    BY <2>1 DEF Check, Goto, Fail, store, ghosts
  <2>3. PICK next \in {step, onCancel} : pc' = [pc EXCEPT ![w] = next]
    BY <2>1 DEF Check, Goto, Fail
  <2> QED BY <1>5, <2>1, <2>2, <2>3 DEF Making
<1>12. CASE SetImage(w)
  <2>1. /\ UNCHANGED <<state, lease, box, disturbed>> /\ pc[w] = "set_image" /\ held' = held /\ task' = task
        /\ row' = [row EXCEPT ![Here(w)].image = TRUE] /\ pc' = [pc EXCEPT ![w] = "set_done"]
    BY <1>12 DEF SetImage, Goto, ghosts
  <2>2. pc'[w] = "set_done" /\ Here(w)' = Here(w) /\ Type(w)' = Type(w)
    BY <1>0, <2>1 DEF Core, TypeOK, Here, Type
  <2>3. Known /\ Ended
    BY <2>1, <2>2 DEF Known, Ended, DeletionKnown, RemovedKnown, Making, DeletedInv
  <2>4. \A ws \in Workspaces : row'[ws].recorded = row[ws].recorded
    BY <1>0, <2>1 DEF Core, TypeOK, Rows
  <2>5. \A ws \in Workspaces : Same(ws)
    BY <2>1, <2>4 DEF Same, Leased
  <2> QED BY <1>2, <2>1, <2>3, <2>5
<1>13. CASE RecordProvisioned(w)
  <2>1. /\ UNCHANGED <<lease, box, disturbed>> /\ pc[w] = "record" /\ held' = held /\ task' = task
        /\ state' = [state EXCEPT ![Here(w)] = "running"] /\ pc' = [pc EXCEPT ![w] = "set_done"]
        /\ row' = [row EXCEPT ![Here(w)] = [@ EXCEPT !.recorded = TRUE, !.sshPort = port[w]]]
    BY <1>13 DEF RecordProvisioned, SetState, Goto, ghosts
  <2>2. pc'[w] = "set_done" /\ Here(w)' = Here(w) /\ Here(w) \in Workspaces
    BY <1>0, <2>1, HeldTask DEF Core, TypeOK, Here
  <2>3. state'[Here(w)] = "running" /\ \A ws \in Workspaces : state'[ws] = "deleted" => state[ws] = "deleted"
    BY <1>0, <2>1, <2>2 DEF Core, TypeOK
  <2>4. row'[Here(w)].recorded /\ \A ws \in Workspaces : row[ws].recorded => row'[ws].recorded
    BY <1>0, <2>1, <2>2 DEF Core, TypeOK, Rows
  <2>5. Known /\ Ended
    BY <2>2, <2>3, <2>4 DEF Known, Ended, DeletionKnown, RemovedKnown
  <2>6. \A ws \in Workspaces : Same(ws)
    BY <2>1, <2>3, <2>4 DEF Same, Leased
  <2> QED BY <1>2, <2>1, <2>5, <2>6
<1>14. CASE SetDone(w) \/ EnqueueFollowUp(w) \/ FailWorkspace(w) \/ Crash(w) \/ LoadFails(w) \/ StatementFails(w)
  <2>1. /\ UNCHANGED <<lease, row, box>> /\ disturbed \subseteq disturbed'
        /\ pc[w] \in Making => Here(w) \in disturbed'
        /\ state' = state \/ \E s \in {"pending", "failed"} : state' = [state EXCEPT ![Here(w)] = s]
    BY <1>14 DEF SetDone, EnqueueFollowUp, FailWorkspace, Crash, LoadFails, StatementFails, Disturb, store, ghosts,
                 SetState, Making
  <2>2. \A ws \in Workspaces : Same(ws)
    BY <1>0, <2>1 DEF Same, Leased, Core, TypeOK
  <2>3. CASE GoIdle(w)
    BY <1>4, <2>1, <2>2, <2>3
  <2>4. CASE SetDone(w) /\ Goto(w, "follow_up")
    <3>1. UNCHANGED <<state, task, held>> /\ pc[w] = "set_done"
      BY <2>4 DEF SetDone, Goto
    <3>2. PICK step \in {"follow_up"} : pc' = [pc EXCEPT ![w] = step]
      BY <2>4 DEF Goto
    <3> QED BY <1>5, <2>1, <3>1, <3>2 DEF Making
  <2> QED BY <1>14, <2>3, <2>4 DEF SetDone, EnqueueFollowUp, FailWorkspace, Crash, LoadFails, StatementFails
<1>15. CASE AllocateOrSecretFails(w) \/ ErrorIgnored(w)
  <2>1. /\ UNCHANGED <<state, lease, row, box, task>> /\ disturbed' = disturbed \cup {Here(w)}
        /\ pc[w] \notin {"idle", "record", "start", "load"}
    BY <1>15 DEF AllocateOrSecretFails, ErrorIgnored, AfterIgnored, Disturb, store
  <2>2. CASE GoIdle(w)
    BY <1>3, <1>4, <2>1, <2>2
  <2>3. CASE ~GoIdle(w)
    <3>1. UNCHANGED <<held, seen>>
      BY <1>15, <2>3 DEF AllocateOrSecretFails, ErrorIgnored, Goto, Fail
    <3>2. PICK step : /\ step \notin {"delete_check", "mark_deleted"}
                      /\ step = "remove_container" => pc[w] = "delete_check"
                      /\ step = "remove_volume" => pc[w] = "remove_container"
                      /\ pc' = [pc EXCEPT ![w] = step]
      BY <1>15, <2>3 DEF AllocateOrSecretFails, ErrorIgnored, AfterIgnored, Goto, Fail
    <3> QED BY <1>5, <2>1, <3>1, <3>2
  <2> QED BY <2>2, <2>3
<1>16. CASE AllocatePort(w)
  <2>1. /\ UNCHANGED <<state, row, box, task, held, disturbed>> /\ pc' = [pc EXCEPT ![w] = "provision_check"]
        /\ pc[w] = "allocate" /\ Type(w) = "provision_workspace"
        /\ lease' = lease \/ \E p \in Ports : lease' = [lease EXCEPT ![p] = Here(w)]
    <3>1. FreeCandidates(seen[w].sshPort) \subseteq Ports
      BY <1>0 DEF FreeCandidates, Candidates, Core, TypeOK, Rows
    <3> QED BY <1>0, <1>16, <3>1 DEF AllocatePort, ghosts, Core, StepsMatch, ProvisionSteps
  <2>2. pc'[w] = "provision_check" /\ Here(w)' = Here(w) /\ Type(w)' = Type(w)
    BY <1>0, <2>1 DEF Core, TypeOK, Here, Type
  <2>3. state[Here(w)] # "deleted"
    BY <2>1 DEF DeletedInv, DeletionKnown
  <2>4. Known /\ Ended
    BY <2>1, <2>2, <2>3 DEF Known, Ended, DeletionKnown, RemovedKnown, Making
  <2>5. ASSUME NEW ws \in Workspaces PROVE DeletedAt(ws)' /\ ScrapAt(ws)'
    <3>1. CASE ws = Here(w)
      <4>1. ScrapAt(ws)'
        BY <1>0, <2>1, <2>2, BrokenStays DEF DeletedInv, ScrapAt, OneWorker, Making, NoBox
      <4> QED BY <2>1, <2>3, <3>1, <4>1 DEF DeletedAt
    <3>2. CASE ws # Here(w)
      <4>1. Same(ws)
        BY <1>0, <2>1, <3>2 DEF Same, Leased, Core, TypeOK
      <4> QED BY <1>1, <2>1, <2>4, <4>1
    <3> QED BY <3>1, <3>2
  <2> QED BY <2>4, <2>5 DEF Known, DeletedInv, OneWorker
<1>17. CASE ReleaseAfterError(w) \/ ReleaseDeleted(w)
  <2>1. /\ UNCHANGED <<state, row, box, task, held, disturbed>>
        /\ lease' = [p \in Ports |-> IF lease[p] = Here(w) THEN NoWorkspace ELSE lease[p]]
        /\ \/ pc[w] = "release" /\ pc' = [pc EXCEPT ![w] = "fail"]
           \/ pc[w] = "delete_release" /\ pc' = [pc EXCEPT ![w] = "mark_deleted"]
    BY <1>17 DEF ReleaseAfterError, ReleaseDeleted, FreePorts, Goto, ghosts
  <2>2. /\ Here(w)' = Here(w) /\ Type(w)' = Type(w) /\ Here(w) \in Workspaces
        /\ (pc[w] = "release" /\ pc'[w] = "fail") \/ (pc[w] = "delete_release" /\ pc'[w] = "mark_deleted")
    BY <1>0, <2>1, HeldTask DEF Here, Type, Core, TypeOK
  <2>3. Leased(Here(w))' = {} /\ \A ws \in Workspaces : Leased(ws)' \subseteq Leased(ws)
    BY <2>1, <2>2 DEF Leased, LifecycleAssumption
  <2>4. Ended
    BY <2>2 DEF Ended, Making
  <2>5. DeletionKnown(w)'
    BY <2>1, <2>2, <2>3 DEF DeletionKnown, DeletedInv
  <2>6. RemovedKnown(w)'
    BY <1>0, <2>1, <2>2, BrokenStays DEF RemovedKnown, DeletedInv, NoBox
  <2>7. \A ws \in Workspaces : Same(ws)
    BY <2>1, <2>3 DEF Same
  <2> QED BY <1>2, <2>1, <2>4, <2>5, <2>6, <2>7 DEF Known
<1>18. CASE CreateVolume(w) \/ CreateContainer(w) \/ StartContainer(w)
  <2>1. /\ UNCHANGED <<state, row, lease, task, held, disturbed>> /\ pc[w] \in {"volume", "create", "start_container"}
        /\ \E step \in Making \ {"release", "fail"} : pc' = [pc EXCEPT ![w] = step]
        /\ \E b : box' = [box EXCEPT ![Here(w)] = b]
    BY <1>18 DEF CreateVolume, CreateContainer, StartContainer, Goto, store, ghosts, Making
  <2>2. /\ Here(w)' = Here(w) /\ Type(w)' = Type(w) /\ Here(w) \in Workspaces
        /\ pc'[w] \in Making \ {"release", "fail"} /\ Type(w) = "provision_workspace"
    BY <1>0, <2>1, HeldTask DEF Here, Type, Core, TypeOK, StepsMatch, ProvisionSteps
  <2>3. state[Here(w)] # "deleted"
    BY <2>1, <2>2 DEF DeletedInv, DeletionKnown
  <2>4. Known /\ Ended
    BY <2>1, <2>2, <2>3 DEF Known, Ended, DeletionKnown, RemovedKnown, Making
  <2>5. ASSUME NEW ws \in Workspaces PROVE DeletedAt(ws)' /\ ScrapAt(ws)'
    <3>1. CASE ws = Here(w)
      <4>1. (Acting(w, ws) /\ Type(w) = "provision_workspace" /\ pc[w] \in Making)'
        BY <2>2, <3>1 DEF Acting, Making
      <4> QED BY <2>1, <2>3, <3>1, <4>1 DEF DeletedAt, ScrapAt
    <3>2. CASE ws # Here(w)
      <4>1. Same(ws)
        BY <1>0, <2>1, <3>2 DEF Same, Leased, Core, TypeOK
      <4> QED BY <1>1, <2>1, <2>4, <4>1
    <3> QED BY <3>1, <3>2
  <2> QED BY <2>4, <2>5 DEF Known, DeletedInv, OneWorker
<1>19. CASE RemoveContainer(w)
  <2>1. /\ UNCHANGED <<state, row, lease, task, held, seen, disturbed>> /\ pc[w] = "remove_container"
        /\ pc' = [pc EXCEPT ![w] = "remove_volume"] /\ Type(w) = "delete_workspace"
        /\ box' = IF seen[w].recorded THEN [box EXCEPT ![Here(w)].container = "none", ![Here(w)].port = AnyPort] ELSE box
    BY <1>0, <1>19 DEF RemoveContainer, Goto, store, ghosts, Core, StepsMatch, DeleteSteps
  <2>2. Here(w)' = Here(w) /\ Type(w)' = Type(w) /\ pc'[w] = "remove_volume" /\ Here(w) \in Workspaces
    BY <1>0, <2>1, HeldTask DEF Here, Type, Core, TypeOK
  <2>3. seen[w].recorded = row[Here(w)].recorded
    BY <2>1 DEF DeletedInv, DeletionKnown
  <2>4. /\ seen[w].recorded => /\ box'[Here(w)].container = "none" /\ box'[Here(w)].port = AnyPort
                               /\ (box[Here(w)] = NoBox => box'[Here(w)] = NoBox)
        /\ ~seen[w].recorded => box'[Here(w)] = box[Here(w)]
        /\ \A ws \in Workspaces \ {Here(w)} : box'[ws] = box[ws]
    <3>1. CASE ~seen[w].recorded
      BY <2>1, <3>1
    <3>2. CASE seen[w].recorded
      <4>1. /\ box'[Here(w)] = [box[Here(w)] EXCEPT !.container = "none", !.port = AnyPort]
            /\ \A ws \in Workspaces \ {Here(w)} : box'[ws] = box[ws]
        BY <1>0, <2>1, <2>2, <3>2 DEF Core, TypeOK
      <4>2. box[Here(w)] \in [container : {"none", "created", "running"}, port : Ports \cup {AnyPort}, volume : BOOLEAN]
        BY <1>0, <2>2 DEF Core, TypeOK
      <4> DEFINE b == box[Here(w)]
      <4>3. /\ [b EXCEPT !.container = "none", !.port = AnyPort].container = "none"
            /\ [b EXCEPT !.container = "none", !.port = AnyPort].port = AnyPort
            /\ b = NoBox => [b EXCEPT !.container = "none", !.port = AnyPort] = NoBox
        BY <4>2, EmptiedBox
      <4> QED BY <3>2, <4>1, <4>3
    <3> QED BY <3>1, <3>2
  <2>5. Known /\ Ended
    BY <2>1, <2>2, <2>3, <2>4 DEF Known, Ended, DeletionKnown, RemovedKnown, Making
  <2>6. ASSUME NEW ws \in Workspaces PROVE DeletedAt(ws)' /\ ScrapAt(ws)'
    <3>1. CASE ws = Here(w) /\ seen[w].recorded
      <4>1. ScrapAt(ws)'
        BY <2>1, <2>3, <3>1 DEF ScrapAt
      <4>2. BrokenOff(ws) => BrokenOff(ws)'
        BY <1>0, BrokenStays
      <4>3. DeletedAt(ws)'
        BY <2>1, <2>4, <3>1, <4>2 DEF DeletedAt, DeletedInv, Leased, NoBox
      <4> QED BY <4>1, <4>3
    <3>2. CASE box'[ws] = box[ws]
      <4>1. Same(ws)
        BY <2>1, <3>2 DEF Same, Leased
      <4> QED BY <1>1, <2>1, <2>5, <4>1
    <3> QED BY <2>4, <3>1, <3>2
  <2> QED BY <2>5, <2>6 DEF Known, DeletedInv, OneWorker
<1>20. CASE RemoveVolume(w)
  <2>1. /\ UNCHANGED <<state, row, lease, task, held, seen, disturbed>> /\ pc[w] = "remove_volume"
        /\ pc' = [pc EXCEPT ![w] = "delete_release"] /\ Type(w) = "delete_workspace"
        /\ box' = IF seen[w].recorded /\ box[Here(w)].container = "none"
                  THEN [box EXCEPT ![Here(w)].volume = FALSE] ELSE box
    BY <1>0, <1>20 DEF RemoveVolume, Goto, store, ghosts, Core, StepsMatch, DeleteSteps
  <2>2. Here(w)' = Here(w) /\ Type(w)' = Type(w) /\ pc'[w] = "delete_release" /\ Here(w) \in Workspaces
    BY <1>0, <2>1, HeldTask DEF Here, Type, Core, TypeOK
  <2>3. seen[w].recorded = row[Here(w)].recorded
    BY <2>1 DEF DeletedInv, DeletionKnown
  <2>4. /\ box'[Here(w)].container = box[Here(w)].container
        /\ box[Here(w)] = NoBox => box'[Here(w)] = NoBox
        /\ seen[w].recorded /\ box[Here(w)].container = "none" /\ box[Here(w)].port = AnyPort => box'[Here(w)] = NoBox
        /\ ~seen[w].recorded => box'[Here(w)] = box[Here(w)]
        /\ \A ws \in Workspaces \ {Here(w)} : box'[ws] = box[ws]
    <3>1. CASE ~(seen[w].recorded /\ box[Here(w)].container = "none")
      BY <2>1, <3>1 DEF NoBox
    <3>2. CASE seen[w].recorded /\ box[Here(w)].container = "none"
      <4>1. /\ box'[Here(w)] = [box[Here(w)] EXCEPT !.volume = FALSE]
            /\ \A ws \in Workspaces \ {Here(w)} : box'[ws] = box[ws]
        BY <1>0, <2>1, <2>2, <3>2 DEF Core, TypeOK
      <4>2. box[Here(w)] \in [container : {"none", "created", "running"}, port : Ports \cup {AnyPort}, volume : BOOLEAN]
        BY <1>0, <2>2 DEF Core, TypeOK
      <4> DEFINE b == box[Here(w)]
      <4>3. /\ [b EXCEPT !.volume = FALSE].container = b.container
            /\ b = NoBox => [b EXCEPT !.volume = FALSE] = NoBox
            /\ b.container = "none" /\ b.port = AnyPort => [b EXCEPT !.volume = FALSE] = NoBox
        BY <4>2, EmptiedBox
      <4> QED BY <3>2, <4>1, <4>3
    <3> QED BY <3>1, <3>2
  <2>5. ASSUME NEW ws \in Workspaces PROVE BrokenOff(ws) => BrokenOff(ws)'
    BY <1>0, BrokenStays
  <2>6. RemovedKnown(w)'
    <3>1. CASE Here(w) \notin disturbed /\ ~seen[w].recorded
      <4>1. box[Here(w)] = NoBox \/ BrokenOff(Here(w))
        BY <2>1, <2>2, <2>3, <3>1 DEF DeletedInv, ScrapAt, OneWorker
      <4> QED BY <2>2, <2>4, <2>5, <3>1, <4>1 DEF RemovedKnown
    <3>2. CASE Here(w) \notin disturbed /\ seen[w].recorded
      BY <2>1, <2>2, <2>4, <3>2 DEF DeletedInv, RemovedKnown
    <3> QED BY <2>1, <2>2, <3>1, <3>2 DEF RemovedKnown
  <2>7. DeletionKnown(w)' /\ Ended
    BY <2>1, <2>2 DEF Ended, DeletionKnown, Making
  <2>8. ASSUME NEW ws \in Workspaces PROVE DeletedAt(ws)' /\ ScrapAt(ws)'
    <3>1. CASE ws = Here(w) /\ seen[w].recorded
      <4>1. ScrapAt(ws)'
        BY <2>1, <2>3, <3>1 DEF ScrapAt
      <4>2. DeletedAt(ws)'
        BY <2>1, <2>4, <2>5, <3>1 DEF DeletedAt, DeletedInv, Leased, NoBox
      <4> QED BY <4>1, <4>2
    <3>2. CASE box'[ws] = box[ws]
      <4>1. Same(ws)
        BY <2>1, <3>2 DEF Same, Leased
      <4> QED BY <1>1, <2>1, <2>7, <4>1
    <3> QED BY <2>4, <3>1, <3>2
  <2> QED BY <2>6, <2>7, <2>8 DEF DeletedInv, OneWorker
<1>21. CASE MarkDeleted(w)
  <2>1. /\ UNCHANGED <<row, lease, box, task, held, disturbed>> /\ pc[w] = "mark_deleted"
        /\ pc' = [pc EXCEPT ![w] = "set_done"] /\ Type(w) = "delete_workspace"
        /\ state' = [state EXCEPT ![Here(w)] = "deleted"]
    BY <1>0, <1>21 DEF MarkDeleted, SetState, Goto, ghosts, Core, StepsMatch, DeleteSteps
  <2>2. Here(w)' = Here(w) /\ Type(w)' = Type(w) /\ pc'[w] = "set_done" /\ Here(w) \in Workspaces
    BY <1>0, <2>1, HeldTask DEF Here, Type, Core, TypeOK
  <2>3. Known /\ Ended
    BY <2>1, <2>2 DEF Known, Ended, DeletionKnown, RemovedKnown, Making
  <2>4. ASSUME NEW ws \in Workspaces PROVE DeletedAt(ws)' /\ ScrapAt(ws)'
    <3>1. CASE ws = Here(w)
      <4>1. /\ Leased(ws) = {} /\ Leased(ws)' = Leased(ws)
            /\ ws \notin disturbed => box[ws].container # "running" /\ (box[ws] = NoBox \/ BrokenOff(ws))
        BY <2>1, <3>1 DEF DeletedInv, DeletionKnown, RemovedKnown, LeaseInv, RemovalKnown, Leased
      <4>2. BrokenOff(ws) => BrokenOff(ws)'
        BY <1>0, BrokenStays
      <4>3. DeletedAt(ws)'
        BY <2>1, <4>1, <4>2 DEF DeletedAt, NoBox
      <4>4. ScrapAt(ws)'
        BY <2>1, <4>2 DEF DeletedInv, ScrapAt, OneWorker, NoBox
      <4> QED BY <4>3, <4>4
    <3>2. CASE ws # Here(w)
      <4>1. Same(ws)
        BY <1>0, <2>1, <3>2 DEF Same, Leased, Core, TypeOK
      <4> QED BY <1>1, <2>1, <2>3, <4>1
    <3> QED BY <3>1, <3>2
  <2> QED BY <2>3, <2>4 DEF Known, DeletedInv, OneWorker
<1> QED BY <1>6, <1>7, <1>8, <1>9, <1>10, <1>11, <1>12, <1>13, <1>14, <1>15, <1>16, <1>17, <1>18, <1>19, <1>20, <1>21
        DEF Work, WorkerFault

\* What Docker has belongs to a workspace the table has.
BoxOfCreated == \A ws \in Workspaces : box[ws] # NoBox => state[ws] # "absent"

(* A worker's docker commands are for its own workspace. *)
LEMMA WorkCreated == ASSUME Core, JobsOfCreated, BoxOfCreated, NEW w \in Workers, Work(w) \/ WorkerFault(w)
                     PROVE  BoxOfCreated'
<1>1. box' = box \/ (pc[w] # "idle" /\ \E b : box' = [box EXCEPT ![Here(w)] = b])
  <2>1. CASE CreateVolume(w) \/ CreateContainer(w) \/ StartContainer(w) \/ RemoveContainer(w) \/ RemoveVolume(w)
    BY <2>1 DEF CreateVolume, CreateContainer, StartContainer, RemoveContainer, RemoveVolume
  <2>2. CASE ~(CreateVolume(w) \/ CreateContainer(w) \/ StartContainer(w) \/ RemoveContainer(w) \/ RemoveVolume(w))
    BY <2>2 DEF Work, WorkerFault, LoadWorkspace, StartJob, FailWorkspace, MarkDeleted, SetImage, RecordProvisioned,
       ReleaseAfterError, ReleaseDeleted, BuildCheck, BuildImage, AllocatePort, AllocateFails, ProvisionCheck,
       RequireImage, CommandFails, StartCheck, DeleteCheck, Check, Crash, StatementFails,
       AllocateOrSecretFails, ErrorIgnored, LeaseNextJob, SetDone, FailJob, LoadFails, EnqueueFollowUp
  <2> QED BY <2>1, <2>2
<1>2. pc[w] # "idle" => state[Here(w)] # "absent"
  BY HeldTask DEF JobsOfCreated, Core, HeldKnown, Here
<1>3. RowsGrow
  BY WorkGrows
<1> QED BY <1>1, <1>2, <1>3 DEF BoxOfCreated, RowsGrow, Core, TypeOK

(* Handlers leave what Docker has alone, and the rows of workspaces that exist. *)
LEMMA HandlersDeleted ==
  ASSUME OneWorker, LifecycleAssumption, Core, "remove" \notin Requests, JobsOfCreated, BoxOfCreated, DeletedInv, Handlers
  PROVE  DeletedInv' /\ BoxOfCreated'
<1>1. HandlersKeep /\ EndsStay
  BY HandlersKept, HandlersEnds
<1>2. \A v \in Workers : pc[v] # "idle" => /\ Here(v)' = Here(v) /\ Type(v)' = Type(v)
                                          /\ Here(v) \in Workspaces
                                          /\ state[Here(v)] # "absent"
  BY <1>1, HeldTask DEF HandlersKeep, KeepsTasks, worker, Here, Type, Core, HeldKnown, JobsOfCreated
<1>3. \A ws \in Workspaces : Leased(ws)' = Leased(ws) /\ box'[ws] = box[ws]
  BY <1>1 DEF HandlersKeep, Leased
<1>4. \A ws \in Workspaces : state'[ws] = state[ws] \/ state'[ws] \in {"pending", "deleting"}
  BY <1>1 DEF HandlersKeep
<1>5. ASSUME NEW ws \in Workspaces PROVE BrokenOff(ws) => BrokenOff(ws)'
  BY <1>1, BrokenStays
<1>6. UNCHANGED <<pc, seen>> /\ disturbed \subseteq disturbed'
  BY <1>1 DEF HandlersKeep, KeepsTasks, worker
<1>7. BoxOfCreated'
  BY <1>3, <1>4 DEF BoxOfCreated
<1>8. ASSUME NEW ws \in Workspaces PROVE DeletedAt(ws)' /\ ScrapAt(ws)'
  <2>1. DeletedAt(ws)'
    BY <1>3, <1>4, <1>5, <1>6 DEF DeletedInv, DeletedAt, NoBox
  <2>2. CASE box[ws] # NoBox
    <3>1. row'[ws] = row[ws]
      BY <1>1, <2>2 DEF BoxOfCreated, HandlersKeep
    <3>2. ASSUME NEW v \in Workers, Acting(v, ws), Type(v) = "provision_workspace", pc[v] \in Making
          PROVE  (Acting(v, ws) /\ Type(v) = "provision_workspace" /\ pc[v] \in Making)'
      BY <1>2, <1>6, <3>2 DEF Acting, Making
    <3>3. ScrapAt(ws)
      BY DEF DeletedInv
    <3> QED BY <1>5, <1>6, <2>1, <3>1, <3>2, <3>3, <2>2 DEF ScrapAt
  <2>3. CASE box[ws] = NoBox
    BY <1>3, <2>1, <2>3 DEF ScrapAt, NoBox
  <2> QED BY <2>2, <2>3
<1>9. ASSUME NEW v \in Workers PROVE DeletionKnown(v)' /\ RemovedKnown(v)'
  <2>1. CASE pc[v] = "idle"
    BY <1>6, <2>1 DEF DeletionKnown, RemovedKnown
  <2>2. CASE pc[v] # "idle"
    <3>1. row'[Here(v)] = row[Here(v)]
      BY <1>1, <1>2, <2>2 DEF HandlersKeep
    <3>2. DeletionKnown(v) /\ RemovedKnown(v)
      BY DEF DeletedInv
    <3>3. DeletionKnown(v)'
      BY <1>2, <1>3, <1>4, <1>6, <2>2, <3>1, <3>2 DEF DeletionKnown
    <3>4. BrokenOff(Here(v)) => \E ws \in Workspaces : ws = Here(v) /\ BrokenOff(ws)'
      BY <1>2, <1>5, <2>2
    <3>5. RemovedKnown(v)'
      BY <1>2, <1>3, <1>6, <2>2, <3>2, <3>4 DEF RemovedKnown, NoBox
    <3> QED BY <3>3, <3>5
  <2> QED BY <2>1, <2>2
<1> QED BY <1>7, <1>8, <1>9 DEF DeletedInv

(* With one worker, and jobs that stay in their table (BrokenOff reads them), a *)
(* deleted workspace holds no port and no running container, and nothing else   *)
(* but what a failed or stopped provisioning of it left.                        *)
THEOREM DeletedHolds == ASSUME OneWorker, "remove" \notin Requests PROVE Spec => []DeletedHoldsNothing
<1> DEFINE IInv == JobInv /\ ImageInv /\ LeaseInv /\ RealInv /\ DeletedInv /\ BoxOfCreated
<1>1. ASSUME LifecycleAssumption, Init PROVE IInv
  <2>1. JobInv
    BY <1>1, JobInvStarts
  <2>2. LeaseInv /\ RealInv /\ ImageInv
    BY <1>1 DEF Init, LeaseInv, LeaseAt, PortHeld, ReleaseKnown, RemovalKnown, NoBox, RealInv, RealAt, ContainerKnown,
       MarkKnown, ImageInv, JobsOfCreated, BuiltKnown, SeenKnown
  <2>3. DeletedInv /\ BoxOfCreated
    BY <1>1 DEF Init, DeletedInv, DeletedAt, ScrapAt, DeletionKnown, RemovedKnown, BoxOfCreated
  <2> QED BY <2>1, <2>2, <2>3
<1>2. ASSUME LifecycleAssumption, IInv, [Next]_vars PROVE IInv'
  <2>1. Core /\ JobInv'
    BY <1>2, JobInvInductive DEF JobInv
  <2>2. CASE \E w \in Workers : Work(w) \/ WorkerFault(w)
    BY <1>2, <2>1, <2>2, WorkReal, WorkImage, WorkLeases, WorkDeleted, WorkCreated DEF ImageInv
  <2>3. CASE Handlers
    BY <1>2, <2>1, <2>3, HandlersReal, HandlersImage, HandlersLease, HandlersDeleted DEF ImageInv
  <2>4. CASE (\E ws \in Workspaces : DropDelete(ws)) \/ UNCHANGED vars
    <3>1. UNCHANGED <<state, row, status, box, lease, task, pc, held, seen, port>> /\ disturbed \subseteq disturbed'
      BY <2>4 DEF DropDelete, Disturb, vars, store, worker, ghosts
    <3>2. RealInv'
      BY <1>2, <3>1 DEF RealInv, RealAt, ContainerKnown, MarkKnown, Acting, Here, Type
    <3>3. ImageInv'
      BY <1>2, <3>1 DEF ImageInv, JobsOfCreated, BuiltKnown, SeenKnown, Here, Type, ImageKnown
    <3>4. LeaseInv'
      BY <1>2, <3>1 DEF LeaseInv, LeaseAt, MadeBy, Resumed, PortHeld, ReleaseKnown, RemovalKnown, Acting, Here
    <3>5. /\ \A ws : Leased(ws)' = Leased(ws) /\ BrokenOff(ws)' = BrokenOff(ws)
          /\ \A w \in Workers : Here(w)' = Here(w) /\ Type(w)' = Type(w)
      BY <3>1 DEF Leased, BrokenOff, Here, Type
    <3>6. DeletedInv' /\ BoxOfCreated'
      <4>1. BoxOfCreated'
        BY <1>2, <3>1 DEF BoxOfCreated, NoBox
      <4>2. ASSUME NEW ws \in Workspaces PROVE DeletedAt(ws)' /\ ScrapAt(ws)'
        BY <1>2, <3>1, <3>5 DEF DeletedInv, DeletedAt, ScrapAt, Acting, NoBox
      <4>3. ASSUME NEW w \in Workers PROVE DeletionKnown(w)' /\ RemovedKnown(w)'
        BY <1>2, <3>1 DEF DeletedInv, DeletionKnown, RemovedKnown, NoBox, Leased, BrokenOff, Here, Type
      <4> QED BY <4>1, <4>2, <4>3 DEF DeletedInv
    <3> QED BY <2>1, <3>2, <3>3, <3>4, <3>6
  <2> QED BY <1>2, <2>2, <2>3, <2>4 DEF Next
<1>3. IInv => DeletedHoldsNothing
  BY DEF DeletedInv, DeletedAt, DeletedHoldsNothing
<1> QED BY <1>1, <1>2, <1>3, LifecycleAssumption, PTL DEF Spec

-----------------------------------------------------------------------------
(* One worker: what it takes to bring a deleted workspace back *)

\* The row and all before it have left the queue.
Passed(k) == \A j \in Jobs : j <= k => status[j] \notin {"absent", "queued"}

\* Rows are filled from the first.
RowsInOrder == \A j, k \in Jobs : j < k /\ status[k] # "absent" => status[j] # "absent"

\* The oldest queued job is taken, so what is behind a worker's job is over.
HeldPassed == \A w \in Workers : held[w] # NoJob => Passed(held[w])

\* A deletion of the workspace is over, or is what the worker is at.
DeletionPassed(ws) == \E d \in Jobs : /\ IsDeletion(d, ws) /\ Passed(d)
                                      /\ \A w \in Workers : held[w] # NoJob => d <= held[w]

\* A deletion fails only because it was asked to stop.
DeletionStops(w) == pc[w] \in FailSteps /\ Type(w) = "delete_workspace" => outcome[w] = "cancelled"

LastInv == /\ RowsInOrder /\ HeldPassed
           /\ \A ws \in Workspaces : state[ws] = "deleted" => DeletionPassed(ws)
           /\ \A w \in Workers : DeletionStops(w)

LastsAt(ws) == state[ws] = "deleted" /\ ~QueuedBehindDeletion(ws) /\ ~DeletionStopped(ws) =>
                 state'[ws] \in {"deleted", "deleting"}

(* With no earlier place free a row is inserted behind all others. *)
LEMMA InsertLast ==
  ASSUME MaxLate = 0, LifecycleAssumption, Core, RowsInOrder, NEW ws, NEW type, InsertJob(ws, type)
  PROVE  RowsInOrder'
<1>1. PICK i \in Jobs : /\ status[i] = "absent"
                        /\ Cardinality({k \in Jobs : k < i /\ status[k] = "absent"}) <= MaxLate
                        /\ status' = [status EXCEPT ![i] = "queued"]
  BY DEF InsertJob
<1> DEFINE S == {k \in Jobs : k < i /\ status[k] = "absent"}
<1>2. IsFiniteSet(S)
  <2>1. IsFiniteSet(1 .. MaxJobs) /\ S \subseteq 1 .. MaxJobs
    BY FS_Interval, LifecycleAssumption DEF Jobs
  <2> QED BY <2>1, FS_Subset
<1>3. S = {}
  <2>1. Cardinality(S) \in Nat /\ Cardinality(S) <= 0
    BY <1>1, <1>2, FS_CardinalityType
  <2> QED BY <1>2, <2>1, FS_EmptySet
<1>4. \A k \in Jobs : k < i => status[k] # "absent"
  BY <1>3
<1> QED BY <1>1, <1>4 DEF RowsInOrder, Core, TypeOK

(* What has left the queue stays out of it, so the worker's place only advances. *)
LEMMA PassedStays == ASSUME JobsStay, NEW k \in Jobs, Passed(k) PROVE Passed(k)'
  BY DEF JobsStay, Passed

(* A job that is taken, or kept, has everything before it out of the queue. *)
LEMMA HeldAdvances ==
  ASSUME Core, RowsInOrder, HeldPassed, JobsStay,
         \A v \in Workers : held'[v] # NoJob =>
            \/ held'[v] = held[v]
            \/ /\ held'[v] \in Jobs /\ status[held'[v]] = "queued" /\ status'[held'[v]] = "running"
               /\ \A k \in Jobs : status[k] = "queued" => held'[v] <= k
  PROVE  /\ HeldPassed'
         /\ OneWorker => \A ws \in Workspaces : DeletionPassed(ws) => DeletionPassed(ws)'
<1>1. ASSUME NEW v \in Workers, held'[v] # NoJob PROVE Passed(held[v])'
  <2>1. CASE held'[v] = held[v]
    <3>1. PICK k \in Jobs : k = held[v] /\ Passed(k)
      BY <1>1, <2>1 DEF Core, TypeOK, HeldPassed
    <3>2. Passed(k)'
      BY <3>1, PassedStays
    <3> QED BY <2>1, <3>1, <3>2 DEF Passed
  <2>2. CASE held'[v] # held[v]
    <3>1. PICK j \in Jobs : /\ held'[v] = j /\ status[j] = "queued" /\ status'[j] = "running"
                            /\ \A k \in Jobs : status[k] = "queued" => j <= k
      BY <1>1, <2>2
    <3>2. ASSUME NEW k \in Jobs, k <= j PROVE status'[k] \notin {"absent", "queued"}
      <4>1. CASE k = j
        BY <3>1, <4>1
      <4>2. CASE k # j
        <5>1. k < j /\ status[k] # "absent" /\ status[k] # "queued"
          BY <3>1, <3>2, <4>2 DEF RowsInOrder, Jobs
        <5> QED BY <5>1 DEF JobsStay
      <4> QED BY <4>1, <4>2
    <3> QED BY <3>1, <3>2 DEF Passed
  <2> QED BY <2>1, <2>2
<1>2. ASSUME NEW ws \in Workspaces, DeletionPassed(ws) PROVE DeletionPassed(ws)'
  <2>1. PICK d \in Jobs : /\ IsDeletion(d, ws) /\ Passed(d)
                          /\ \A w \in Workers : held[w] # NoJob => d <= held[w]
    BY <1>2 DEF DeletionPassed
  <2>2. Passed(d)' /\ IsDeletion(d, ws)'
    BY <2>1, PassedStays DEF IsDeletion, JobsStay, Passed, Jobs
  <2>3. ASSUME NEW v \in Workers, held'[v] # NoJob PROVE d <= held'[v]
    <3>1. CASE held'[v] = held[v]
      BY <2>1, <2>3, <3>1
    <3>2. CASE held'[v] # held[v]
      BY <2>1, <2>3, <3>2 DEF Passed, Jobs
    <3> QED BY <3>1, <3>2
  <2> QED BY <2>2, <2>3 DEF DeletionPassed
<1> QED BY <1>1, <1>2 DEF HeldPassed

(* Handlers keep the workers' jobs and append their rows. *)
LEMMA HandlersLast ==
  ASSUME MaxLate = 0, OneWorker, LifecycleAssumption, Core, LastInv, Handlers
  PROVE  LastInv' /\ \A ws \in Workspaces : LastsAt(ws)
<1>1. HandlersKeep /\ JobsStay
  BY HandlersKept, HandlersStay
<1>2. RowsInOrder'
  <2>1. CASE \E ws, type : InsertJob(ws, type)
    BY <2>1, InsertLast DEF LastInv
  <2>2. CASE ~\E ws, type : InsertJob(ws, type)
    <3>1. \/ status' = status
          \/ \E j \in Jobs : status[j] # "absent" /\ status' = [status EXCEPT ![j] = "erased"]
      BY <2>2 DEF Handlers, CreateWorkspace, QueueDeleteJob, SetDeleting, RequestCancel, ResumeJob, DeleteJob, Finished
    <3> QED BY <3>1 DEF LastInv, RowsInOrder, Core, TypeOK
  <2> QED BY <2>1, <2>2
<1>3. UNCHANGED worker
  BY <1>1 DEF HandlersKeep
<1>4. HeldPassed' /\ \A ws \in Workspaces : DeletionPassed(ws) => DeletionPassed(ws)'
  BY <1>1, <1>3, HeldAdvances DEF LastInv, worker
<1>5. \A ws \in Workspaces : /\ state'[ws] = "deleted" => state[ws] = "deleted"
                             /\ state[ws] = "deleted" => state'[ws] \in {"deleted", "deleting"}
  BY DEF Handlers, CreateWorkspace, QueueDeleteJob, SetDeleting, RequestCancel, ResumeJob, DeleteJob, Core, TypeOK
<1>6. ASSUME NEW w \in Workers PROVE DeletionStops(w)'
  <2>1. CASE pc[w] = "idle"
    BY <1>3, <2>1 DEF DeletionStops, worker, FailSteps
  <2>2. CASE pc[w] # "idle"
    <3>1. Type(w)' = Type(w)
      BY <1>1, <1>3, <2>2 DEF HandlersKeep, KeepsTasks, Core, HeldKnown, Type, worker
    <3> QED BY <1>3, <3>1 DEF LastInv, DeletionStops, worker
  <2> QED BY <2>1, <2>2
<1> QED BY <1>2, <1>4, <1>5, <1>6 DEF LastInv, LastsAt

(* A worker ends jobs, leases the oldest, or appends the follow-up of a build. *)
LEMMA WorkOrdered ==
  ASSUME MaxLate = 0, LifecycleAssumption, Core, RowsInOrder, NEW w \in Workers, Work(w) \/ WorkerFault(w)
  PROVE  RowsInOrder'
<1>1. CASE EnqueueFollowUp(w)
  BY <1>1, InsertLast DEF EnqueueFollowUp
<1>2. CASE LeaseNextJob(w)
  BY <1>2 DEF LeaseNextJob, RowsInOrder, Core, TypeOK
<1>3. CASE SetDone(w) \/ FailJob(w) \/ LoadFails(w)
  <2>1. PICK s \in Finished : status' = [status EXCEPT ![held[w]] = s]
    BY <1>3 DEF SetDone, FailJob, LoadFails, SetStatus, Core, StepsMatch, FailSteps, Finished
  <2>2. status[held[w]] # "absent" /\ s # "absent"
    BY <1>3, HeldTask DEF SetDone, FailJob, LoadFails, Core, HeldKnown, Finished
  <2> QED BY <2>1, <2>2 DEF RowsInOrder, Core, TypeOK
<1>4. CASE ~EnqueueFollowUp(w) /\ ~LeaseNextJob(w) /\ ~SetDone(w) /\ ~FailJob(w) /\ ~LoadFails(w)
  <2>1. status' = status
    BY <1>4 DEF Work, WorkerFault, LoadWorkspace, StartJob, FailWorkspace, MarkDeleted, SetImage, RecordProvisioned,
       ReleaseAfterError, ReleaseDeleted, BuildCheck, BuildImage, AllocatePort, AllocateFails, ProvisionCheck,
       RequireImage, CommandFails, CreateVolume, CreateContainer, StartCheck, StartContainer,
       DeleteCheck, RemoveContainer, RemoveVolume, Check, Crash, StatementFails,
       AllocateOrSecretFails, ErrorIgnored, store
  <2> QED BY <2>1 DEF RowsInOrder
<1> QED BY <1>1, <1>2, <1>3, <1>4

(* A worker goes on with its job, leaves it, or takes the oldest. *)
LEMMA WorkAdvances ==
  ASSUME Core, NEW w \in Workers, Work(w) \/ WorkerFault(w), NEW v \in Workers, held'[v] # NoJob
  PROVE  \/ held'[v] = held[v]
         \/ /\ held'[v] \in Jobs /\ status[held'[v]] = "queued" /\ status'[held'[v]] = "running"
            /\ \A k \in Jobs : status[k] = "queued" => held'[v] <= k
<1>1. CASE LeaseNextJob(w)
  BY <1>1 DEF LeaseNextJob, Core, TypeOK
<1>2. CASE ~LeaseNextJob(w)
  <2>1. held' = held \/ GoIdle(w)
    BY <1>2 DEF Work, WorkerFault, LoadWorkspace, StartJob, FailWorkspace, MarkDeleted, SetImage, RecordProvisioned,
       ReleaseAfterError, ReleaseDeleted, BuildCheck, BuildImage, AllocatePort, AllocateFails, ProvisionCheck,
       RequireImage, CommandFails, CreateVolume, CreateContainer, StartCheck, StartContainer,
       DeleteCheck, RemoveContainer, RemoveVolume, Check, Crash, StatementFails,
       AllocateOrSecretFails, ErrorIgnored, SetDone, FailJob, LoadFails, EnqueueFollowUp, Goto, Fail
  <2> QED BY <2>1, MoveIdle DEF Core
<1> QED BY <1>1, <1>2

(* A deletion comes to failJob from its cancellation check alone. *)
LEMMA WorkStopsDeletion ==
  ASSUME OneWorker, LifecycleAssumption, Core, JobsStay, LastInv, NEW w \in Workers, Work(w) \/ WorkerFault(w)
  PROVE  \A v \in Workers : DeletionStops(v)'
<1> SUFFICES DeletionStops(w)'
  BY DEF OneWorker
<1>1. CASE GoIdle(w)
  BY <1>1, MoveIdle DEF DeletionStops, FailSteps, Core
<1>2. CASE LeaseNextJob(w)
  BY <1>2 DEF LeaseNextJob, DeletionStops, FailSteps, Core, TypeOK
<1>3. CASE ~GoIdle(w) /\ ~LeaseNextJob(w)
  <2>1. held' = held /\ pc[w] # "idle"
    <3>1. CASE WorkerFault(w)
      BY <1>3, <3>1 DEF WorkerFault, Crash, LoadFails, StatementFails, AllocateOrSecretFails, ErrorIgnored,
         AfterIgnored, Goto, Fail
    <3>2. CASE Work(w)
      <4>1. pc[w] # "idle"
        BY <1>3, <3>2 DEF Work, LoadWorkspace, StartJob, FailWorkspace, MarkDeleted, SetImage, RecordProvisioned,
           ReleaseAfterError, ReleaseDeleted, BuildCheck, BuildImage, AllocatePort, AllocateFails, ProvisionCheck,
           RequireImage, CommandFails, CreateVolume, CreateContainer, StartCheck, StartContainer,
           DeleteCheck, RemoveContainer, RemoveVolume, Check, SetDone, FailJob, EnqueueFollowUp
      <4>2. held' = held
        BY <1>3, <3>2 DEF Work, LoadWorkspace, StartJob, FailWorkspace, MarkDeleted, SetImage, RecordProvisioned,
           ReleaseAfterError, ReleaseDeleted, BuildCheck, BuildImage, AllocatePort, AllocateFails, ProvisionCheck,
           RequireImage, CommandFails, CreateVolume, CreateContainer, StartCheck, StartContainer,
           DeleteCheck, RemoveContainer, RemoveVolume, Check, SetDone, FailJob, EnqueueFollowUp, Goto, Fail
      <4> QED BY <4>1, <4>2
    <3> QED BY <3>1, <3>2
  <2>2. Type(w)' = Type(w)
    BY <2>1, HeldTask DEF JobsStay, Core, HeldKnown, Type
  <2>3. CASE Type(w) # "delete_workspace"
    BY <2>2, <2>3 DEF DeletionStops
  <2>4. CASE DeleteCheck(w)
    BY <2>4 DEF DeleteCheck, Check, Goto, Fail, DeletionStops, FailSteps, Core, TypeOK
  <2>5. CASE FailJob(w) \/ ErrorIgnored(w)
    <3>1. outcome' = outcome /\ (pc[w] \in FailSteps \/ \E step : step \notin FailSteps /\ pc' = [pc EXCEPT ![w] = step])
      BY <1>3, <2>5 DEF FailJob, ErrorIgnored, AfterIgnored, Goto, FailSteps
    <3> QED BY <2>2, <3>1 DEF LastInv, DeletionStops, Core, TypeOK
  <2>6. CASE Type(w) = "delete_workspace" /\ ~DeleteCheck(w) /\ ~FailJob(w) /\ ~ErrorIgnored(w)
    <3>1. pc[w] \notin BuildSteps \cup ProvisionSteps \cup {"start"}
      BY <2>6 DEF Core, StepsMatch
    <3>2. \E step : step \notin FailSteps /\ pc' = [pc EXCEPT ![w] = step]
      BY <1>3, <2>6, <3>1 DEF Work, WorkerFault, LoadWorkspace, StartJob, FailWorkspace, MarkDeleted, SetImage,
       RecordProvisioned, ReleaseAfterError, ReleaseDeleted, BuildCheck, BuildImage, AllocatePort, AllocateFails,
       ProvisionCheck, RequireImage, CommandFails, CreateVolume, CreateContainer, StartCheck, StartContainer,
       RemoveContainer, RemoveVolume, Check, Crash, StatementFails,
       AllocateOrSecretFails, SetDone, LoadFails, EnqueueFollowUp, Goto,
       FailSteps, BuildSteps, ProvisionSteps
    <3> QED BY <3>2 DEF DeletionStops, Core, TypeOK
  <2> QED BY <2>3, <2>4, <2>5, <2>6
<1> QED BY <1>1, <1>2, <1>3

(* The worker that writes to a deleted workspace is at a job behind its deletion. *)
LEMMA WorkLasts ==
  ASSUME LifecycleAssumption, Core, StopInv, LastInv, NEW w \in Workers, Work(w) \/ WorkerFault(w), NEW ws \in Workspaces
  PROVE  /\ LastsAt(ws)
         /\ state'[ws] = "deleted" => state[ws] = "deleted" \/ (MarkDeleted(w) /\ ws = Here(w))
<1>1. CASE MarkDeleted(w)
  BY <1>1 DEF MarkDeleted, SetState, LastsAt, Core, TypeOK
<1>2. CASE StartJob(w) \/ RecordProvisioned(w) \/ FailWorkspace(w)
  <2>1. /\ pc[w] # "idle"
        /\ \E s \in States \ {"deleted"} : state' = [state EXCEPT ![Here(w)] = s]
    BY <1>2 DEF StartJob, RecordProvisioned, FailWorkspace, SetState, States
  <2>2. ASSUME ws = Here(w), state[ws] = "deleted", ~QueuedBehindDeletion(ws) PROVE DeletionStopped(ws)
    <3>1. held[w] \in Jobs /\ task[held[w]].ws = ws /\ held[w] # NoJob
      BY <2>1, <2>2, HeldTask DEF Here, Core, HeldKnown
    <3>2. PICK d \in Jobs : IsDeletion(d, ws) /\ d <= held[w]
      BY <2>2, <3>1 DEF LastInv, DeletionPassed
    <3>3. IsDeletion(held[w], ws)
      BY <2>2, <3>1, <3>2 DEF QueuedBehindDeletion, Jobs
    <3>4. FailWorkspace(w)
      BY <1>2, <3>3 DEF IsDeletion, StartJob, RecordProvisioned, Core, StepsMatch, ProvisionSteps, Type
    <3>5. outcome[w] = "cancelled"
      BY <3>3, <3>4 DEF LastInv, DeletionStops, FailWorkspace, FailSteps, IsDeletion, Type
    <3> QED BY <3>1, <3>3, <3>5 DEF StopInv, FlagSeen, StopAsked, DeletionStopped
  <2> QED BY <2>1, <2>2 DEF LastsAt, Core, TypeOK
<1>3. CASE ~MarkDeleted(w) /\ ~StartJob(w) /\ ~RecordProvisioned(w) /\ ~FailWorkspace(w)
  <2>1. state' = state
    BY <1>3 DEF Work, WorkerFault, LoadWorkspace, SetImage, SetDone, FailJob, EnqueueFollowUp, LeaseNextJob,
       ReleaseAfterError, ReleaseDeleted, BuildCheck, BuildImage, AllocatePort, AllocateFails, ProvisionCheck,
       RequireImage, CommandFails, CreateVolume, CreateContainer, StartCheck, StartContainer,
       DeleteCheck, RemoveContainer, RemoveVolume, Check, Crash, StatementFails, LoadFails,
       AllocateOrSecretFails, ErrorIgnored, store
  <2> QED BY <2>1 DEF LastsAt
<1> QED BY <1>1, <1>2, <1>3

(* So the worker's deletion is the last one when it ends. *)
LEMMA WorkLast ==
  ASSUME MaxLate = 0, OneWorker, LifecycleAssumption, Core, StopInv, LastInv, NEW w \in Workers, Work(w) \/ WorkerFault(w)
  PROVE  LastInv' /\ \A ws \in Workspaces : LastsAt(ws)
<1>1. JobsStay /\ RowsInOrder'
  BY WorkStays, WorkOrdered DEF LastInv
<1>2. HeldPassed' /\ \A ws \in Workspaces : DeletionPassed(ws) => DeletionPassed(ws)'
  <2>1. \A v \in Workers : held'[v] # NoJob =>
            \/ held'[v] = held[v]
            \/ /\ held'[v] \in Jobs /\ status[held'[v]] = "queued" /\ status'[held'[v]] = "running"
               /\ \A k \in Jobs : status[k] = "queued" => held'[v] <= k
    BY WorkAdvances
  <2> QED BY <1>1, <2>1, HeldAdvances DEF LastInv
<1>3. \A v \in Workers : DeletionStops(v)'
  BY <1>1, WorkStopsDeletion
<1>4. ASSUME NEW ws \in Workspaces, state'[ws] = "deleted" PROVE DeletionPassed(ws)'
  <2>1. CASE state[ws] = "deleted"
    BY <1>2, <2>1 DEF LastInv
  <2>2. CASE MarkDeleted(w) /\ ws = Here(w)
    <3>1. held[w] \in Jobs /\ held[w] # NoJob /\ IsDeletion(held[w], ws)
      BY <2>2, HeldTask DEF MarkDeleted, IsDeletion, Tasks, Here, Type, Core, HeldKnown, StepsMatch, DeleteSteps
    <3>2. Passed(held[w]) /\ \A v \in Workers : held[v] # NoJob => held[w] <= held[v]
      BY <3>1 DEF LastInv, HeldPassed, OneWorker, Jobs
    <3>3. DeletionPassed(ws)
      BY <3>1, <3>2 DEF DeletionPassed
    <3> QED BY <1>2, <3>3
  <2> QED BY <1>4, <2>1, <2>2, WorkLasts
<1> QED BY <1>1, <1>2, <1>3, <1>4, WorkLasts DEF LastInv

(* With one worker and rows inserted in the order of their times, for any       *)
(* requests, builds, faults and numbers: a deleted workspace comes back only by *)
(* a build or provisioning queued behind a deletion of it, or by the stop of    *)
(* one.                                                                         *)
THEOREM DeletionsLast == ASSUME OneWorker, MaxLate = 0 PROVE Spec => DeletionLasts
<1> DEFINE IInv == Core /\ StopInv /\ LastInv
           Lasts == \A ws \in Workspaces : LastsAt(ws)
<1>1. ASSUME LifecycleAssumption, Init PROVE IInv
  <2>1. Core
    BY <1>1, CoreStarts
  <2>2. StopInv /\ LastInv
    BY <1>1 DEF Init, StopInv, CancelledByStop, FlagSeen, LastInv, RowsInOrder, HeldPassed, DeletionStops, FailSteps
  <2> QED BY <2>1, <2>2
<1>2. ASSUME LifecycleAssumption, IInv, [Next]_vars PROVE IInv' /\ Lasts
  <2>1. Core'
    BY <1>2, CoreInductive
  <2>2. CASE \E w \in Workers : Work(w) \/ WorkerFault(w)
    BY <1>2, <2>1, <2>2, WorkStops, WorkLast
  <2>3. CASE Handlers
    BY <1>2, <2>1, <2>3, HandlersStop, HandlersLast
  <2>4. CASE (\E ws \in Workspaces : DropDelete(ws)) \/ UNCHANGED vars
    <3>1. UNCHANGED <<state, status, task, cancel, pc, held, outcome>>
      BY <2>4 DEF DropDelete, vars, store, worker
    <3>2. StopInv' /\ Lasts
      BY <1>2, <3>1 DEF StopInv, CancelledByStop, FlagSeen, StopAsked, LastsAt
    <3>3. LastInv'
      BY <1>2, <3>1 DEF LastInv, RowsInOrder, HeldPassed, Passed, DeletionPassed, IsDeletion, DeletionStops, Type
    <3> QED BY <2>1, <3>2, <3>3
  <2> QED BY <1>2, <2>2, <2>3, <2>4 DEF Next
<1>3. Lasts => [\A ws \in Workspaces :
         state[ws] = "deleted" /\ ~QueuedBehindDeletion(ws) /\ ~DeletionStopped(ws) =>
           state'[ws] \in {"deleted", "deleting"}]_vars
  BY DEF LastsAt
<1> QED BY <1>1, <1>2, <1>3, LifecycleAssumption, PTL DEF Spec, DeletionLasts

-----------------------------------------------------------------------------
(* Any number of workers: a workspace shown as running is served *)

\* The provisioning comes when nobody works on the build any more, or will.
FollowsBuild == \A ws \in Workspaces : Plain(ws) => \A j, k \in Jobs :
  /\ task[j] = [ws |-> ws, type |-> "provision_workspace"]
  /\ task[k] = [ws |-> ws, type |-> "build_image"]
  => status[k] \notin {"absent", "queued"} /\ \A w \in Workers : held[w] # k

\* The container has its one creator, its port and, when it is shown, its row.
ServedAt(ws) == ws \notin disturbed /\ Plain(ws) =>
  /\ box[ws].container # "none" => MadeBy(ws)
  /\ box[ws].container = "running" => box[ws].port \in Ports /\ lease[box[ws].port] = ws
  /\ state[ws] = "running" => box[ws].container = "running" /\ box[ws].port = row[ws].sshPort

\* The worker on it holds its port, has it in the container, or gives back an unused one.
ServingKnown(w) == pc[w] # "idle" /\ Here(w) \notin disturbed /\ Plain(Here(w)) =>
  /\ PortHeld(w)
  /\ pc[w] \in {"start_check", "start_container"} =>
       box[Here(w)].container = "created" /\ box[Here(w)].port = port[w]
  /\ pc[w] = "record" => box[Here(w)].container = "running" /\ box[Here(w)].port = port[w]
  /\ pc[w] = "release" => box[Here(w)].container # "running"

ServedInv == /\ \A ws \in Workspaces : ServedAt(ws)
             /\ \A w \in Workers : ServingKnown(w)

(* What a workspace is spared so far, it was spared before. *)
LEMMA PlainBack == ASSUME LifecycleAssumption, Core, JobsStay, NEW ws \in Workspaces, Plain(ws)'
                   PROVE  Plain(ws)
<1>1. ~Resumed(ws)
  BY ResumedStays DEF Plain
<1>2. ASSUME NEW j \in Jobs, task[j].ws = ws PROVE task[j].type # "delete_workspace"
  <2>1. status[j] # "absent"
    BY <1>2 DEF Core, JobsKnown, NoTask, LifecycleAssumption
  <2> QED BY <1>2, <2>1 DEF JobsStay, Plain
<1> QED BY <1>1, <1>2 DEF Plain

(* No two workers are at work for it. *)
LEMMA OneActing == ASSUME JobInv, FollowsBuild, NEW ws \in Workspaces, Plain(ws),
                          NEW v \in Workers, NEW w \in Workers, Acting(v, ws), Acting(w, ws)
                   PROVE  v = w
<1> SUFFICES ASSUME v # w PROVE FALSE
  OBVIOUS
<1>1. /\ held[v] \in Jobs /\ held[w] \in Jobs /\ held[v] # held[w]
      /\ task[held[v]] \in Tasks /\ task[held[w]] \in Tasks
      /\ task[held[v]].ws = ws /\ task[held[w]].ws = ws
  BY HeldTask DEF JobInv, HeldApart, Acting, Core, HeldKnown, Here
<1>2. ASSUME NEW u \in {v, w}
      PROVE  \/ task[held[u]] = [ws |-> ws, type |-> "provision_workspace"]
             \/ task[held[u]] = [ws |-> ws, type |-> "build_image"]
  BY <1>1, <1>2 DEF Plain, Tasks, JobTypes
<1>3. task[held[v]] # task[held[w]]
  BY <1>1 DEF Plain, Resumed
<1> QED BY <1>1, <1>2, <1>3 DEF FollowsBuild

(* Jobs that are there stay in their order. *)
LEMMA FollowsOld ==
  ASSUME LifecycleAssumption, Core, FollowsBuild, JobsStay, HandsKeep,
         NEW ws \in Workspaces, Plain(ws)', NEW j \in Jobs, NEW k \in Jobs, status[j] # "absent", status[k] # "absent",
         task'[j] = [ws |-> ws, type |-> "provision_workspace"], task'[k] = [ws |-> ws, type |-> "build_image"]
  PROVE  status'[k] \notin {"absent", "queued"} /\ \A v \in Workers : held'[v] # k
<1>1. task[j] = task'[j] /\ task[k] = task'[k] /\ Plain(ws)
  BY PlainBack DEF JobsStay
<1>2. status[k] \notin {"absent", "queued"} /\ \A v \in Workers : held[v] # k
  BY <1>1 DEF FollowsBuild
<1> QED BY <1>2 DEF JobsStay, HandsKeep, NoJob, Jobs

(* So they do with a row more, unless it is a build or a provisioning of a       *)
(* workspace that has one.                                                       *)
LEMMA FollowsInsert ==
  ASSUME LifecycleAssumption, Core, Core', FollowsBuild, JobsStay, HandsKeep,
         NEW i \in Jobs, NEW T \in Tasks, status[i] = "absent", task' = [task EXCEPT ![i] = T],
         status' = [status EXCEPT ![i] = "queued"],
         \/ T.type = "delete_workspace"
         \/ \E j \in Jobs : j # i /\ task[j] = T
         \/ \A j \in Jobs : task[j].ws # T.ws
         \/ /\ T.type = "provision_workspace"
            /\ \A k \in Jobs : task[k] = [ws |-> T.ws, type |-> "build_image"] =>
                 \/ \E j \in Jobs : j # k /\ task[j] = task[k]
                 \/ status[k] \notin {"absent", "queued"} /\ \A v \in Workers : held'[v] # k
  PROVE  FollowsBuild'
<1> SUFFICES ASSUME NEW ws \in Workspaces, Plain(ws)', NEW j \in Jobs, NEW k \in Jobs,
                    task'[j] = [ws |-> ws, type |-> "provision_workspace"],
                    task'[k] = [ws |-> ws, type |-> "build_image"]
             PROVE  status'[k] \notin {"absent", "queued"} /\ \A v \in Workers : held'[v] # k
  BY DEF FollowsBuild
<1>1. task'[i] = T /\ \A m \in Jobs \ {i} : task'[m] = task[m] /\ status'[m] = status[m]
  BY DEF Core, TypeOK
<1>2. j # k /\ \A m \in Jobs : status'[m] = "absent" => task'[m] = NoTask
  BY DEF Core, JobsKnown
<1>3. CASE j # i /\ k # i
  <2>1. status[j] # "absent" /\ status[k] # "absent"
    BY <1>1, <1>2, <1>3 DEF NoTask, LifecycleAssumption
  <2> QED BY <2>1, FollowsOld
<1>4. CASE j = i \/ k = i
  <2>1. T.ws = ws /\ T.type # "delete_workspace"
    BY <1>1, <1>4
  <2>2. \A m \in Jobs \ {i} : task[m] # T
    <3> SUFFICES ASSUME NEW m \in Jobs \ {i}, task[m] = T PROVE FALSE
      OBVIOUS
    <3>1. Resumed(ws)'
      BY <1>1, <2>1 DEF Resumed
    <3> QED BY <3>1 DEF Plain
  <2>3. \E m \in Jobs : m # i /\ task[m].ws = ws
    BY <1>1, <1>2, <1>4
  <2>4. /\ T.type = "provision_workspace"
        /\ \/ \E m \in Jobs : m # k /\ task[m] = task[k]
           \/ status[k] \notin {"absent", "queued"} /\ \A v \in Workers : held'[v] # k
    BY <1>1, <1>2, <1>4, <2>1, <2>2, <2>3
  <2>5. j = i /\ k # i
    BY <1>1, <1>2, <1>4, <2>4
  <2>6. ~\E m \in Jobs : m # k /\ task[m] = task[k]
    <3> SUFFICES ASSUME NEW m \in Jobs, m # k, task[m] = task[k] PROVE FALSE
      OBVIOUS
    <3>1. m # i
      BY <1>1, <1>2, <2>5 DEF Core, JobsKnown, NoTask, LifecycleAssumption
    <3>2. Resumed(ws)'
      BY <1>1, <2>5, <3>1 DEF Resumed
    <3> QED BY <3>2 DEF Plain
  <2> QED BY <1>1, <2>4, <2>5, <2>6
<1> QED BY <1>3, <1>4

(* Workers insert no row but the provisioning a build is followed by. *)
LEMMA WorkFollows == ASSUME LifecycleAssumption, JobInv, Core', FollowsBuild, NEW w \in Workers, Work(w) \/ WorkerFault(w)
                     PROVE  FollowsBuild' /\ disturbed \subseteq disturbed'
<1>0. JobsStay /\ HandsKeep /\ Core
  BY WorkStays, WorkHands DEF JobInv
<1>1. CASE EnqueueFollowUp(w)
  <2>1. /\ InsertJob(Here(w), "provision_workspace") /\ GoIdle(w) /\ disturbed' = disturbed
        /\ pc[w] = "follow_up" /\ held[w] \in Jobs /\ Here(w) \in Workspaces
    BY <1>1, HeldTask, <1>0 DEF EnqueueFollowUp, ghosts
  <2> DEFINE T == [ws |-> Here(w), type |-> "provision_workspace"]
  <2>2. PICK i \in Jobs : /\ status[i] = "absent" /\ status' = [status EXCEPT ![i] = "queued"]
                          /\ task' = [task EXCEPT ![i] = T]
    BY <2>1 DEF InsertJob
  <2>3. task[held[w]] = [ws |-> Here(w), type |-> "build_image"] /\ status[held[w]] \notin {"absent", "queued"}
    BY <1>0, <2>1, HeldTask DEF Core, HeldKnown, StepsMatch, BuildSteps, Tasks, Here, Type, NoJob, Jobs
  <2>4. \A v \in Workers : held'[v] # held[w]
    BY <1>0, <2>1, MoveIdle DEF JobInv, HeldApart, Core, NoJob, Jobs
  <2>5. ASSUME NEW k \in Jobs, task[k] = [ws |-> T.ws, type |-> "build_image"]
        PROVE  \/ \E j \in Jobs : j # k /\ task[j] = task[k]
               \/ status[k] \notin {"absent", "queued"} /\ \A v \in Workers : held'[v] # k
    BY <2>1, <2>3, <2>4, <2>5
  <2>6. T \in Tasks /\ T.type = "provision_workspace"
    BY <2>1 DEF Tasks, JobTypes
  <2> HIDE DEF T
  <2> QED BY <1>0, <2>1, <2>2, <2>5, <2>6, FollowsInsert
<1>2. CASE ~EnqueueFollowUp(w)
  <2>1. task' = task /\ disturbed \subseteq disturbed'
    BY <1>2 DEF Work, WorkerFault, LoadWorkspace, StartJob, FailWorkspace, MarkDeleted, SetImage, RecordProvisioned,
       ReleaseAfterError, ReleaseDeleted, BuildCheck, BuildImage, AllocatePort, AllocateFails, ProvisionCheck,
       RequireImage, CommandFails, CreateVolume, CreateContainer, StartCheck, StartContainer,
       DeleteCheck, RemoveContainer, RemoveVolume, Check, Crash, StatementFails,
       AllocateOrSecretFails, ErrorIgnored, LeaseNextJob, SetDone, FailJob, LoadFails, Disturb, store, ghosts
  <2>2. ASSUME NEW ws \in Workspaces, NEW j \in Jobs, task[j].ws = ws PROVE status[j] # "absent"
    BY <1>0, <2>2 DEF Core, JobsKnown, NoTask, LifecycleAssumption
  <2>3. ASSUME NEW ws \in Workspaces, Plain(ws)', NEW j \in Jobs, NEW k \in Jobs,
               task'[j] = [ws |-> ws, type |-> "provision_workspace"],
               task'[k] = [ws |-> ws, type |-> "build_image"]
        PROVE  status'[k] \notin {"absent", "queued"} /\ \A v \in Workers : held'[v] # k
    <3>1. status[j] # "absent" /\ status[k] # "absent"
      BY <2>1, <2>2, <2>3
    <3> QED BY <1>0, <2>1, <2>3, <3>1, FollowsOld
  <2> QED BY <2>1, <2>3 DEF FollowsBuild
<1> QED BY <1>1, <1>2

(* No handler asks for a build again but by resuming it. *)
LEMMA HandlersFollow == ASSUME LifecycleAssumption, Core, Core', JobsOfCreated, FollowsBuild, Handlers
                        PROVE  FollowsBuild'
<1>1. HandlersKeep /\ JobsStay
  BY HandlersKept, HandlersStay
<1>2. HandsKeep /\ disturbed \subseteq disturbed'
  BY <1>1 DEF HandlersKeep, KeepsTasks, worker, HandsKeep
<1>3. ASSUME NEW ws \in Workspaces, NEW type \in JobTypes, InsertJob(ws, type),
             \/ type = "delete_workspace"
             \/ \E j \in Jobs : status[j] # "absent" /\ task[j] = [ws |-> ws, type |-> type]
             \/ \A j \in Jobs : task[j].ws # ws
      PROVE  FollowsBuild'
  <2> DEFINE T == [ws |-> ws, type |-> type]
  <2>1. PICK i \in Jobs : /\ status[i] = "absent" /\ status' = [status EXCEPT ![i] = "queued"]
                          /\ task' = [task EXCEPT ![i] = T]
    BY <1>3 DEF InsertJob
  <2>2. T \in Tasks /\ T.type = type /\ T.ws = ws
    BY DEF Tasks
  <2>3. \/ T.type = "delete_workspace"
        \/ \E j \in Jobs : j # i /\ task[j] = T
        \/ \A j \in Jobs : task[j].ws # T.ws
    BY <1>3, <2>1, <2>2
  <2> HIDE DEF T
  <2> QED BY <1>1, <1>2, <2>1, <2>2, <2>3, FollowsInsert
<1>4. ASSUME NEW ws \in Workspaces, NEW input \in Inputs, CreateWorkspace(ws, input) PROVE FollowsBuild'
  <2>1. \A j \in Jobs : task[j].ws # ws
    BY <1>4 DEF CreateWorkspace, JobsOfCreated, Core, JobsKnown, NoTask, LifecycleAssumption
  <2> QED BY <1>3, <1>4, <2>1 DEF CreateWorkspace, FirstJob, JobTypes
<1>5. ASSUME NEW ws \in Workspaces, QueueDeleteJob(ws) PROVE FollowsBuild'
  BY <1>3, <1>5 DEF QueueDeleteJob, JobTypes
<1>6. ASSUME NEW j \in Jobs, ResumeJob(j) PROVE FollowsBuild'
  <2>1. task[j] \in Tasks /\ status[j] # "absent"
    BY <1>6 DEF ResumeJob, Finished, Core, JobsKnown
  <2>2. task[j] = [ws |-> task[j].ws, type |-> task[j].type] /\ task[j].ws \in Workspaces /\ task[j].type \in JobTypes
    BY <2>1 DEF Tasks
  <2> QED BY <1>3, <1>6, <2>1, <2>2 DEF ResumeJob
<1>7. CASE (\E ws \in Workspaces : SetDeleting(ws)) \/ (\E j \in Jobs : RequestCancel(j) \/ DeleteJob(j))
  <2>1. task' = task
    BY <1>7 DEF SetDeleting, RequestCancel, DeleteJob
  <2>2. ASSUME NEW ws \in Workspaces, Plain(ws)', NEW j \in Jobs, NEW k \in Jobs,
               task'[j] = [ws |-> ws, type |-> "provision_workspace"],
               task'[k] = [ws |-> ws, type |-> "build_image"]
        PROVE  status'[k] \notin {"absent", "queued"} /\ \A v \in Workers : held'[v] # k
    <3>1. status[j] # "absent" /\ status[k] # "absent"
      BY <2>1, <2>2 DEF Core, JobsKnown, NoTask, LifecycleAssumption
    <3> QED BY <1>1, <1>2, <2>1, <2>2, <3>1, FollowsOld
  <2> QED BY <2>2 DEF FollowsBuild
<1> QED BY <1>4, <1>5, <1>6, <1>7 DEF Handlers

\* What a worker's step leaves to the other workers and workspaces.
Local(w) == /\ \A v \in Workers \ {w} : pc'[v] = pc[v] /\ held'[v] = held[v] /\ port'[v] = port[v]
            /\ \A ws \in Workspaces : pc[w] = "idle" \/ ws # Here(w) =>
                 /\ state'[ws] = state[ws] /\ row'[ws] = row[ws] /\ box'[ws] = box[ws]
                 /\ \A p \in Ports : lease[p] = ws <=> lease'[p] = ws

(* A worker works for the workspace of its job and for nothing else. *)
LEMMA WorkLocal == ASSUME LifecycleAssumption, Core, NEW w \in Workers, Work(w) \/ WorkerFault(w) PROVE Local(w)
<1>1. \A v \in Workers \ {w} : pc'[v] = pc[v] /\ held'[v] = held[v] /\ port'[v] = port[v]
  BY DEF Work, WorkerFault, LoadWorkspace, StartJob, FailWorkspace, MarkDeleted, SetImage, RecordProvisioned,
       ReleaseAfterError, ReleaseDeleted, BuildCheck, BuildImage, AllocatePort, AllocateFails, ProvisionCheck,
       RequireImage, CommandFails, CreateVolume, CreateContainer, StartCheck, StartContainer,
       DeleteCheck, RemoveContainer, RemoveVolume, Check, Crash, StatementFails,
       AllocateOrSecretFails, ErrorIgnored, LeaseNextJob, SetDone, FailJob, LoadFails, EnqueueFollowUp,
       Goto, Fail, GoIdle, Core, TypeOK
<1>2. CASE AllocatePort(w)
  <2>1. /\ UNCHANGED <<state, row, box>> /\ pc[w] # "idle"
        /\ \/ lease' = lease
           \/ \E p \in Ports : lease[p] = NoWorkspace /\ lease' = [lease EXCEPT ![p] = Here(w)]
    <3>1. FreeCandidates(seen[w].sshPort) \subseteq Ports /\ \A q \in FreeCandidates(seen[w].sshPort) : lease[q] = NoWorkspace
      BY DEF FreeCandidates, Candidates, Core, TypeOK, Rows
    <3> QED BY <1>2, <3>1 DEF AllocatePort
  <2> QED BY <1>1, <2>1 DEF Local, Core, TypeOK, LifecycleAssumption
<1>3. CASE ReleaseAfterError(w) \/ ReleaseDeleted(w)
  <2>1. /\ UNCHANGED <<state, row, box>> /\ pc[w] # "idle"
        /\ lease' = [p \in Ports |-> IF lease[p] = Here(w) THEN NoWorkspace ELSE lease[p]]
    BY <1>3 DEF ReleaseAfterError, ReleaseDeleted, FreePorts
  <2> QED BY <1>1, <2>1 DEF Local, LifecycleAssumption
<1>4. CASE ~AllocatePort(w) /\ ~ReleaseAfterError(w) /\ ~ReleaseDeleted(w)
  <2>1. lease' = lease
    BY <1>4 DEF Work, WorkerFault, LoadWorkspace, StartJob, FailWorkspace, MarkDeleted, SetImage, RecordProvisioned,
       BuildCheck, BuildImage, AllocateFails, ProvisionCheck,
       RequireImage, CommandFails, CreateVolume, CreateContainer, StartCheck, StartContainer,
       DeleteCheck, RemoveContainer, RemoveVolume, Check, Crash, StatementFails,
       AllocateOrSecretFails, ErrorIgnored, LeaseNextJob, SetDone, FailJob, LoadFails, EnqueueFollowUp, store
  <2>2. state' = state \/ (pc[w] # "idle" /\ \E s : state' = [state EXCEPT ![Here(w)] = s])
    BY <1>4 DEF Work, WorkerFault, LoadWorkspace, StartJob, FailWorkspace, MarkDeleted, SetImage, RecordProvisioned,
       BuildCheck, BuildImage, AllocateFails, ProvisionCheck, SetState,
       RequireImage, CommandFails, CreateVolume, CreateContainer, StartCheck, StartContainer,
       DeleteCheck, RemoveContainer, RemoveVolume, Check, Crash, StatementFails,
       AllocateOrSecretFails, ErrorIgnored, LeaseNextJob, SetDone, FailJob, LoadFails, EnqueueFollowUp, store
  <2>3. row' = row \/ (pc[w] # "idle" /\ \E r : row' = [row EXCEPT ![Here(w)] = r])
    <3>1. CASE SetImage(w)
      BY <3>1 DEF SetImage
    <3>2. CASE RecordProvisioned(w)
      BY <3>2 DEF RecordProvisioned
    <3>3. CASE ~SetImage(w) /\ ~RecordProvisioned(w)
      BY <1>4, <3>3 DEF Work, WorkerFault, LoadWorkspace, StartJob, FailWorkspace, MarkDeleted,
       BuildCheck, BuildImage, AllocateFails, ProvisionCheck,
       RequireImage, CommandFails, CreateVolume, CreateContainer, StartCheck, StartContainer,
       DeleteCheck, RemoveContainer, RemoveVolume, Check, Crash, StatementFails,
       AllocateOrSecretFails, ErrorIgnored, LeaseNextJob, SetDone, FailJob, LoadFails, EnqueueFollowUp, store
    <3> QED BY <3>1, <3>2, <3>3
  <2>4. box' = box \/ (pc[w] # "idle" /\ \E b : box' = [box EXCEPT ![Here(w)] = b])
    <3>1. CASE CreateVolume(w) \/ CreateContainer(w) \/ StartContainer(w) \/ RemoveContainer(w) \/ RemoveVolume(w)
      BY <3>1 DEF CreateVolume, CreateContainer, StartContainer, RemoveContainer, RemoveVolume
    <3>2. CASE ~(CreateVolume(w) \/ CreateContainer(w) \/ StartContainer(w) \/ RemoveContainer(w) \/ RemoveVolume(w))
      BY <1>4, <3>2 DEF Work, WorkerFault, LoadWorkspace, StartJob, FailWorkspace, MarkDeleted, SetImage, RecordProvisioned,
       BuildCheck, BuildImage, AllocateFails, ProvisionCheck, RequireImage, CommandFails, StartCheck, DeleteCheck, Check,
       Crash, StatementFails,
       AllocateOrSecretFails, ErrorIgnored, LeaseNextJob, SetDone, FailJob, LoadFails, EnqueueFollowUp
    <3> QED BY <3>1, <3>2
  <2> QED BY <1>1, <2>1, <2>2, <2>3, <2>4 DEF Local, Core, TypeOK
<1> QED BY <1>2, <1>3, <1>4

(* Nothing changes for the others. *)
LEMMA OthersServed ==
  ASSUME LifecycleAssumption, JobInv, FollowsBuild, ServedInv, JobsStay, HandsKeep, disturbed \subseteq disturbed',
         NEW w \in Workers, Local(w)
  PROVE  /\ \A ws \in Workspaces : pc[w] = "idle" \/ ws # Here(w) => ServedAt(ws)'
         /\ \A v \in Workers \ {w} : ServingKnown(v)'
<1>0. Core
  BY DEF JobInv
<1>1. ASSUME NEW ws \in Workspaces, pc[w] = "idle" \/ ws # Here(w), ws \notin disturbed', Plain(ws)' PROVE ServedAt(ws)'
  <2>1. Plain(ws)
    BY <1>0, <1>1, PlainBack
  <2>2. /\ state'[ws] = state[ws] /\ row'[ws] = row[ws] /\ box'[ws] = box[ws]
        /\ \A p \in Ports : lease[p] = ws <=> lease'[p] = ws
    BY <1>1 DEF Local
  <2>3. MadeBy(ws) => MadeBy(ws)'
    BY <1>0, MadeStays
  <2> QED BY <2>1, <2>2, <2>3 DEF ServedInv, ServedAt
<1>2. ASSUME NEW v \in Workers \ {w}, pc'[v] # "idle", Here(v)' \notin disturbed', Plain(Here(v))' PROVE ServingKnown(v)'
  <2>1. pc'[v] = pc[v] /\ held'[v] = held[v] /\ port'[v] = port[v]
    BY DEF Local
  <2>2. Here(v)' = Here(v) /\ Here(v) \in Workspaces
    BY <1>0, <1>2, <2>1, HeldTask DEF Here, JobsStay, Core, HeldKnown
  <2>3. Plain(Here(v))
    BY <1>0, <1>2, <2>2, PlainBack
  <2>4. pc[w] = "idle" \/ Here(v) # Here(w)
    BY <1>2, <2>1, <2>2, <2>3, OneActing DEF Acting
  <2>5. box'[Here(v)] = box[Here(v)] /\ \A p \in Ports : lease[p] = Here(v) <=> lease'[p] = Here(v)
    BY <2>2, <2>4 DEF Local
  <2> QED BY <1>2, <2>1, <2>2, <2>3, <2>5 DEF ServedInv, ServingKnown, PortHeld
<1> QED BY <1>1, <1>2 DEF ServedAt, ServingKnown

(* A fault disturbs the workspace it hits. *)
LEMMA FaultDisturbs == ASSUME Core, NEW w \in Workers, WorkerFault(w)
                       PROVE  pc[w] # "idle" /\ Here(w) \in disturbed'
<1>1. pc[w] # "idle" /\ Disturb(Here(w))
  BY DEF WorkerFault, Crash, LoadFails, StatementFails, AllocateOrSecretFails, ErrorIgnored, AfterIgnored
<1> QED BY <1>1 DEF Disturb

(* The worker's own step, for a workspace that is still left in peace: it         *)
(* creates once, starts what it has created, records what runs.                   *)
LEMMA OwnServed ==
  ASSUME LifecycleAssumption, JobInv, Core', ServedInv, JobsStay, HandsKeep, disturbed \subseteq disturbed',
         NEW w \in Workers, pc[w] # "idle", Work(w), NEW ws \in Workspaces, Here(w) = ws,
         ws \notin disturbed', Plain(ws)'
  PROVE  ServedAt(ws)' /\ ServingKnown(w)'
<1>0. /\ Core /\ held[w] \in Jobs /\ ws # NoWorkspace /\ status[held[w]] # "absent"
      /\ task[held[w]] = [ws |-> ws, type |-> Type(w)]
  BY HeldTask DEF JobInv, LifecycleAssumption, Core, HeldKnown, Here, Type, Tasks
<1>1. Plain(ws) /\ ~Resumed(ws) /\ ws \notin disturbed
  BY <1>0, PlainBack DEF Plain
<1>2. Type(w) # "delete_workspace" /\ pc[w] \notin DeleteSteps
  BY <1>0, <1>1 DEF Plain, Core, StepsMatch
<1>3. MadeBy(ws) => MadeBy(ws)' /\ pc[w] \notin {"allocate", "provision_check", "image", "volume", "create"}
  <2>1. MadeBy(ws) => MadeBy(ws)'
    BY <1>0, MadeStays
  <2>2. MadeBy(ws) => pc[w] \notin {"allocate", "provision_check", "image", "volume", "create"}
    BY <1>0, <1>1, SecondProvision
  <2> QED BY <2>1, <2>2
<1>4. /\ box[ws].container # "none" => MadeBy(ws)
      /\ box[ws].container = "running" => box[ws].port \in Ports /\ lease[box[ws].port] = ws
      /\ state[ws] = "running" => box[ws].container = "running" /\ box[ws].port = row[ws].sshPort
  BY <1>0, <1>1 DEF ServedInv, ServedAt
<1>5. /\ pc[w] \in {"provision_check", "image", "volume", "create", "start_check", "start_container", "record"}
           => port[w] \in Ports /\ lease[port[w]] = ws
      /\ pc[w] \in {"start_check", "start_container"} => box[ws].container = "created" /\ box[ws].port = port[w]
      /\ pc[w] = "record" => box[ws].container = "running" /\ box[ws].port = port[w]
      /\ pc[w] = "release" => box[ws].container # "running"
  BY <1>1 DEF ServedInv, ServingKnown, PortHeld
<1>6. held'[w] = held[w] => Here(w)' = ws
  BY <1>0 DEF JobsStay, Here
<1>7. ASSUME UNCHANGED <<box, lease>>, state'[ws] = "running" => state[ws] = "running",
             row'[ws].sshPort = row[ws].sshPort
      PROVE  ServedAt(ws)'
  BY <1>3, <1>4, <1>7 DEF ServedAt
<1>8. ASSUME UNCHANGED <<box, lease, held, port>>, NEW step, pc' = [pc EXCEPT ![w] = step],
             step \in {"provision_check", "create", "start_check", "record"} => FALSE,
             step = "image" => pc[w] = "provision_check",
             step = "volume" => pc[w] = "image",
             step = "start_container" => pc[w] = "start_check",
             step = "release" => pc[w] \in {"provision_check", "image", "volume", "create", "start_check", "start_container"}
      PROVE  ServingKnown(w)'
  <2>1. pc'[w] = step
    BY <1>0, <1>8 DEF Core, TypeOK
  <2>2. step = "release" => box[ws].container # "running"
    BY <1>3, <1>4, <1>5, <1>8
  <2> QED BY <1>5, <1>6, <1>8, <2>1, <2>2 DEF ServingKnown, PortHeld
<1>9. ASSUME GoIdle(w) PROVE ServingKnown(w)'
  BY <1>0, <1>9, MoveIdle DEF ServingKnown, Core
<1>10. CASE LoadWorkspace(w) \/ StartJob(w) \/ BuildImage(w) \/ AllocateFails(w) \/ RequireImage(w) \/ CommandFails(w) \/ FailJob(w)
  <2>1. /\ UNCHANGED <<box, lease, row, held, port>>
        /\ state' = state \/ \E s \in {"building", "provisioning"} : state' = [state EXCEPT ![ws] = s]
    BY <1>10 DEF LoadWorkspace, StartJob, BuildImage, AllocateFails, RequireImage, CommandFails, FailJob, SetState,
       Goto, Fail, store
  <2>2. ServedAt(ws)'
    BY <1>0, <1>7, <2>1 DEF Core, TypeOK
  <2>3. PICK step : /\ pc' = [pc EXCEPT ![w] = step]
                    /\ step \in {"delete_check", "start", "build_check", "allocate", "set_image", "fail", "fail_state", "volume", "release"}
                    /\ step = "volume" => pc[w] = "image"
                    /\ step = "release" => pc[w] \in {"image", "volume", "create", "start_container"}
    BY <1>10 DEF LoadWorkspace, StartJob, BuildImage, AllocateFails, RequireImage, CommandFails, FailJob, Goto, Fail
  <2>4. ServingKnown(w)'
    BY <1>8, <2>1, <2>3
  <2> QED BY <2>2, <2>4
<1>11. CASE BuildCheck(w) \/ ProvisionCheck(w) \/ StartCheck(w)
  <2>1. ASSUME NEW at, NEW step, NEW onCancel, Check(w, at, step, onCancel)
        PROVE  /\ UNCHANGED <<state, row, box, lease, held, port>> /\ pc[w] = at
               /\ \E next \in {step, onCancel} : pc' = [pc EXCEPT ![w] = next]
    BY <2>1 DEF Check, Goto, Fail, store
  <2>2. UNCHANGED <<state, row, box, lease, held, port>>
    BY <1>11, <2>1 DEF BuildCheck, ProvisionCheck, StartCheck
  <2>3. PICK step : /\ pc' = [pc EXCEPT ![w] = step]
                    /\ step \in {"build", "fail", "image", "release", "start_container"}
                    /\ step = "image" => pc[w] = "provision_check"
                    /\ step = "start_container" => pc[w] = "start_check"
                    /\ step = "release" => pc[w] \in {"provision_check", "start_check"}
    <3>1. CASE BuildCheck(w)
      BY <2>1, <3>1 DEF BuildCheck
    <3>2. CASE ProvisionCheck(w)
      BY <2>1, <3>2 DEF ProvisionCheck
    <3>3. CASE StartCheck(w)
      BY <2>1, <3>3 DEF StartCheck
    <3> QED BY <1>11, <3>1, <3>2, <3>3
  <2>4. ServedAt(ws)'
    BY <1>7, <2>2
  <2>5. ServingKnown(w)'
    BY <1>8, <2>2, <2>3
  <2> QED BY <2>4, <2>5
<1>12. CASE SetDone(w) \/ EnqueueFollowUp(w) \/ FailWorkspace(w)
  <2>1. /\ UNCHANGED <<box, lease, row>>
        /\ state' = state \/ \E s \in {"pending", "failed"} : state' = [state EXCEPT ![ws] = s]
    BY <1>12 DEF SetDone, EnqueueFollowUp, FailWorkspace, SetState
  <2>2. ServedAt(ws)'
    BY <1>0, <1>7, <2>1 DEF Core, TypeOK
  <2>3. GoIdle(w) \/ Goto(w, "follow_up")
    BY <1>12 DEF SetDone, EnqueueFollowUp, FailWorkspace
  <2>4. Goto(w, "follow_up") => UNCHANGED <<held, port>> /\ pc' = [pc EXCEPT ![w] = "follow_up"]
    BY DEF Goto
  <2>5. ServingKnown(w)'
    BY <1>8, <1>9, <2>1, <2>3, <2>4
  <2> QED BY <2>2, <2>5
<1>13. CASE SetImage(w)
  <2>1. /\ UNCHANGED <<box, lease, state, held, port>> /\ pc' = [pc EXCEPT ![w] = "set_done"]
        /\ row' = [row EXCEPT ![ws].image = TRUE]
    BY <1>13 DEF SetImage, Goto
  <2>2. row'[ws].sshPort = row[ws].sshPort
    BY <1>0, <2>1 DEF Core, TypeOK, Rows
  <2>3. ServedAt(ws)' /\ ServingKnown(w)'
    BY <1>7, <1>8, <2>1, <2>2
  <2> QED BY <2>3
<1>14. CASE AllocatePort(w)
  <2>1. UNCHANGED <<row, box, state, held>> /\ pc[w] = "allocate" /\ pc' = [pc EXCEPT ![w] = "provision_check"]
    BY <1>14 DEF AllocatePort
  <2>2. PICK p \in Ports : /\ port' = [port EXCEPT ![w] = p]
                           /\ \/ lease[p] = ws /\ lease' = lease
                              \/ lease[p] = NoWorkspace /\ lease' = [lease EXCEPT ![p] = ws]
    <3>1. FreeCandidates(seen[w].sshPort) \subseteq Ports /\ \A q \in FreeCandidates(seen[w].sshPort) : lease[q] = NoWorkspace
      BY <1>0 DEF FreeCandidates, Candidates, Core, TypeOK, Rows
    <3> QED BY <1>14, <3>1 DEF AllocatePort, Leased
  <2>3. port'[w] = p /\ lease'[p] = ws /\ pc'[w] = "provision_check"
    BY <1>0, <2>1, <2>2 DEF Core, TypeOK
  <2>4. ServedAt(ws)'
    BY <1>3, <1>4, <2>1 DEF ServedAt
  <2>5. ServingKnown(w)'
    BY <1>6, <2>1, <2>3 DEF ServingKnown, PortHeld
  <2> QED BY <2>4, <2>5
<1>15. CASE ReleaseAfterError(w)
  <2>1. /\ UNCHANGED <<row, box, state, held, port>> /\ pc[w] = "release" /\ pc' = [pc EXCEPT ![w] = "fail"]
    BY <1>15 DEF ReleaseAfterError, Goto
  <2>2. pc'[w] = "fail"
    BY <1>0, <2>1 DEF Core, TypeOK
  <2>3. ServedAt(ws)'
    BY <1>3, <1>4, <1>5, <2>1 DEF ServedAt
  <2>4. ServingKnown(w)'
    BY <2>2 DEF ServingKnown, PortHeld
  <2> QED BY <2>3, <2>4
<1>16. CASE CreateVolume(w)
  <2>1. /\ UNCHANGED <<row, lease, state, held, port>> /\ pc[w] = "volume" /\ pc' = [pc EXCEPT ![w] = "create"]
        /\ box' = [box EXCEPT ![ws].volume = TRUE]
    BY <1>16 DEF CreateVolume, Goto, store
  <2>2. pc'[w] = "create" /\ box'[ws].container = box[ws].container /\ box'[ws].port = box[ws].port
    BY <1>0, <2>1 DEF Core, TypeOK
  <2>3. ServedAt(ws)'
    BY <1>3, <1>4, <2>1, <2>2 DEF ServedAt
  <2>4. ServingKnown(w)'
    BY <1>5, <1>6, <2>1, <2>2 DEF ServingKnown, PortHeld
  <2> QED BY <2>3, <2>4
<1>17. CASE CreateContainer(w)
  <2>1. /\ UNCHANGED <<row, lease, state, held, port>> /\ pc[w] = "create" /\ pc' = [pc EXCEPT ![w] = "start_check"]
        /\ box[ws].container = "none"
        /\ box' = [box EXCEPT ![ws] = [container |-> "created", port |-> port[w], volume |-> TRUE]]
    BY <1>17 DEF CreateContainer, Goto, store
  <2>2. pc'[w] = "start_check" /\ box'[ws].container = "created" /\ box'[ws].port = port[w]
    BY <1>0, <2>1 DEF Core, TypeOK
  <2>3. MadeBy(ws)'
    <3>1. /\ status'[held[w]] \notin {"absent", "queued"}
          /\ task'[held[w]] = [ws |-> ws, type |-> "provision_workspace"]
      BY <1>0, <2>1 DEF JobsStay, Core, HeldKnown, StepsMatch, ProvisionSteps, NoJob, Jobs
    <3>2. \A v \in Workers : held'[v] = held[w] => pc'[v] \in Late
      BY <1>0, <2>1, <2>2 DEF JobInv, HeldApart, NoJob, Jobs, Late
    <3> QED BY <1>0, <3>1, <3>2 DEF MadeBy
  <2>4. ServedAt(ws)'
    BY <1>4, <2>1, <2>2, <2>3 DEF ServedAt
  <2>5. ServingKnown(w)'
    BY <1>5, <1>6, <2>1, <2>2 DEF ServingKnown, PortHeld
  <2> QED BY <2>4, <2>5
<1>18. CASE StartContainer(w)
  <2>1. /\ UNCHANGED <<row, lease, state, held, port>> /\ pc[w] = "start_container" /\ pc' = [pc EXCEPT ![w] = "record"]
        /\ box' = [box EXCEPT ![ws].container = "running"]
    BY <1>18 DEF StartContainer, Goto, store
  <2>2. pc'[w] = "record" /\ box'[ws].container = "running" /\ box'[ws].port = box[ws].port
    BY <1>0, <2>1 DEF Core, TypeOK
  <2>3. ServedAt(ws)'
    BY <1>3, <1>4, <1>5, <2>1, <2>2 DEF ServedAt
  <2>4. ServingKnown(w)'
    BY <1>5, <1>6, <2>1, <2>2 DEF ServingKnown, PortHeld
  <2> QED BY <2>3, <2>4
<1>19. CASE RecordProvisioned(w)
  <2>1. /\ UNCHANGED <<box, lease, held, port>> /\ pc[w] = "record" /\ pc' = [pc EXCEPT ![w] = "set_done"]
        /\ row' = [row EXCEPT ![ws] = [@ EXCEPT !.recorded = TRUE, !.sshPort = port[w]]]
    BY <1>19 DEF RecordProvisioned, Goto
  <2>2. row'[ws].sshPort = port[w]
    <3>1. row[ws] \in Rows
      BY <1>0 DEF Core, TypeOK
    <3> QED BY <1>0, <2>1, <3>1 DEF Core, TypeOK, Rows
  <2>3. ServedAt(ws)'
    BY <1>3, <1>4, <1>5, <2>1, <2>2 DEF ServedAt
  <2>4. ServingKnown(w)'
    BY <1>8, <2>1
  <2> QED BY <2>3, <2>4
<1> QED BY <1>2, <1>10, <1>11, <1>12, <1>13, <1>14, <1>15, <1>16, <1>17, <1>18, <1>19
        DEF Work, LeaseNextJob, DeleteSteps, DeleteCheck, Check, RemoveContainer, RemoveVolume, ReleaseDeleted, MarkDeleted

(* A worker keeps its job until it goes idle. *)
LEMMA WorkKeeps == ASSUME Core, NEW w \in Workers, pc[w] # "idle", Work(w) \/ WorkerFault(w)
                   PROVE  pc'[w] = "idle" \/ held'[w] = held[w]
<1>1. held' = held \/ GoIdle(w)
  BY DEF Work, WorkerFault, LoadWorkspace, StartJob, FailWorkspace, MarkDeleted, SetImage, RecordProvisioned,
     ReleaseAfterError, ReleaseDeleted, BuildCheck, BuildImage, AllocatePort, AllocateFails, ProvisionCheck,
     RequireImage, CommandFails, CreateVolume, CreateContainer, StartCheck, StartContainer,
     DeleteCheck, RemoveContainer, RemoveVolume, Check, Crash, StatementFails,
     AllocateOrSecretFails, ErrorIgnored, SetDone, FailJob, LoadFails, EnqueueFollowUp, Goto, Fail, LeaseNextJob
<1> QED BY <1>1, MoveIdle DEF Core

(* Together: a worker's step serves its workspace and spares the others. *)
LEMMA WorkServed ==
  ASSUME LifecycleAssumption, JobInv, Core', FollowsBuild, ServedInv, NEW w \in Workers, Work(w) \/ WorkerFault(w)
  PROVE  ServedInv'
<1>1. Core /\ JobsStay /\ HandsKeep /\ disturbed \subseteq disturbed' /\ Local(w)
  BY WorkStays, WorkHands, WorkFollows, WorkLocal DEF JobInv
<1>2. /\ \A ws \in Workspaces : pc[w] = "idle" \/ ws # Here(w) => ServedAt(ws)'
      /\ \A v \in Workers \ {w} : ServingKnown(v)'
  BY <1>1, OthersServed
<1>3. CASE pc[w] = "idle"
  <2>1. pc'[w] = "load"
    <3>1. LeaseNextJob(w)
      BY <1>1, <1>3, FaultDisturbs DEF Work, LoadWorkspace, StartJob, FailWorkspace, MarkDeleted, SetImage, RecordProvisioned,
       ReleaseAfterError, ReleaseDeleted, BuildCheck, BuildImage, AllocatePort, AllocateFails, ProvisionCheck,
       RequireImage, CommandFails, CreateVolume, CreateContainer, StartCheck, StartContainer,
       DeleteCheck, RemoveContainer, RemoveVolume, Check, SetDone, FailJob, EnqueueFollowUp
    <3> QED BY <1>1, <3>1 DEF LeaseNextJob, Core, TypeOK
  <2>2. ServingKnown(w)'
    BY <2>1 DEF ServingKnown, PortHeld
  <2> QED BY <1>2, <1>3, <2>2 DEF ServedInv
<1>4. CASE pc[w] # "idle"
  <2>1. PICK ws \in Workspaces : Here(w) = ws
    BY <1>1, <1>4, HeldTask
  <2>2. pc'[w] = "idle" \/ Here(w)' = ws
    <3>1. pc'[w] = "idle" \/ held'[w] = held[w]
      BY <1>1, <1>4, WorkKeeps
    <3> QED BY <1>1, <1>4, <2>1, <3>1, HeldTask DEF JobsStay, Core, HeldKnown, Here, NoJob, Jobs
  <2>3. CASE ws \in disturbed' \/ ~Plain(ws)'
    <3>1. ServedAt(ws)' /\ ServingKnown(w)'
      BY <2>2, <2>3 DEF ServedAt, ServingKnown
    <3> QED BY <1>2, <2>1, <3>1 DEF ServedInv
  <2>4. CASE ws \notin disturbed' /\ Plain(ws)'
    <3>1. Work(w)
      BY <1>1, <2>1, <2>4, FaultDisturbs
    <3>2. ServedAt(ws)' /\ ServingKnown(w)'
      BY <1>1, <1>4, <2>1, <2>4, <3>1, OwnServed
    <3> QED BY <1>2, <2>1, <3>2 DEF ServedInv
  <2> QED BY <2>3, <2>4
<1> QED BY <1>3, <1>4

(* Handlers write rows of jobs and of new workspaces only. *)
LEMMA HandlersServed ==
  ASSUME LifecycleAssumption, Core, JobsOfCreated, ServedInv, Handlers
  PROVE  ServedInv'
<1>1. HandlersKeep /\ JobsStay
  BY HandlersKept, HandlersStay
<1>2. HandsKeep /\ disturbed \subseteq disturbed'
  BY <1>1 DEF HandlersKeep, KeepsTasks, worker, HandsKeep
<1>3. ASSUME NEW ws \in Workspaces, ws \notin disturbed', Plain(ws)' PROVE ServedAt(ws)'
  <2>1. Plain(ws)
    BY <1>1, <1>2, <1>3, PlainBack
  <2>2. /\ box' = box /\ lease' = lease
        /\ state'[ws] = "running" => state[ws] = "running" /\ row'[ws] = row[ws]
    BY <1>1 DEF HandlersKeep
  <2>3. MadeBy(ws) => MadeBy(ws)'
    BY <1>1, <1>2, MadeStays
  <2> QED BY <1>2, <1>3, <2>1, <2>2, <2>3 DEF ServedInv, ServedAt
<1>4. ASSUME NEW v \in Workers PROVE ServingKnown(v)'
  <2>1. CASE pc[v] = "idle"
    BY <1>1, <2>1 DEF ServingKnown, HandlersKeep, worker
  <2>2. CASE pc[v] # "idle"
    <3>1. PICK ws \in Workspaces : Here(v) = ws
      BY <2>2, HeldTask
    <3>2. Here(v)' = ws /\ pc' = pc /\ port' = port /\ box' = box /\ lease' = lease
      BY <1>1, <2>2, <3>1 DEF HandlersKeep, KeepsTasks, worker, Here, Core, HeldKnown
    <3>3. Plain(ws)' => Plain(ws)
      BY <1>1, <1>2, PlainBack
    <3> QED BY <1>2, <2>2, <3>1, <3>2, <3>3 DEF ServedInv, ServingKnown, PortHeld
  <2> QED BY <2>1, <2>2
<1> QED BY <1>3, <1>4 DEF ServedAt, ServedInv

ServingInv == JobInv /\ ImageInv /\ FollowsBuild /\ ServedInv

(* At the start there is nothing to serve. *)
LEMMA ServingStarts == ASSUME LifecycleAssumption, Init PROVE ServingInv
<1>1. JobInv
  BY JobInvStarts
<1>2. ImageInv /\ ServedInv
  BY DEF Init, ImageInv, JobsOfCreated, BuiltKnown, SeenKnown, ServedInv, ServedAt, ServingKnown, NoBox
<1>3. FollowsBuild
  BY DEF Init, FollowsBuild, NoTask, LifecycleAssumption
<1> QED BY <1>1, <1>2, <1>3 DEF ServingInv

(* ServingInv is inductive. *)
LEMMA ServingInductive == ASSUME LifecycleAssumption, ServingInv, [Next]_vars PROVE ServingInv'
<1> USE DEF ServingInv
<1>1. Core /\ JobInv' /\ Core'
  BY JobInvInductive DEF JobInv
<1>2. CASE \E w \in Workers : Work(w) \/ WorkerFault(w)
  <2>1. PICK w \in Workers : Work(w) \/ WorkerFault(w)
    BY <1>2
  <2> QED BY <1>1, <2>1, WorkImage, WorkFollows, WorkServed
<1>3. CASE Handlers
  BY <1>1, <1>3, HandlersImage, HandlersFollow, HandlersServed DEF ImageInv
<1>4. CASE (\E ws \in Workspaces : DropDelete(ws)) \/ UNCHANGED vars
  <2>1. UNCHANGED <<state, row, status, box, lease, task, pc, held, seen, port>> /\ disturbed \subseteq disturbed'
    BY <1>4 DEF DropDelete, Disturb, vars, store, worker, ghosts
  <2>2. ImageInv'
    BY <2>1 DEF ImageInv, JobsOfCreated, BuiltKnown, SeenKnown, Here, Type, ImageKnown
  <2>3. \A ws : Plain(ws)' => Plain(ws)
    BY <2>1 DEF Plain, Resumed
  <2>4. FollowsBuild'
    BY <2>1, <2>3 DEF FollowsBuild
  <2>5. ASSUME NEW ws \in Workspaces PROVE ServedAt(ws)'
    BY <2>1, <2>3 DEF ServedInv, ServedAt, MadeBy
  <2>6. ASSUME NEW w \in Workers PROVE ServingKnown(w)'
    <3>1. Here(w)' = Here(w)
      BY <2>1 DEF Here
    <3>2. Plain(Here(w))' => Plain(Here(w))
      BY <2>1 DEF Plain, Resumed, Here
    <3> QED BY <2>1, <3>1, <3>2 DEF ServedInv, ServingKnown, PortHeld
  <2> QED BY <1>1, <2>2, <2>4, <2>5, <2>6 DEF ServedInv
<1> QED BY <1>2, <1>3, <1>4 DEF Next

(* However many processes execute jobs: a workspace that its page shows as        *)
(* running is served, until somebody deletes it or resumes one of its jobs, or a  *)
(* fault hits it.                                                                 *)
THEOREM RunningServed == Spec => []RunningIsServed
<1>1. ServingInv => RunningIsServed
  BY DEF ServingInv, ServedInv, ServedAt, RunningIsServed
<1> QED BY <1>1, LifecycleAssumption, ServingStarts, ServingInductive, PTL DEF Spec

\* No two workers are at work for one workspace.
OneAtWork == \A ws \in Workspaces : Plain(ws) =>
               \A v, w \in Workers : Acting(v, ws) /\ Acting(w, ws) => v = w

(* A second worker never overtakes the first on the same workspace, faults or not: *)
(* jobs of one workspace overlap only after a request to delete or to resume.      *)
THEOREM WorkersApart == Spec => []OneAtWork
<1>1. ServingInv => OneAtWork
  BY OneActing DEF ServingInv, OneAtWork
<1> QED BY <1>1, LifecycleAssumption, ServingStarts, ServingInductive, PTL DEF Spec
=============================================================================
