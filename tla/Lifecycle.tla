------------------------------ MODULE Lifecycle ------------------------------
(* The control plane of cheapspace: the HTTP and CLI handlers that queue     *)
(* work, the worker loops that execute build, provision and delete jobs, the *)
(* port_leases table and the Docker objects the jobs create and remove.      *)
(* One action is one statement on the store, one docker command or one       *)
(* cancellation check, in the order internal/service and internal/runtime    *)
(* make them.  LeaseNextJob and AllocatePort are one step: they are          *)
(* transactions, which LeaseTx and PortTx model statement by statement.      *)
EXTENDS Integers, FiniteSets

CONSTANTS Workspaces,   \* ids of the workspaces that may be created
          Workers,      \* worker loops: the server's and one per CLI command with --wait
          Ports,        \* the configured host port range
          Inputs,       \* what users ask for: [built : BOOLEAN, sshPort : Ports or AnyPort]
          Requests,     \* requests users make besides creating: "cancel", "resume", "delete", "remove"
          MaxJobs,      \* bound on the rows ever inserted in jobs
          MaxLate,      \* bound on the earlier places in the order still free when a row is inserted
          MaxFaults,    \* bound on crashes, failing writes and failing docker removals
          NoWorkspace   \* the owner of a free port

AnyPort == 0            \* ssh_port 0: any port of the range

ASSUME LifecycleAssumption ==
  /\ MaxJobs \in Nat \ {0} /\ MaxLate \in Nat /\ MaxFaults \in Nat
  /\ Ports \subseteq Nat \ {AnyPort}
  /\ Inputs \subseteq [built : BOOLEAN, sshPort : Ports \cup {AnyPort}]
  /\ NoWorkspace \notin Workspaces

Jobs  == 1..MaxJobs     \* in the order of run_after, created_at
NoJob == 0

Finished == {"done", "failed", "cancelled"}

VARIABLES
  state,          \* state[ws]: workspaces.state, "absent" before the INSERT
  row,            \* row[ws]: source kind, resolved image and container names known, ssh_port
  status,         \* status[j]: jobs.status, "absent" before the INSERT, "erased" after the DELETE
  task,           \* task[j]: jobs.workspace_id and job_type
  cancel,         \* cancel[j]: "no", or the job's status when cancel_requested was set
  lease,          \* lease[p]: the workspace of the unreleased port_leases row of p
  box,            \* box[ws]: the container and volume named after the workspace
  pc,             \* pc[w]: the worker's next step
  held,           \* held[w]: the job in the worker's memory
  seen,           \* seen[w]: the workspace row as GetWorkspace returned it
  port,           \* port[w]: the port AllocatePort returned
  outcome,        \* outcome[w]: how failJob will end the job
  pendingDelete,  \* workspaces whose QueueWorkspaceDelete has inserted its job, not yet the state
  disturbed,      \* history: workspaces hit by a fault or by the removal of a queued job
  faults          \* faults so far

store  == <<state, row, status, task, cancel, lease>>
worker == <<pc, held, seen, port, outcome>>
vars   == <<store, box, worker, pendingDelete, disturbed, faults>>
ghosts == <<disturbed, faults>>

NoTask == [ws |-> NoWorkspace, type |-> "none"]
NewRow(input) == [built |-> input.built, image |-> FALSE, recorded |-> FALSE,
                  sshPort |-> input.sshPort]
NoRow  == NewRow([built |-> FALSE, sshPort |-> AnyPort])
NoBox  == [container |-> "none", port |-> AnyPort, volume |-> FALSE]

Init ==
  /\ state = [ws \in Workspaces |-> "absent"]
  /\ row = [ws \in Workspaces |-> NoRow]
  /\ status = [j \in Jobs |-> "absent"]
  /\ task = [j \in Jobs |-> NoTask]
  /\ cancel = [j \in Jobs |-> "no"]
  /\ lease = [p \in Ports |-> NoWorkspace]
  /\ box = [ws \in Workspaces |-> NoBox]
  /\ pc = [w \in Workers |-> "idle"]
  /\ held = [w \in Workers |-> NoJob]
  /\ seen = [w \in Workers |-> NoRow]
  /\ port = [w \in Workers |-> AnyPort]
  /\ outcome = [w \in Workers |-> "none"]
  /\ pendingDelete = {} /\ disturbed = {} /\ faults = 0

-----------------------------------------------------------------------------
(* Handlers *)

\* A row may be inserted after a later one: its time is taken before, and sorts as text.
InsertJob(ws, type) ==
  \E j \in Jobs : /\ status[j] = "absent"
                  /\ Cardinality({k \in Jobs : k < j /\ status[k] = "absent"}) <= MaxLate
                  /\ status' = [status EXCEPT ![j] = "queued"]
                  /\ task' = [task EXCEPT ![j] = [ws |-> ws, type |-> type]]

\* Build jobs that may still insert their follow-up keep a row of the bound for it.
FollowUpsToCome == {j \in Jobs : /\ task[j].type = "build_image"
                                 /\ status[j] \in {"queued", "running"} \/ \E w \in Workers : held[w] = j}
HasRoom(type) == Cardinality({j \in Jobs : status[j] = "absent"})
                   > Cardinality(FollowUpsToCome) + IF type = "build_image" THEN 1 ELSE 0

\* Mutant: every workspace starts with a provision job.
AlwaysProvision(built) == "provision_workspace"

FirstJob(built) == IF built THEN "build_image" ELSE "provision_workspace"

\* Service.CreateWorkspace: the workspace and its first job in one transaction.
CreateWorkspace(ws, input) ==
  /\ state[ws] = "absent" /\ HasRoom(FirstJob(input.built))
  /\ state' = [state EXCEPT ![ws] = "pending"]
  /\ row' = [row EXCEPT ![ws] = NewRow(input)]
  /\ InsertJob(ws, FirstJob(input.built))
  /\ UNCHANGED <<cancel, lease, box, worker, pendingDelete, ghosts>>

(* QueueWorkspaceDelete is two statements: the job, then the state.  At most   *)
(* one such handler per workspace is between them.                             *)
QueueDeleteJob(ws) ==
  /\ "delete" \in Requests
  /\ state[ws] # "absent" /\ ws \notin pendingDelete /\ HasRoom("delete_workspace")
  /\ InsertJob(ws, "delete_workspace")
  /\ pendingDelete' = pendingDelete \cup {ws}
  /\ UNCHANGED <<state, row, cancel, lease, box, worker, ghosts>>

SetDeleting(ws) ==
  /\ ws \in pendingDelete
  /\ state' = [state EXCEPT ![ws] = "deleting"]
  /\ pendingDelete' = pendingDelete \ {ws}
  /\ UNCHANGED <<row, status, task, cancel, lease, box, worker, ghosts>>

\* RequestJobCancel; asking again, or for a job that has ended, changes nothing that is read.
RequestCancel(j) ==
  /\ "cancel" \in Requests
  /\ cancel[j] = "no" /\ status[j] \in {"queued", "running"}
  /\ cancel' = [cancel EXCEPT ![j] = status[j]]
  /\ UNCHANGED <<state, row, status, task, lease, box, worker, pendingDelete, ghosts>>

\* ResumeJob: a new attempt of any job that is neither queued nor running.
ResumeJob(j) ==
  /\ "resume" \in Requests
  /\ status[j] \in Finished /\ HasRoom(task[j].type)
  /\ InsertJob(task[j].ws, task[j].type)
  /\ UNCHANGED <<state, row, cancel, lease, box, worker, pendingDelete, ghosts>>

\* DeleteJob: any row that is not running, a queued one included.
DeleteJob(j) ==
  /\ "remove" \in Requests
  /\ status[j] \in {"queued"} \cup Finished
  /\ status' = [status EXCEPT ![j] = "erased"]
  /\ disturbed' = IF status[j] = "queued" THEN disturbed \cup {task[j].ws} ELSE disturbed
  /\ UNCHANGED <<state, row, task, cancel, lease, box, worker, pendingDelete, faults>>

Handlers == \/ \E ws \in Workspaces : \/ \E input \in Inputs : CreateWorkspace(ws, input)
                                      \/ QueueDeleteJob(ws) \/ SetDeleting(ws)
            \/ \E j \in Jobs : RequestCancel(j) \/ ResumeJob(j) \/ DeleteJob(j)

-----------------------------------------------------------------------------
(* The worker loop *)

Here(w) == task[held[w]].ws
Type(w) == task[held[w]].type

Goto(w, step)    == pc' = [pc EXCEPT ![w] = step] /\ UNCHANGED <<held, seen, port, outcome>>
Fail(w, step, s) == /\ pc' = [pc EXCEPT ![w] = step]
                    /\ outcome' = [outcome EXCEPT ![w] = s]
                    /\ UNCHANGED <<held, seen, port>>
GoIdle(w) == /\ pc' = [pc EXCEPT ![w] = "idle"]
             /\ held' = [held EXCEPT ![w] = NoJob]
             /\ seen' = [seen EXCEPT ![w] = NoRow]
             /\ port' = [port EXCEPT ![w] = AnyPort]
             /\ outcome' = [outcome EXCEPT ![w] = "none"]

\* control.Cancelled at step "at": a set flag sends the job to failJob.
Check(w, at, step, onCancel) ==
  /\ pc[w] = at
  /\ IF cancel[held[w]] # "no" THEN Fail(w, onCancel, "cancelled") ELSE Goto(w, step)
  /\ UNCHANGED <<store, box, pendingDelete, ghosts>>

SetState(w, s) == state' = [state EXCEPT ![Here(w)] = s]
SetStatus(w, s) == status' = [status EXCEPT ![held[w]] = s]
FreePorts(ws)  == lease' = [p \in Ports |-> IF lease[p] = ws THEN NoWorkspace ELSE lease[p]]

\* Mutant: ORDER BY run_after DESC.
LeaseNewestJob(w) ==
  /\ pc[w] = "idle"
  /\ \E j \in Jobs :
       /\ status[j] = "queued" /\ \A k \in Jobs : status[k] = "queued" => k <= j
       /\ status' = [status EXCEPT ![j] = "running"]
       /\ held' = [held EXCEPT ![w] = j]
  /\ pc' = [pc EXCEPT ![w] = "load"]
  /\ UNCHANGED <<state, row, task, cancel, lease, box, seen, port, outcome, pendingDelete, ghosts>>

\* Mutant: the UPDATE takes a row that another worker runs.
LeaseTaken(w) ==
  /\ pc[w] = "idle"
  /\ \E j \in Jobs :
       /\ status[j] \in {"queued", "running"} /\ \A k \in Jobs : status[k] = "queued" => j <= k
       /\ status' = [status EXCEPT ![j] = "running"]
       /\ held' = [held EXCEPT ![w] = j]
  /\ pc' = [pc EXCEPT ![w] = "load"]
  /\ UNCHANGED <<state, row, task, cancel, lease, box, seen, port, outcome, pendingDelete, ghosts>>

\* LeaseNextJob: the oldest queued row.
LeaseNextJob(w) ==
  /\ pc[w] = "idle"
  /\ \E j \in Jobs :
       /\ status[j] = "queued" /\ \A k \in Jobs : status[k] = "queued" => j <= k
       /\ status' = [status EXCEPT ![j] = "running"]
       /\ held' = [held EXCEPT ![w] = j]
  /\ pc' = [pc EXCEPT ![w] = "load"]
  /\ UNCHANGED <<state, row, task, cancel, lease, box, seen, port, outcome, pendingDelete, ghosts>>

\* GetWorkspace: the row the rest of the job works from.
LoadWorkspace(w) ==
  /\ pc[w] = "load"
  /\ seen' = [seen EXCEPT ![w] = row[Here(w)]]
  /\ pc' = [pc EXCEPT ![w] = IF Type(w) = "delete_workspace" THEN "delete_check" ELSE "start"]
  /\ UNCHANGED <<store, box, held, port, outcome, pendingDelete, ghosts>>

StartJob(w) ==
  /\ pc[w] = "start"
  /\ \/ Type(w) = "build_image" /\ SetState(w, "building") /\ Goto(w, "build_check")
     \/ Type(w) = "provision_workspace" /\ SetState(w, "provisioning") /\ Goto(w, "allocate")
  /\ UNCHANGED <<row, status, task, cancel, lease, box, pendingDelete, ghosts>>

SetDone(w) ==
  /\ pc[w] = "set_done"
  /\ SetStatus(w, "done")
  /\ IF Type(w) = "build_image" THEN Goto(w, "follow_up") ELSE GoIdle(w)
  /\ UNCHANGED <<state, row, task, cancel, lease, box, pendingDelete, ghosts>>

\* Mutant: the error path of Provision forgets the lease.
KeepLeaseAfterError(w) == /\ pc[w] = "release" /\ Goto(w, "fail")
                          /\ UNCHANGED <<store, box, pendingDelete, ghosts>>

\* executeProvisionJob after a runtime error: the lease goes before the job fails.
ReleaseAfterError(w) ==
  /\ pc[w] = "release"
  /\ FreePorts(Here(w)) /\ Goto(w, "fail")
  /\ UNCHANGED <<state, row, status, task, cancel, box, pendingDelete, ghosts>>

\* Mutant: failJob writes the workspace only.
LeaveJobRunning(w) == /\ pc[w] = "fail" /\ Goto(w, "fail_state")
                      /\ UNCHANGED <<store, box, pendingDelete, ghosts>>

\* failJob, first statement: the job.
FailJob(w) ==
  /\ pc[w] = "fail"
  /\ SetStatus(w, outcome[w]) /\ Goto(w, "fail_state")
  /\ UNCHANGED <<state, row, task, cancel, lease, box, pendingDelete, ghosts>>

\* Mutant: failJob writes the job only.
LeaveWorkspaceState(w) == /\ pc[w] = "fail_state" /\ GoIdle(w)
                          /\ UNCHANGED <<store, box, pendingDelete, ghosts>>

\* failJob, second statement: the workspace, whatever its state is by now.
FailWorkspace(w) ==
  /\ pc[w] = "fail_state"
  /\ SetState(w, IF outcome[w] = "cancelled" THEN "pending" ELSE "failed") /\ GoIdle(w)
  /\ UNCHANGED <<row, status, task, cancel, lease, box, pendingDelete, ghosts>>

-----------------------------------------------------------------------------
(* build_image *)

BuildCheck(w) == Check(w, "build_check", "build", "fail")

\* docker build, or git clone and nixpacks build: it works or it does not.
BuildImage(w) ==
  /\ pc[w] = "build"
  /\ Goto(w, "set_image") \/ Fail(w, "fail", "failed")
  /\ UNCHANGED <<store, box, pendingDelete, ghosts>>

SetImage(w) ==
  /\ pc[w] = "set_image"
  /\ row' = [row EXCEPT ![Here(w)].image = TRUE] /\ Goto(w, "set_done")
  /\ UNCHANGED <<state, status, task, cancel, lease, box, pendingDelete, ghosts>>

\* enqueueFollowUpProvision, after the build job is done.
EnqueueFollowUp(w) ==
  /\ pc[w] = "follow_up"
  /\ InsertJob(Here(w), "provision_workspace") /\ GoIdle(w)
  /\ UNCHANGED <<state, row, cancel, lease, box, pendingDelete, ghosts>>

-----------------------------------------------------------------------------
(* provision_workspace *)

Leased(ws) == {p \in Ports : lease[p] = ws}
Candidates(preferred) == IF preferred # AnyPort THEN {preferred} ELSE Ports
FreeCandidates(preferred) == {p \in Candidates(preferred) : lease[p] = NoWorkspace}

\* Mutant: a new port on every call, without looking for the lease the workspace has.
AllocateAgain(w) ==
  /\ pc[w] = "allocate"
  /\ LET free == FreeCandidates(seen[w].sshPort)
     IN \E p \in free : /\ \A q \in free : p <= q
                        /\ port' = [port EXCEPT ![w] = p]
                        /\ lease' = [lease EXCEPT ![p] = Here(w)]
  /\ pc' = [pc EXCEPT ![w] = "provision_check"]
  /\ UNCHANGED <<state, row, status, task, cancel, box, held, seen, outcome, pendingDelete, ghosts>>

\* AllocatePort: the lease the workspace has, else the lowest free candidate.
AllocatePort(w) ==
  /\ pc[w] = "allocate"
  /\ LET ws   == Here(w)
         free == FreeCandidates(seen[w].sshPort)
     IN \/ \E p \in Leased(ws) : port' = [port EXCEPT ![w] = p] /\ lease' = lease
        \/ /\ Leased(ws) = {}
           /\ \E p \in free : /\ \A q \in free : p <= q
                              /\ port' = [port EXCEPT ![w] = p]
                              /\ lease' = [lease EXCEPT ![p] = ws]
  /\ pc' = [pc EXCEPT ![w] = "provision_check"]
  /\ UNCHANGED <<state, row, status, task, cancel, box, held, seen, outcome, pendingDelete, ghosts>>

\* No candidate is free: failJob, no port to give back.
AllocateFails(w) ==
  /\ pc[w] = "allocate"
  /\ Leased(Here(w)) = {} /\ FreeCandidates(seen[w].sshPort) = {}
  /\ Fail(w, "fail", "failed")
  /\ UNCHANGED <<store, box, pendingDelete, ghosts>>

ProvisionCheck(w) == Check(w, "provision_check", "image", "release")

\* DockerRuntime.Provision refuses an empty image reference.
ImageKnown(r) == r.built => r.image
RequireImage(w) ==
  /\ pc[w] = "image"
  /\ IF ImageKnown(seen[w]) THEN Goto(w, "volume") ELSE Fail(w, "release", "failed")
  /\ UNCHANGED <<store, box, pendingDelete, ghosts>>

\* A docker command of Provision fails: nothing is undone but the lease.
CommandFails(w) ==
  /\ pc[w] \in {"volume", "create", "start_container"}
  /\ Fail(w, "release", "failed")
  /\ UNCHANGED <<store, box, pendingDelete, ghosts>>

CreateVolume(w) ==
  /\ pc[w] = "volume"
  /\ box' = [box EXCEPT ![Here(w)].volume = TRUE] /\ Goto(w, "create")
  /\ UNCHANGED <<store, pendingDelete, ghosts>>

\* docker create --name: refused (CommandFails) while a container has the name.
CreateContainer(w) ==
  /\ pc[w] = "create" /\ box[Here(w)].container = "none"
  /\ box' = [box EXCEPT ![Here(w)] = [container |-> "created", port |-> port[w], volume |-> TRUE]]
  /\ Goto(w, "start_check")
  /\ UNCHANGED <<store, pendingDelete, ghosts>>

StartCheck(w) == Check(w, "start_check", "start_container", "release")

\* docker start: refused without the container, or while its port is bound by another.
StartContainer(w) ==
  /\ pc[w] = "start_container" /\ box[Here(w)].container # "none"
  /\ \A ws \in Workspaces \ {Here(w)} : box[ws].container = "running" => box[ws].port # box[Here(w)].port
  /\ box' = [box EXCEPT ![Here(w)].container = "running"] /\ Goto(w, "record")
  /\ UNCHANGED <<store, pendingDelete, ghosts>>

\* Mutant: the event's word is stored as the state.
RecordReady(w) ==
  /\ pc[w] = "record"
  /\ SetState(w, "ready")
  /\ row' = [row EXCEPT ![Here(w)] = [@ EXCEPT !.recorded = TRUE, !.sshPort = port[w]]]
  /\ Goto(w, "set_done")
  /\ UNCHANGED <<status, task, cancel, lease, box, pendingDelete, ghosts>>

\* Mutant: ssh_port keeps the requested port instead of the allocated one.
RecordRequestedPort(w) ==
  /\ pc[w] = "record"
  /\ SetState(w, "running")
  /\ row' = [row EXCEPT ![Here(w)] = [@ EXCEPT !.recorded = TRUE, !.sshPort = seen[w].sshPort]]
  /\ Goto(w, "set_done")
  /\ UNCHANGED <<status, task, cancel, lease, box, pendingDelete, ghosts>>

\* UpdateWorkspaceProvisioned: running, with the port and the container names.
RecordProvisioned(w) ==
  /\ pc[w] = "record"
  /\ SetState(w, "running")
  /\ row' = [row EXCEPT ![Here(w)] = [@ EXCEPT !.recorded = TRUE, !.sshPort = port[w]]]
  /\ Goto(w, "set_done")
  /\ UNCHANGED <<status, task, cancel, lease, box, pendingDelete, ghosts>>

-----------------------------------------------------------------------------
(* delete_workspace *)

\* Mutant: Delete does not look at the cancel flag.
DeleteUnchecked(w) == /\ pc[w] = "delete_check" /\ Goto(w, "remove_container")
                      /\ UNCHANGED <<store, box, pendingDelete, ghosts>>

\* Mutant: executeDeleteJob skips the runtime and goes on to the tables.
DeleteTablesOnly(w) == Check(w, "delete_check", "delete_release", "fail")

DeleteCheck(w) == Check(w, "delete_check", "remove_container", "fail")

\* docker rm -f, when the row read at the start named a container.
RemoveContainer(w) ==
  /\ pc[w] = "remove_container"
  /\ box' = IF seen[w].recorded THEN [box EXCEPT ![Here(w)].container = "none", ![Here(w)].port = AnyPort] ELSE box
  /\ Goto(w, "remove_volume")
  /\ UNCHANGED <<store, pendingDelete, ghosts>>

\* docker volume rm -f: refused, unnoticed, while a container uses the volume.
RemoveVolume(w) ==
  /\ pc[w] = "remove_volume"
  /\ box' = IF seen[w].recorded /\ box[Here(w)].container = "none"
            THEN [box EXCEPT ![Here(w)].volume = FALSE] ELSE box
  /\ Goto(w, "delete_release")
  /\ UNCHANGED <<store, pendingDelete, ghosts>>

\* Mutant: a deleted workspace keeps its lease.
KeepDeletedLease(w) == /\ pc[w] = "delete_release" /\ Goto(w, "mark_deleted")
                       /\ UNCHANGED <<store, box, pendingDelete, ghosts>>

ReleaseDeleted(w) ==
  /\ pc[w] = "delete_release"
  /\ FreePorts(Here(w)) /\ Goto(w, "mark_deleted")
  /\ UNCHANGED <<state, row, status, task, cancel, box, pendingDelete, ghosts>>

\* Mutant: the delete job ends without MarkWorkspaceDeleted.
EndUnmarked(w) == /\ pc[w] = "mark_deleted" /\ Goto(w, "set_done")
                  /\ UNCHANGED <<store, box, pendingDelete, ghosts>>

MarkDeleted(w) ==
  /\ pc[w] = "mark_deleted"
  /\ SetState(w, "deleted") /\ Goto(w, "set_done")
  /\ UNCHANGED <<row, status, task, cancel, lease, box, pendingDelete, ghosts>>

-----------------------------------------------------------------------------
(* Faults *)

Disturb(ws) == /\ faults < MaxFaults /\ faults' = faults + 1
               /\ disturbed' = disturbed \cup {ws}

\* The process dies, or shuts down: its context is cancelled and serve does not wait.
Crash(w) == /\ pc[w] # "idle"
            /\ Disturb(Here(w)) /\ GoIdle(w)
            /\ UNCHANGED <<store, box, pendingDelete>>

\* The client goes away, or the second statement of QueueWorkspaceDelete fails.
DropDelete(ws) == /\ ws \in pendingDelete
                  /\ pendingDelete' = pendingDelete \ {ws}
                  /\ Disturb(ws)
                  /\ UNCHANGED <<store, box, worker>>

\* GetWorkspace fails: the job is failed and the workspace left as it is.
LoadFails(w) == /\ pc[w] = "load"
                /\ Disturb(Here(w)) /\ SetStatus(w, "failed") /\ GoIdle(w)
                /\ UNCHANGED <<state, row, task, cancel, lease, box, pendingDelete>>

\* A statement whose error is returned: the job stays running and the worker moves on.
StatementFails(w) == /\ pc[w] \in {"load", "start", "allocate", "set_image", "set_done", "follow_up",
                                   "record", "delete_release", "mark_deleted"}
                     /\ Disturb(Here(w)) /\ GoIdle(w)
                     /\ UNCHANGED <<store, box, pendingDelete>>

\* The store fails in AllocatePort, or the password secret cannot be read: failJob keeps the lease.
AllocateOrSecretFails(w) ==
  /\ pc[w] \in {"allocate", "provision_check"}
  /\ Disturb(Here(w)) /\ Fail(w, "fail", "failed")
  /\ UNCHANGED <<store, box, pendingDelete>>

\* Calls whose error is dropped (a cancellation check, failJob, ReleasePort, docker rm) and the step after.
AfterIgnored == [build_check |-> "build", provision_check |-> "image", start_check |-> "start_container",
                 delete_check |-> "remove_container", remove_container |-> "remove_volume",
                 remove_volume |-> "delete_release", release |-> "fail", fail |-> "fail_state"]
ErrorIgnored(w) ==
  /\ \/ pc[w] \in DOMAIN AfterIgnored /\ Goto(w, AfterIgnored[pc[w]])
     \/ pc[w] = "fail_state" /\ GoIdle(w)
  /\ Disturb(Here(w))
  /\ UNCHANGED <<store, box, pendingDelete>>

WorkerFault(w) == \/ Crash(w) \/ LoadFails(w) \/ StatementFails(w)
                  \/ AllocateOrSecretFails(w) \/ ErrorIgnored(w)

-----------------------------------------------------------------------------
Work(w) ==
  \/ LeaseNextJob(w) \/ LoadWorkspace(w) \/ StartJob(w) \/ SetDone(w)
  \/ ReleaseAfterError(w) \/ FailJob(w) \/ FailWorkspace(w)
  \/ BuildCheck(w) \/ BuildImage(w) \/ SetImage(w) \/ EnqueueFollowUp(w)
  \/ AllocatePort(w) \/ AllocateFails(w) \/ ProvisionCheck(w) \/ RequireImage(w) \/ CommandFails(w)
  \/ CreateVolume(w) \/ CreateContainer(w) \/ StartCheck(w) \/ StartContainer(w) \/ RecordProvisioned(w)
  \/ DeleteCheck(w) \/ RemoveContainer(w) \/ RemoveVolume(w) \/ ReleaseDeleted(w) \/ MarkDeleted(w)

Next == \/ Handlers
        \/ \E w \in Workers : Work(w) \/ WorkerFault(w)
        \/ \E ws \in Workspaces : DropDelete(ws)

Spec == Init /\ [][Next]_vars

(* A worker that has leased a job takes its steps without waiting for anyone,   *)
(* docker commands are taken to return, and net/http runs a handler to its end. *)
(* Only the server's loop keeps leasing; it is free again after every job, so   *)
(* some lease is taken whenever one stays possible.                             *)
FairSpec == /\ Spec
            /\ \A w \in Workers : WF_vars(pc[w] # "idle" /\ Work(w))
            /\ WF_vars(\E w \in Workers : LeaseNextJob(w))
            /\ \A ws \in Workspaces : WF_vars(SetDeleting(ws))

-----------------------------------------------------------------------------
(* Properties *)

PCs == {"idle", "load", "start", "set_done", "follow_up", "release", "fail", "fail_state",
        "build_check", "build", "set_image", "allocate", "provision_check", "image", "volume",
        "create", "start_check", "start_container", "record", "delete_check",
        "remove_container", "remove_volume", "delete_release", "mark_deleted"}
JobTypes == {"build_image", "provision_workspace", "delete_workspace"}
States   == {"absent", "pending", "building", "provisioning", "running", "failed", "deleting", "deleted"}
Rows     == [built : BOOLEAN, image : BOOLEAN, recorded : BOOLEAN, sshPort : Ports \cup {AnyPort}]

(* Types of the tables, of Docker's objects and of the workers' memories. *)
TypeOK ==
  /\ state \in [Workspaces -> States]
  /\ row \in [Workspaces -> Rows]
  /\ status \in [Jobs -> {"absent", "queued", "running", "erased"} \cup Finished]
  /\ task \in [Jobs -> [ws : Workspaces, type : JobTypes] \cup {NoTask}]
  /\ cancel \in [Jobs -> {"no", "queued", "running"}]
  /\ lease \in [Ports -> Workspaces \cup {NoWorkspace}]
  /\ box \in [Workspaces -> [container : {"none", "created", "running"},
                             port : Ports \cup {AnyPort}, volume : BOOLEAN]]
  /\ pc \in [Workers -> PCs]
  /\ held \in [Workers -> Jobs \cup {NoJob}]
  /\ seen \in [Workers -> Rows]
  /\ port \in [Workers -> Ports \cup {AnyPort}]
  /\ outcome \in [Workers -> {"none", "failed", "cancelled"}]
  /\ pendingDelete \subseteq Workspaces /\ disturbed \subseteq Workspaces
  /\ faults \in 0..MaxFaults

Acting(w, ws) == pc[w] # "idle" /\ Here(w) = ws

(* Every path through executeJob ends the job it leased: without a fault no     *)
(* row stays "running" after the worker has left it.                            *)
RunningJobHeld == \A j \in Jobs : status[j] = "running" =>
                    task[j].ws \in disturbed \/ \E w \in Workers : held[w] = j

(* A workspace shown as building or provisioning is on its way somewhere: a     *)
(* queued job or a worker will still write its state, also when jobs on the     *)
(* same workspace overlap and when the state is left to a follow-up job.        *)
Settles(w, ws) == /\ Acting(w, ws) /\ Type(w) # "delete_workspace"
                  /\ ~(Type(w) = "provision_workspace" /\ pc[w] = "set_done")
NoStranded == \A ws \in Workspaces \ disturbed : state[ws] \in {"building", "provisioning"} =>
                \/ \E w \in Workers : Settles(w, ws)
                \/ \E j \in Jobs : /\ status[j] = "queued" /\ task[j].ws = ws
                                   /\ task[j].type # "delete_workspace"

(* A stop requested while the job was still queued is seen before the job       *)
(* builds, creates or removes anything.                                         *)
EarlyCancelHonoured ==
  \A w \in Workers : held[w] # NoJob /\ cancel[held[w]] = "queued" /\ Here(w) \notin disturbed =>
    pc[w] \in {"load", "start", "build_check", "allocate", "provision_check", "delete_check",
              "release", "fail", "fail_state"}

(* Jobs are provisioned in the order that makes their image known: Provision's  *)
(* "resolved image reference is required" is never reached.                     *)
ProvisionHasImage == \A w \in Workers : pc[w] = "image" => ImageKnown(seen[w])

(* A workspace never holds two ports, whatever job asks again.                  *)
OneLeasePerWorkspace == \A p, q \in Ports : lease[p] = lease[q] /\ lease[p] # NoWorkspace => p = q

(* A leased port serves a running container, or a worker is about to use it or  *)
(* give it back: no sequence of failures and stops uses up the port range.      *)
ReturnsPort(w, ws) ==
  /\ Acting(w, ws)
  /\ \/ Type(w) = "provision_workspace" /\
        pc[w] \in {"provision_check", "image", "volume", "create", "start_check", "start_container", "release"}
     \/ pc[w] \in {"remove_volume", "delete_release"}
NoPortLeak == \A p \in Ports : lease[p] # NoWorkspace /\ lease[p] \notin disturbed =>
                \/ box[lease[p]].container = "running"
                \/ \E w \in Workers : ReturnsPort(w, lease[p])

(* With one worker: a workspace shown as running has its container, running,    *)
(* and its ssh_port is the port that container publishes.                       *)
RunningIsReal == \A ws \in Workspaces \ disturbed : state[ws] = "running" =>
                   \/ box[ws].container = "running" /\ box[ws].port = row[ws].sshPort
                   \/ \E w \in Workers : Acting(w, ws) /\ Type(w) = "delete_workspace"

(* With one worker: a deleted workspace holds no port and no running container, *)
(* and no other container or volume either, unless one of its provisionings was *)
(* stopped or failed: what that one created is in no row, and Delete misses it. *)
BrokenOff(ws) == \E j \in Jobs : /\ task[j] = [ws |-> ws, type |-> "provision_workspace"]
                                /\ status[j] \in {"failed", "cancelled"}
DeletedHoldsNothing == \A ws \in Workspaces \ disturbed : state[ws] = "deleted" =>
  /\ Leased(ws) = {} /\ box[ws].container # "running"
  /\ box[ws] = NoBox \/ BrokenOff(ws)

(* With one worker: a running container listens on the port its workspace       *)
(* leases, so the table that prevents port conflicts is right, until a build or *)
(* provision job of the workspace is resumed (the second docker create fails    *)
(* and the error path frees the port of the running container).                 *)
Resumed(ws) == \E j, k \in Jobs : /\ j # k /\ task[j] = task[k]
                                  /\ task[j].ws = ws /\ task[j].type # "delete_workspace"
RunningHasLease == \A ws \in Workspaces \ disturbed : box[ws].container = "running" =>
                     lease[box[ws].port] = ws \/ Resumed(ws)

(* With any number of workers: a workspace shown as running has its container,  *)
(* running, on the port its row names, and a running container has the lease of *)
(* its port, until somebody deletes the workspace, resumes one of its jobs or   *)
(* removes a queued one, or a fault hits it.                                    *)
Plain(ws) == ~Resumed(ws) /\ \A j \in Jobs : task[j].ws = ws => task[j].type # "delete_workspace"
RunningIsServed == \A ws \in Workspaces \ disturbed : Plain(ws) =>
  /\ state[ws] = "running" => box[ws].container = "running" /\ box[ws].port = row[ws].sshPort
  /\ box[ws].container = "running" => lease[box[ws].port] = ws

(* With one worker and rows inserted in the order of their times: a deleted     *)
(* workspace stays deleted, whatever is built, stopped, resumed, removed or     *)
(* fails for it and for others, but for two ways back that the code leaves      *)
(* open: a build or provisioning of it was queued behind a deletion (a build's  *)
(* follow-up, a resumed job), or one of its deletions was asked to stop, and    *)
(* failJob writes "pending" over the "deleted" of another.                      *)
IsDeletion(d, ws) == task[d] = [ws |-> ws, type |-> "delete_workspace"]
QueuedBehindDeletion(ws) == \E d, j \in Jobs : /\ IsDeletion(d, ws) /\ d < j
                                               /\ task[j].ws = ws /\ ~IsDeletion(j, ws)
DeletionStopped(ws) == \E d \in Jobs : IsDeletion(d, ws) /\ cancel[d] # "no"
DeletionLasts == [][\A ws \in Workspaces :
  state[ws] = "deleted" /\ ~QueuedBehindDeletion(ws) /\ ~DeletionStopped(ws) =>
    state'[ws] \in {"deleted", "deleting"}]_vars

(* The jobs table as executeJob uses it implements the queue LeaseTx implements:*)
(* jobs are taken oldest first, by one worker, and end once.                    *)
Board == INSTANCE JobBoard WITH
           runner <- [w \in Workers |-> IF held[w] # NoJob /\ status[held[w]] = "running"
                                        THEN held[w] ELSE NoJob]
ImplementsBoard == Board!Spec

(* The jobs use port_leases as the table PortTx implements: a workspace has at   *)
(* most one port, and a port goes to another workspace only after its release.  *)
PortLeases == INSTANCE PortTable WITH Callers <- Workers, PortRange <- Ports
ImplementsPorts == PortLeases!Spec

(* A queued job ends: done, failed, stopped or removed, unless a fault hits its *)
(* workspace.                                                                   *)
JobsEnd == \A j \in Jobs : status[j] = "queued" ~>
             \/ status[j] \in Finished \cup {"erased"}
             \/ task[j].ws \in disturbed

(* A delete request gets through: the workspace is deleted at some later time,  *)
(* unless the request was stopped or removed or a fault hits the workspace.     *)
DeletesGetThrough == \A j \in Jobs :
  status[j] = "queued" /\ task[j].type = "delete_workspace" ~>
     \/ task[j].ws \in {ws \in Workspaces : state[ws] = "deleted"}
     \/ status[j] \in {"cancelled", "erased"}
     \/ task[j].ws \in disturbed

-----------------------------------------------------------------------------
(* A statement of docs/plan/implementation-plan.md that the code does not keep *)

(* 7.2: a workspace whose deletion succeeded stays deleted (its state may read  *)
(* "deleting" again, which the handler writes after it has inserted its job).   *)
(* The follow-up of a build, or a resumed job, provisions it anew.              *)
NoResurrection == [][\A ws \in Workspaces : state[ws] = "deleted" => state'[ws] \in {"deleted", "deleting"}]_vars

=============================================================================
