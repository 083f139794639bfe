------------------------------- MODULE PortTx -------------------------------
(* Store.AllocatePort statement by statement, against the other callers of   *)
(* the same SQLite file, ReleasePort and every other writer.  Its deferred   *)
(* transaction reads the whole search on one snapshot, asks for the write    *)
(* lock with its INSERT or UPDATE and publishes with COMMIT.  The deferred   *)
(* Rollback runs only for errors kept in the variable err: a search that     *)
(* finds no port, or cannot read, returns with its transaction open.  The    *)
(* pool opens another connection for the next call, and in WAL mode an old   *)
(* reader hinders nobody, so what is left open is not part of the state.     *)
EXTENDS Integers

CONSTANTS Workspaces, Callers, Ports, PortRange, NoWorkspace,  \* see PortTable
          MaxDisturbances  \* bound on unrelated commits, failing statements and crashes

ASSUME PortTxAssumption ==
  /\ MaxDisturbances \in Nat
  /\ Ports \subseteq Nat \ {0} /\ PortRange \subseteq Ports /\ NoWorkspace \notin Workspaces

VARIABLES
  lease,        \* the committed table
  port,         \* the port AllocatePort returned to the caller, while it works with it
  step,         \* "idle", in AllocatePort: "searching", "found", "chosen", "written", or "returned"
  ws, want,     \* the arguments of the call: workspaceID, preferredPort
  snapshot,     \* the table as the transaction's first SELECT saw it
  stale,        \* somebody has committed since that SELECT
  picked,       \* the port the transaction found or chose
  disturbances  \* disturbances so far
call == <<step, ws, want, snapshot, picked>>
vars == <<lease, port, call, stale, disturbances>>

AnyPort == 0
NoPort  == 0
Open(c) == step[c] \in {"searching", "found", "chosen", "written"}
WriteLocked == \E c \in Callers : step[c] = "written"
LeasedIn(table, w) == {p \in Ports : table[p] = w}
Candidates(preferred) == IF preferred # AnyPort THEN {preferred} ELSE PortRange

NoLeases == [p \in Ports |-> NoWorkspace]

Init == /\ lease = NoLeases /\ snapshot = [c \in Callers |-> NoLeases]
        /\ port = [c \in Callers |-> NoPort] /\ picked = [c \in Callers |-> NoPort]
        /\ step = [c \in Callers |-> "idle"]
        /\ ws = [c \in Callers |-> NoWorkspace] /\ want = [c \in Callers |-> AnyPort]
        /\ stale = [c \in Callers |-> FALSE]
        /\ disturbances = 0

\* A commit (by c, or by nobody of Callers) makes every other open snapshot old.
Publish(c) == stale' = [d \in Callers |-> d # c /\ Open(d)]
Disturb == disturbances < MaxDisturbances /\ disturbances' = disturbances + 1

\* AllocatePort returns: its variables are gone.
Return(c, s) == /\ step' = [step EXCEPT ![c] = s]
                /\ ws' = [ws EXCEPT ![c] = NoWorkspace] /\ want' = [want EXCEPT ![c] = AnyPort]
                /\ snapshot' = [snapshot EXCEPT ![c] = NoLeases]
                /\ picked' = [picked EXCEPT ![c] = NoPort]
\* ... without a port.
Leave(c) == Return(c, "idle") /\ stale' = [stale EXCEPT ![c] = FALSE]

\* Mutant: the preferred port is returned in place of the existing one.
ReturnPreferred(c, w, preferred) ==
  /\ step[c] = "idle"
  /\ ws' = [ws EXCEPT ![c] = w] /\ want' = [want EXCEPT ![c] = preferred]
  /\ snapshot' = [snapshot EXCEPT ![c] = lease] /\ stale' = [stale EXCEPT ![c] = FALSE]
  /\ \/ /\ LeasedIn(lease, w) # {} /\ step' = [step EXCEPT ![c] = "found"]
        /\ picked' = [picked EXCEPT ![c] = preferred]
     \/ /\ LeasedIn(lease, w) = {}
        /\ step' = [step EXCEPT ![c] = "searching"] /\ picked' = picked
  /\ UNCHANGED <<lease, port, disturbances>>

\* BEGIN and SELECT port ... WHERE workspace_id = ? AND released_at IS NULL.
SelectLease(c, w, preferred) ==
  /\ step[c] = "idle"
  /\ ws' = [ws EXCEPT ![c] = w] /\ want' = [want EXCEPT ![c] = preferred]
  /\ snapshot' = [snapshot EXCEPT ![c] = lease] /\ stale' = [stale EXCEPT ![c] = FALSE]
  /\ \/ \E p \in LeasedIn(lease, w) : /\ step' = [step EXCEPT ![c] = "found"]
                                      /\ picked' = [picked EXCEPT ![c] = p]
     \/ /\ LeasedIn(lease, w) = {}
        /\ step' = [step EXCEPT ![c] = "searching"] /\ picked' = picked
  /\ UNCHANGED <<lease, port, disturbances>>

\* COMMIT of a transaction that has only read.
ReturnExisting(c) == /\ step[c] = "found"
                     /\ port' = [port EXCEPT ![c] = picked[c]]
                     /\ Return(c, "returned") /\ stale' = [stale EXCEPT ![c] = FALSE]
                     /\ UNCHANGED <<lease, disturbances>>

FreeIn(table, preferred) == {p \in Candidates(preferred) : table[p] = NoWorkspace}

\* Mutant: a port leased to another workspace is not skipped.
TakeFirst(c) == /\ step[c] = "searching"
                /\ \E p \in Candidates(want[c]) : /\ \A q \in Candidates(want[c]) : p <= q
                                                  /\ picked' = [picked EXCEPT ![c] = p]
                /\ step' = [step EXCEPT ![c] = "chosen"]
                /\ UNCHANGED <<lease, port, ws, want, snapshot, stale, disturbances>>

\* SELECT ... WHERE port = ? for one candidate after the other, up to the first free one.
ChooseFree(c) == LET free == FreeIn(snapshot[c], want[c]) IN
                 /\ step[c] = "searching"
                 /\ \E p \in free : /\ \A q \in free : p <= q
                                    /\ picked' = [picked EXCEPT ![c] = p]
                 /\ step' = [step EXCEPT ![c] = "chosen"]
                 /\ UNCHANGED <<lease, port, ws, want, snapshot, stale, disturbances>>

\* "requested port is unavailable", "no free ports available".
FindNone(c) == /\ step[c] = "searching" /\ FreeIn(snapshot[c], want[c]) = {}
               /\ Leave(c)
               /\ UNCHANGED <<lease, port, disturbances>>

\* A later SELECT fails; when the first one does, the call has read and changed nothing.
ReadFails(c) == /\ step[c] = "searching" /\ Disturb
                /\ Leave(c)
                /\ UNCHANGED <<lease, port>>

\* Mutant: INSERT or UPDATE runs in a transaction of its own, whatever was committed since.
WriteAnySnapshot(c) == /\ step[c] = "chosen" /\ ~WriteLocked
                       /\ step' = [step EXCEPT ![c] = "written"]
                       /\ stale' = [stale EXCEPT ![c] = FALSE]
                       /\ UNCHANGED <<lease, port, ws, want, snapshot, picked, disturbances>>

\* INSERT INTO port_leases, or UPDATE of a released row: the lock on the latest snapshot.
WriteLease(c) == /\ step[c] = "chosen" /\ ~stale[c] /\ ~WriteLocked
                 /\ step' = [step EXCEPT ![c] = "written"]
                 /\ UNCHANGED <<lease, port, ws, want, snapshot, picked, stale, disturbances>>

\* Mutant: a refused write is tried again in the same transaction.
RefusedRetry(c) == /\ step[c] = "chosen" /\ (stale[c] \/ WriteLocked)
                   /\ step' = [step EXCEPT ![c] = "searching"]
                   /\ picked' = [picked EXCEPT ![c] = NoPort]
                   /\ UNCHANGED <<lease, port, ws, want, snapshot, stale, disturbances>>

\* SQLITE_BUSY or SQLITE_BUSY_SNAPSHOT: rolled back, AllocatePort returns the error.
Refused(c) == /\ step[c] = "chosen" /\ (stale[c] \/ WriteLocked)
              /\ Leave(c)
              /\ UNCHANGED <<lease, port, disturbances>>

CommitLease(c) == /\ step[c] = "written"
                  /\ lease' = [lease EXCEPT ![picked[c]] = ws[c]]
                  /\ port' = [port EXCEPT ![c] = picked[c]]
                  /\ Return(c, "returned") /\ Publish(c)
                  /\ UNCHANGED disturbances

\* INSERT, UPDATE or COMMIT fails otherwise: err is set.
WriteFails(c) == /\ step[c] \in {"found", "chosen", "written"} /\ Disturb
                 /\ Leave(c)
                 /\ UNCHANGED <<lease, port>>

\* The job that asked for the port has ended.
EndJob(c) == /\ step[c] = "returned"
             /\ Leave(c) /\ port' = [port EXCEPT ![c] = NoPort]
             /\ UNCHANGED <<lease, disturbances>>

\* The process dies or its context is cancelled: every transaction of it is gone.
Crash(c) == /\ step[c] # "idle" /\ Disturb
            /\ Leave(c) /\ port' = [port EXCEPT ![c] = NoPort]
            /\ UNCHANGED lease

\* ReleasePort, after an error or for a deleted workspace, by any process.
ReleasePort(w) == /\ ~WriteLocked /\ LeasedIn(lease, w) # {}
                  /\ lease' = [p \in Ports |-> IF lease[p] = w THEN NoWorkspace ELSE lease[p]]
                  /\ stale' = [d \in Callers |-> Open(d)]
                  /\ UNCHANGED <<port, call, disturbances>>

\* Any other commit on the file: a log line, a job, a workspace.
OtherWrite == /\ ~WriteLocked /\ Disturb
              /\ stale' = [d \in Callers |-> Open(d)]
              /\ UNCHANGED <<lease, port, call>>

Answer(c) == \/ ReturnExisting(c) \/ ChooseFree(c) \/ FindNone(c)
             \/ WriteLease(c) \/ Refused(c) \/ CommitLease(c)

Next == \/ \E c \in Callers :
             \/ \E w \in Workspaces, preferred \in Ports \cup {AnyPort} : SelectLease(c, w, preferred)
             \/ Answer(c) \/ ReadFails(c) \/ WriteFails(c) \/ EndJob(c) \/ Crash(c)
        \/ \E w \in Workspaces : ReleasePort(w)
        \/ OtherWrite

Spec == Init /\ [][Next]_vars
\* AllocatePort waits for nobody: a store call returns, refused or not.
FairSpec == Spec /\ \A c \in Callers : WF_vars(Answer(c))

-----------------------------------------------------------------------------
(* Types of the table and of the calls in progress. *)
TypeOK == /\ lease \in [Ports -> Workspaces \cup {NoWorkspace}]
          /\ port \in [Callers -> Ports \cup {NoPort}]
          /\ step \in [Callers -> {"idle", "searching", "found", "chosen", "written", "returned"}]
          /\ ws \in [Callers -> Workspaces \cup {NoWorkspace}]
          /\ want \in [Callers -> Ports \cup {AnyPort}]
          /\ snapshot \in [Callers -> [Ports -> Workspaces \cup {NoWorkspace}]]
          /\ stale \in [Callers -> BOOLEAN]
          /\ picked \in [Callers -> Ports \cup {NoPort}]
          /\ disturbances \in 0..MaxDisturbances
          /\ \A c \in Callers : step[c] \in {"found", "chosen", "written"} <=> picked[c] # NoPort

(* What AllocatePort's unconditional INSERT or UPDATE relies on: whoever has    *)
(* the write lock is alone, and in the committed table the port it writes is    *)
(* still the lowest free candidate and its workspace still has none.            *)
WriteIsSafe == \A c \in Callers : step[c] = "written" =>
                 /\ \A d \in Callers : step[d] = "written" => d = c
                 /\ LeasedIn(lease, ws[c]) = {}
                 /\ picked[c] \in FreeIn(lease, want[c])
                 /\ \A q \in FreeIn(lease, want[c]) : picked[c] <= q

(* Two callers never get the same port for different workspaces, nor two ports  *)
(* for the same one.                                                            *)
OneLease == \A p, q \in Ports : lease[p] = lease[q] /\ lease[p] # NoWorkspace => p = q

(* AllocatePort and ReleasePort implement the atomic table.  An existing lease  *)
(* is answered as of the first SELECT: it may be released before the COMMIT.    *)
Table == INSTANCE PortTable WITH
           port <- [c \in Callers |-> IF step[c] = "found" THEN picked[c] ELSE port[c]]
ImplementsTable == Table!Spec

(* Every call returns, whatever it loses against: a refused write is an answer, *)
(* not a reason to try again on the same snapshot.                              *)
CallsReturn == \A c \in Callers : Open(c) ~> ~Open(c)
=============================================================================
