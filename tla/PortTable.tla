----------------------------- MODULE PortTable -----------------------------
(* What the port_leases table of internal/db promises to the provisioning    *)
(* jobs, stated without transactions: a workspace holds at most one port, a  *)
(* port changes hands only after it was given back, and AllocatePort answers *)
(* with the port the workspace has or with the lowest free candidate.        *)
(* PortTx and Lifecycle are shown to implement this module.                  *)
EXTENDS Integers

CONSTANTS Workspaces,   \* ids of the workspaces that may hold a port
          Callers,      \* worker loops that call AllocatePort
          Ports,        \* ports users may ask for
          PortRange,    \* the configured port range, searched when no port is asked for
          NoWorkspace   \* the owner of a free port

AnyPort == 0            \* ssh_port 0: no port is preferred

VARIABLES lease,   \* lease[p]: the workspace of the unreleased port_leases row of p
          port     \* port[c]: the port that AllocatePort answered to c
vars == <<lease, port>>

Leased(ws) == {p \in Ports : lease[p] = ws}
Candidates(preferred) == IF preferred # AnyPort THEN {preferred} ELSE PortRange
IsLowestFree(p, preferred) ==
  LET free == {q \in Candidates(preferred) : lease[q] = NoWorkspace}
  IN p \in free /\ \A q \in free : p <= q

Init == /\ lease = [p \in Ports |-> NoWorkspace]
        /\ port = [c \in Callers |-> AnyPort]

\* The workspace has a port: asking again returns it.
Again(c, ws) == /\ port[c] = AnyPort
                /\ \E p \in Leased(ws) : port' = [port EXCEPT ![c] = p]
                /\ UNCHANGED lease

Grant(c, ws, preferred) == /\ port[c] = AnyPort /\ Leased(ws) = {}
                           /\ \E p \in Ports : /\ IsLowestFree(p, preferred)
                                               /\ port' = [port EXCEPT ![c] = p]
                                               /\ lease' = [lease EXCEPT ![p] = ws]

\* The caller is done with the port it was told, or dies; the lease stays.
Forget(c) == port' = [port EXCEPT ![c] = AnyPort] /\ UNCHANGED lease

\* ReleasePort: all leases of the workspace, whoever uses them.
Release(ws) == /\ lease' = [p \in Ports |-> IF lease[p] = ws THEN NoWorkspace ELSE lease[p]]
               /\ UNCHANGED port

Next == \/ \E c \in Callers : \/ Forget(c)
                              \/ \E ws \in Workspaces : \/ Again(c, ws)
                                                        \/ \E want \in Ports \cup {AnyPort} : Grant(c, ws, want)
        \/ \E ws \in Workspaces : Release(ws)

Spec == Init /\ [][Next]_vars

-----------------------------------------------------------------------------
TypeOK == /\ lease \in [Ports -> Workspaces \cup {NoWorkspace}]
          /\ port \in [Callers -> Ports \cup {AnyPort}]

\* A workspace never holds two ports.
OneLease == \A p, q \in Ports : lease[p] = lease[q] /\ lease[p] # NoWorkspace => p = q
=============================================================================
