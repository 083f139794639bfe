----------------------------- MODULE PortTxProofs -----------------------------
(* AllocatePort never leases a port twice and never two to one workspace, for *)
(* any number of callers, and implements the atomic port table.  The argument *)
(* is SnapshotCurrent: a snapshot that nobody made stale is the committed     *)
(* table, so what the search found on it still holds when it is written.      *)
EXTENDS PortTx, TLAPS

SnapshotCurrent == \A c \in Callers : Open(c) /\ ~stale[c] => snapshot[c] = lease

WriterAlone == \A c, d \in Callers : step[c] = "written" =>
                 ~stale[c] /\ (step[d] = "written" => d = c)

(* A call has searched on its snapshot, for a workspace without a lease in it. *)
Searched == \A c \in Callers :
  /\ step[c] \in {"searching", "chosen", "written"} =>
       ws[c] \in Workspaces /\ LeasedIn(snapshot[c], ws[c]) = {}
  /\ step[c] \in {"chosen", "written"} =>
       /\ picked[c] \in FreeIn(snapshot[c], want[c])
       /\ \A q \in FreeIn(snapshot[c], want[c]) : picked[c] <= q

(* Only a caller whose call has returned works with a port. *)
PortAfterReturn == \A c \in Callers : step[c] # "returned" => port[c] = NoPort

PortInv == /\ TypeOK /\ SnapshotCurrent /\ WriterAlone /\ Searched
           /\ PortAfterReturn /\ OneLease

(* The guard of INSERT and UPDATE follows. *)
LEMMA SafeWrites == PortInv => WriteIsSafe
  BY DEF PortInv, SnapshotCurrent, WriterAlone, Searched, WriteIsSafe, Open

LEMMA NoPortUnused == ASSUME PortTxAssumption PROVE NoPort \notin Ports
  BY DEF PortTxAssumption, NoPort

LEMMA AnyIsNone == AnyPort = NoPort
  BY DEF AnyPort, NoPort

LEMMA PortInit == ASSUME PortTxAssumption, Init PROVE PortInv
<1> USE DEF Init, NoLeases, Open
<1>1. TypeOK
  BY NoPortUnused DEF TypeOK, PortTxAssumption, NoPort, AnyPort
<1>2. SnapshotCurrent /\ WriterAlone /\ Searched /\ PortAfterReturn /\ OneLease
  BY DEF SnapshotCurrent, WriterAlone, Searched, PortAfterReturn, OneLease
<1> QED BY <1>1, <1>2 DEF PortInv

(* One lemma for each step: the conjuncts it can disturb. *)
LEMMA SelectKeeps ==
  ASSUME PortTxAssumption, PortInv, NEW c \in Callers, NEW w \in Workspaces,
         NEW preferred \in Ports \cup {AnyPort}, SelectLease(c, w, preferred)
  PROVE  PortInv'
<1> USE DEF PortInv, SelectLease, Open
<1>1. TypeOK'
  <2>1. CASE LeasedIn(lease, w) = {}
    BY <2>1, AnyIsNone DEF TypeOK
  <2>2. CASE LeasedIn(lease, w) # {}
    <3>1. PICK p \in LeasedIn(lease, w) :
            step' = [step EXCEPT ![c] = "found"] /\ picked' = [picked EXCEPT ![c] = p]
      BY <2>2
    <3>2. p \in Ports /\ p # NoPort
      BY NoPortUnused DEF LeasedIn
    <3> QED BY <3>1, <3>2, AnyIsNone DEF TypeOK
  <2> QED BY <2>1, <2>2
<1>2. SnapshotCurrent'
  BY DEF TypeOK, SnapshotCurrent
<1>3. WriterAlone'
  BY DEF TypeOK, WriterAlone
<1>4. Searched'
  <2>1. ASSUME NEW d \in Callers, d # c
        PROVE  /\ step'[d] = step[d] /\ ws'[d] = ws[d] /\ want'[d] = want[d]
               /\ snapshot'[d] = snapshot[d] /\ picked'[d] = picked[d]
    BY <2>1 DEF TypeOK
  <2>2. step'[c] \in {"found", "searching"} /\ ws'[c] = w /\ snapshot'[c] = lease
    BY DEF TypeOK
  <2>3. step'[c] = "searching" => LeasedIn(lease, w) = {}
    BY DEF TypeOK
  <2> QED BY <2>1, <2>2, <2>3 DEF Searched, FreeIn, LeasedIn
<1>5. PortAfterReturn' /\ OneLease'
  BY DEF TypeOK, PortAfterReturn, OneLease
<1> QED BY <1>1, <1>2, <1>3, <1>4, <1>5

LEMMA ChooseKeeps ==
  ASSUME PortTxAssumption, PortInv, NEW c \in Callers, ChooseFree(c) PROVE PortInv'
<1> USE DEF PortInv, ChooseFree, Open
<1>0. FreeIn(snapshot[c], want[c]) \subseteq Ports
  BY DEF TypeOK, FreeIn, Candidates, PortTxAssumption
<1>1. TypeOK'
  BY <1>0, NoPortUnused DEF TypeOK, NoPort
<1>2. SnapshotCurrent'
  BY DEF TypeOK, SnapshotCurrent
<1>3. WriterAlone'
  BY DEF TypeOK, WriterAlone
<1>4. Searched'
  BY DEF TypeOK, Searched, FreeIn
<1>5. PortAfterReturn' /\ OneLease'
  BY DEF TypeOK, PortAfterReturn, OneLease
<1> QED BY <1>1, <1>2, <1>3, <1>4, <1>5

LEMMA WriteKeeps == ASSUME PortInv, NEW c \in Callers, WriteLease(c) PROVE PortInv'
<1> USE DEF PortInv, WriteLease, Open
<1>1. TypeOK'
  BY DEF TypeOK
<1>2. SnapshotCurrent'
  BY DEF TypeOK, SnapshotCurrent
<1>3. WriterAlone'
  BY DEF TypeOK, WriterAlone, WriteLocked
<1>4. Searched'
  BY DEF TypeOK, Searched, FreeIn
<1>5. PortAfterReturn' /\ OneLease'
  BY DEF TypeOK, PortAfterReturn, OneLease
<1> QED BY <1>1, <1>2, <1>3, <1>4, <1>5

(* What every way out of AllocatePort but a lease keeps. *)
LEMMA ReturnKeeps ==
  ASSUME PortTxAssumption, PortInv, NEW c \in Callers, NEW s \in {"idle", "returned"}, Return(c, s),
         lease' = lease, stale' = [stale EXCEPT ![c] = FALSE],
         disturbances' \in 0..MaxDisturbances,
         port' \in [Callers -> Ports \cup {NoPort}],
         \A d \in Callers : d # c => port'[d] = port[d],
         s # "returned" => port'[c] = NoPort
  PROVE  PortInv'
<1> USE DEF PortInv, Return, Open, NoLeases
<1>1. TypeOK'
  BY NoPortUnused DEF TypeOK, AnyPort
<1>2. SnapshotCurrent'
  BY DEF TypeOK, SnapshotCurrent
<1>3. WriterAlone'
  BY DEF TypeOK, WriterAlone
<1>4. Searched'
  BY DEF TypeOK, Searched, FreeIn
<1>5. PortAfterReturn' /\ OneLease'
  BY DEF TypeOK, PortAfterReturn, OneLease
<1> QED BY <1>1, <1>2, <1>3, <1>4, <1>5

LEMMA CommitKeeps == ASSUME PortTxAssumption, PortInv, NEW c \in Callers, CommitLease(c) PROVE PortInv'
<1> USE DEF PortInv, CommitLease, Return, Publish, Open, NoLeases
<1>0. /\ picked[c] \in Ports /\ picked[c] # NoPort /\ ws[c] \in Workspaces
      /\ lease[picked[c]] = NoWorkspace /\ LeasedIn(lease, ws[c]) = {}
  <2>1. snapshot[c] = lease /\ picked[c] \in FreeIn(lease, want[c])
    BY DEF SnapshotCurrent, WriterAlone, Searched
  <2>2. FreeIn(lease, want[c]) \subseteq Ports
    BY DEF TypeOK, FreeIn, Candidates, PortTxAssumption
  <2> QED BY <2>1, <2>2, NoPortUnused DEF Searched, FreeIn
<1>1. TypeOK'
  BY <1>0, NoPortUnused DEF TypeOK, AnyPort
<1>2. SnapshotCurrent'
  BY DEF TypeOK, SnapshotCurrent
<1>3. WriterAlone'
  BY DEF TypeOK, WriterAlone
<1>4. Searched'
  BY DEF TypeOK, Searched, FreeIn
<1>5. PortAfterReturn'
  BY DEF TypeOK, PortAfterReturn
<1>6. OneLease'
  BY <1>0 DEF TypeOK, OneLease, LeasedIn
<1> QED BY <1>1, <1>2, <1>3, <1>4, <1>5, <1>6

(* ReleasePort and other writers: nobody has the lock, every open snapshot is old now. *)
LEMMA EnvironmentKeeps ==
  ASSUME PortInv, ~WriteLocked, UNCHANGED <<port, call>>,
         stale' = [d \in Callers |-> Open(d)],
         lease' = lease \/ \E w \in Workspaces :
                             lease' = [p \in Ports |-> IF lease[p] = w THEN NoWorkspace ELSE lease[p]],
         disturbances' \in 0..MaxDisturbances
  PROVE  PortInv'
<1> USE DEF PortInv, call, Open
<1>1. TypeOK'
  BY DEF TypeOK
<1>2. SnapshotCurrent' /\ WriterAlone'
  BY DEF TypeOK, SnapshotCurrent, WriterAlone, WriteLocked
<1>3. Searched'
  BY DEF Searched, FreeIn
<1>4. PortAfterReturn'
  BY DEF PortAfterReturn
<1>5. OneLease'
  BY DEF TypeOK, OneLease
<1> QED BY <1>1, <1>2, <1>3, <1>4, <1>5

LEMMA PortStep == ASSUME PortTxAssumption, PortInv, [Next]_vars PROVE PortInv'
<1> USE DEF PortInv, Disturb, PortTxAssumption
<1>1. ASSUME NEW c \in Callers, FindNone(c) \/ ReadFails(c) \/ Refused(c) \/ WriteFails(c) PROVE PortInv'
  <2>1. Return(c, "idle") /\ lease' = lease /\ stale' = [stale EXCEPT ![c] = FALSE] /\ port' = port
    BY <1>1 DEF FindNone, ReadFails, Refused, WriteFails, Leave
  <2>2. port[c] = NoPort
    BY <1>1 DEF PortAfterReturn, FindNone, ReadFails, Refused, WriteFails
  <2>3. disturbances' \in 0..MaxDisturbances
    BY <1>1 DEF FindNone, ReadFails, Refused, WriteFails, TypeOK
  <2> QED BY <2>1, <2>2, <2>3, ReturnKeeps DEF TypeOK
<1>2. ASSUME NEW c \in Callers, ReturnExisting(c) PROVE PortInv'
  <2>1. /\ Return(c, "returned") /\ lease' = lease /\ stale' = [stale EXCEPT ![c] = FALSE]
        /\ port' = [port EXCEPT ![c] = picked[c]] /\ UNCHANGED disturbances
    BY <1>2 DEF ReturnExisting
  <2>2. port' \in [Callers -> Ports \cup {NoPort}] /\ \A d \in Callers : d # c => port'[d] = port[d]
    BY <2>1 DEF TypeOK
  <2> QED BY <2>1, <2>2, ReturnKeeps DEF TypeOK
<1>3. ASSUME NEW c \in Callers, EndJob(c) \/ Crash(c) PROVE PortInv'
  <2>1. /\ Return(c, "idle") /\ lease' = lease /\ stale' = [stale EXCEPT ![c] = FALSE]
        /\ port' = [port EXCEPT ![c] = NoPort]
    BY <1>3 DEF EndJob, Crash, Leave
  <2>2. disturbances' \in 0..MaxDisturbances
    BY <1>3 DEF EndJob, Crash, TypeOK
  <2>3. /\ port' \in [Callers -> Ports \cup {NoPort}] /\ port'[c] = NoPort
        /\ \A d \in Callers : d # c => port'[d] = port[d]
    BY <2>1 DEF TypeOK
  <2> QED BY <2>1, <2>2, <2>3, ReturnKeeps
<1>4. ASSUME NEW w \in Workspaces, ReleasePort(w) PROVE PortInv'
  BY <1>4, EnvironmentKeeps DEF ReleasePort, TypeOK
<1>5. CASE OtherWrite
  <2>1. disturbances' \in 0..MaxDisturbances
    BY <1>5 DEF OtherWrite, TypeOK
  <2> QED BY <1>5, <2>1, EnvironmentKeeps DEF OtherWrite
<1>6. CASE UNCHANGED vars
  BY <1>6 DEF vars, call, TypeOK, SnapshotCurrent, WriterAlone, Searched, PortAfterReturn, OneLease, Open
<1> QED BY <1>1, <1>2, <1>3, <1>4, <1>5, <1>6, SelectKeeps, ChooseKeeps, WriteKeeps, CommitKeeps
     DEF Next, Answer

-----------------------------------------------------------------------------
(* Every step is a step of PortTable or leaves its variables alone.  The read *)
(* that finds an existing lease is where the abstract table answers.          *)
LEMMA StepImplements ==
  ASSUME PortTxAssumption, PortInv, [Next]_vars PROVE [Table!Next]_(Table!vars)
<1> DEFINE told == [c \in Callers |-> IF step[c] = "found" THEN picked[c] ELSE port[c]]
<1> USE DEF PortInv, Table!vars, AnyPort, Table!AnyPort, NoPort
<1>1. ASSUME NEW c \in Callers, NEW w \in Workspaces, NEW preferred \in Ports \cup {AnyPort},
             SelectLease(c, w, preferred)
      PROVE  [Table!Next]_(Table!vars)
  <2>1. port[c] = NoPort /\ told[c] = NoPort /\ lease' = lease /\ port' = port
    BY <1>1 DEF SelectLease, PortAfterReturn
  <2>2. CASE LeasedIn(lease, w) = {}
    <3>1. step' = [step EXCEPT ![c] = "searching"] /\ picked' = picked
      BY <1>1, <2>2 DEF SelectLease
    <3>2. told' = told
      BY <1>1, <2>1, <3>1 DEF TypeOK, SelectLease
    <3> QED BY <2>1, <3>2
  <2>3. CASE LeasedIn(lease, w) # {}
    <3>1. PICK p \in LeasedIn(lease, w) :
            step' = [step EXCEPT ![c] = "found"] /\ picked' = [picked EXCEPT ![c] = p]
      BY <1>1, <2>3 DEF SelectLease
    <3>2. told' = [told EXCEPT ![c] = p]
      BY <1>1, <2>1, <3>1 DEF TypeOK
    <3>3. Table!Again(c, w)
      BY <2>1, <3>1, <3>2 DEF Table!Again, Table!Leased, LeasedIn
    <3> QED BY <3>3 DEF Table!Next
  <2> QED BY <2>2, <2>3
<1>2. ASSUME NEW c \in Callers, ReturnExisting(c) PROVE UNCHANGED Table!vars
  <2>1. step[c] = "found" /\ step'[c] = "returned" /\ lease' = lease
    BY <1>2 DEF ReturnExisting, Return, TypeOK
  <2>2. \A d \in Callers : d # c => step'[d] = step[d] /\ picked'[d] = picked[d]
    BY <1>2 DEF ReturnExisting, Return, TypeOK
  <2>3. port' = [port EXCEPT ![c] = picked[c]]
    BY <1>2 DEF ReturnExisting
  <2>4. told' = told
    BY <2>1, <2>2, <2>3 DEF TypeOK
  <2> QED BY <2>1, <2>4
<1>3. ASSUME NEW c \in Callers, ChooseFree(c) \/ WriteLease(c) PROVE UNCHANGED Table!vars
  <2>1. step[c] # "found" /\ step'[c] # "found" /\ lease' = lease /\ port' = port
    BY <1>3 DEF ChooseFree, WriteLease, TypeOK
  <2>2. \A d \in Callers : d # c => step'[d] = step[d] /\ picked'[d] = picked[d]
    BY <1>3 DEF ChooseFree, WriteLease, TypeOK
  <2>3. told' = told
    BY <2>1, <2>2
  <2> QED BY <2>1, <2>3
<1>4. ASSUME NEW c \in Callers, Leave(c), lease' = lease, port' = port \/ port' = [port EXCEPT ![c] = NoPort],
             step[c] # "returned" \/ port' = [port EXCEPT ![c] = NoPort]
      PROVE  Table!Forget(c)
  <2>1. \A d \in Callers : d # c => step'[d] = step[d] /\ picked'[d] = picked[d] /\ port'[d] = port[d]
    BY <1>4 DEF Leave, Return, TypeOK
  <2>2. step'[c] = "idle" /\ port'[c] = NoPort
    BY <1>4 DEF Leave, Return, TypeOK, PortAfterReturn
  <2>3. told' = [told EXCEPT ![c] = NoPort]
    BY <2>1, <2>2
  <2> QED BY <1>4, <2>3 DEF Table!Forget
<1>5. ASSUME NEW c \in Callers, FindNone(c) \/ ReadFails(c) \/ Refused(c) \/ WriteFails(c) \/ EndJob(c) \/ Crash(c)
      PROVE  Table!Forget(c)
  BY <1>4, <1>5 DEF FindNone, ReadFails, Refused, WriteFails, EndJob, Crash
<1>6. ASSUME NEW c \in Callers, CommitLease(c) PROVE Table!Next
  <2>1. /\ snapshot[c] = lease /\ ws[c] \in Workspaces /\ LeasedIn(lease, ws[c]) = {}
        /\ picked[c] \in FreeIn(lease, want[c]) /\ \A q \in FreeIn(lease, want[c]) : picked[c] <= q
    BY <1>6 DEF CommitLease, SnapshotCurrent, WriterAlone, Searched, Open
  <2>2. picked[c] \in Ports /\ want[c] \in Ports \cup {AnyPort}
    BY <2>1 DEF TypeOK, FreeIn, Candidates, PortTxAssumption
  <2>3. step[c] = "written" /\ step'[c] = "returned" /\ port[c] = NoPort /\ told[c] = NoPort
    BY <1>6 DEF CommitLease, Return, TypeOK, PortAfterReturn
  <2>4. \A d \in Callers : d # c => step'[d] = step[d] /\ picked'[d] = picked[d]
    BY <1>6 DEF CommitLease, Return, TypeOK
  <2>5. told' = [told EXCEPT ![c] = picked[c]]
    BY <1>6, <2>3, <2>4 DEF CommitLease, TypeOK
  <2>6. Table!IsLowestFree(picked[c], want[c])
    BY <2>1 DEF Table!IsLowestFree, Table!Candidates, FreeIn, Candidates
  <2>7. PICK w \in Workspaces, preferred \in Ports \cup {AnyPort} : w = ws[c] /\ preferred = want[c]
    BY <2>1, <2>2
  <2>8. Table!Grant(c, w, preferred)
    BY <1>6, <2>1, <2>2, <2>3, <2>5, <2>6, <2>7 DEF CommitLease, Table!Grant, Table!Leased, LeasedIn
  <2> QED BY <2>8 DEF Table!Next
<1>7. ASSUME NEW w \in Workspaces, ReleasePort(w) PROVE Table!Release(w)
  BY <1>7 DEF ReleasePort, Table!Release, call
<1>8. CASE OtherWrite \/ UNCHANGED vars
  BY <1>8 DEF OtherWrite, vars, call
<1> QED BY <1>1, <1>2, <1>3, <1>5, <1>6, <1>7, <1>8 DEF Next, Answer, Table!Next

-----------------------------------------------------------------------------
LEMMA PortsInvariant == Spec => []PortInv
<1>1. Init => PortInv
  BY PortInit, PortTxAssumption
<1>2. PortInv /\ [Next]_vars => PortInv'
  BY PortStep, PortTxAssumption
<1> QED BY <1>1, <1>2, PTL DEF Spec

(* Table and calls keep their types, and a port is picked exactly in the steps  *)
(* between the end of the search and the return.                                *)
THEOREM PortsTyped == Spec => []TypeOK
<1>1. PortInv => TypeOK
  BY DEF PortInv
<1> QED BY <1>1, PortsInvariant, PTL

(* No workspace gets two ports, however many processes provision it at once.    *)
THEOREM OnePort == Spec => []OneLease
<1>1. PortInv => OneLease
  BY DEF PortInv
<1> QED BY <1>1, PortsInvariant, PTL

(* The unconditional INSERT or UPDATE writes what the search has found.         *)
THEOREM WritesAreSafe == Spec => []WriteIsSafe
  BY SafeWrites, PortsInvariant, PTL

(* AllocatePort's transaction implements the atomic port table.                 *)
THEOREM PortTxImplementsTable == Spec => ImplementsTable
<1>1. Init => Table!Init
  BY DEF Init, NoLeases, Table!Init, Table!AnyPort, NoPort
<1>2. PortInv /\ [Next]_vars => [Table!Next]_(Table!vars)
  BY StepImplements, PortTxAssumption
<1> QED BY <1>1, <1>2, PortsInvariant, PTL DEF Spec, ImplementsTable, Table!Spec
=============================================================================
