--------------------------- MODULE MigrateProofs ---------------------------
(* What Migrate keeps for any number of processes and files.                 *)
EXTENDS Migrate, TLAPS

-----------------------------------------------------------------------------
(* The inductive invariant *)

OneWriter == \A p, q \in Processes : Writing(p) /\ Writing(q) => p = q

\* What a process knows at each statement of the loop.
Knows(p) ==
  /\ pc[p] \notin {"record", "commit"} => ~Writing(p)
  /\ pc[p] \notin {"down", "failed"} => 1..(file[p] - 1) \subseteq recorded
  /\ pc[p] \in {"execute", "create", "record", "commit"} => file[p] \in Files
  /\ pc[p] = "create" => file[p] \in Idempotent /\ (~stale[p] => file[p] \notin schema)
  /\ pc[p] = "record" => "version" \notin tx[p] /\ (~stale[p] => ("sql" \in tx[p] <=> file[p] \notin schema))
  /\ pc[p] = "commit" => "version" \in tx[p] /\ ("sql" \in tx[p] <=> file[p] \notin schema)
  /\ pc[p] = "up" /\ p \in Migrating => file[p] = LastFile + 1
  /\ p \notin Migrating => pc[p] \in {"down", "up", "failed"}
  /\ Writing(p) => ~stale[p]
InLoop == \A p \in Processes : Knows(p)

IInv == TypeOK /\ RecordIsTrue /\ OneWriter /\ InLoop

(* A new database has no file and no record. *)
LEMMA IInvStarts == ASSUME MigrateAssumption, Init PROVE IInv
<1>1. TypeOK /\ RecordIsTrue
  BY DEF MigrateAssumption, Init, TypeOK, RecordIsTrue
<1>2. OneWriter /\ InLoop
  BY DEF MigrateAssumption, Init, OneWriter, InLoop, Knows, Writing
<1> QED BY <1>1, <1>2 DEF IInv

(* A transaction that is dropped leaves the tables as they were. *)
LEMMA FailKeeps == ASSUME IInv, NEW p \in Processes, Fail(p), UNCHANGED <<recorded, schema, file, stale>>,
                          faults' \in 0..MaxFaults
                   PROVE IInv'
<1> USE DEF IInv, Fail, Goto
<1>1. TypeOK'
  BY DEF TypeOK
<1>2. RecordIsTrue'
  BY DEF RecordIsTrue
<1>3. ASSUME NEW q \in Processes PROVE tx'[q] = {} \/ (q # p /\ tx'[q] = tx[q] /\ pc'[q] = pc[q])
  BY DEF TypeOK
<1>4. OneWriter'
  BY <1>3 DEF OneWriter, Writing
<1>5. InLoop'
  <2>1. tx'[p] = {} /\ pc'[p] = "failed"
    BY DEF TypeOK
  <2> QED BY <1>3, <2>1 DEF InLoop, Knows, Writing, TypeOK
<1> QED BY <1>1, <1>2, <1>4, <1>5

(* A refused statement is such a drop. *)
LEMMA RefusedKeeps == ASSUME IInv, NEW p \in Processes, Refused(p) PROVE IInv'
<1>1. faults' \in 0..MaxFaults
  BY DEF IInv, TypeOK, Refused
<1> QED BY <1>1, FailKeeps DEF Refused

(* Who may write is the only one who writes. *)
LEMMA WriterAlone == ASSUME OneWriter, NEW p \in Processes, MayWrite(p), NEW q \in Processes, q # p
                     PROVE ~Writing(q)
  BY DEF OneWriter, MayWrite, Locked

(* CREATE TABLE in the transaction. *)
LEMMA CreateKeeps == ASSUME IInv, NEW p \in Processes, CreateTables(p) PROVE IInv'
<1>1. CASE Refused(p)
  BY <1>1, RefusedKeeps
<1>2. CASE pc[p] = "create" /\ Write(p, "sql", "record")
  <2>1. ~Writing(p) /\ tx[p] = {} /\ ~stale[p] /\ file[p] \in Files /\ file[p] \notin schema
    BY <1>2 DEF IInv, InLoop, Knows, Write, MayWrite, Writing
  <2>2. tx' = [tx EXCEPT ![p] = {"sql"}] /\ pc' = [pc EXCEPT ![p] = "record"]
    BY <1>2, <2>1 DEF Write, Goto, IInv, TypeOK
  <2>3. UNCHANGED <<recorded, schema, file, stale, faults>>
    BY <1>2 DEF Write
  <2>4. \A q \in Processes : q # p => ~Writing(q) /\ tx'[q] = tx[q] /\ pc'[q] = pc[q]
    BY <1>2, <2>2, WriterAlone DEF Write, IInv, TypeOK
  <2>5. TypeOK'
    BY <2>2, <2>3 DEF IInv, TypeOK
  <2>6. RecordIsTrue' /\ OneWriter'
    BY <2>3, <2>4 DEF IInv, RecordIsTrue, OneWriter, Writing
  <2>7. InLoop'
    <3>1. tx'[p] = {"sql"} /\ pc'[p] = "record"
      BY <2>2 DEF IInv, TypeOK
    <3>2. Knows(p)'
      BY <1>2, <2>1, <2>3, <3>1 DEF IInv, InLoop, Knows, Writing
    <3>3. ASSUME NEW q \in Processes, q # p PROVE Knows(q)'
      BY <2>3, <2>4, <3>3 DEF IInv, InLoop, Knows, Writing
    <3> QED BY <3>2, <3>3 DEF InLoop
  <2> QED BY <2>5, <2>6, <2>7 DEF IInv
<1> QED BY <1>1, <1>2 DEF CreateTables

(* ALTER TABLE, the first statement of its transaction. *)
LEMMA AlterKeeps == ASSUME IInv, NEW p \in Processes, AlterTable(p) PROVE IInv'
<1>1. CASE Refused(p)
  BY <1>1, RefusedKeeps
<1>2. CASE ~Refused(p)
  <2>1. /\ pc[p] = "execute" /\ file[p] \notin schema /\ ~Locked
        /\ tx' = [tx EXCEPT ![p] = {"sql"}] /\ pc' = [pc EXCEPT ![p] = "record"]
        /\ stale' = [stale EXCEPT ![p] = FALSE]
        /\ UNCHANGED <<recorded, schema, file, faults>>
    BY <1>2 DEF AlterTable, Goto
  <2>2. tx[p] = {} /\ file[p] \in Files /\ 1..(file[p] - 1) \subseteq recorded
    BY <2>1 DEF IInv, InLoop, Knows, Writing
  <2>3. tx'[p] = {"sql"} /\ pc'[p] = "record" /\ stale'[p] = FALSE
    BY <2>1, <2>2 DEF IInv, TypeOK
  <2>4. \A q \in Processes : q # p => ~Writing(q) /\ tx'[q] = tx[q] /\ pc'[q] = pc[q] /\ stale'[q] = stale[q]
    BY <2>1 DEF Locked, IInv, TypeOK
  <2>5. TypeOK'
    BY <2>1 DEF IInv, TypeOK
  <2>6. RecordIsTrue' /\ OneWriter'
    BY <2>1, <2>4 DEF IInv, RecordIsTrue, OneWriter, Writing
  <2>7. InLoop'
    BY <2>1, <2>2, <2>3, <2>4 DEF IInv, InLoop, Knows, Writing, Files
  <2> QED BY <2>5, <2>6, <2>7 DEF IInv
<1> QED BY <1>1, <1>2

(* The version's row, in the transaction of its file. *)
LEMMA RecordKeeps == ASSUME IInv, NEW p \in Processes, RecordVersion(p) PROVE IInv'
<1>1. CASE Refused(p)
  BY <1>1, RefusedKeeps
<1>2. CASE pc[p] = "record" /\ Write(p, "version", "commit")
  <2>1. /\ tx' = [tx EXCEPT ![p] = tx[p] \cup {"version"}] /\ pc' = [pc EXCEPT ![p] = "commit"]
        /\ UNCHANGED <<recorded, schema, file, stale, faults>> /\ MayWrite(p)
    BY <1>2 DEF Write, Goto
  <2>2. ~stale[p] /\ file[p] \in Files /\ ("sql" \in tx[p] <=> file[p] \notin schema)
    BY <1>2, <2>1 DEF IInv, InLoop, Knows, MayWrite
  <2>3. tx'[p] = tx[p] \cup {"version"} /\ pc'[p] = "commit"
    BY <2>1 DEF IInv, TypeOK
  <2>4. \A q \in Processes : q # p => ~Writing(q) /\ tx'[q] = tx[q] /\ pc'[q] = pc[q]
    BY <2>1, WriterAlone DEF IInv, TypeOK
  <2>5. TypeOK'
    BY <2>1 DEF IInv, TypeOK
  <2>6. RecordIsTrue' /\ OneWriter'
    BY <2>1, <2>4 DEF IInv, RecordIsTrue, OneWriter, Writing
  <2>7. InLoop'
    BY <1>2, <2>1, <2>2, <2>3, <2>4 DEF IInv, InLoop, Knows, Writing, Files
  <2> QED BY <2>5, <2>6, <2>7 DEF IInv
<1> QED BY <1>1, <1>2 DEF RecordVersion

(* The commit adds the file and its record together, after all files before it. *)
LEMMA CommitKeeps == ASSUME MigrateAssumption, IInv, NEW p \in Processes, Commit(p) PROVE IInv'
<1>1. /\ file[p] \in Files /\ 1..(file[p] - 1) \subseteq recorded
      /\ "version" \in tx[p] /\ ("sql" \in tx[p] <=> file[p] \notin schema) /\ Writing(p)
  BY DEF Commit, IInv, InLoop, Knows, Writing
<1>2. recorded' = recorded \cup {file[p]} /\ schema' = schema \cup {file[p]}
  BY <1>1 DEF Commit
<1>3. tx'[p] = {} /\ pc'[p] = "check" /\ file'[p] = file[p] + 1
  BY DEF Commit, Goto, IInv, TypeOK
<1>4. \A q \in Processes : q # p => ~Writing(q) /\ tx'[q] = tx[q] /\ pc'[q] = pc[q] /\ file'[q] = file[q]
  BY <1>1 DEF Commit, Goto, IInv, TypeOK, OneWriter
<1>5. stale' = [q \in Processes |-> TRUE] /\ faults' = faults
  BY DEF Commit
<1>6. TypeOK'
  <2>1. file[p] + 1 \in 1..(LastFile + 1)
    BY <1>1 DEF MigrateAssumption, Files
  <2>2. /\ pc' = [pc EXCEPT ![p] = "check"] /\ file' = [file EXCEPT ![p] = file[p] + 1]
        /\ tx' = [tx EXCEPT ![p] = {}]
    BY DEF Commit, Goto
  <2> QED BY <1>1, <1>2, <1>5, <2>1, <2>2 DEF IInv, TypeOK
<1>7. RecordIsTrue'
  <2>1. 1..file[p] \subseteq recorded'
    BY <1>1, <1>2 DEF Files, MigrateAssumption
  <2> QED BY <1>2, <2>1 DEF IInv, RecordIsTrue
<1>8. OneWriter'
  BY <1>3, <1>4 DEF OneWriter, Writing
<1>9. InLoop'
  <2>1. 1..(file'[p] - 1) \subseteq recorded'
    BY <1>1, <1>2, <1>3 DEF Files, MigrateAssumption
  <2>2. \A q \in Processes : q # p => pc[q] # "commit"
    BY <1>4 DEF IInv, InLoop, Knows, Writing
  <2>3. \A q \in Processes : stale'[q]
    BY <1>5
  <2>4. Knows(p)'
    <3>1. p \in Migrating
      BY DEF Commit, IInv, InLoop, Knows
    <3> QED BY <1>3, <2>1, <3>1 DEF Knows, Writing
  <2>5. ASSUME NEW q \in Processes, q # p PROVE Knows(q)'
    <3>1. Knows(q) /\ pc'[q] = pc[q] /\ pc[q] # "commit" /\ file'[q] = file[q] /\ tx'[q] = {} /\ tx[q] = {} /\ stale'[q]
      BY <1>4, <2>2, <2>3, <2>5 DEF Commit, Goto, IInv, TypeOK, InLoop, Writing
    <3> QED BY <1>2, <3>1 DEF Knows, Writing
  <2> QED BY <2>4, <2>5 DEF InLoop
<1> QED BY <1>6, <1>7, <1>8, <1>9 DEF IInv

(* IInv is inductive. *)
LEMMA IInvInductive == ASSUME MigrateAssumption, IInv, [Next]_vars PROVE IInv'
<1>1. ASSUME NEW p \in Processes, Start(p) PROVE IInv'
  BY <1>1 DEF MigrateAssumption, Start, Goto, IInv, TypeOK, RecordIsTrue, OneWriter, InLoop, Knows, Writing
<1>2. ASSUME NEW p \in Processes, Check(p) PROVE IInv'
  <2>1. TypeOK'
    BY <1>2 DEF MigrateAssumption, Check, Goto, IInv, TypeOK, Files
  <2>2. RecordIsTrue' /\ OneWriter'
    BY <1>2 DEF Check, IInv, RecordIsTrue, OneWriter, Writing
  <2>3. InLoop'
    <3>1. \A q \in Processes \ {p} : pc'[q] = pc[q] /\ file'[q] = file[q]
      BY <1>2 DEF Check, Goto, IInv, TypeOK
    <3>2. UNCHANGED <<recorded, schema, tx, stale>> /\ ~Writing(p) /\ pc'[p] \in {"check", "up", "execute"}
      BY <1>2 DEF Check, Goto, IInv, TypeOK, InLoop, Knows
    <3>3. 1..(file'[p] - 1) \subseteq recorded
      BY <1>2 DEF Check, IInv, InLoop, Knows, TypeOK, MigrateAssumption
    <3>4. (pc'[p] = "execute" => file'[p] \in Files) /\ (pc'[p] = "up" => file'[p] = LastFile + 1)
      BY <1>2 DEF Check, Goto, IInv, TypeOK, MigrateAssumption, Files
    <3>5. p \in Migrating
      BY <1>2 DEF Check, IInv, InLoop, Knows
    <3> QED BY <3>1, <3>2, <3>3, <3>4, <3>5 DEF IInv, InLoop, Knows, Writing
  <2> QED BY <2>1, <2>2, <2>3 DEF IInv
<1>3. ASSUME NEW p \in Processes, ExecuteCreates(p) PROVE IInv'
  BY <1>3 DEF MigrateAssumption, ExecuteCreates, Goto, IInv, TypeOK, RecordIsTrue, OneWriter, InLoop, Knows, Writing
<1>4. ASSUME NEW p \in Processes, Stop(p) PROVE IInv'
  BY <1>4 DEF Stop, Goto, IInv, TypeOK, RecordIsTrue, OneWriter, InLoop, Knows, Writing
<1>5. ASSUME NEW p \in Processes, Serve(p) PROVE IInv'
  BY <1>5 DEF Serve, IInv, TypeOK, RecordIsTrue, OneWriter, InLoop, Knows, Writing, Locked
<1>6. ASSUME NEW p \in Processes, Crash(p) PROVE IInv'
  <2>1. faults' \in 0..MaxFaults
    BY <1>6 DEF MigrateAssumption, Crash, IInv, TypeOK
  <2> QED BY <1>6, <2>1, FailKeeps DEF Crash
<1>7. ASSUME NEW p \in Processes, Timeout(p) PROVE IInv'
  BY <1>7, RefusedKeeps DEF Timeout
<1>8. CASE UNCHANGED vars
  BY <1>8 DEF vars, IInv, TypeOK, RecordIsTrue, OneWriter, InLoop, Knows, Writing
<1> QED BY <1>1, <1>2, <1>3, <1>4, <1>5, <1>6, <1>7, <1>8, CreateKeeps, AlterKeeps, RecordKeeps, CommitKeeps
        DEF Next, Advance

-----------------------------------------------------------------------------
(* Schema, record and processes *)

(* The variables keep their types. *)
THEOREM MigrateTyped == Spec => []TypeOK
<1>1. IInv => TypeOK
  BY DEF IInv
<1> QED BY <1>1, MigrateAssumption, IInvStarts, IInvInductive, PTL DEF Spec

(* No race and no crash between two statements leaves a file applied and not    *)
(* recorded, or recorded and not applied, or applied before its predecessor.    *)
THEOREM RecordedIffApplied == Spec => []RecordIsTrue
<1>1. IInv => RecordIsTrue
  BY DEF IInv
<1> QED BY <1>1, MigrateAssumption, IInvStarts, IInvInductive, PTL DEF Spec

(* Whoever has migrated has seen every file recorded, and a record is the truth. *)
THEOREM MigratedIsWhole == Spec => []UpIsMigrated
<1>1. IInv => UpIsMigrated
  <2>1. ASSUME IInv, NEW p \in Migrating, pc[p] = "up" PROVE schema = Files
    <3>1. 1..LastFile \subseteq recorded
      BY <2>1, MigrateAssumption DEF IInv, InLoop, Knows, MigrateAssumption
    <3> QED BY <2>1, <3>1 DEF IInv, RecordIsTrue, TypeOK, Files
  <2> QED BY <2>1 DEF UpIsMigrated
<1> QED BY <1>1, MigrateAssumption, IInvStarts, IInvInductive, PTL DEF Spec

(* The database as its users see it: a file is applied and recorded in one step *)
(* of its own, after all files before it, and nothing is ever taken back.       *)
NextFile == \E f \in Files : /\ recorded = 1..(f - 1) /\ schema = 1..(f - 1)
                             /\ recorded' = 1..f /\ schema' = 1..f
InOrder == [][NextFile]_<<recorded, schema>>

(* A commit either adds the next file, or one that is there already. *)
LEMMA CommitAddsNext == ASSUME MigrateAssumption, IInv, NEW p \in Processes, Commit(p)
                        PROVE [NextFile]_<<recorded, schema>>
<1> DEFINE f == file[p]
<1>1. /\ f \in Files /\ 1..(f - 1) \subseteq recorded /\ "version" \in tx[p]
      /\ "sql" \in tx[p] <=> f \notin schema
  BY DEF Commit, IInv, InLoop, Knows
<1>2. recorded = schema /\ recorded \subseteq Files /\ \A g \in recorded : 1..g \subseteq recorded
  BY DEF IInv, RecordIsTrue, TypeOK
<1>3. recorded' = recorded \cup {f} /\ schema' = schema \cup {f}
  BY <1>1 DEF Commit
<1>4. CASE f \in recorded
  BY <1>2, <1>3, <1>4
<1>5. CASE f \notin recorded
  <2>1. ASSUME NEW g \in recorded PROVE g \in 1..(f - 1)
    <3>1. g \in 1..LastFile /\ f \in 1..LastFile /\ f \notin 1..g
      BY <1>1, <1>2, <1>5, <2>1 DEF Files
    <3> QED BY <3>1, MigrateAssumption DEF MigrateAssumption
  <2>2. recorded = 1..(f - 1)
    BY <1>1, <2>1
  <2>3. 1..(f - 1) \cup {f} = 1..f
    BY <1>1 DEF Files, MigrateAssumption
  <2> QED BY <1>1, <1>2, <1>3, <2>2, <2>3 DEF NextFile
<1> QED BY <1>4, <1>5

(* Only a commit changes the database. *)
LEMMA OthersAddNothing == ASSUME Next, \A p \in Processes : ~Commit(p) PROVE UNCHANGED <<recorded, schema>>
  BY DEF Next, Advance, Start, Check, ExecuteCreates, CreateTables, AlterTable, Timeout, RecordVersion, Serve,
         Stop, Crash, Write, Refused

(* Whoever migrates beside whom, and whoever dies where, the files reach the    *)
(* database whole, once, and in the order of their names.                       *)
THEOREM FilesInOrder == Spec => InOrder
<1>1. ASSUME MigrateAssumption, IInv, [Next]_vars PROVE [NextFile]_<<recorded, schema>>
  BY <1>1, CommitAddsNext, OthersAddNothing DEF vars
<1> QED BY <1>1, MigrateAssumption, IInvStarts, IInvInductive, PTL DEF Spec, InOrder

-----------------------------------------------------------------------------
(* The last to commit is never refused *)

(* A process that no other has overtaken since its last check or first read.    *)
(* One that found the first file's tables made is no leader: a server that has  *)
(* not migrated writes to them, and the row of the file is refused.             *)
Ready(p) == /\ p \in Migrating /\ pc[p] \notin {"failed", "record"}
            /\ pc[p] = "execute" => file[p] \notin schema
            /\ pc[p] = "create" => ~stale[p]
Leads(p) == Writing(p) \/ (~Locked /\ Ready(p))
HasLeader == faults = 0 => \E p \in Processes : Leads(p)

(* A process that is refused is not the leader, and leaves the leader alone. *)
LEMMA RefusedIsBehind == ASSUME IInv, NEW p \in Processes, ~Writing(p), Refused(p),
                                NEW l \in Processes, Leads(l), l # p
                         PROVE Leads(l)'
<1>1. pc'[l] = pc[l] /\ \A q \in Processes : tx'[q] = tx[q]
  BY DEF Refused, Fail, Goto, IInv, TypeOK, Writing
<1>2. Locked' = Locked /\ Writing(l)' = Writing(l)
  BY <1>1 DEF Locked, Writing
<1> QED BY <1>1, <1>2 DEF Refused, Leads, Ready

(* Who leads either takes the lock, or keeps the lead until somebody does.      *)
LEMMA LeaderStays == ASSUME MigrateAssumption, IInv, HasLeader, [Next]_vars PROVE HasLeader'
<1>1. CASE faults' # 0
  BY <1>1 DEF HasLeader
<1>2. CASE UNCHANGED vars
  BY <1>2 DEF vars, HasLeader, Leads, Ready, Locked, Writing
<1>3. ASSUME NEW p \in Processes, faults' = 0, Refused(p), ~Writing(p), ~Leads(p) PROVE HasLeader'
  <2>1. faults = 0
    BY <1>3 DEF Refused
  <2>2. PICK l \in Processes : Leads(l)
    BY <2>1 DEF HasLeader
  <2> QED BY <1>3, <2>2, RefusedIsBehind DEF HasLeader
<1>4. ASSUME NEW p \in Processes, Writing(p)' PROVE HasLeader'
  BY <1>4 DEF HasLeader, Leads
<1>5. ASSUME NEW p \in Processes, CreateTables(p) \/ AlterTable(p) \/ Timeout(p) \/ RecordVersion(p), faults' = 0
      PROVE HasLeader'
  <2>1. CASE Refused(p)
    <3>1. ~Writing(p)
      BY <1>5, <2>1 DEF CreateTables, AlterTable, Timeout, RecordVersion, Refused, Write, MayWrite, Fail, Goto,
                        IInv, InLoop, Knows, TypeOK
    <3>2. ~Leads(p)
      BY <1>5, <2>1, <3>1 DEF CreateTables, AlterTable, Timeout, RecordVersion, Refused, Write, MayWrite, Fail,
                              Goto, Leads, Ready, IInv, TypeOK
    <3> QED BY <1>3, <1>5, <2>1, <3>1, <3>2
  <2>2. CASE ~Refused(p)
    <3>1. Writing(p)'
      BY <1>5, <2>2 DEF CreateTables, AlterTable, Timeout, RecordVersion, Write, Writing, IInv, TypeOK
    <3> QED BY <1>4, <3>1
  <2> QED BY <2>1, <2>2
<1>6. ASSUME NEW p \in Processes, Commit(p) PROVE HasLeader'
  <2>1. Writing(p)
    BY <1>6 DEF Commit, IInv, InLoop, Knows, Writing
  <2>2. ~Locked'
    BY <1>6, <2>1 DEF Commit, IInv, OneWriter, Locked, Writing, TypeOK
  <2>3. pc'[p] = "check" /\ p \in Migrating
    BY <1>6 DEF Commit, Goto, IInv, TypeOK, InLoop, Knows
  <2> QED BY <2>2, <2>3 DEF HasLeader, Leads, Ready
<1>7. ASSUME NEW p \in Processes, Serve(p) PROVE HasLeader'
  <2>1. ~Locked' /\ ~Locked /\ 1 \in schema /\ UNCHANGED <<recorded, schema, pc, file, tx, faults>>
    BY <1>7 DEF Serve, Locked, Writing
  <2>2. ASSUME NEW l \in Processes, Leads(l) PROVE Leads(l)'
    <3>1. Ready(l)
      BY <2>1, <2>2 DEF Leads, Locked
    <3>2. pc[l] # "create"
      BY <2>1, <3>1, MigrateAssumption DEF Ready, IInv, InLoop, Knows, MigrateAssumption
    <3> QED BY <2>1, <3>1, <3>2 DEF Ready, Leads
  <2> QED BY <2>1, <2>2 DEF HasLeader
<1>8. ASSUME NEW p \in Processes, Start(p) \/ Check(p) \/ ExecuteCreates(p) \/ Stop(p) PROVE HasLeader'
  <2>1. UNCHANGED <<recorded, schema, tx, faults>> /\ Locked' = Locked
    BY <1>8 DEF Start, Check, ExecuteCreates, Stop, Locked, Writing
  <2>2. ASSUME faults = 0 PROVE \E l \in Processes : Leads(l)'
    <3>1. PICK l \in Processes : Leads(l)
      BY <2>2 DEF HasLeader
    <3>2. CASE l # p
      <4>1. pc'[l] = pc[l] /\ file'[l] = file[l] /\ stale'[l] = stale[l]
        BY <1>8, <3>2 DEF Start, Check, ExecuteCreates, Stop, Goto, IInv, TypeOK
      <4>2. Leads(l)'
        BY <2>1, <3>1, <4>1 DEF Leads, Ready, Writing
      <4> QED BY <4>2
    <3>3. CASE l = p
      <4>1. Ready(p)
        BY <1>8, <3>1, <3>3 DEF Start, Check, ExecuteCreates, Stop, Leads, IInv, InLoop, Knows
      <4>2. Ready(p)'
        BY <1>8, <4>1 DEF Start, Check, ExecuteCreates, Stop, Goto, Ready, IInv, TypeOK, RecordIsTrue
      <4>3. Leads(p)'
        BY <2>1, <3>1, <3>3, <4>2 DEF Leads, Writing
      <4> QED BY <4>3
    <3> QED BY <3>2, <3>3
  <2> QED BY <2>1, <2>2 DEF HasLeader
<1>9. ASSUME NEW p \in Processes, Crash(p) PROVE faults' # 0
  BY <1>9 DEF Crash, IInv, TypeOK
<1> QED BY <1>1, <1>2, <1>5, <1>6, <1>7, <1>8, <1>9 DEF Next, Advance

(* Without a crash or an I/O error, processes that start together never all     *)
(* fail: the last to commit, or whoever holds the lock, goes on.                *)
THEOREM NeverAllFail == Spec => []SomeoneMigrates
<1>1. MigrateAssumption /\ Init => HasLeader
  BY DEF Init, MigrateAssumption, HasLeader, Leads, Ready, Locked, Writing
<1>2. IInv /\ HasLeader => SomeoneMigrates
  BY DEF IInv, InLoop, Knows, HasLeader, Leads, Ready, SomeoneMigrates
<1> QED BY <1>1, <1>2, MigrateAssumption, IInvStarts, IInvInductive, LeaderStays, PTL DEF Spec
=============================================================================
