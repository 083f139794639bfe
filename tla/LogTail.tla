------------------------------- MODULE LogTail -------------------------------
(* The log of one job: the worker that appends rows to job_logs, and a       *)
(* browser page that shows them by polling.  A poll is a request whose       *)
(* handler reads the job and then the rows after the last one the page had   *)
(* when it asked; answers come back in any order.                            *)
EXTENDS Integers

CONSTANTS MaxLines,     \* bound on the rows appended
          MaxInFlight   \* bound on the polls the page has in flight

ASSUME TailAssumption == MaxLines \in Nat /\ MaxInFlight \in Nat \ {0}

Polls == 1..MaxInFlight

Removed == {"erased", "unlinked"}

VARIABLES
  status,    \* jobs.status: "running" (or still queued), "ended"; removed: "erased" with its rows, "unlinked" without
  lines,     \* rows of job_logs so far: sequence_no 1..lines
  writer,    \* AppendJobLog: "idle", "read" has a snapshot, "written" has the write lock
  draft,     \* the sequence_no AppendJobLog computed
  stale,     \* somebody has committed since the writer's snapshot
  page,      \* "closed", "loading", "polling", or stopped: "ended", "broken"
  badge,     \* the status the page shows
  shown,     \* the rows the page shows
  repeated,  \* history: a row was appended below a later one or a second time
  last,      \* lastSequence
  overlapped,\* history: a poll was sent before an earlier one was answered
  poll       \* poll[k]: a request in flight: its step, ?after=, the job and rows it read
log  == <<lines, writer, draft, stale>>
view == <<page, badge, shown, repeated, last>>
vars == <<status, log, view, overlapped, poll>>

NoPoll == [step |-> "free", after |-> 0, status |-> "running", rows |-> {}]

Init == /\ status = "running" /\ lines = 0 /\ writer = "idle" /\ draft = 0 /\ stale = FALSE /\ overlapped = FALSE
        /\ page = "closed" /\ badge = "running" /\ shown = {} /\ repeated = FALSE /\ last = 0
        /\ poll = [k \in Polls |-> NoPoll]

-----------------------------------------------------------------------------
(* The worker: AppendJobLog is one deferred transaction, its errors dropped *)

ReadNext == /\ status = "running" /\ writer = "idle" /\ lines < MaxLines
            /\ writer' = "read" /\ draft' = lines + 1 /\ stale' = FALSE
            /\ UNCHANGED <<status, lines, view, overlapped, poll>>

InsertLine == /\ writer = "read" /\ ~stale
              /\ writer' = "written"
              /\ UNCHANGED <<status, lines, draft, stale, view, overlapped, poll>>

\* SQLITE_BUSY_SNAPSHOT: the read snapshot cannot become a write transaction.
LoseLine == /\ writer = "read" /\ stale
            /\ writer' = "idle"
            /\ UNCHANGED <<status, lines, draft, stale, view, overlapped, poll>>

\* Mutant: the sequence number is counted up once more on insert.
CommitNext == /\ writer = "written"
              /\ writer' = "idle" /\ lines' = draft + 1
              /\ UNCHANGED <<status, draft, stale, view, overlapped, poll>>

CommitLine == /\ writer = "written"
              /\ writer' = "idle" /\ lines' = draft
              /\ UNCHANGED <<status, draft, stale, view, overlapped, poll>>

\* A handler or another process commits some write.
OtherCommit == /\ writer = "read" /\ ~stale
               /\ stale' = TRUE
               /\ UNCHANGED <<status, lines, writer, draft, view, overlapped, poll>>

\* Mutant: the status is written while a line is still on its way.
EndEarly == /\ status = "running"
            /\ status' = "ended"
            /\ UNCHANGED <<log, view, overlapped, poll>>

\* SetJobStatus done, failed or cancelled: the last thing a job does, after its last line.
EndJob == /\ status = "running" /\ writer = "idle"
          /\ status' = "ended"
          /\ UNCHANGED <<log, view, overlapped, poll>>

(* DeleteJob.  ON DELETE CASCADE takes the rows of job_logs along, but only on  *)
(* the one pooled connection that has PRAGMA foreign_keys on.                   *)
EraseJob == /\ status = "ended"
            /\ status' \in Removed
            /\ UNCHANGED <<log, view, overlapped, poll>>

-----------------------------------------------------------------------------
(* The page *)

\* Mutant: only the newest row is listed.
ListNewest(after) == IF status = "erased" \/ lines <= after THEN {} ELSE {lines}

ListJobLogs(after) == IF status = "erased" THEN {} ELSE (after + 1)..lines

\* handleJobDetail: the job, then all its rows.
OpenPage == /\ page = "closed" /\ status \notin Removed
            /\ page' = "loading" /\ badge' = status
            /\ UNCHANGED <<status, log, shown, repeated, last, overlapped, poll>>

RenderPage == /\ page = "loading"
              /\ page' = "polling"
              /\ shown' = ListJobLogs(0)
              /\ last' = IF status = "erased" THEN 0 ELSE lines
              /\ UNCHANGED <<status, log, badge, repeated, overlapped, poll>>

\* The interval fires, whether or not earlier polls have been answered.
SendPoll(k) == /\ page = "polling" /\ poll[k].step = "free"
               /\ poll' = [poll EXCEPT ![k] = [NoPoll EXCEPT !.step = "job", !.after = last]]
               /\ overlapped' = (overlapped \/ \E q \in Polls : poll[q].step # "free")
               /\ UNCHANGED <<status, log, view>>

\* GetJobDetails, first read: the job.  A removed job is answered 404, which the page ignores.
ReadJob(k) ==
  /\ poll[k].step = "job"
  /\ poll' = [poll EXCEPT ![k] = IF status \in Removed THEN NoPoll
                                 ELSE [@ EXCEPT !.step = "logs", !.status = status]]
  /\ UNCHANGED <<status, log, view, overlapped>>

\* GetJobDetails, last read: the rows after the page's.
ReadLogs(k) ==
  /\ poll[k].step = "logs"
  /\ poll' = [poll EXCEPT ![k] = [@ EXCEPT !.step = "answered", !.rows = ListJobLogs(poll[k].after)]]
  /\ UNCHANGED <<status, log, view, overlapped>>

Newest(rows) == CHOOSE m \in rows : \A i \in rows : i <= m

Show(rows) == /\ shown' = shown \cup rows
              /\ repeated' = (repeated \/ \E i \in rows, j \in shown : i <= j)

\* Mutant: lastSequence stays what it was when the page was rendered.
KeepLast(k) ==
  /\ poll[k].step = "answered"
  /\ Show(poll[k].rows)
  /\ badge' = poll[k].status
  /\ page' = IF page = "polling" /\ poll[k].status = "ended" THEN "ended" ELSE page
  /\ poll' = [poll EXCEPT ![k] = NoPoll]
  /\ UNCHANGED <<status, log, overlapped, last>>

\* Mutant: the final status does not clear the interval.
PollForever(k) ==
  /\ poll[k].step = "answered"
  /\ Show(poll[k].rows)
  /\ badge' = poll[k].status
  /\ last' = IF poll[k].rows = {} THEN last ELSE Newest(poll[k].rows)
  /\ poll' = [poll EXCEPT ![k] = NoPoll]
  /\ UNCHANGED <<status, log, overlapped, page>>

\* The fetch resolves, also after the interval was cleared by another answer.
Deliver(k) ==
  /\ poll[k].step = "answered"
  /\ Show(poll[k].rows)
  /\ badge' = poll[k].status
  /\ last' = IF poll[k].rows = {} THEN last ELSE Newest(poll[k].rows)
  /\ page' = IF page = "polling" /\ poll[k].status = "ended" THEN "ended" ELSE page
  /\ poll' = [poll EXCEPT ![k] = NoPoll]
  /\ UNCHANGED <<status, log, overlapped>>

\* The fetch rejects: the catch block clears the interval.
LosePoll(k) ==
  /\ poll[k].step # "free"
  /\ page' = IF page = "polling" THEN "broken" ELSE page
  /\ poll' = [poll EXCEPT ![k] = NoPoll]
  /\ UNCHANGED <<status, log, badge, shown, repeated, last, overlapped>>

-----------------------------------------------------------------------------
Writer == ReadNext \/ InsertLine \/ LoseLine \/ CommitLine
View(k) == SendPoll(k) \/ ReadJob(k) \/ ReadLogs(k) \/ Deliver(k)
Next == \/ Writer \/ OtherCommit \/ EndJob \/ EraseJob \/ OpenPage \/ RenderPage
        \/ \E k \in Polls : View(k) \/ LosePoll(k)

Spec == Init /\ [][Next]_vars

\* The interval fires, handlers run to their end and the browser settles every fetch.
FairSpec == Spec /\ WF_vars(RenderPage) /\ \A k \in Polls : WF_vars(View(k))

-----------------------------------------------------------------------------
(* Types of the log, the page and the requests in flight. *)
TypeOK == /\ status \in {"running", "ended"} \cup Removed /\ badge \in {"running", "ended"}
          /\ lines \in 0..MaxLines /\ draft \in 0..MaxLines /\ last \in 0..MaxLines
          /\ writer \in {"idle", "read", "written"}
          /\ {stale, overlapped, repeated} \subseteq BOOLEAN
          /\ page \in {"closed", "loading", "polling", "ended", "broken"}
          /\ shown \subseteq 1..MaxLines
          /\ poll \in [Polls -> [step : {"free", "job", "logs", "answered"}, after : 0..MaxLines,
                                 status : {"running", "ended"}, rows : SUBSET (1..MaxLines)]]

(* The page never skips a row, in whatever order overlapping answers arrive and *)
(* although an old answer moves lastSequence back.                              *)
NoGap == \A i \in shown : 1..i \subseteq shown

(* A page that stopped polling because the job ended shows every row of the     *)
(* log: the status was read before the rows, and is written after them.         *)
TailComplete == page = "ended" /\ status = "ended" => shown = 1..lines

(* Every row is shown once and in order, unless an answer took longer than the  *)
(* interval and two polls overlapped.                                           *)
ShownOnce == repeated => overlapped

(* A page left open on a job that ends stops polling, unless a request was lost *)
(* or the job is removed first (its page polls for ever).                       *)
TailEnds == status = "ended" /\ page = "polling" ~> page \in {"ended", "broken"} \/ status \in Removed

=============================================================================
