----------------------------- MODULE LogTailProofs -----------------------------
(* What the job page shows, for any number of rows and of polls in flight.    *)
(* The argument: an answer is the interval of rows after a row the page       *)
(* already had when it asked, so adding it leaves no gap; an answer whose     *)
(* status is final read its rows when the log could grow no more.             *)
EXTENDS LogTail, TLAPS

InFlight(k) == poll[k].step # "free"

(* The log grows by one row at a time, and not after the job has ended.       *)
LogGrows == /\ writer # "idle" => status = "running" /\ draft = lines + 1
            /\ shown \subseteq 1..lines

(* The page holds all rows up to lastSequence and up to every ?after= it sent, *)
(* and before it is rendered it has asked for nothing.                         *)
HasUpTo == /\ 1..last \subseteq shown
           /\ \A k \in Polls : 1..poll[k].after \subseteq shown
           /\ page \in {"closed", "loading"} => shown = {} /\ last = 0 /\ \A k \in Polls : ~InFlight(k)

(* An answer is an interval of existing rows that starts where the page asked. *)
AnswersAreIntervals ==
  \A k \in Polls : \E m \in 0..lines : poll[k].rows = (poll[k].after + 1)..m

(* A final status was read after the last row was written.                     *)
FinalIsComplete ==
  /\ \A k \in Polls : poll[k].status = "ended" =>
       /\ status # "running"
       /\ poll[k].step = "answered" /\ status = "ended" => poll[k].rows = (poll[k].after + 1)..lines
       /\ poll[k].step \in {"logs", "answered"}
  /\ page = "ended" => status # "running"

(* Without an overlap the one poll in flight asks for what follows all rows shown. *)
OneAtATime == ~overlapped =>
  /\ ~repeated /\ shown \subseteq 1..last
  /\ \A k \in Polls : InFlight(k) => poll[k].after = last
  /\ \A k, q \in Polls : InFlight(k) /\ InFlight(q) => k = q

PageInv == LogGrows /\ HasUpTo /\ AnswersAreIntervals /\ FinalIsComplete /\ OneAtATime
TailInv == TypeOK /\ NoGap /\ TailComplete /\ PageInv

LEMMA TailStarts == ASSUME TailAssumption, Init PROVE TailInv
<1> USE DEF Init, NoPoll, InFlight
<1>1. TypeOK
  <2>1. NoPoll \in [step : {"free", "job", "logs", "answered"}, after : 0..MaxLines,
                    status : {"running", "ended"}, rows : SUBSET (1..MaxLines)]
    BY DEF TailAssumption
  <2>2. 0 \in 0..MaxLines /\ {} \subseteq 1..MaxLines
    BY DEF TailAssumption
  <2>3. {stale, overlapped, repeated} \subseteq BOOLEAN /\ status \in {"running", "ended"} \cup Removed
    OBVIOUS
  <2>4. poll = [k \in Polls |-> NoPoll]
    OBVIOUS
  <2> HIDE DEF NoPoll
  <2> QED BY <2>1, <2>2, <2>3, <2>4 DEF TypeOK
<1>2. NoGap /\ TailComplete
  BY DEF NoGap, TailComplete
<1>3. LogGrows /\ HasUpTo /\ FinalIsComplete /\ OneAtATime
  BY DEF LogGrows, HasUpTo, FinalIsComplete, OneAtATime
<1>4. AnswersAreIntervals
  BY DEF AnswersAreIntervals
<1> QED BY <1>1, <1>2, <1>3, <1>4 DEF TailInv, PageInv

(* The newest row of a nonempty answer is the end of its interval.             *)
LEMMA NewestIsEnd == ASSUME NEW a \in Nat, NEW m \in Nat, a < m PROVE Newest((a + 1)..m) = m
<1>1. m \in (a + 1)..m /\ \A i \in (a + 1)..m : i <= m
  OBVIOUS
<1>2. \A n \in (a + 1)..m : (\A i \in (a + 1)..m : i <= n) => n = m
  OBVIOUS
<1> QED BY <1>1, <1>2 DEF Newest

(* Rows that continue rows which are there leave no gap.                        *)
LEMMA Continued ==
  ASSUME NEW S, NEW R, NEW a \in Nat, NEW m \in Nat, NEW n \in Nat, m <= n,
         R = (a + 1)..m, 1..a \subseteq S, S \subseteq 1..n,
         \A i \in S : 1..i \subseteq S
  PROVE  /\ S \cup R \subseteq 1..n
         /\ \A i \in S \cup R : 1..i \subseteq S \cup R
<1>1. R \subseteq 1..n
  OBVIOUS
<1>2. ASSUME NEW i \in R PROVE 1..i \subseteq S \cup R
  <2>1. \A j \in 1..i : j \in 1..a \/ j \in (a + 1)..m
    BY <1>2
  <2> QED BY <2>1
<1> QED BY <1>1, <1>2

(* The worker's and the handlers' commits leave the page alone.                *)
LEMMA WriterSteps ==
  ASSUME TailAssumption, TailInv, Writer \/ OtherCommit \/ EndJob \/ EraseJob
  PROVE  TailInv'
<1> USE DEF TailInv, PageInv, TypeOK, TailAssumption, view
<1>1. UNCHANGED <<page, badge, shown, repeated, last, overlapped, poll>>
  BY DEF Writer, ReadNext, InsertLine, LoseLine, CommitLine, OtherCommit, EndJob, EraseJob
<1>2. /\ lines' \in 0..MaxLines /\ lines <= lines'
      /\ status # "running" => lines' = lines
      /\ status' # "ended" \/ (lines' = lines /\ (status = "ended" \/ status = "running"))
      /\ status # "running" => status' # "running"
  BY DEF Writer, ReadNext, InsertLine, LoseLine, CommitLine, OtherCommit, EndJob, EraseJob, log, LogGrows, Removed
<1>3. TypeOK'
  <2>1. /\ lines' \in 0..MaxLines /\ draft' \in 0..MaxLines /\ stale' \in BOOLEAN
        /\ writer' \in {"idle", "read", "written"} /\ status' \in {"running", "ended"} \cup Removed
    <3>1. CASE Writer
      <4>1. status' = status
        BY <3>1 DEF Writer, ReadNext, InsertLine, LoseLine, CommitLine
      <4>2. CASE ReadNext
        <5>1. stale' = FALSE /\ writer' = "read" /\ draft' = lines + 1 /\ lines < MaxLines /\ lines' = lines
          BY <4>2 DEF ReadNext
        <5>2. draft' \in 0..MaxLines /\ lines' \in 0..MaxLines
          BY <5>1
        <5> HIDE DEF TypeOK, TailInv, PageInv
        <5>3. stale' \in BOOLEAN /\ writer' \in {"idle", "read", "written"}
          BY <5>1
        <5>4. status' \in {"running", "ended"} \cup Removed
          BY <4>1 DEF TypeOK, TailInv
        <5> QED BY <5>2, <5>3, <5>4
      <4>3. CASE InsertLine \/ LoseLine \/ CommitLine
        BY <4>1, <4>3 DEF InsertLine, LoseLine, CommitLine
      <4> QED BY <3>1, <4>2, <4>3 DEF Writer
    <3>2. CASE OtherCommit \/ EndJob \/ EraseJob
      BY <3>2 DEF OtherCommit, EndJob, EraseJob, log
    <3> QED BY <3>1, <3>2
  <2> QED BY <1>1, <2>1
<1>4. NoGap' /\ HasUpTo' /\ OneAtATime'
  BY <1>1 DEF NoGap, HasUpTo, OneAtATime, InFlight
<1>5. LogGrows'
  BY <1>1 DEF LogGrows, Writer, ReadNext, InsertLine, LoseLine, CommitLine, OtherCommit, EndJob, EraseJob, log
<1>6. AnswersAreIntervals'
  <2>1. \A m \in 0..lines : m \in 0..lines'
    BY <1>2
  <2> QED BY <1>1, <2>1 DEF AnswersAreIntervals
<1>7. FinalIsComplete' /\ TailComplete'
  <2>1. CASE status' = "ended" /\ status = "running"
    BY <1>1, <2>1 DEF FinalIsComplete, TailComplete
  <2>2. CASE ~(status' = "ended" /\ status = "running")
    BY <1>1, <1>2, <2>2 DEF FinalIsComplete, TailComplete
  <2> QED BY <2>1, <2>2
<1> QED BY <1>3, <1>4, <1>5, <1>6, <1>7

(* Opening and rendering: the first rows are a whole prefix of the log.        *)
LEMMA PageSteps == ASSUME TailAssumption, TailInv, OpenPage \/ RenderPage PROVE TailInv'
<1> USE DEF TailInv, PageInv, TypeOK, TailAssumption, log, InFlight
<1>1. CASE OpenPage
  <2>1. TypeOK'
    BY <1>1 DEF OpenPage, Removed
  <2> QED BY <1>1, <2>1 DEF OpenPage, NoGap, TailComplete, LogGrows, HasUpTo, AnswersAreIntervals,
                            FinalIsComplete, OneAtATime
<1>2. CASE RenderPage
  <2>1. shown = {} /\ \A k \in Polls : poll[k].step = "free"
    BY <1>2 DEF RenderPage, HasUpTo
  <2>2. shown' = 1..last' /\ last' \in 0..lines
    BY <1>2 DEF RenderPage, ListJobLogs
  <2>3. UNCHANGED <<status, lines, writer, draft, stale, badge, repeated, overlapped, poll>> /\ page' = "polling"
    BY <1>2 DEF RenderPage
  <2>4. TypeOK'
    BY <2>2, <2>3
  <2>5. NoGap' /\ TailComplete' /\ LogGrows'
    BY <2>2, <2>3 DEF NoGap, TailComplete, LogGrows
  <2>6. HasUpTo'
    BY <2>1, <2>2, <2>3 DEF HasUpTo
  <2>7. AnswersAreIntervals' /\ FinalIsComplete'
    BY <2>3 DEF AnswersAreIntervals, FinalIsComplete
  <2>8. OneAtATime'
    BY <2>1, <2>2, <2>3 DEF OneAtATime
  <2> QED BY <2>4, <2>5, <2>6, <2>7, <2>8
<1> QED BY <1>1, <1>2

(* Asking, reading the job and reading its rows change one poll only.          *)
LEMMA AskSteps ==
  ASSUME TailAssumption, TailInv, NEW k \in Polls, SendPoll(k) \/ ReadJob(k) \/ ReadLogs(k)
  PROVE  TailInv'
<1> USE DEF TailInv, PageInv, TypeOK, TailAssumption, log, view, InFlight, NoPoll
<1>1. CASE SendPoll(k)
  <2>1. /\ poll' = [poll EXCEPT ![k] = [NoPoll EXCEPT !.step = "job", !.after = last]]
        /\ UNCHANGED <<status, lines, writer, draft, stale, page, badge, shown, repeated, last>>
        /\ page = "polling" /\ poll[k].step = "free"
        /\ overlapped' = (overlapped \/ \E q \in Polls : poll[q].step # "free")
    BY <1>1 DEF SendPoll
  <2>2. /\ poll'[k] = [step |-> "job", after |-> last, status |-> "running", rows |-> {}]
        /\ \A q \in Polls \ {k} : poll'[q] = poll[q]
    BY <2>1
  <2>3. TypeOK'
    BY <2>1
  <2>4. NoGap' /\ TailComplete' /\ LogGrows'
    BY <2>1 DEF NoGap, TailComplete, LogGrows
  <2>5. HasUpTo' /\ FinalIsComplete'
    BY <2>1, <2>2 DEF HasUpTo, FinalIsComplete
  <2>6. AnswersAreIntervals'
    <3>1. poll'[k].rows = (poll'[k].after + 1)..0 /\ 0 \in 0..lines'
      BY <2>1, <2>2
    <3> QED BY <2>1, <2>2, <3>1 DEF AnswersAreIntervals
  <2>7. OneAtATime'
    BY <2>1, <2>2 DEF OneAtATime
  <2> QED BY <2>3, <2>4, <2>5, <2>6, <2>7
<1>2. CASE ReadJob(k)
  <2>1. /\ poll[k].step = "job"
        /\ UNCHANGED <<status, lines, writer, draft, stale, page, badge, shown, repeated, last, overlapped>>
        /\ \A q \in Polls \ {k} : poll'[q] = poll[q]
    BY <1>2 DEF ReadJob
  <2>2. \/ poll'[k] = NoPoll
        \/ /\ status \in {"running", "ended"}
           /\ poll'[k] = [step |-> "logs", after |-> poll[k].after, status |-> status, rows |-> poll[k].rows]
    BY <1>2 DEF ReadJob
  <2>3. TypeOK'
    <3>1. poll'[k] \in [step : {"free", "job", "logs", "answered"}, after : 0..MaxLines,
                        status : {"running", "ended"}, rows : SUBSET (1..MaxLines)]
      BY <2>2
    <3>2. poll' = [poll EXCEPT ![k] = poll'[k]]
      BY <1>2 DEF ReadJob
    <3> QED BY <2>1, <3>1, <3>2
  <2>4. NoGap' /\ TailComplete' /\ LogGrows'
    BY <2>1 DEF NoGap, TailComplete, LogGrows
  <2>5. HasUpTo' /\ FinalIsComplete'
    BY <2>1, <2>2 DEF HasUpTo, FinalIsComplete
  <2>6. AnswersAreIntervals'
    <3>1. \E m \in 0..lines' : poll'[k].rows = (poll'[k].after + 1)..m
      <4>1. CASE poll'[k] = NoPoll
        <5>1. poll'[k].rows = (poll'[k].after + 1)..0 /\ 0 \in 0..lines'
          BY <2>1, <4>1
        <5> QED BY <5>1
      <4>2. CASE poll'[k] # NoPoll
        BY <2>1, <2>2, <4>2 DEF AnswersAreIntervals
      <4> QED BY <4>1, <4>2
    <3> QED BY <2>1, <3>1 DEF AnswersAreIntervals
  <2>7. OneAtATime'
    BY <2>1, <2>2 DEF OneAtATime
  <2> QED BY <2>3, <2>4, <2>5, <2>6, <2>7
<1>3. CASE ReadLogs(k)
  <2> DEFINE a == poll[k].after
  <2>1. /\ poll[k].step = "logs"
        /\ UNCHANGED <<status, lines, writer, draft, stale, page, badge, shown, repeated, last, overlapped>>
        /\ \A q \in Polls \ {k} : poll'[q] = poll[q]
        /\ poll'[k] = [step |-> "answered", after |-> a, status |-> poll[k].status, rows |-> ListJobLogs(a)]
    BY <1>3 DEF ReadLogs
  <2>2. PICK m \in 0..lines : ListJobLogs(a) = (a + 1)..m /\ (status # "erased" => m = lines)
    <3>1. CASE status = "erased"
      <4>1. ListJobLogs(a) = (a + 1)..0 /\ 0 \in 0..lines
        BY <3>1 DEF ListJobLogs
      <4> QED BY <3>1, <4>1
    <3>2. CASE status # "erased"
      BY <3>2 DEF ListJobLogs
    <3> QED BY <3>1, <3>2
  <2>3. TypeOK'
    <3>1. (a + 1)..m \in SUBSET (1..MaxLines)
      OBVIOUS
    <3> QED BY <1>3, <2>1, <2>2, <3>1 DEF ReadLogs
  <2>4. NoGap' /\ TailComplete' /\ LogGrows'
    BY <2>1 DEF NoGap, TailComplete, LogGrows
  <2>5. HasUpTo' /\ FinalIsComplete'
    BY <2>1, <2>2 DEF HasUpTo, FinalIsComplete
  <2>6. AnswersAreIntervals'
    BY <2>1, <2>2 DEF AnswersAreIntervals
  <2>7. OneAtATime'
    BY <2>1 DEF OneAtATime
  <2> QED BY <2>3, <2>4, <2>5, <2>6, <2>7
<1> QED BY <1>1, <1>2, <1>3

(* An answer arrives: its rows follow rows the page has had since it asked.    *)
LEMMA DeliverStep == ASSUME TailAssumption, TailInv, NEW k \in Polls, Deliver(k) PROVE TailInv'
<1> USE DEF TailInv, PageInv, TypeOK, TailAssumption, log, InFlight, NoPoll
<1> DEFINE a == poll[k].after
           rows == poll[k].rows
<1>1. /\ poll[k].step = "answered"
      /\ shown' = shown \cup rows
      /\ repeated' = (repeated \/ \E i \in rows, j \in shown : i <= j)
      /\ badge' = poll[k].status
      /\ last' = IF rows = {} THEN last ELSE Newest(rows)
      /\ page' = IF page = "polling" /\ poll[k].status = "ended" THEN "ended" ELSE page
      /\ poll'[k] = NoPoll /\ \A q \in Polls \ {k} : poll'[q] = poll[q]
      /\ UNCHANGED <<status, lines, writer, draft, stale, overlapped>>
  BY DEF Deliver, Show
<1>2. PICK m \in 0..lines : rows = (a + 1)..m
  BY DEF AnswersAreIntervals
<1>3. a \in Nat /\ 1..a \subseteq shown /\ shown \subseteq 1..lines
  BY DEF HasUpTo, LogGrows
<1>4. last' = IF m > a THEN m ELSE last
  <2>1. CASE m > a
    <3>1. m \in Nat /\ m \in (a + 1)..m
      BY <1>3, <2>1
    <3>2. Newest((a + 1)..m) = m
      BY <1>3, <2>1, <3>1, NewestIsEnd
    <3>3. rows # {} /\ Newest(rows) = m
      BY <1>2, <3>1, <3>2
    <3> QED BY <1>1, <2>1, <3>3
  <2>2. CASE ~(m > a)
    <3>1. rows = {}
      BY <1>2, <1>3, <2>2
    <3> QED BY <1>1, <2>2, <3>1
  <2> QED BY <2>1, <2>2
<1>5. page \notin {"closed", "loading"}
  BY <1>1 DEF HasUpTo
<1>6. shown' \subseteq 1..lines /\ NoGap'
  <2>1. \A i \in shown : 1..i \subseteq shown
    BY DEF NoGap
  <2>2. m \in Nat /\ lines \in Nat /\ m <= lines
    OBVIOUS
  <2>3. /\ shown \cup rows \subseteq 1..lines
        /\ \A i \in shown \cup rows : 1..i \subseteq shown \cup rows
    <3> HIDE DEF a, rows, TailInv, PageInv, TypeOK, TailAssumption
    <3> QED BY <1>2, <1>3, <2>1, <2>2, Continued
  <2> QED BY <1>1, <2>3 DEF NoGap
<1>7. LogGrows'
  BY <1>1, <1>6 DEF LogGrows
<1>8. TypeOK'
  <2>1. last' \in 0..MaxLines
    BY <1>4
  <2>2. shown' \subseteq 1..MaxLines
    BY <1>6
  <2>3. repeated' \in BOOLEAN /\ poll[k] \in [step : {"free", "job", "logs", "answered"}, after : 0..MaxLines,
                                     status : {"running", "ended"}, rows : SUBSET (1..MaxLines)]
    BY <1>1
  <2>4. badge' \in {"running", "ended"} /\ page' \in {"closed", "loading", "polling", "ended", "broken"}
    BY <1>1, <2>3
  <2>5. poll' = [poll EXCEPT ![k] = NoPoll]
    BY DEF Deliver
  <2> QED BY <1>1, <2>1, <2>2, <2>3, <2>4, <2>5
<1>9. HasUpTo'
  <2>1. 1..last' \subseteq shown'
    BY <1>1, <1>2, <1>3, <1>4 DEF HasUpTo
  <2> QED BY <1>1, <1>5, <2>1 DEF HasUpTo
<1>10. AnswersAreIntervals'
  <2>1. poll'[k].rows = (poll'[k].after + 1)..0 /\ 0 \in 0..lines'
    BY <1>1
  <2> QED BY <1>1, <2>1 DEF AnswersAreIntervals
<1>11. FinalIsComplete'
  BY <1>1 DEF FinalIsComplete
<1>12. TailComplete'
  <2>1. CASE page = "ended"
    BY <1>1, <1>6, <2>1 DEF TailComplete
  <2>2. CASE page' = "ended" /\ page # "ended" /\ status = "ended"
    <3>1. rows = (a + 1)..lines
      BY <1>1, <2>2 DEF FinalIsComplete
    <3> QED BY <1>1, <1>3, <1>6, <3>1 DEF TailComplete
  <2> QED BY <1>1, <2>1, <2>2 DEF TailComplete
<1>13. OneAtATime'
  <2> SUFFICES ASSUME ~overlapped PROVE OneAtATime'
    BY <1>1 DEF OneAtATime
  <2>1. a = last /\ shown \subseteq 1..last /\ \A q \in Polls \ {k} : poll[q].step = "free"
    BY <1>1 DEF OneAtATime
  <2>2. ~repeated'
    BY <1>1, <1>2, <2>1 DEF OneAtATime
  <2>3. shown' \subseteq 1..last'
    BY <1>1, <1>2, <1>4, <2>1
  <2>4. \A q \in Polls : poll'[q].step = "free"
    BY <1>1, <2>1
  <2> QED BY <2>2, <2>3, <2>4 DEF OneAtATime
<1> QED BY <1>6, <1>7, <1>8, <1>9, <1>10, <1>11, <1>12, <1>13

LEMMA LoseStep == ASSUME TailAssumption, TailInv, NEW k \in Polls, LosePoll(k) PROVE TailInv'
<1> USE DEF TailInv, PageInv, TypeOK, TailAssumption, log, InFlight, NoPoll
<1>1. /\ poll[k].step # "free"
      /\ poll'[k] = NoPoll /\ \A q \in Polls \ {k} : poll'[q] = poll[q]
      /\ page' = IF page = "polling" THEN "broken" ELSE page
      /\ UNCHANGED <<status, lines, writer, draft, stale, badge, shown, repeated, last, overlapped>>
  BY DEF LosePoll
<1>2. TypeOK'
  BY DEF LosePoll
<1>3. NoGap' /\ TailComplete' /\ LogGrows'
  BY <1>1 DEF NoGap, TailComplete, LogGrows
<1>4. HasUpTo' /\ FinalIsComplete'
  BY <1>1 DEF HasUpTo, FinalIsComplete
<1>5. AnswersAreIntervals'
  <2>1. poll'[k].rows = (poll'[k].after + 1)..0 /\ 0 \in 0..lines'
    BY <1>1
  <2> QED BY <1>1, <2>1 DEF AnswersAreIntervals
<1>6. OneAtATime'
  BY <1>1 DEF OneAtATime
<1> QED BY <1>2, <1>3, <1>4, <1>5, <1>6

LEMMA TailInductive == ASSUME TailAssumption, TailInv, [Next]_vars PROVE TailInv'
<1>1. CASE UNCHANGED vars
  BY <1>1 DEF vars, log, view, TailInv, PageInv, TypeOK, NoGap, TailComplete, LogGrows, HasUpTo,
              AnswersAreIntervals, FinalIsComplete, OneAtATime, InFlight
<1> QED BY <1>1, WriterSteps, PageSteps, AskSteps, DeliverStep, LoseStep DEF Next, View

LEMMA TailSafe == Spec => []TailInv
  BY TailAssumption, TailStarts, TailInductive, PTL DEF Spec

(* Log, page and requests in flight keep their types. *)
THEOREM TailTyped == Spec => []TypeOK
<1>1. TailInv => TypeOK
  BY DEF TailInv
<1> QED BY <1>1, TailSafe, PTL

(* However many polls overlap and in whatever order they are answered, the    *)
(* page never shows a row without all rows before it.                         *)
THEOREM PageHasNoGap == Spec => []NoGap
<1>1. TailInv => NoGap
  BY DEF TailInv
<1> QED BY <1>1, TailSafe, PTL

(* A page that stopped because the job ended shows the whole log.             *)
THEOREM PageIsComplete == Spec => []TailComplete
<1>1. TailInv => TailComplete
  BY DEF TailInv
<1> QED BY <1>1, TailSafe, PTL

(* Without an overlap every row is shown once and in order.                   *)
THEOREM RowsShownOnce == Spec => []ShownOnce
<1>1. TailInv => ShownOnce
  BY DEF TailInv, PageInv, OneAtATime, ShownOnce
<1> QED BY <1>1, TailSafe, PTL
=============================================================================
