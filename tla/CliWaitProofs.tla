--------------------------- MODULE CliWaitProofs ---------------------------
(* What a waiting command has seen, for any number of jobs and turns.        *)
EXTENDS CliWait, TLAPS

\* The command's job was queued, and never becomes queued again.
MineKnown == command # "none" => mine \in Board!Jobs /\ status[mine] # "absent"
\* Only a waiting command runs jobs.
CliBusy == runner["cli"] # Board!NoJob => command = "waiting"
IInv == TypeOK /\ MineKnown /\ CliBusy /\ OwnJobTaken

(* No command, no job. *)
LEMMA Starts == ASSUME WaitAssumption, Init PROVE IInv
  BY DEF WaitAssumption, Init, IInv, TypeOK, MineKnown, CliBusy, Workers, OwnJobTaken, Board!Init, Board!TypeOK, Board!NoJob, Board!Jobs,
         Board!Statuses

(* A step of the queue that keeps the command and its job: only an absent row  *)
(* becomes queued.                                                             *)
LEMMA QueueStep ==
  ASSUME IInv, UNCHANGED <<command, mine>>, short \subseteq short', Board!TypeOK',
         \A j \in Board!Jobs : status[j] # "absent" => /\ status'[j] # "absent"
                                                       /\ status'[j] = "queued" => status[j] = "queued"
  PROVE  MineKnown' /\ OwnJobTaken'
<1>1. Board!Jobs' = Board!Jobs
  BY DEF Board!Jobs
<1>2. CASE command = "none"
  BY <1>2 DEF MineKnown, OwnJobTaken
<1>3. CASE command # "none"
  <2>1. mine \in Board!Jobs /\ status[mine] # "absent"
    BY <1>3 DEF IInv, MineKnown
  <2> QED BY <2>1 DEF IInv, MineKnown, OwnJobTaken, Board!Jobs
<1> QED BY <1>2, <1>3

(* What each step of the queue does to jobs.status. *)
LEMMA BoardMoves ==
  ASSUME WaitAssumption, Board!TypeOK, NEW w \in Workers, NEW i \in Board!Jobs, NEW s \in Board!Finished,
         Board!Post(i) \/ Board!Erase(i) \/ Board!Take(w) \/ Board!Lose(w) \/ Board!Finish(w, s)
  PROVE  /\ Board!TypeOK'
         /\ \A j \in Board!Jobs : status[j] # "absent" => /\ status'[j] # "absent"
                                                          /\ status'[j] = "queued" => status[j] = "queued"
<1> USE DEF Board!TypeOK, Board!Jobs, Board!NoJob, Board!Finished, Board!Statuses
<1>1. CASE Board!Post(i)
  BY <1>1 DEF Board!Post
<1>2. CASE Board!Erase(i)
  BY <1>2 DEF Board!Erase
<1>3. CASE Board!Take(w)
  BY <1>3 DEF Board!Take, Board!IsOldest, Board!Queued
<1>4. CASE Board!Lose(w)
  BY <1>4 DEF Board!Lose
<1>5. CASE Board!Finish(w, s)
  BY <1>5 DEF Board!Finish
<1> QED BY <1>1, <1>2, <1>3, <1>4, <1>5

(* IInv is inductive. *)
LEMMA Keeps == ASSUME WaitAssumption, IInv, [Next]_vars PROVE IInv'
<1>0. Board!TypeOK /\ "server" \in Workers /\ "cli" \in Workers /\ "done" \in Board!Finished
  BY DEF IInv, TypeOK, Workers, Board!Finished
<1>1. CASE Issue
  <2>1. PICK j \in Board!Jobs : Board!Post(j) /\ short' \in {short, short \cup {j}} /\ mine' = j
    BY <1>1 DEF Issue, Post
  <2>2. Board!TypeOK'
    BY <1>0, <2>1, BoardMoves
  <2>3. status'[j] = "queued"
    BY <1>0, <2>1 DEF Board!Post, Board!TypeOK
  <2> QED BY <1>1, <2>1, <2>2, <2>3 DEF Issue, IInv, TypeOK, MineKnown, CliBusy, OwnJobTaken, Board!Jobs, Board!Post
<1>2. CASE Others
  <2>1. PICK i \in Board!Jobs, s \in Board!Finished :
          \/ Post(i) \/ (Board!Erase(i) /\ UNCHANGED short)
          \/ (Board!Take("server") \/ Board!Lose("server") \/ Board!Finish("server", s)) /\ UNCHANGED short
    BY <1>0, <1>2 DEF Others, WaitAssumption, Board!Jobs
  <2>2. short \subseteq short' /\ short' \subseteq Board!Jobs
    BY <2>1 DEF Post, IInv, TypeOK
  <2>3. Board!TypeOK' /\ MineKnown' /\ OwnJobTaken'
    <3>1. \/ Board!Post(i) \/ Board!Erase(i) \/ Board!Take("server") \/ Board!Lose("server")
          \/ Board!Finish("server", s)
      BY <2>1 DEF Post
    <3>2. UNCHANGED <<command, mine>>
      BY <1>2 DEF Others
    <3> QED BY <1>0, <2>2, <3>1, <3>2, BoardMoves, QueueStep
  <2>4. runner'["cli"] = runner["cli"]
    BY <1>0, <2>1 DEF Post, Board!Post, Board!Erase, Board!Take, Board!Lose, Board!Finish, Board!TypeOK
  <2> QED BY <1>2, <2>2, <2>3, <2>4 DEF Others, IInv, CliBusy, TypeOK, Board!Jobs
<1>3. CASE TakeJob
  <2>1. Board!TypeOK' /\ MineKnown' /\ OwnJobTaken'
    BY <1>0, <1>3, BoardMoves, QueueStep DEF TakeJob, WaitAssumption, Board!Jobs
  <2> QED BY <1>3, <2>1 DEF TakeJob, Looking, CliBusy, WaitAssumption, IInv, TypeOK, Board!Jobs
<1>4. ASSUME NEW s \in Board!Finished, EndJob(s) \/ LoseJob PROVE IInv'
  <2>1. command = "waiting" /\ mine \in Board!Jobs /\ status[mine] # "absent"
    BY <1>4 DEF EndJob, LoseJob, Board!Finish, Board!Lose, IInv, CliBusy, MineKnown
  <2>2. 1 \in Board!Jobs
    BY DEF WaitAssumption, Board!Jobs
  <2>3. Board!TypeOK' /\ status'[mine] # "absent"
    BY <1>0, <1>4, <2>1, <2>2, BoardMoves DEF EndJob, LoseJob
  <2>4. runner'["cli"] = Board!NoJob
    BY <1>0, <1>4 DEF EndJob, LoseJob, Board!Finish, Board!Lose, Board!TypeOK
  <2>5. command' \in {"waiting", "error"} /\ UNCHANGED <<short, mine, turns>>
    BY <1>4, <2>1 DEF EndJob, LoseJob
  <2> QED BY <2>1, <2>3, <2>4, <2>5 DEF IInv, TypeOK, MineKnown, CliBusy, OwnJobTaken, Board!Jobs
<1>5. CASE FindIdle \/ GiveUp \/ LeaseRefused
  <2>1. /\ UNCHANGED <<status, runner, short, mine, turns>> /\ command = "waiting" /\ Looking
        /\ command' = "error" \/ (command' = "idle" /\ Board!Queued \subseteq short)
    BY <1>5 DEF FindIdle, GiveUp, LeaseRefused, Looking
  <2>2. mine \in Board!Jobs /\ status[mine] # "absent"
    BY <2>1 DEF IInv, MineKnown
  <2> QED BY <2>1, <2>2 DEF IInv, TypeOK, MineKnown, CliBusy, OwnJobTaken, Looking, Board!TypeOK, Board!Jobs,
                            Board!Queued
<1>6. CASE UNCHANGED vars
  BY <1>6 DEF vars, IInv, TypeOK, MineKnown, CliBusy, OwnJobTaken, Board!TypeOK, Board!Jobs
<1> QED BY <1>0, <1>1, <1>2, <1>3, <1>4, <1>5, <1>6 DEF Next, Cli

(* The variables keep their types. *)
THEOREM WaitTyped == Spec => []TypeOK
<1>1. IInv => TypeOK
  BY DEF IInv
<1> QED BY <1>1, WaitAssumption, Starts, Keeps, PTL DEF Spec

(* Whoever else works on the queue, a command that returns without an error has *)
(* seen its job leave the queue, or its time was cut short as text.             *)
THEOREM OwnJobSeen == Spec => []OwnJobTaken
<1>1. IInv => OwnJobTaken
  BY DEF IInv
<1> QED BY <1>1, WaitAssumption, Starts, Keeps, PTL DEF Spec
=============================================================================
