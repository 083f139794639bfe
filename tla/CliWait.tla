------------------------------- MODULE CliWait -------------------------------
(* cheapspace workspace new/delete --wait: the command queues its job and    *)
(* then works through the queue itself, next to the server's worker loop,    *)
(* until LeaseNextJob finds no queued row.                                   *)
EXTENDS Integers

CONSTANTS MaxJobs,  \* bound on the rows ever inserted in jobs
          MaxTurns  \* maxIterations of RunUntilIdle (64)

ASSUME WaitAssumption == MaxJobs \in Nat \ {0} /\ MaxTurns \in Nat \ {0}

Workers == {"server", "cli"}

VARIABLES status, runner,  \* the queue, see JobBoard
          short,           \* jobs whose run_after, as text, is later than the time just after it
          command,         \* "none", "waiting", or returned: "idle" without, "error" with an error
          mine,            \* the job the command queued
          turns            \* iterations of RunUntilIdle so far
vars == <<status, runner, short, command, mine, turns>>

Board == INSTANCE JobBoard

Init == Board!Init /\ short = {} /\ command = "none" /\ mine = Board!NoJob /\ turns = 0

\* timestamp drops trailing zeros, so "05.12Z" sorts after "05.121Z".
Post(j) == Board!Post(j) /\ short' \in {short, short \cup {j}}

\* CreateWorkspace or QueueWorkspaceDelete of the command.
Issue == /\ command = "none" /\ command' = "waiting"
         /\ \E j \in Board!Jobs : Post(j) /\ mine' = j
         /\ UNCHANGED turns

\* Other users and the server's worker loop.
Others == /\ \/ \E j \in Board!Jobs : Post(j) \/ (Board!Erase(j) /\ UNCHANGED short)
             \/ (Board!Take("server") \/ Board!Lose("server")) /\ UNCHANGED short
             \/ \E s \in Board!Finished : Board!Finish("server", s) /\ UNCHANGED short
          /\ UNCHANGED <<command, mine, turns>>

Looking == command = "waiting" /\ runner["cli"] = Board!NoJob

\* RunOneJob: the oldest job, whoever queued it.
TakeJob == /\ Looking /\ turns < MaxTurns
           /\ Board!Take("cli")
           /\ turns' = turns + 1
           /\ UNCHANGED <<short, command, mine>>

\* Mutant: RunOneJob in place of RunUntilIdle.
EndAfterOne(s) == /\ Board!Finish("cli", s)
                  /\ command' = IF s = "failed" THEN "error" ELSE "idle"
                  /\ UNCHANGED <<short, mine, turns>>

\* executeJob returns the error of a job that failed, nil for one that was stopped.
EndJob(s) == /\ Board!Finish("cli", s)
             /\ command' = IF s = "failed" THEN "error" ELSE command
             /\ UNCHANGED <<short, mine, turns>>

\* A write of executeJob fails.
LoseJob == /\ Board!Lose("cli") /\ command' = "error"
           /\ UNCHANGED <<short, mine, turns>>

\* The server has the write lock or committed first: LeaseNextJob returns SQLITE_BUSY.
LeaseRefused == /\ Looking /\ turns < MaxTurns /\ Board!Queued # {}
                /\ command' = "error"
                /\ UNCHANGED <<status, runner, short, mine, turns>>

\* Mutant: an empty queue does not end the loop.
KeepLooking == Looking /\ Board!Queued \subseteq short /\ UNCHANGED vars

\* No row is queued with a run_after that is not later than now, compared as text.
FindIdle == /\ Looking /\ turns < MaxTurns /\ Board!Queued \subseteq short
            /\ command' = "idle"
            /\ UNCHANGED <<status, runner, short, mine, turns>>

\* "jobs did not become idle"
GiveUp == /\ Looking /\ turns = MaxTurns
          /\ command' = "error"
          /\ UNCHANGED <<status, runner, short, mine, turns>>

Cli == TakeJob \/ (\E s \in Board!Finished : EndJob(s)) \/ FindIdle \/ GiveUp
Next == Issue \/ Others \/ Cli \/ LoseJob \/ LeaseRefused

Spec == Init /\ [][Next]_vars

\* The command's loop waits for nobody, and its jobs' docker commands return.
FairSpec == Spec /\ WF_vars(Cli)

-----------------------------------------------------------------------------
(* Types of the queue and of the command. *)
TypeOK == /\ Board!TypeOK
          /\ command \in {"none", "waiting", "idle", "error"}
          /\ short \subseteq Board!Jobs /\ mine \in Board!Jobs \cup {Board!NoJob} /\ turns \in 0..MaxTurns

(* A command that returned without an error has seen its own job taken or       *)
(* removed, also when older jobs of others were ahead of it, unless the text of *)
(* the job's time has lost trailing zeros: then it may look and not see it.     *)
OwnJobTaken == command = "idle" => status[mine] # "queued" \/ mine \in short

(* A waiting command returns.                                                   *)
CommandReturns == command = "waiting" ~> command \in {"idle", "error"}

=============================================================================
