------------------------------- MODULE ShellJobs -------------------------------
(***************************************************************************)
(* The shell jobs of one session (tools/packages/shell/): the threads that *)
(* run a command in the foreground or read a background one, the tool that *)
(* waits for jobs and kills them, and the cancellation of a turn, which    *)
(* kills every job of its session.  They share the fields of a job and     *)
(* take no lock for them.                                                  *)
(***************************************************************************)
EXTENDS Naturals, FiniteSets

CONSTANTS
  Jobs,
  Background   \* the jobs started in the background

Runners == Jobs                        \* the thread that runs or reads a job
Killers == Runners \cup {"tool", "cancel"}

VARIABLES
  job,     \* the registry's entry of a job
  os,      \* its process: none, alive, ended but not reaped, or reaped
  run,     \* where its thread is
  kill,    \* where kill_job is in each thread that calls it
  cancel   \* the jobs the cancellation found, and those it still has to look at

jvars == <<job, os, run, kill, cancel>>

NoKill == [pc |-> "idle", job |-> 0]
JobsInit ==
  /\ job = [j \in Jobs |-> [status |-> "none", handle |-> FALSE]]
  /\ os = [j \in Jobs |-> "none"]
  /\ run = [j \in Jobs |-> "off"]
  /\ kill = [k \in Killers |-> NoKill]
  /\ cancel = [pc |-> "idle", found |-> {}, todo |-> {}]

Mark(j, status) == [job EXCEPT ![j].status = status, ![j].handle = FALSE]
Step(j, pc) == run' = [run EXCEPT ![j] = pc]

-----------------------------------------------------------------------------
(* The thread of a job *)

Popen(j) ==
  /\ run[j] = "off"
  /\ os' = [os EXCEPT ![j] = "alive"]
  /\ Step(j, "register")
  /\ UNCHANGED <<job, kill, cancel>>

Register(j) ==
  /\ run[j] = "register"
  /\ job' = [job EXCEPT ![j] = [status |-> "running", handle |-> TRUE]]
  /\ Step(j, "read")
  /\ UNCHANGED <<os, kill, cancel>>

\* The output ends with the process, or because the process has closed it.
Eof(j) ==
  /\ run[j] = "read"
  /\ Step(j, "wait")
  /\ UNCHANGED <<job, os, kill, cancel>>

\* A foreground command has run too long: its thread kills the job.
Deadline(j) ==
  /\ run[j] = "read" /\ j \notin Background
  /\ Step(j, "kill")
  /\ kill' = [kill EXCEPT ![j] = [pc |-> "aim", job |-> j]]
  /\ UNCHANGED <<job, os, cancel>>

DeadlineKilled(j) ==
  /\ run[j] = "kill" /\ kill[j].pc = "idle"
  /\ Step(j, "end")
  /\ UNCHANGED <<job, os, kill, cancel>>

\* proc.wait: the process has ended, and is reaped.
Reap(j) ==
  /\ run[j] = "wait"
  /\ os[j] # "alive"
  /\ os' = [os EXCEPT ![j] = IF @ = "zombie" THEN "reaped" ELSE @]
  /\ Step(j, "end")
  /\ UNCHANGED <<job, kill, cancel>>

\* A foreground process that has closed its output and does not end within 5 s is killed.
Lingers(j) ==
  /\ run[j] = "wait" /\ j \notin Background
  /\ os[j] = "alive"
  /\ os' = [os EXCEPT ![j] = "zombie"]
  /\ Step(j, "end")
  /\ UNCHANGED <<job, kill, cancel>>

Ends(j) ==
  /\ run[j] = "end"
  /\ job' = Mark(j, "exited")
  /\ Step(j, "done")
  /\ UNCHANGED <<os, kill, cancel>>

-----------------------------------------------------------------------------
(* kill_job *)

\* Mutant: a job is marked before its process is killed.
AimMarking(k) ==
  LET j == kill[k].job IN
  /\ kill[k].pc = "aim"
  /\ job' = Mark(j, "killed")
  /\ kill' = [kill EXCEPT ![k].pc = "shoot"]
  /\ UNCHANGED <<os, run, cancel>>

\* It looks at the handle and polls the process; without a handle it has only the number.
Aim(k) ==
  LET j == kill[k].job IN
  /\ kill[k].pc = "aim"
  /\ os' = [os EXCEPT ![j] = IF job[j].handle /\ @ = "zombie" THEN "reaped" ELSE @]
  /\ kill' = [kill EXCEPT ![k].pc = "shoot"]
  /\ UNCHANGED <<job, run, cancel>>

Shoot(k) ==
  LET j == kill[k].job IN
  /\ kill[k].pc = "shoot"
  /\ os' = [os EXCEPT ![j] = IF @ = "alive" THEN "zombie" ELSE @]
  /\ kill' = [kill EXCEPT ![k].pc = "mark"]
  /\ UNCHANGED <<job, run, cancel>>

MarkKilled(k) ==
  /\ kill[k].pc = "mark"
  /\ job' = Mark(kill[k].job, "killed")
  /\ kill' = [kill EXCEPT ![k] = NoKill]
  /\ UNCHANGED <<os, run, cancel>>

Registered == {j \in Jobs : job[j].status # "none"}

\* process(action="kill"), whatever the status of the job is.
KillTool(j) ==
  /\ kill["tool"].pc = "idle"
  /\ j \in Registered
  /\ job[j].status # "killed"
  /\ kill' = [kill EXCEPT !["tool"] = [pc |-> "aim", job |-> j]]
  /\ UNCHANGED <<job, os, run, cancel>>

\* process(action="wait") and wait_job: it reaps a process that has ended, and waits only for
\* a job that runs.
WaitTool(j) ==
  /\ job[j].status = "running" /\ job[j].handle
  /\ os[j] = "zombie"
  /\ os' = [os EXCEPT ![j] = "reaped"]
  /\ UNCHANGED <<job, run, kill, cancel>>

\* kill_session_processes: a list under the lock, then one job after the other.
CancelTurn ==
  /\ cancel.pc = "idle"
  /\ cancel' = [pc |-> "kill", found |-> Registered, todo |-> Registered]
  /\ UNCHANGED <<job, os, run, kill>>

CancelNext(j) ==
  /\ cancel.pc = "kill" /\ kill["cancel"].pc = "idle"
  /\ j \in cancel.todo
  /\ cancel' = [cancel EXCEPT !.todo = @ \ {j}]
  /\ kill' = IF job[j].status = "running"
               THEN [kill EXCEPT !["cancel"] = [pc |-> "aim", job |-> j]] ELSE kill
  /\ UNCHANGED <<job, os, run>>

Cancelled ==
  /\ cancel.pc = "kill" /\ cancel.todo = {} /\ kill["cancel"].pc = "idle"
  /\ cancel' = [cancel EXCEPT !.pc = "done"]
  /\ UNCHANGED <<job, os, run, kill>>

-----------------------------------------------------------------------------
(* The operating system *)

Exit(j) ==
  /\ os[j] = "alive"
  /\ os' = [os EXCEPT ![j] = "zombie"]
  /\ UNCHANGED <<job, run, kill, cancel>>

JobsNext ==
  \/ \E j \in Jobs :
       \/ Popen(j) \/ Register(j) \/ Eof(j) \/ Deadline(j) \/ DeadlineKilled(j)
       \/ Reap(j) \/ Lingers(j) \/ Ends(j)
       \/ KillTool(j) \/ WaitTool(j) \/ CancelNext(j)
       \/ Exit(j)
  \/ \E k \in Killers : Aim(k) \/ Shoot(k) \/ MarkKilled(k)
  \/ CancelTurn \/ Cancelled

JobsSpec == JobsInit /\ [][JobsNext]_jvars

-----------------------------------------------------------------------------
(* Properties *)

\* When the cancellation of a turn is done, no process of a job it found is alive, whoever
\* else was ending or killing these jobs meanwhile.
CancelLeavesNone ==
  cancel.pc = "done" => \A j \in cancel.found : os[j] # "alive"
=============================================================================
