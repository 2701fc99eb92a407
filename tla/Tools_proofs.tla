----------------------------- MODULE Tools_proofs -----------------------------
(***************************************************************************)
(* Four parts that share no state, each for any size.                      *)
(*                                                                         *)
(* The cancellation of a turn leaves no process of a job it has seen       *)
(* (CancelKillsAll).  It rests on what the fields of a job say of its      *)
(* process although nobody locks them: a job is marked only once its       *)
(* process has ended (JobInv), and whoever is about to mark it has seen to *)
(* that (KillInv, RunInv).  So a job the cancellation passes over because  *)
(* it does not run, or has killed itself, has no process left (CancelInv). *)
(* A job's thread kills with a slot of its own, which must be neither the  *)
(* tool's nor the canceller's.                                             *)
(*                                                                         *)
(* An undo is exact or changes nothing (UndoExactOrRefused).  Nobody locks *)
(* the files or the snapshots; FilesInv says what can still be relied on:  *)
(* a change that nobody disturbed knows what it has found and left, its    *)
(* snapshot tells the same, and an undo that nobody disturbed writes on    *)
(* the files it has compared.                                              *)
(*                                                                         *)
(* A page out of date cannot save (StalePagesConflict), as the revision    *)
(* of a page of the running process never passes the tracker's, and is the *)
(* tracker's only when it shows the document the tracker has seen last     *)
(* (PagesInv).  A save changes only what it names (EditsStayLocal): with   *)
(* the shape of documents (DocInv) this is about one step, and rests on an *)
(* entry in canonical form staying as it is when it is read and written    *)
(* again (CanonicalStays).                                                 *)
(*                                                                         *)
(* The tools node hands every answer to the call that asked for it         *)
(* (AnswersAreKept).  It runs from its start after every answer and takes  *)
(* them in order, so nothing but its order of asking ties an answer to a   *)
(* call.                                                                   *)
(* The invariant ties them: as long as the settings stay as they were,     *)
(* the walk with the answers before one stops at the call of that one      *)
(* (Consistent).  A walk with more answers goes the way of the shorter one *)
(* until the shorter one stops (WalkAgrees), so the call that takes the    *)
(* answer is the one that asked (AnswerIsItsOwn), for any number of calls  *)
(* and of answers.                                                         *)
(***************************************************************************)
EXTENDS ShellJobs, ToolGate, FileSnapshots, ConfigDocument,
        SequenceTheorems, NaturalsInduction, WellFoundedInduction, TLAPS

-----------------------------------------------------------------------------
(* Jobs                                                                     *)

KillPc == {"idle", "aim", "shoot", "mark"}
RunPc == {"off", "register", "read", "wait", "kill", "end", "done"}

JobsTypeOK ==
  /\ job \in [Jobs -> [status : {"none", "running", "exited", "killed"}, handle : BOOLEAN]]
  /\ os \in [Jobs -> {"none", "alive", "zombie", "reaped"}]
  /\ run \in [Jobs -> RunPc]
  /\ kill \in [Killers -> [pc : KillPc, job : Jobs \cup {0}]]
  /\ cancel \in [pc : {"idle", "kill", "done"}, found : SUBSET Jobs, todo : SUBSET Jobs]

\* A job is registered once its thread has begun to read, and marked once its process has ended.
JobInv ==
  \A j \in Jobs : /\ job[j].status = "none" <=> run[j] \in {"off", "register"}
                  /\ job[j].status \in {"exited", "killed"} => os[j] # "alive"

\* A kill is of a registered job, and comes to the mark when the process has ended.
KillInv ==
  \A k \in Killers : kill[k].pc # "idle" =>
    /\ kill[k].job \in Jobs
    /\ job[kill[k].job].status # "none"
    /\ kill[k].pc = "mark" => os[kill[k].job] # "alive"

\* A thread marks its job when the process has ended, and kills no other job.
RunInv ==
  \A j \in Jobs : /\ run[j] = "end" => os[j] # "alive"
                  /\ kill[j].pc # "idle" => kill[j].job = j
                  /\ run[j] = "kill" => kill[j].pc # "idle" \/ os[j] # "alive"

\* A job the cancellation has looked at has no process, or is being killed by it.
CancelInv ==
  /\ cancel.pc = "idle" => cancel.found = {}
  /\ cancel.todo \subseteq cancel.found
  /\ \A j \in cancel.found : job[j].status # "none"
  /\ \A j \in cancel.found \ cancel.todo :
       os[j] # "alive" \/ (kill["cancel"].pc # "idle" /\ kill["cancel"].job = j)
  /\ cancel.pc = "done" => cancel.todo = {} /\ kill["cancel"].pc = "idle"

JobsInv == JobsTypeOK /\ JobInv /\ KillInv /\ RunInv /\ CancelInv

-----------------------------------------------------------------------------
\* Nothing runs and nothing is cancelled at first.
LEMMA JobsInitInv == JobsInit => JobsInv
<1> SUFFICES ASSUME JobsInit PROVE JobsInv
  OBVIOUS
<1>1. JobsTypeOK
  BY DEF JobsInit, JobsTypeOK, KillPc, RunPc, NoKill
<1>2. JobInv /\ KillInv
  BY DEF JobsInit, JobInv, KillInv, NoKill
<1>3. RunInv
  BY DEF JobsInit, RunInv, NoKill, Killers, Runners
<1>4. CancelInv
  BY DEF JobsInit, CancelInv
<1>. QED
  BY <1>1, <1>2, <1>3, <1>4 DEF JobsInv

\* A step of a job's own thread.
ThreadStep(j) ==
  \/ Popen(j) \/ Register(j) \/ Eof(j) \/ Deadline(j) \/ DeadlineKilled(j)
  \/ Reap(j) \/ Lingers(j) \/ Ends(j)

\* The steps of the threads that run a command or read its output keep the invariant.
LEMMA ThreadKeepsInv ==
  ASSUME "cancel" \notin Jobs, JobsInv, NEW j \in Jobs, ThreadStep(j)
  PROVE  JobsInv'
<1> USE DEF JobsInv, JobsTypeOK, KillPc, RunPc, Step, Mark, Killers, Runners
<1>1. CASE Popen(j)
  <2>1. JobsTypeOK' /\ JobInv' /\ RunInv'
    BY <1>1 DEF Popen, JobInv, RunInv
  <2>2. KillInv'
    BY <1>1 DEF Popen, JobInv, KillInv
  <2>3. CancelInv'
    BY <1>1 DEF Popen, JobInv, CancelInv
  <2>. QED
    BY <2>1, <2>2, <2>3
<1>2. CASE Register(j)
  <2>1. JobsTypeOK' /\ JobInv' /\ RunInv'
    BY <1>2 DEF Register, JobInv, RunInv
  <2>2. KillInv'
    BY <1>2 DEF Register, KillInv
  <2>3. CancelInv'
    BY <1>2 DEF Register, CancelInv
  <2>. QED
    BY <2>1, <2>2, <2>3
<1>3. CASE Eof(j)
  BY <1>3 DEF Eof, JobInv, KillInv, RunInv, CancelInv
<1>4. CASE Deadline(j)
  <2>1. JobsTypeOK' /\ JobInv' /\ RunInv'
    BY <1>4 DEF Deadline, JobInv, RunInv
  <2>2. KillInv'
    BY <1>4 DEF Deadline, JobInv, KillInv
  <2>3. kill'["cancel"] = kill["cancel"]
    BY <1>4 DEF Deadline
  <2>4. CancelInv'
    BY <1>4, <2>3 DEF Deadline, CancelInv
  <2>. QED
    BY <2>1, <2>2, <2>4
<1>5. CASE DeadlineKilled(j)
  BY <1>5 DEF DeadlineKilled, JobInv, KillInv, RunInv, CancelInv
<1>6. CASE Reap(j)
  BY <1>6 DEF Reap, JobInv, KillInv, RunInv, CancelInv
<1>7. CASE Lingers(j)
  BY <1>7 DEF Lingers, JobInv, KillInv, RunInv, CancelInv
<1>8. CASE Ends(j)
  <2>0. /\ job' = [job EXCEPT ![j].status = "exited", ![j].handle = FALSE]
        /\ run' = [run EXCEPT ![j] = "done"]
        /\ UNCHANGED <<os, kill, cancel>>
    BY <1>8 DEF Ends
  <2>1. JobsTypeOK'
    <3>1. job' \in [Jobs -> [status : {"none", "running", "exited", "killed"}, handle : BOOLEAN]]
      <4> DEFINE marked == [job EXCEPT ![j].status = "exited"]
      <4>1. marked \in [Jobs -> [status : {"none", "running", "exited", "killed"},
                                 handle : BOOLEAN]]
        OBVIOUS
      <4>2. job' = [marked EXCEPT ![j].handle = FALSE]
        BY <2>0
      <4> HIDE DEF marked
      <4>. QED
        BY <4>1, <4>2
    <3>2. run' \in [Jobs -> RunPc]
      BY <2>0
    <3>. QED
      BY <2>0, <3>1, <3>2
  <2>2. job'[j].status = "exited" /\ \A i \in Jobs : i # j => job'[i] = job[i]
    BY <1>8 DEF Ends
  <2>3. JobInv' /\ RunInv'
    BY <1>8, <2>2 DEF Ends, JobInv, RunInv
  <2>4. KillInv' /\ CancelInv'
    BY <1>8, <2>2 DEF Ends, KillInv, CancelInv
  <2>. QED
    BY <2>1, <2>3, <2>4
<1>. QED
  BY <1>1, <1>2, <1>3, <1>4, <1>5, <1>6, <1>7, <1>8 DEF ThreadStep

\* The steps of kill_job keep the invariant, whichever thread takes them.
LEMMA KillKeepsInv ==
  ASSUME JobsInv, NEW k \in Killers, Aim(k) \/ Shoot(k) \/ MarkKilled(k)
  PROVE  JobsInv'
<1> DEFINE j == kill[k].job
<1>0. j \in Jobs /\ kill[k].pc # "idle"
  BY DEF JobsInv, JobsTypeOK, KillInv, Aim, Shoot, MarkKilled
<1> HIDE DEF j
<1> USE DEF JobsInv, JobsTypeOK, KillPc, RunPc, Killers, Runners
<1>1. CASE Aim(k)
  <2>1. /\ os' = [os EXCEPT ![j] = IF job[j].handle /\ @ = "zombie" THEN "reaped" ELSE @]
        /\ kill' = [kill EXCEPT ![k].pc = "shoot"]
        /\ UNCHANGED <<job, run, cancel>>
    BY <1>1 DEF Aim, j
  <2>2. \A i \in Jobs : os'[i] = "alive" <=> os[i] = "alive"
    BY <2>1
  <2>3. \A x \in Killers : kill'[x].job = kill[x].job /\ (kill'[x].pc = "idle" <=> kill[x].pc = "idle")
                            /\ (kill'[x].pc = "mark" => kill[x].pc = "mark")
    BY <2>1, <1>0
  <2>4. JobsTypeOK'
    BY <2>1, <1>0
  <2>5. JobInv' /\ KillInv' /\ RunInv' /\ CancelInv'
    BY <2>1, <2>2, <2>3 DEF JobInv, KillInv, RunInv, CancelInv
  <2>. QED
    BY <2>4, <2>5
<1>2. CASE Shoot(k)
  <2>1. /\ os' = [os EXCEPT ![j] = IF @ = "alive" THEN "zombie" ELSE @]
        /\ kill' = [kill EXCEPT ![k].pc = "mark"]
        /\ UNCHANGED <<job, run, cancel>>
    BY <1>2 DEF Shoot, j
  <2>2. (\A i \in Jobs : os'[i] = "alive" => os[i] = "alive") /\ os'[j] # "alive"
    BY <2>1, <1>0
  <2>3. \A x \in Killers : kill'[x].job = kill[x].job /\ (kill'[x].pc = "idle" <=> kill[x].pc = "idle")
                            /\ (kill'[x].pc = "mark" => kill[x].pc = "mark" \/ x = k)
    BY <2>1, <1>0
  <2>4. JobsTypeOK'
    BY <2>1, <1>0
  <2>5. JobInv' /\ RunInv' /\ CancelInv'
    BY <2>1, <2>2, <2>3 DEF JobInv, RunInv, CancelInv
  <2>6. KillInv'
    BY <2>1, <2>2, <2>3 DEF KillInv, j
  <2>. QED
    BY <2>4, <2>5, <2>6
<1>3. CASE MarkKilled(k)
  <2>1. /\ kill[k].pc = "mark"
        /\ job' = [job EXCEPT ![j].status = "killed", ![j].handle = FALSE]
        /\ kill' = [kill EXCEPT ![k] = NoKill]
        /\ UNCHANGED <<os, run, cancel>>
    BY <1>3 DEF MarkKilled, Mark, j
  <2>2. os[j] # "alive" /\ job[j].status # "none"
    BY <2>1 DEF KillInv, j
  <2>3. \A i \in Jobs : (job'[i].status = "none" <=> job[i].status = "none")
                         /\ (job'[i].status # job[i].status => i = j)
    BY <2>1, <2>2, <1>0
  <2>4. \A x \in Killers : kill'[x] = kill[x] \/ (x = k /\ kill'[x].pc = "idle")
    BY <2>1 DEF NoKill
  <2>5. JobsTypeOK'
    BY <2>1, <1>0 DEF NoKill
  <2>6. JobInv'
    BY <2>1, <2>2, <2>3 DEF JobInv
  <2>7. KillInv'
    BY <2>1, <2>3, <2>4 DEF KillInv
  <2>8. RunInv'
    BY <2>1, <2>2, <2>4 DEF RunInv, j
  <2>9. CancelInv'
    BY <2>1, <2>2, <2>3, <2>4 DEF CancelInv, j
  <2>. QED
    BY <2>5, <2>6, <2>7, <2>8, <2>9
<1>. QED
  BY <1>1, <1>2, <1>3

-----------------------------------------------------------------------------
\* The steps of the tool, of the cancellation and of the processes keep the invariant.
LEMMA OthersKeepInv ==
  ASSUME "tool" \notin Jobs, "cancel" \notin Jobs, JobsInv,
         \/ \E j \in Jobs : KillTool(j) \/ WaitTool(j) \/ CancelNext(j) \/ Exit(j)
         \/ CancelTurn \/ Cancelled
  PROVE  JobsInv'
<1> USE DEF JobsInv, JobsTypeOK, KillPc, RunPc, Killers, Runners
<1>1. ASSUME NEW j \in Jobs, KillTool(j) PROVE JobsInv'
  <2>1. /\ kill' = [kill EXCEPT !["tool"] = [pc |-> "aim", job |-> j]]
        /\ job[j].status # "none"
        /\ UNCHANGED <<job, os, run, cancel>>
    BY <1>1 DEF KillTool, Registered
  <2>2. JobsTypeOK' /\ JobInv' /\ KillInv'
    BY <2>1 DEF JobInv, KillInv
  <2>3. kill'["cancel"] = kill["cancel"] /\ \A i \in Jobs : kill'[i] = kill[i]
    BY <2>1
  <2>4. RunInv' /\ CancelInv'
    BY <2>1, <2>3 DEF RunInv, CancelInv
  <2>. QED
    BY <2>2, <2>4
<1>2. ASSUME NEW j \in Jobs, WaitTool(j) PROVE JobsInv'
  BY <1>2 DEF WaitTool, JobInv, KillInv, RunInv, CancelInv
<1>3. ASSUME NEW j \in Jobs, CancelNext(j) PROVE JobsInv'
  <2>1. /\ cancel.pc = "kill" /\ kill["cancel"].pc = "idle" /\ j \in cancel.todo
        /\ cancel' = [cancel EXCEPT !.todo = @ \ {j}]
        /\ UNCHANGED <<job, os, run>>
    BY <1>3 DEF CancelNext
  <2>2. CASE job[j].status = "running"
    <3>1. kill' = [kill EXCEPT !["cancel"] = [pc |-> "aim", job |-> j]]
      BY <1>3, <2>2 DEF CancelNext
    <3>2. JobsTypeOK' /\ JobInv' /\ KillInv'
      BY <2>1, <2>2, <3>1 DEF JobInv, KillInv
    <3>3. kill'["cancel"] = [pc |-> "aim", job |-> j]
      BY <3>1
    <3>4. CancelInv'
      BY <2>1, <3>3 DEF CancelInv
    <3>5. RunInv'
      BY <2>1, <3>1 DEF RunInv
    <3>. QED
      BY <3>2, <3>4, <3>5
  <2>3. CASE job[j].status # "running"
    <3>1. kill' = kill
      BY <1>3, <2>3 DEF CancelNext
    <3>2. os[j] # "alive"
      BY <2>1, <2>3 DEF CancelInv, JobInv
    <3>. QED
      BY <2>1, <3>1, <3>2 DEF JobInv, KillInv, RunInv, CancelInv
  <2>. QED
    BY <2>2, <2>3
<1>4. ASSUME NEW j \in Jobs, Exit(j) PROVE JobsInv'
  BY <1>4 DEF Exit, JobInv, KillInv, RunInv, CancelInv
<1>5. CASE CancelTurn
  BY <1>5 DEF CancelTurn, Registered, JobInv, KillInv, RunInv, CancelInv
<1>6. CASE Cancelled
  BY <1>6 DEF Cancelled, JobInv, KillInv, RunInv, CancelInv
<1>. QED
  BY <1>1, <1>2, <1>3, <1>4, <1>5, <1>6

\* Whatever the job threads, the tool and the system do while a turn is cancelled, no process of a
\* job the cancellation found is alive when it is done (kill_session_processes).
THEOREM CancelKillsAll ==
  ASSUME "tool" \notin Jobs, "cancel" \notin Jobs
  PROVE  JobsSpec => []CancelLeavesNone
<1>1. JobsInv /\ [JobsNext]_jvars => JobsInv'
  <2> SUFFICES ASSUME JobsInv, [JobsNext]_jvars PROVE JobsInv'
    OBVIOUS
  <2>1. CASE UNCHANGED jvars
    BY <2>1 DEF jvars, JobsInv, JobsTypeOK, JobInv, KillInv, RunInv, CancelInv
  <2>2. ASSUME NEW j \in Jobs, ThreadStep(j) PROVE JobsInv'
    BY <2>2, ThreadKeepsInv
  <2>3. ASSUME NEW k \in Killers, Aim(k) \/ Shoot(k) \/ MarkKilled(k) PROVE JobsInv'
    BY <2>3, KillKeepsInv
  <2>4. CASE \/ \E j \in Jobs : KillTool(j) \/ WaitTool(j) \/ CancelNext(j) \/ Exit(j)
             \/ CancelTurn \/ Cancelled
    BY <2>4, OthersKeepInv
  <2>. QED
    BY <2>1, <2>2, <2>3, <2>4 DEF JobsNext, ThreadStep
<1>2. JobsInv => CancelLeavesNone
  BY DEF JobsInv, CancelInv, CancelLeavesNone
<1>. QED
  BY JobsInitInv, <1>1, <1>2, PTL DEF JobsSpec

-----------------------------------------------------------------------------
(* Changes of files, their snapshots and their undoing                      *)

Kinds == {"create", "write", "delete", "move"}

\* The paths a change works on.
Touched(c) == IF c.kind = "move" THEN {c.target, c.dest} ELSE {c.target}

IsChange(c) ==
  /\ c = [pc |-> c.pc, kind |-> c.kind, target |-> c.target, dest |-> c.dest, pre |-> c.pre,
          found |-> c.found, left |-> c.left, alone |-> c.alone]
  /\ c.alone \in BOOLEAN
  /\ c.pc \in {"off", "mutate", "finalize", "cleanup", "done", "failed"}
  /\ c.pc # "off" =>
       /\ c.kind \in Kinds /\ c.target \in Paths /\ c.dest \in Paths
       /\ c.kind = "move" <=> c.target # c.dest
       /\ c.kind = "create" => c.pre = NoFile

\* What a change nobody disturbed has found and left.
Leaves(k, c) ==
  /\ c.found[c.target] = c.pre
  /\ c.kind \in {"create", "write"} => c.left[c.target] = k
  /\ c.kind \in {"delete", "move"} => c.left[c.target] = NoFile
  /\ c.kind = "move" => c.left[c.dest] = c.pre /\ c.pre # NoFile

ChangeOK(k, c, fs) ==
  /\ IsChange(c)
  /\ c.alone =>
       /\ c.pc = "mutate" => fs[c.target] = c.pre
       /\ c.pc \in {"finalize", "cleanup", "done"} => Leaves(k, c)
       /\ c.pc = "finalize" => \A p \in Touched(c) : fs[p] = c.left[p]

\* The snapshot of a change tells what it found and, when it is over, what it left.
SnapOK(c, s) ==
  /\ c.pc # "off"
  /\ s.kind = c.kind /\ s.target = c.target /\ s.dest = c.dest /\ s.pre = c.pre
  /\ c.alone /\ c.pc \in {"cleanup", "done"} =>
       s.post = IF c.kind = "delete" THEN NoFile ELSE c.left[c.dest]

\* An undo that found no conflict and that nobody disturbed.
Agrees(c, seen) ==
  /\ c.kind = "write" => seen[c.target] = c.left[c.target]
  /\ c.kind = "create" => seen[c.target] \in {NoFile, c.left[c.target]}
  /\ c.kind \in {"delete", "move"} => seen[c.target] = NoFile
  /\ c.kind = "move" => seen[c.dest] = c.left[c.dest]

IsUndo(u) ==
  /\ u = [pc |-> u.pc, of |-> u.of, seen |-> u.seen, alone |-> u.alone, done |-> u.done]
  /\ u.alone \in BOOLEAN
UndoOK(u, c, fs) ==
  /\ c.pc = "done"
  /\ u.alone => \A p \in Touched(c) : fs[p] = u.seen[p]
  /\ c.alone => Agrees(c, u.seen)

FilesInv ==
  /\ files = [p \in Paths |-> files[p]]
  /\ change = [k \in Changes |-> change[k]]
  /\ \A k \in Changes : ChangeOK(k, change[k], files)
  /\ DOMAIN snaps \subseteq Changes
  /\ \A k \in DOMAIN snaps : SnapOK(change[k], snaps[k])
  /\ IsUndo(undo)
  /\ undo.pc = "restore" => undo.of \in Changes /\ UndoOK(undo, change[undo.of], files)

-----------------------------------------------------------------------------
(* Changes that others leave alone, and changes they disturb *)

LEMMA UntouchedStays ==
  ASSUME NEW k, NEW c, NEW fs, ChangeOK(k, c, fs), NEW gs,
         \A p \in Touched(c) : c.pc \in {"mutate", "finalize"} => gs[p] = fs[p]
  PROVE  ChangeOK(k, c, gs)
<1>1. c.target \in Touched(c)
  BY DEF Touched
<1>. QED
  BY <1>1 DEF ChangeOK

Disturbed(c) == [c EXCEPT !.alone = FALSE]

LEMMA DisturbedShape ==
  ASSUME NEW c, IsChange(c)
  PROVE  /\ IsChange(Disturbed(c)) /\ Disturbed(c).alone = FALSE
         /\ Disturbed(c).pc = c.pc /\ Disturbed(c).kind = c.kind
         /\ Disturbed(c).target = c.target /\ Disturbed(c).dest = c.dest
         /\ Disturbed(c).pre = c.pre
         /\ Disturbed(c).found = c.found /\ Disturbed(c).left = c.left
         /\ Touched(Disturbed(c)) = Touched(c)
<1>1. PICK pc, kind, target, dest, pre, found, rest, alone :
        /\ c = [pc |-> pc, kind |-> kind, target |-> target, dest |-> dest, pre |-> pre,
                found |-> found, left |-> rest, alone |-> alone]
  BY DEF IsChange
<1>2. PICK d : d = Disturbed(c)
  OBVIOUS
<1>3. d = [pc |-> pc, kind |-> kind, target |-> target, dest |-> dest, pre |-> pre,
           found |-> found, left |-> rest, alone |-> FALSE]
  <2>1. d = [[pc |-> pc, kind |-> kind, target |-> target, dest |-> dest, pre |-> pre,
              found |-> found, left |-> rest, alone |-> alone] EXCEPT !.alone = FALSE]
    BY <1>1, <1>2, Zenon DEF Disturbed
  <2>. QED
    BY <2>1
<1>4. /\ d.alone = FALSE
      /\ d.pc = c.pc /\ d.kind = c.kind /\ d.target = c.target /\ d.dest = c.dest
      /\ d.pre = c.pre /\ d.found = c.found /\ d.left = c.left
  BY <1>1, <1>3
<1>5. d = [pc |-> d.pc, kind |-> d.kind, target |-> d.target, dest |-> d.dest, pre |-> d.pre,
           found |-> d.found, left |-> d.left, alone |-> d.alone]
  BY <1>3
<1>6. IsChange(d)
  BY <1>4, <1>5 DEF IsChange
<1>. QED
  BY <1>2, <1>4, <1>6 DEF Touched

LEMMA DisturbedOK ==
  ASSUME NEW k, NEW c, IsChange(c), NEW fs
  PROVE  ChangeOK(k, Disturbed(c), fs)
  BY DisturbedShape DEF ChangeOK

\* A change that goes on.
LEMMA PcShape ==
  ASSUME NEW c, IsChange(c), c.pc # "off",
         NEW to \in {"finalize", "cleanup", "done", "failed"}, NEW d, d = [c EXCEPT !.pc = to]
  PROVE  /\ d.pc = to /\ d.kind = c.kind /\ d.target = c.target /\ d.dest = c.dest
         /\ d.pre = c.pre /\ d.found = c.found /\ d.left = c.left /\ d.alone = c.alone
         /\ IsChange(d)
<1>1. PICK pc, kind, target, dest, pre, found, rest, alone :
        /\ c = [pc |-> pc, kind |-> kind, target |-> target, dest |-> dest, pre |-> pre,
                found |-> found, left |-> rest, alone |-> alone]
  BY DEF IsChange
<1>2. d = [pc |-> to, kind |-> kind, target |-> target, dest |-> dest, pre |-> pre,
           found |-> found, left |-> rest, alone |-> alone]
  <2>1. d = [[pc |-> pc, kind |-> kind, target |-> target, dest |-> dest, pre |-> pre,
              found |-> found, left |-> rest, alone |-> alone] EXCEPT !.pc = to]
    BY <1>1, Zenon
  <2>. QED
    BY <2>1
<1>3. /\ d.pc = to /\ d.kind = c.kind /\ d.target = c.target /\ d.dest = c.dest
      /\ d.pre = c.pre /\ d.found = c.found /\ d.left = c.left /\ d.alone = c.alone
  BY <1>1, <1>2
<1>4. d = [pc |-> d.pc, kind |-> d.kind, target |-> d.target, dest |-> d.dest, pre |-> d.pre,
           found |-> d.found, left |-> d.left, alone |-> d.alone]
  BY <1>2
<1>. QED
  BY <1>3, <1>4 DEF IsChange

\* A step that gives some paths new contents.
LEMMA WriteKeeps ==
  ASSUME FilesInv, NEW by, NEW paths, NEW gs, \A p \in Paths : p \notin paths => gs[p] = files[p],
         NEW j \in Changes, j # by \/ change[j].pc \notin {"mutate", "finalize"}
  PROVE  /\ ChangeOK(j, Disturb(by, paths)[j], gs)
         /\ \A s : SnapOK(change[j], s) => SnapOK(Disturb(by, paths)[j], s)
         /\ change[j].pc = "done" => Disturb(by, paths)[j] = change[j]
<1>1. ChangeOK(j, change[j], files) /\ IsChange(change[j])
  BY DEF FilesInv, ChangeOK
<1>2. PICK c : c = change[j]
  OBVIOUS
<1>3. Of(j) = Touched(c)
  BY <1>2 DEF Of, Touched
<1>4. CASE j # by /\ c.pc \in {"mutate", "finalize"} /\ Touched(c) \cap paths # {}
  <2>1. Disturb(by, paths)[j] = Disturbed(c)
    BY <1>2, <1>3, <1>4 DEF Disturb, Disturbed
  <2>2. \A s : SnapOK(c, s) => SnapOK(Disturbed(c), s)
    BY <1>1, <1>2, DisturbedShape DEF SnapOK
  <2>. QED
    BY <1>1, <1>2, <1>4, <2>1, <2>2, DisturbedOK
<1>5. CASE ~(j # by /\ c.pc \in {"mutate", "finalize"} /\ Touched(c) \cap paths # {})
  <2>1. Disturb(by, paths)[j] = c
    BY <1>2, <1>3, <1>5 DEF Disturb
  <2>2. \A p \in Touched(c) : c.pc \in {"mutate", "finalize"} => gs[p] = files[p]
    <3>1. c.pc # "off" => Touched(c) \subseteq Paths
      BY <1>1, <1>2 DEF IsChange, Touched
    <3>. QED
      BY <1>2, <1>5, <3>1
  <2>3. ChangeOK(j, c, gs)
    BY <1>1, <1>2, <2>2, UntouchedStays
  <2>. QED
    BY <1>2, <2>1, <2>3
<1>. QED
  BY <1>4, <1>5

LEMMA DisturbIsFunction ==
  ASSUME NEW by, NEW paths
  PROVE  Disturb(by, paths) = [j \in Changes |-> Disturb(by, paths)[j]]
  BY DEF Disturb


-----------------------------------------------------------------------------
(* The steps *)

LEMMA FilesStart == FilesInit => FilesInv
<1>1. SUFFICES ASSUME FilesInit PROVE FilesInv
  OBVIOUS
<1>2. /\ files = [p \in Paths |-> files[p]]
      /\ change = [k \in Changes |-> NoChange] /\ undo = NoUndo
      /\ snaps = [k \in {} |-> 0]
  BY <1>1 DEF FilesInit
<1>3. \A k \in Changes : change[k] = NoChange
  BY <1>2
<1>4. ASSUME NEW k PROVE ChangeOK(k, NoChange, files)
  BY DEF ChangeOK, IsChange, NoChange
<1>5. IsUndo(undo) /\ undo.pc # "restore"
  BY <1>2 DEF NoUndo, IsUndo
<1>6. DOMAIN snaps = {}
  BY <1>2
<1>7. change = [k \in Changes |-> change[k]]
  BY <1>2
<1>. QED
  BY <1>2, <1>3, <1>4, <1>5, <1>6, <1>7 DEF FilesInv

LEMMA SnapshotKeeps ==
  ASSUME FilesInv, NEW k \in Changes, NEW kind \in Kinds, NEW p \in Paths, NEW q \in Paths,
         Snapshot(k, kind, p, q)
  PROVE  FilesInv'
<1>1. PICK d : d = [pc |-> "mutate", kind |-> kind, target |-> p, dest |-> q, pre |-> files[p],
                    found |-> <<>>, left |-> <<>>, alone |-> TRUE]
  OBVIOUS
<1>2. change' = [change EXCEPT ![k] = d]
  <2>1. PICK pre : pre = files[p]
    OBVIOUS
  <2>2. PICK e : e = [NoChange EXCEPT !.pc = "mutate", !.kind = kind, !.target = p, !.dest = q,
                                      !.pre = pre]
    OBVIOUS
  <2>3. e = [[pc |-> "off", kind |-> "none", target |-> NoFile, dest |-> NoFile,
              pre |-> NoFile, found |-> <<>>, left |-> <<>>, alone |-> TRUE]
             EXCEPT !.pc = "mutate", !.kind = kind, !.target = p, !.dest = q, !.pre = pre]
    BY <2>2, Zenon DEF NoChange
  <2>4. e = [pc |-> "mutate", kind |-> kind, target |-> p, dest |-> q, pre |-> pre,
             found |-> <<>>, left |-> <<>>, alone |-> TRUE]
    BY <2>3
  <2>. QED
    BY <1>1, <2>1, <2>2, <2>4, Zenon DEF Snapshot
<1>3. /\ change' = [j \in Changes |-> change'[j]]
      /\ change'[k] = d
      /\ \A j \in Changes : j # k => change'[j] = change[j]
  BY <1>2 DEF FilesInv
<1>4. ChangeOK(k, d, files)
  <2>1. IsChange(d)
    BY <1>1 DEF Snapshot, IsChange
  <2>. QED
    BY <1>1, <2>1 DEF ChangeOK
<1>5. \A j \in Changes : ChangeOK(j, change'[j], files')
  BY <1>3, <1>4 DEF FilesInv, Snapshot
<1>6. PICK s : s = [kind |-> kind, target |-> p, dest |-> q, pre |-> files[p], post |-> NoFile,
                    blob |-> TRUE]
  OBVIOUS
<1>7. snaps' = [j \in DOMAIN snaps \cup {k} |-> IF j = k THEN s ELSE snaps[j]]
  BY <1>6 DEF Snapshot
<1>8. SnapOK(d, s)
  BY <1>1, <1>6 DEF SnapOK
<1>9. change[k].pc = "off" /\ files' = files /\ undo' = undo
  BY DEF Snapshot
<1>10. /\ DOMAIN snaps' \subseteq Changes
       /\ \A j \in DOMAIN snaps' : SnapOK(change'[j], snaps'[j])
  BY <1>3, <1>7, <1>8 DEF FilesInv
<1>11. undo.pc = "restore" => undo.of \in Changes /\ change'[undo.of] = change[undo.of]
  BY <1>3, <1>9 DEF FilesInv, UndoOK
<1>. QED
  BY <1>3, <1>5, <1>9, <1>10, <1>11 DEF FilesInv

LEMMA CleanupKeeps ==
  ASSUME FilesInv, NEW k \in Changes, Cleanup(k)
  PROVE  FilesInv'
<1>1. PICK c : c = change[k] /\ IsChange(c) /\ ChangeOK(k, c, files) /\ c.pc = "cleanup"
  BY DEF FilesInv, ChangeOK, Cleanup
<1>2. PICK d : d = [c EXCEPT !.pc = "done"]
  OBVIOUS
<1>3. /\ d.pc = "done" /\ d.kind = c.kind /\ d.target = c.target /\ d.dest = c.dest
      /\ d.pre = c.pre /\ d.found = c.found /\ d.left = c.left /\ d.alone = c.alone
      /\ IsChange(d)
  BY <1>1, <1>2, PcShape
<1>4. change' = [change EXCEPT ![k] = d]
  BY <1>1, <1>2 DEF Cleanup
<1>5. /\ change' = [j \in Changes |-> change'[j]]
      /\ change'[k] = d
      /\ \A j \in Changes : j # k => change'[j] = change[j]
  BY <1>4 DEF FilesInv
<1>6. ChangeOK(k, d, files)
  BY <1>1, <1>3 DEF ChangeOK, Leaves
<1>7. \A s : SnapOK(c, s) => SnapOK(d, s)
  BY <1>1, <1>3 DEF SnapOK
<1>8. files' = files /\ undo' = undo
  BY DEF Cleanup
<1>9. \A j \in Changes : ChangeOK(j, change'[j], files')
  BY <1>5, <1>6, <1>8 DEF FilesInv
<1>10. /\ DOMAIN snaps' \subseteq DOMAIN snaps
       /\ \A j \in DOMAIN snaps' : snaps'[j] = snaps[j]
  BY DEF Cleanup
<1>11. \A j \in DOMAIN snaps' : SnapOK(change'[j], snaps'[j])
  BY <1>1, <1>5, <1>7, <1>10 DEF FilesInv
<1>12. undo.pc = "restore" => undo.of \in Changes /\ change'[undo.of] = change[undo.of]
  BY <1>1, <1>5 DEF FilesInv, UndoOK
<1>13. DOMAIN snaps' \subseteq Changes
  BY <1>10 DEF FilesInv
<1>. QED
  BY <1>5, <1>8, <1>9, <1>11, <1>12, <1>13 DEF FilesInv

LEMMA FinalizeKeeps ==
  ASSUME FilesInv, NEW k \in Changes, Finalize(k)
  PROVE  FilesInv'
<1>1. PICK c : c = change[k] /\ IsChange(c) /\ ChangeOK(k, c, files) /\ c.pc = "finalize"
  BY DEF FilesInv, ChangeOK, Finalize
<1>2. PICK d : d = [c EXCEPT !.pc = "cleanup"]
  OBVIOUS
<1>3. /\ d.pc = "cleanup" /\ d.kind = c.kind /\ d.target = c.target /\ d.dest = c.dest
      /\ d.pre = c.pre /\ d.found = c.found /\ d.left = c.left /\ d.alone = c.alone
      /\ IsChange(d)
  BY <1>1, <1>2, PcShape
<1>4. change' = [change EXCEPT ![k] = d]
  BY <1>1, <1>2 DEF Finalize
<1>5. /\ change' = [j \in Changes |-> change'[j]]
      /\ change'[k] = d
      /\ \A j \in Changes : j # k => change'[j] = change[j]
  BY <1>4 DEF FilesInv
<1>6. ChangeOK(k, d, files)
  BY <1>1, <1>3 DEF ChangeOK, Leaves
<1>7. PICK s : /\ snaps' = [j \in DOMAIN snaps \cup {k} |-> IF j # k THEN snaps[j] ELSE s]
               /\ s.kind = c.kind /\ s.target = c.target /\ s.dest = c.dest /\ s.pre = c.pre
               /\ s.post = IF c.kind = "delete" THEN NoFile ELSE files[c.dest]
  <2> DEFINE t == [kind |-> c.kind, target |-> c.target, dest |-> c.dest, pre |-> c.pre,
                   post |-> IF c.kind = "delete" THEN NoFile ELSE files[c.dest],
                   blob |-> k \in DOMAIN snaps]
  <2>1. snaps' = [j \in DOMAIN snaps \cup {k} |-> IF j # k THEN snaps[j] ELSE t]
    BY <1>1 DEF Finalize
  <2>2. /\ t.kind = c.kind /\ t.target = c.target /\ t.dest = c.dest /\ t.pre = c.pre
        /\ t.post = IF c.kind = "delete" THEN NoFile ELSE files[c.dest]
    OBVIOUS
  <2>. HIDE DEF t
  <2>. QED
    BY <2>1, <2>2
<1>8. SnapOK(d, s)
  <2>1. c.dest \in Touched(c)
    BY <1>1 DEF IsChange, Touched
  <2>. QED
    BY <1>1, <1>3, <1>7, <2>1 DEF SnapOK, ChangeOK
<1>9. files' = files /\ undo' = undo
  BY DEF Finalize
<1>10. \A j \in Changes : ChangeOK(j, change'[j], files')
  BY <1>5, <1>6, <1>9 DEF FilesInv
<1>11. /\ DOMAIN snaps' \subseteq Changes
       /\ \A j \in DOMAIN snaps' : SnapOK(change'[j], snaps'[j])
  BY <1>5, <1>7, <1>8 DEF FilesInv
<1>12. undo.pc = "restore" => undo.of \in Changes /\ change'[undo.of] = change[undo.of]
  BY <1>1, <1>5 DEF FilesInv, UndoOK
<1>. QED
  BY <1>5, <1>9, <1>10, <1>11, <1>12 DEF FilesInv

LEMMA UndoCheckKeeps ==
  ASSUME FilesInv, NEW k \in Changes, UndoCheck(k)
  PROVE  FilesInv'
<1>1. PICK c : c = change[k] /\ IsChange(c) /\ ChangeOK(k, c, files) /\ c.pc = "done"
  BY DEF FilesInv, ChangeOK, UndoCheck
<1>2. PICK s : s = snaps[k] /\ SnapOK(c, s)
  BY <1>1 DEF FilesInv, UndoCheck
<1>3. PICK to, done :
        /\ undo' = [pc |-> to, of |-> k, seen |-> files, alone |-> TRUE, done |-> done]
        /\ to = IF Conflicts(s) THEN "end" ELSE "restore"
  BY <1>2 DEF UndoCheck
<1>4. /\ undo'.pc = to /\ undo'.of = k /\ undo'.seen = files /\ undo'.alone = TRUE
      /\ IsUndo(undo')
  BY <1>3 DEF IsUndo
<1>5. files' = files /\ change' = change /\ snaps' = snaps
  BY DEF UndoCheck
<1>6. ASSUME ~Conflicts(s), c.alone PROVE Agrees(c, files)
  <2>1. /\ s.kind = c.kind /\ s.target = c.target /\ s.dest = c.dest /\ c.kind \in Kinds
        /\ s.post = IF c.kind = "delete" THEN NoFile ELSE c.left[c.dest]
        /\ Leaves(k, c) /\ k # NoFile
        /\ c.kind = "move" <=> c.target # c.dest
    BY <1>1, <1>2, <1>6, FilesAssumption DEF SnapOK, ChangeOK, IsChange, NoFile
  <2>2. CASE c.kind \in {"create", "write"}
    BY <1>6, <2>1, <2>2 DEF Agrees, Conflicts, Leaves
  <2>3. CASE c.kind = "delete"
    BY <1>6, <2>1, <2>3 DEF Agrees, Conflicts, Leaves
  <2>4. CASE c.kind = "move"
    BY <1>6, <2>1, <2>4 DEF Agrees, Conflicts, Leaves
  <2>. QED
    BY <2>1, <2>2, <2>3, <2>4 DEF Kinds
<1>7. to = "restore" => UndoOK(undo', c, files)
  BY <1>1, <1>3, <1>4, <1>6 DEF UndoOK
<1>. QED
  BY <1>1, <1>4, <1>5, <1>7 DEF FilesInv

LEMMA UndoRestoreKeeps ==
  ASSUME FilesInv, UndoRestore
  PROVE  FilesInv'
<1>1. IsUndo(undo') /\ undo'.pc # "restore"
  <2>1. PICK pc, of, seen, alone, done :
          undo = [pc |-> pc, of |-> of, seen |-> seen, alone |-> alone, done |-> done]
    BY DEF FilesInv, IsUndo
  <2>2. undo' = [[pc |-> pc, of |-> of, seen |-> seen, alone |-> alone, done |-> done]
                 EXCEPT !.pc = "end"]
    BY <2>1, Zenon DEF UndoRestore
  <2>3. undo' = [pc |-> "end", of |-> of, seen |-> seen, alone |-> alone, done |-> done]
    BY <2>2
  <2>4. undo.alone = alone /\ undo.alone \in BOOLEAN
    BY <2>1 DEF FilesInv, IsUndo
  <2>. QED
    BY <2>3, <2>4 DEF IsUndo
<1>2. snaps' = snaps
  BY DEF UndoRestore
<1>3. CASE UNCHANGED <<files, change>>
  BY <1>1, <1>2, <1>3 DEF FilesInv
<1>4. ASSUME ~UNCHANGED <<files, change>> PROVE FilesInv'
  <2>1. PICK k : k = undo.of /\ k \in DOMAIN snaps
                 /\ files' = Restored(snaps[k]) /\ change' = Disturb(0, Of(k))
    BY <1>4 DEF UndoRestore
  <2>2. PICK c : c = change[k] /\ k \in Changes /\ SnapOK(c, snaps[k]) /\ IsChange(c)
    BY <2>1 DEF FilesInv, ChangeOK
  <2>3. c.pc # "off" /\ c.kind \in Kinds
    BY <2>2 DEF SnapOK, IsChange
  <2>4. Of(k) = Touched(c)
    BY <2>2 DEF Of, Touched
  <2>5. files' = [p \in Paths |-> files'[p]] /\ \A p \in Paths : p \notin Of(k) => files'[p] = files[p]
    <3>1. PICK s : s = snaps[k] /\ s.kind = c.kind /\ s.target = c.target /\ s.dest = c.dest
      BY <2>2 DEF SnapOK
    <3>2. files' = Restored(s) /\ files = [p \in Paths |-> files[p]]
      BY <2>1, <3>1 DEF FilesInv
    <3>3. CASE c.kind = "move"
      <4>1. PICK x : x = files[s.dest]
        OBVIOUS
      <4>2. files' = [files EXCEPT ![c.target] = x, ![c.dest] = NoFile]
        BY <3>1, <3>2, <3>3, <4>1, Zenon DEF Restored
      <4>3. /\ \A p \in Paths : p # c.target /\ p # c.dest => files'[p] = files[p]
            /\ files' = [p \in Paths |-> files'[p]]
        BY <3>2, <4>2
      <4>. QED
        BY <2>4, <3>3, <4>3 DEF Touched
    <3>4. CASE c.kind # "move"
      <4>1. files' = [files EXCEPT ![c.target] = s.pre]
        BY <2>3, <3>1, <3>2, <3>4 DEF Restored, Kinds
      <4>. QED
        BY <2>4, <3>2, <3>4, <4>1 DEF Touched
    <3>. QED
      BY <3>3, <3>4
  <2>6. change' = [j \in Changes |-> change'[j]]
    BY <2>1, DisturbIsFunction
  <2>7. \A j \in Changes : ChangeOK(j, change'[j], files')
    <3>1. SUFFICES ASSUME NEW j \in Changes PROVE ChangeOK(j, change'[j], files')
      OBVIOUS
    <3>2. j # 0
      BY FilesAssumption
    <3>. QED
      BY <2>1, <2>5, <3>2, WriteKeeps
  <2>8. \A j \in DOMAIN snaps : SnapOK(change'[j], snaps[j])
    <3>1. SUFFICES ASSUME NEW j \in DOMAIN snaps PROVE SnapOK(change'[j], snaps[j])
      OBVIOUS
    <3>2. j \in Changes /\ SnapOK(change[j], snaps[j]) /\ j # 0
      BY FilesAssumption DEF FilesInv
    <3>. QED
      BY <2>1, <2>5, <3>2, WriteKeeps
  <2>9. DOMAIN snaps \subseteq Changes
    BY DEF FilesInv
  <2>. QED
    BY <1>1, <1>2, <2>5, <2>6, <2>7, <2>8, <2>9 DEF FilesInv
<1>. QED
  BY <1>3, <1>4

\* What an operation makes of the files.
LEMMA MutatedShape ==
  ASSUME FilesInv, NEW k \in Changes, change[k].pc = "mutate", NEW gs, gs = Mutated(k)
  PROVE  /\ gs = [p \in Paths |-> gs[p]]
         /\ \A p \in Paths : p \notin Of(k) => gs[p] = files[p]
         /\ change[k].kind \in {"create", "write"} => gs[change[k].target] = k
         /\ change[k].kind \in {"delete", "move"} => gs[change[k].target] = NoFile
         /\ change[k].kind = "move" => gs[change[k].dest] = files[change[k].target]
<1>1. PICK c : c = change[k] /\ IsChange(c) /\ c.kind \in Kinds /\ c.target \in Paths
               /\ c.dest \in Paths /\ (c.kind = "move" <=> c.target # c.dest)
  BY DEF FilesInv, ChangeOK, IsChange
<1>2. Of(k) = Touched(c)
  BY <1>1 DEF Of, Touched
<1>3. files = [p \in Paths |-> files[p]]
  BY DEF FilesInv
<1>4. CASE c.kind \in {"create", "write"}
  <2>1. gs = [files EXCEPT ![c.target] = k]
    BY <1>1, <1>4 DEF Mutated
  <2>. QED
    BY <1>1, <1>2, <1>3, <1>4, <2>1 DEF Touched
<1>5. CASE c.kind = "delete"
  <2>1. gs = [files EXCEPT ![c.target] = NoFile]
    BY <1>1, <1>5 DEF Mutated
  <2>. QED
    BY <1>1, <1>2, <1>3, <1>5, <2>1 DEF Touched
<1>6. CASE c.kind = "move"
  <2>1. PICK x : x = files[c.target]
    OBVIOUS
  <2>2. gs = [files EXCEPT ![c.dest] = x, ![c.target] = NoFile]
    BY <1>1, <1>6, <2>1 DEF Mutated
  <2>3. /\ gs = [p \in Paths |-> gs[p]]
        /\ \A p \in Paths : p # c.target /\ p # c.dest => gs[p] = files[p]
        /\ gs[c.target] = NoFile /\ gs[c.dest] = x
    BY <1>1, <1>3, <1>6, <2>2
  <2>. QED
    BY <1>1, <1>2, <1>6, <2>1, <2>3 DEF Touched
<1>. QED
  BY <1>1, <1>4, <1>5, <1>6 DEF Kinds

LEMMA MutateKeeps ==
  ASSUME FilesInv, NEW k \in Changes, Mutate(k)
  PROVE  FilesInv'
<1>1. PICK c : c = change[k] /\ IsChange(c) /\ ChangeOK(k, c, files) /\ c.pc = "mutate"
  BY DEF FilesInv, ChangeOK, Mutate
<1>2. snaps' = snaps
  BY DEF Mutate
<1>3. undo.pc = "restore" => undo.of \in Changes /\ undo.of # k /\ change[undo.of].pc = "done"
  BY <1>1 DEF FilesInv, UndoOK
<1>4. Of(k) = Touched(c) /\ c.target \in Touched(c) /\ c.dest \in Paths /\ c.target \in Paths
      /\ c.kind \in Kinds /\ (c.kind = "move" => c.dest \in Touched(c))
  BY <1>1 DEF Of, Touched, IsChange
<1>5. CASE c.kind \in {"delete", "move"} /\ files[c.target] = NoFile
  <2>1. PICK d : d = [c EXCEPT !.pc = "failed"]
    OBVIOUS
  <2>2. /\ d.pc = "failed" /\ d.kind = c.kind /\ d.target = c.target /\ d.dest = c.dest
        /\ d.pre = c.pre /\ d.found = c.found /\ d.left = c.left /\ d.alone = c.alone
        /\ IsChange(d)
    BY <1>1, <2>1, PcShape
  <2>3. change' = [change EXCEPT ![k] = d] /\ files' = files /\ undo' = undo
    BY <1>1, <1>5, <2>1 DEF Mutate
  <2>4. /\ change' = [j \in Changes |-> change'[j]]
        /\ change'[k] = d
        /\ \A j \in Changes : j # k => change'[j] = change[j]
    BY <2>3 DEF FilesInv
  <2>5. ChangeOK(k, d, files)
    BY <1>1, <2>2 DEF ChangeOK
  <2>6. \A s : SnapOK(c, s) => SnapOK(d, s)
    BY <1>1, <2>2 DEF SnapOK
  <2>7. \A j \in Changes : ChangeOK(j, change'[j], files')
    BY <2>3, <2>4, <2>5 DEF FilesInv
  <2>8. \A j \in DOMAIN snaps' : SnapOK(change'[j], snaps'[j])
    BY <1>1, <1>2, <2>4, <2>6 DEF FilesInv
  <2>9. undo.pc = "restore" => change'[undo.of] = change[undo.of]
    BY <1>3, <2>4
  <2>. QED
    BY <1>2, <1>3, <2>3, <2>4, <2>7, <2>8, <2>9 DEF FilesInv
<1>6. ASSUME ~(c.kind \in {"delete", "move"} /\ files[c.target] = NoFile) PROVE FilesInv'
  <2>1. PICK D, f, l :
          /\ D = Disturb(k, Of(k)) /\ f = [p \in Of(k) |-> files[p]]
          /\ l = [p \in Of(k) |-> Mutated(k)[p]]
    OBVIOUS
  <2>2. /\ files' = Mutated(k) /\ undo' = DisturbUndo(Of(k))
        /\ change' = [D EXCEPT ![k].pc = "finalize", ![k].found = f, ![k].left = l]
    BY <1>1, <1>6, <2>1 DEF Mutate
  <2>3. D = [j \in Changes |-> D[j]] /\ D[k] = c
    <3>1. D = [j \in Changes |-> D[j]]
      BY <2>1, DisturbIsFunction
    <3>2. D[k] = c
      BY <1>1, <2>1 DEF Disturb
    <3>. QED
      BY <3>1, <3>2
  <2>4. PICK d : d = [pc |-> "finalize", kind |-> c.kind, target |-> c.target, dest |-> c.dest,
                      pre |-> c.pre, found |-> f, left |-> l, alone |-> c.alone]
    OBVIOUS
  <2>5. /\ change' = [j \in Changes |-> change'[j]]
        /\ change'[k] = d
        /\ \A j \in Changes : j # k => change'[j] = D[j]
    <3>1. change' = [j \in Changes |-> change'[j]]
      BY <2>2, <2>3
    <3>2. \A j \in Changes : j # k => change'[j] = D[j]
      BY <2>2, <2>3
    <3>3. change'[k] = [c EXCEPT !.pc = "finalize", !.found = f, !.left = l]
      BY <2>2, <2>3
    <3>4. PICK pc, kind, target, dest, pre, found, rest, alone :
            /\ c = [pc |-> pc, kind |-> kind, target |-> target, dest |-> dest, pre |-> pre,
                    found |-> found, left |-> rest, alone |-> alone]
      BY <1>1 DEF IsChange
    <3>5. PICK e : e = change'[k]
      OBVIOUS
    <3>6. e = [[pc |-> pc, kind |-> kind, target |-> target, dest |-> dest, pre |-> pre,
                found |-> found, left |-> rest, alone |-> alone]
               EXCEPT !.pc = "finalize", !.found = f, !.left = l]
      BY <3>3, <3>4, <3>5, Zenon
    <3>7. e = [pc |-> "finalize", kind |-> kind, target |-> target, dest |-> dest, pre |-> pre,
               found |-> f, left |-> l, alone |-> alone]
      BY <3>6
    <3>8. e = d
      BY <2>4, <3>4, <3>7
    <3>. QED
      BY <3>1, <3>2, <3>5, <3>8
  <2>6. /\ d.pc = "finalize" /\ d.kind = c.kind /\ d.target = c.target /\ d.dest = c.dest
        /\ d.pre = c.pre /\ d.found = f /\ d.left = l /\ d.alone = c.alone
        /\ IsChange(d)
    <3>1. /\ d.pc = "finalize" /\ d.kind = c.kind /\ d.target = c.target /\ d.dest = c.dest
          /\ d.pre = c.pre /\ d.found = f /\ d.left = l /\ d.alone = c.alone
      BY <2>4
    <3>2. d = [pc |-> d.pc, kind |-> d.kind, target |-> d.target, dest |-> d.dest, pre |-> d.pre,
               found |-> d.found, left |-> d.left, alone |-> d.alone]
      BY <2>4
    <3>. QED
      BY <1>1, <3>1, <3>2 DEF IsChange
  <2>7. /\ files' = [p \in Paths |-> files'[p]]
        /\ \A p \in Paths : p \notin Of(k) => files'[p] = files[p]
        /\ c.kind \in {"create", "write"} => files'[c.target] = k
        /\ c.kind \in {"delete", "move"} => files'[c.target] = NoFile
        /\ c.kind = "move" => files'[c.dest] = files[c.target]
    BY <1>1, <2>2, MutatedShape
  <2>8. ChangeOK(k, d, files')
    <3>1. \A p \in Touched(c) : f[p] = files[p] /\ l[p] = files'[p]
      BY <1>4, <2>1, <2>2
    <3>2. Touched(d) = Touched(c)
      BY <2>6 DEF Touched
    <3>3. ASSUME c.alone PROVE Leaves(k, d)
      <4>1. files[c.target] = c.pre
        BY <1>1, <3>3 DEF ChangeOK
      <4>. QED
        BY <1>4, <1>6, <2>6, <2>7, <3>1, <4>1 DEF Leaves
    <3>. QED
      BY <2>6, <3>1, <3>2, <3>3 DEF ChangeOK
  <2>9. \A j \in Changes : ChangeOK(j, change'[j], files')
    <3>1. SUFFICES ASSUME NEW j \in Changes, j # k PROVE ChangeOK(j, change'[j], files')
      BY <2>5, <2>8
    <3>. QED
      BY <2>1, <2>5, <2>7, <3>1, WriteKeeps
  <2>10. \A j \in DOMAIN snaps : SnapOK(change'[j], snaps[j])
    <3>1. SUFFICES ASSUME NEW j \in DOMAIN snaps PROVE SnapOK(change'[j], snaps[j])
      OBVIOUS
    <3>2. j \in Changes /\ SnapOK(change[j], snaps[j])
      BY DEF FilesInv
    <3>3. CASE j = k
      BY <1>1, <2>5, <2>6, <3>2, <3>3 DEF SnapOK
    <3>4. CASE j # k
      <4>1. D[j] = change'[j]
        BY <2>5, <3>2, <3>4
      <4>2. \A s : SnapOK(change[j], s) => SnapOK(D[j], s)
        BY <2>1, <2>7, <3>2, <3>4, WriteKeeps
      <4>. QED
        BY <3>2, <4>1, <4>2
    <3>. QED
      BY <3>3, <3>4
  <2>11. IsUndo(undo') /\ (undo'.pc = "restore" =>
           undo'.of \in Changes /\ UndoOK(undo', change'[undo'.of], files'))
    <3>1. CASE undo.pc = "restore" /\ Of(undo.of) \cap Of(k) # {}
      <4>1. undo' = [undo EXCEPT !.alone = FALSE]
        BY <2>2, <3>1 DEF DisturbUndo
      <4>2. PICK pc, of, seen, alone, done :
              undo = [pc |-> pc, of |-> of, seen |-> seen, alone |-> alone, done |-> done]
        BY DEF FilesInv, IsUndo
      <4>3. undo' = [[pc |-> pc, of |-> of, seen |-> seen, alone |-> alone, done |-> done]
                     EXCEPT !.alone = FALSE]
        BY <4>1, <4>2, Zenon
      <4>4. undo' = [pc |-> pc, of |-> of, seen |-> seen, alone |-> FALSE, done |-> done]
        BY <4>3
      <4>5. undo'.alone = FALSE /\ undo'.of = undo.of /\ undo'.seen = undo.seen
            /\ undo'.pc = undo.pc /\ IsUndo(undo')
        BY <4>2, <4>4 DEF IsUndo
      <4>6. change'[undo.of] = change[undo.of]
        BY <1>3, <2>1, <2>5, <2>7, <3>1, WriteKeeps
      <4>7. FilesInv => (undo.pc = "restore" => UndoOK(undo, change[undo.of], files))
        BY DEF FilesInv
      <4>. QED
        BY <1>3, <3>1, <4>5, <4>6, <4>7 DEF UndoOK
    <3>2. CASE ~(undo.pc = "restore" /\ Of(undo.of) \cap Of(k) # {})
      <4>1. undo' = undo
        BY <2>2, <3>2 DEF DisturbUndo
      <4>2. ASSUME undo.pc = "restore" PROVE UndoOK(undo, change'[undo.of], files')
        <5>1. PICK b : b = change[undo.of] /\ undo.of \in Changes /\ UndoOK(undo, b, files)
                       /\ IsChange(b)
          BY <4>2 DEF FilesInv, ChangeOK
        <5>2. change'[undo.of] = b
          BY <1>3, <2>1, <2>5, <2>7, <4>2, <5>1, WriteKeeps
        <5>3. Of(undo.of) = Touched(b) /\ Touched(b) \subseteq Paths
          BY <5>1 DEF Of, Touched, IsChange, UndoOK
        <5>. QED
          BY <2>7, <3>2, <4>2, <5>1, <5>2, <5>3 DEF UndoOK
      <4>. QED
        BY <1>3, <4>1, <4>2 DEF FilesInv
    <3>. QED
      BY <3>1, <3>2
  <2>. QED
    BY <1>2, <2>5, <2>7, <2>9, <2>10, <2>11 DEF FilesInv
<1>. QED
  BY <1>5, <1>6

-----------------------------------------------------------------------------
LEMMA FilesStutter ==
  ASSUME FilesInv, UNCHANGED fvars
  PROVE  FilesInv'
  BY DEF FilesInv, fvars

\* FilesInv holds of every state.
LEMMA FilesInvariant == FilesSpec => []FilesInv
<1>1. FilesInv /\ [FilesNext]_fvars => FilesInv'
  <2>1. SUFFICES ASSUME FilesInv, [FilesNext]_fvars PROVE FilesInv'
    OBVIOUS
  <2>2. CASE \E k \in Changes, kind \in Kinds, p, q \in Paths : Snapshot(k, kind, p, q)
    BY <2>1, <2>2, SnapshotKeeps
  <2>3. CASE \E k \in Changes : Mutate(k)
    BY <2>1, <2>3, MutateKeeps
  <2>4. CASE \E k \in Changes : Finalize(k)
    BY <2>1, <2>4, FinalizeKeeps
  <2>5. CASE \E k \in Changes : Cleanup(k)
    BY <2>1, <2>5, CleanupKeeps
  <2>6. CASE \E k \in Changes : UndoCheck(k)
    BY <2>1, <2>6, UndoCheckKeeps
  <2>7. CASE UndoRestore
    BY <2>1, <2>7, UndoRestoreKeeps
  <2>8. CASE UNCHANGED fvars
    BY <2>1, <2>8, FilesStutter
  <2>. QED
    BY <2>1, <2>2, <2>3, <2>4, <2>5, <2>6, <2>7, <2>8 DEF FilesNext, Kinds
<1>. QED
  BY <1>1, FilesStart, PTL DEF FilesSpec

LEMMA UndoExact ==
  ASSUME FilesInv
  PROVE  UndoIsExact
<1>1. SUFFICES ASSUME UndoRestore, ~Overwrote(undo.of), NEW k, k = undo.of, undo.alone,
                      change[k].alone, files' # files
               PROVE  \A p \in Of(k) : undo.seen[p] = change[k].left[p] /\ files'[p] = change[k].found[p]
  BY DEF UndoIsExact, UndoKeeps
<1>2. PICK c, u : /\ c = change[k] /\ u = undo /\ k \in Changes /\ IsChange(c) /\ c.pc = "done"
                  /\ Leaves(k, c) /\ Agrees(c, u.seen)
                  /\ \A p \in Touched(c) : files[p] = u.seen[p]
  BY <1>1 DEF FilesInv, UndoOK, ChangeOK, UndoRestore
<1>3. k \in DOMAIN snaps /\ files' = Restored(snaps[k])
  BY <1>1 DEF UndoRestore
<1>8. PICK s : /\ files' = Restored(s)
               /\ s.kind = c.kind /\ s.target = c.target /\ s.dest = c.dest /\ s.pre = c.pre
  BY <1>2, <1>3 DEF FilesInv, SnapOK
<1>4. Of(k) = Touched(c) /\ c.kind \in Kinds /\ c.target \in Paths /\ c.dest \in Paths
  BY <1>2 DEF Of, Touched, IsChange
<1>5. files = [p \in Paths |-> files[p]]
  BY DEF FilesInv
<1>6. CASE c.kind # "move"
  <2>1. files' = [files EXCEPT ![c.target] = c.pre]
    BY <1>8, <1>4, <1>6 DEF Restored, Kinds
  <2>2. Touched(c) = {c.target} /\ files'[c.target] = c.pre /\ c.found[c.target] = c.pre
    BY <1>2, <1>4, <1>5, <1>6, <2>1 DEF Touched, Leaves
  <2>3. u.seen[c.target] = c.left[c.target]
    <3>1. ASSUME c.kind = "create", u.seen[c.target] = NoFile PROVE FALSE
      <4>1. c.pre = NoFile /\ files[c.target] = NoFile
        BY <1>2, <2>2, <3>1 DEF IsChange
      <4>2. files' = files
        BY <1>4, <1>5, <2>1, <4>1
      <4>. QED
        BY <1>1, <4>2
    <3>. QED
      BY <1>2, <1>4, <1>6, <3>1 DEF Agrees, Leaves, Kinds
  <2>. QED
    BY <1>2, <1>4, <2>2, <2>3
<1>7. CASE c.kind = "move"
  <2>1. PICK x : x = files[c.dest]
    OBVIOUS
  <2>2. files' = [files EXCEPT ![c.target] = x, ![c.dest] = NoFile] /\ c.target # c.dest
    <3>1. c.target # c.dest
      BY <1>2, <1>7 DEF IsChange
    <3>2. files' = [files EXCEPT ![c.target] = x, ![c.dest] = NoFile]
      BY <1>8, <1>7, <2>1, Zenon DEF Restored
    <3>. QED
      BY <3>1, <3>2
  <2>3. files'[c.target] = x /\ files'[c.dest] = NoFile
    BY <1>4, <1>5, <2>2
  <2>4. x = u.seen[c.dest] /\ u.seen[c.dest] = c.left[c.dest] /\ c.left[c.dest] = c.pre
        /\ c.found[c.target] = c.pre /\ u.seen[c.target] = NoFile /\ c.left[c.target] = NoFile
    BY <1>2, <1>7, <2>1 DEF Touched, Agrees, Leaves
  <2>5. c.found[c.dest] = NoFile
    BY <1>1, <1>2, <1>7 DEF Overwrote
  <2>. QED
    BY <1>2, <1>4, <1>7, <2>3, <2>4, <2>5 DEF Touched
<1>. QED
  BY <1>6, <1>7

\* UndoIsExactElsewhere, for every number of changes, paths, snapshots kept and undos.
THEOREM UndoExactOrRefused == FilesSpec => UndoIsExactElsewhere
<1>1. FilesInv => UndoIsExact
  BY UndoExact
<1>. QED
  BY <1>1, FilesInvariant, PTL DEF UndoIsExactElsewhere, FilesSpec

-----------------------------------------------------------------------------
(* Pages and revisions                                                      *)

\* A page of the running process shows a revision the tracker has reached, and the document
\* that the tracker has seen last if it has gone no further.
PageOK(g) ==
  /\ g.rev \in Nat /\ g.life \in Nat /\ g.life <= life
  /\ g.life = life /\ g.doc # Unread =>
       /\ g.rev <= tracker.rev
       /\ g.rev = tracker.rev => g.doc = tracker.seen

PagesInv ==
  /\ tracker.rev \in Nat /\ life \in Nat
  /\ page = [p \in Pages |-> page[p]]
  /\ \A p \in Pages : PageOK(page[p])

LEMMA PagesStart == ConfigInit => PagesInv
  BY DEF ConfigInit, PagesInv, PageOK

\* What the tracker says once it has looked at the file.
LEMMA CurrentFacts ==
  ASSUME PagesInv
  PROVE  /\ Current.rev \in Nat /\ Current.rev >= tracker.rev /\ Current.seen = doc
         /\ Current.rev = tracker.rev => tracker.seen \in {Unread, doc}
  BY DEF Current, PagesInv

\* A page stays right when the tracker looks at the file, or goes on to another revision.
LEMMA PageStays ==
  ASSUME PagesInv, NEW g, PageOK(g), life' = life,
         \/ tracker' = Current
         \/ tracker'.rev \in Nat /\ tracker'.rev > tracker.rev
         \/ tracker' = tracker
  PROVE  PageOK(g)' /\ tracker'.rev \in Nat
<1>1. tracker.rev \in Nat
  BY DEF PagesInv
<1>. QED
  BY <1>1, CurrentFacts DEF PageOK

LEMMA PagesNext == PagesInv /\ [ConfigNext]_cvars => PagesInv' /\ [SaveIsFresh]_cvars
<1>1. SUFFICES ASSUME PagesInv, [ConfigNext]_cvars PROVE PagesInv' /\ [SaveIsFresh]_cvars
  OBVIOUS
<1>2. /\ tracker.rev \in Nat /\ life \in Nat /\ \A p \in Pages : PageOK(page[p])
      /\ page = [p \in Pages |-> page[p]]
  BY <1>1 DEF PagesInv
\* Steps that leave the pages alone.
<1>3. ASSUME page' = page, life' = life,
             \/ tracker' = Current
             \/ tracker'.rev \in Nat /\ tracker'.rev > tracker.rev
             \/ tracker' = tracker
      PROVE  PagesInv'
  <2>1. \A p \in Pages : PageOK(page[p])'
    BY <1>1, <1>2, <1>3, PageStays
  <2>2. tracker'.rev \in Nat
    BY <1>1, <1>2, <1>3, CurrentFacts
  <2>. QED
    BY <1>2, <1>3, <2>1, <2>2 DEF PagesInv
\* Steps that show a page what the file is.
<1>4. ASSUME NEW p \in Pages, NEW to, life' = life,
             tracker' = Current \/ tracker'.rev > tracker.rev, tracker'.rev \in Nat,
             to = [rev |-> tracker'.rev, doc |-> tracker'.seen, life |-> life],
             page' = [page EXCEPT ![p] = to]
      PROVE  PagesInv'
  <2>1. PageOK(to)'
    BY <1>2, <1>4 DEF PageOK
  <2>2. \A q \in Pages : q # p => page'[q] = page[q]
    BY <1>2, <1>4
  <2>3. page'[p] = to /\ page' = [q \in Pages |-> page'[q]]
    BY <1>2, <1>4
  <2>4. \A q \in Pages : PageOK(page[q])'
    <3>1. SUFFICES ASSUME NEW q \in Pages PROVE PageOK(page[q])'
      OBVIOUS
    <3>2. CASE q = p
      BY <2>1, <2>3, <3>2 DEF PageOK
    <3>3. CASE q # p
      <4>1. PICK g : g = page[q] /\ PageOK(g)
        BY <1>2
      <4>2. PageOK(g)'
        BY <1>1, <1>4, <4>1, PageStays
      <4>. QED
        BY <2>2, <3>3, <4>1, <4>2 DEF PageOK
    <3>. QED
      BY <3>2, <3>3
  <2>. QED
    BY <1>2, <1>4, <2>3, <2>4 DEF PagesInv
<1>5. ASSUME NEW p \in Pages, ListModules(p) PROVE PagesInv' /\ did'.op # "save"
  <2>1. tracker' = Current /\ Current.rev \in Nat /\ Current.seen = doc
    BY <1>1, <1>5, CurrentFacts DEF ListModules
  <2>2. page' = [page EXCEPT ![p] = [rev |-> tracker'.rev, doc |-> tracker'.seen, life |-> life]]
    BY <1>5, <2>1 DEF ListModules
  <2>3. PagesInv'
    BY <1>4, <1>5, <2>1, <2>2 DEF ListModules
  <2>4. did'.op = "list"
    BY <1>5 DEF ListModules, Did
  <2>. QED
    BY <2>3, <2>4
<1>6. ASSUME NEW p \in Pages, NEW m \in Visible, NEW v \in Drafts, UpdateModule(p, m, v)
      PROVE  PagesInv' /\ SaveIsFresh
  <2>1. tracker' = Bumped(doc') /\ life' = life /\ page[p].rev = Current.rev /\ page[p].doc # Unread
    BY <1>6 DEF UpdateModule
  <2>2. Current.rev \in Nat /\ Current.rev >= tracker.rev
    BY <1>1, CurrentFacts
  <2>3. tracker'.rev = Current.rev + 1 /\ tracker'.seen = doc'
    BY <2>1 DEF Bumped
  <2>4. page' = [page EXCEPT ![p] = [rev |-> tracker'.rev, doc |-> tracker'.seen, life |-> life]]
    BY <1>6, <2>3 DEF UpdateModule
  <2>5. PagesInv'
    <3>1. tracker'.rev > tracker.rev /\ tracker'.rev \in Nat
      BY <1>2, <2>2, <2>3
    <3>. QED
      BY <1>4, <2>1, <2>4, <3>1
  <2>6. did'.by = p
    BY <1>6 DEF UpdateModule, Call, Did
  <2>7. page[p].life = life => page[p].doc = doc
    <3>1. SUFFICES ASSUME page[p].life = life PROVE page[p].doc = doc
      OBVIOUS
    <3>2. page[p].rev <= tracker.rev /\ (page[p].rev = tracker.rev => page[p].doc = tracker.seen)
      BY <1>2, <2>1, <3>1 DEF PageOK
    <3>. QED
      BY <1>1, <1>2, <2>1, <2>2, <3>2, CurrentFacts
  <2>. QED
    BY <2>5, <2>6, <2>7 DEF SaveIsFresh
<1>7. ASSUME NEW p \in Pages, NEW v \in Drafts, UpdateRefused(p, v) PROVE PagesInv' /\ did'.op # "save"
  BY <1>3, <1>7 DEF UpdateRefused, Did
<1>8. ASSUME NEW d, NEW op \in {"upsert", "delete", "enable"}, NEW i, SaveDocument(d, op, i)
      PROVE  PagesInv' /\ did'.op # "save"
  <2>1. tracker'.rev = tracker.rev + 1
    BY <1>8 DEF SaveDocument
  <2>2. PagesInv'
    BY <1>2, <1>3, <1>8, <2>1 DEF SaveDocument
  <2>3. did'.op = op
    BY <1>8 DEF SaveDocument, Call, Did
  <2>. QED
    BY <2>2, <2>3
<1>9. ASSUME NEW b \in BOOLEAN, SetSkillEnabled(b) PROVE PagesInv' /\ did'.op # "save"
  BY <1>3, <1>9 DEF SetSkillEnabled, Call, Did
<1>10. ASSUME ResetGlobal PROVE PagesInv' /\ did'.op # "save"
  <2>1. tracker'.rev = tracker.rev + 1
    BY <1>10 DEF ResetGlobal
  <2>. QED
    BY <1>2, <1>3, <1>10, <2>1 DEF ResetGlobal, Call, Did
<1>11. ASSUME NEW d, EditByHand(d) PROVE PagesInv' /\ did'.op # "save"
  BY <1>3, <1>11 DEF EditByHand, Outside, Did
<1>12. ASSUME SetToken PROVE PagesInv' /\ did'.op # "save"
  BY <1>3, <1>12 DEF SetToken, Outside, Did
<1>13. ASSUME NEW t, Restart(t) PROVE PagesInv' /\ did'.op # "save"
  <2>1. tracker'.rev = 0 /\ life' = life + 1 /\ page' = page
    BY <1>13 DEF Restart
  <2>2. \A p \in Pages : PageOK(page[p])'
    BY <1>2, <2>1 DEF PageOK
  <2>. QED
    BY <1>2, <1>13, <2>1, <2>2 DEF PagesInv, Restart, Outside, Did
<1>14. CASE UNCHANGED cvars
  BY <1>3, <1>14 DEF cvars
<1>15. CASE \E p \in Pages : ListModules(p)
  BY <1>5, <1>15 DEF SaveIsFresh
<1>16. CASE \E p \in Pages, m \in Visible, v \in Drafts : UpdateModule(p, m, v)
  BY <1>6, <1>16
<1>17. CASE \E p \in Pages, v \in Drafts : UpdateRefused(p, v)
  BY <1>7, <1>17 DEF SaveIsFresh
<1>18. CASE \/ \E i \in Ids, body \in Bodies : UpsertServer(i, body)
            \/ \E i \in Ids : DeleteServer(i)
            \/ \E i \in Ids, b \in BOOLEAN : EnableServer(i, b)
  BY <1>8, <1>18 DEF SaveIsFresh, UpsertServer, DeleteServer, EnableServer
<1>19. CASE \/ \E b \in BOOLEAN : SetSkillEnabled(b)
            \/ ResetGlobal
            \/ \E d \in Handwritten : EditByHand(d)
            \/ SetToken
            \/ \E t \in {"unset", "t1", "t2"} : Restart(t)
  BY <1>9, <1>10, <1>11, <1>12, <1>13, <1>19 DEF SaveIsFresh
<1>. QED
  BY <1>1, <1>14, <1>15, <1>16, <1>17, <1>18, <1>19 DEF ConfigNext

\* StaleSavesConflict, for every number of pages, servers and operations: a page that shows an
\* old document cannot save, also when the tracker was not told of a write (update_module).
THEOREM StalePagesConflict == ConfigSpec => StaleSavesConflict
  BY PagesStart, PagesNext, PTL DEF ConfigSpec, StaleSavesConflict

-----------------------------------------------------------------------------
(* Documents and what is written into them                                  *)

Server(type, headers, env, on) == [type |-> type, headers |-> headers, env |-> env, on |-> on]
IsServer(s) == \E type, headers, env, on : s = Server(type, headers, env, on)

\* A reference that is set is replaced by its value.
Value(x) == IF x = "ref" /\ token # "unset" THEN token ELSE x

LEMMA ServerFields ==
  ASSUME NEW type, NEW headers, NEW env, NEW on, NEW s, s = Server(type, headers, env, on)
  PROVE  s.type = type /\ s.headers = headers /\ s.env = env /\ s.on = on
  BY DEF Server

LEMMA NoServerIs == NoServer = Server("none", "none", "none", FALSE)
  BY DEF NoServer, Server

LEMMA InterpolateIs ==
  ASSUME NEW type, NEW headers, NEW env, NEW on
  PROVE  Interpolate(Server(type, headers, env, on)) = Server(type, Value(headers), Value(env), on)
<1>1. PICK s : s = [type |-> type, headers |-> headers, env |-> env, on |-> on]
  OBVIOUS
<1>2. PICK h, e : h = Value(headers) /\ e = Value(env)
  OBVIOUS
<1>3. Interpolate(s) = [s EXCEPT !.headers = Value(@), !.env = Value(@)]
  BY DEF Interpolate, Value
<1>4. [s EXCEPT !.headers = Value(@), !.env = Value(@)] = [s EXCEPT !.headers = h, !.env = e]
  <2>1. s.headers = headers /\ s.env = env
    BY <1>1
  <2>. QED
    BY <1>2, <2>1, Zenon
<1>5. [s EXCEPT !.headers = h, !.env = e] = [type |-> type, headers |-> h, env |-> e, on |-> on]
  <2>1. PICK u : u = [[type |-> type, headers |-> headers, env |-> env, on |-> on]
                      EXCEPT !.headers = h, !.env = e]
    OBVIOUS
  <2>2. u = [type |-> type, headers |-> h, env |-> e, on |-> on]
    BY <2>1
  <2>. QED
    BY <1>1, <2>1, <2>2, Zenon
<1>. QED
  BY <1>1, <1>2, <1>3, <1>4, <1>5, Zenon DEF Server

LEMMA ToCanonicalIs ==
  ASSUME NEW type, NEW headers, NEW env, NEW on
  PROVE  ToCanonical(Server(type, headers, env, on)) =
           IF type = "stdio" THEN Server(type, "none", Value(env), on)
           ELSE Server(type, Value(headers), "none", on)
<1>1. PICK s, t : s = Server(type, headers, env, on) /\ t = Interpolate(s)
  OBVIOUS
<1>2. PICK h, e : h = Value(headers) /\ e = Value(env)
  OBVIOUS
<1>3. t = [type |-> type, headers |-> h, env |-> e, on |-> on]
  BY <1>1, <1>2, InterpolateIs DEF Server
<1>4. s.type = type
  BY <1>1, ServerFields
<1>5. ToCanonical(s) = IF type = "stdio" THEN [t EXCEPT !.headers = "none"] ELSE [t EXCEPT !.env = "none"]
  BY <1>1, <1>4, Zenon DEF ToCanonical
<1>6. [t EXCEPT !.headers = "none"] = [type |-> type, headers |-> "none", env |-> e, on |-> on]
  BY <1>3
<1>7. [t EXCEPT !.env = "none"] = [type |-> type, headers |-> h, env |-> "none", on |-> on]
  BY <1>3
<1>. QED
  BY <1>1, <1>2, <1>5, <1>6, <1>7, Zenon DEF Server

\* An entry in canonical form stays as it is.
LEMMA CanonicalStays ==
  ASSUME NEW s, IsServer(s), token # "ref"
  PROVE  /\ ToCanonical(Interpolate(s)) = ToCanonical(s)
         /\ ToCanonical(ToCanonical(s)) = ToCanonical(s)
         /\ ToCanonical(Interpolate(ToCanonical(s))) = ToCanonical(s)
         /\ IsServer(Interpolate(s)) /\ IsServer(ToCanonical(s))
<1>1. PICK type, headers, env, on : s = Server(type, headers, env, on)
  BY DEF IsServer
<1>2. \A x : Value(Value(x)) = Value(x)
  BY DEF Value
<1>3. Value("none") = "none"
  BY DEF Value
<1>. QED
  BY <1>1, <1>2, <1>3, InterpolateIs, ToCanonicalIs DEF IsServer

LEMMA NoServerStays == Interpolate(NoServer) = NoServer /\ IsServer(NoServer)
<1>1. Value("none") = "none"
  BY DEF Value
<1>2. Interpolate(NoServer) = NoServer
  <2>1. PICK n, off : n = "none" /\ off = FALSE
    OBVIOUS
  <2>2. Interpolate(Server(n, n, n, off)) = Server(n, Value(n), Value(n), off)
    BY InterpolateIs
  <2>3. Value(n) = n /\ NoServer = Server(n, n, n, off)
    BY <1>1, <2>1, NoServerIs
  <2>. QED
    BY <2>2, <2>3, Zenon
<1>3. IsServer(NoServer)
  BY NoServerIs, Zenon DEF IsServer
<1>. QED
  BY <1>2, <1>3

-----------------------------------------------------------------------------
Doc(ok, top, canon, version, rev, servers, legacy, hooks) ==
  [ok |-> ok, top |-> top, canon |-> canon, version |-> version, rev |-> rev, servers |-> servers,
   legacy |-> legacy, hooks |-> hooks]

Places(f) == f = [m \in Modules |-> f[m]]
Entries(f) == f = [i \in Ids |-> f[i]] /\ \A i \in Ids : IsServer(f[i])

IsDoc(d) ==
  /\ d = Doc(d.ok, d.top, d.canon, d.version, d.rev, d.servers, d.legacy, d.hooks)
  /\ Places(d.top) /\ Places(d.canon) /\ Entries(d.servers) /\ Entries(d.legacy)

LEMMA DocFields ==
  ASSUME NEW ok, NEW top, NEW canon, NEW version, NEW rev, NEW servers, NEW legacy, NEW hooks,
         NEW d, d = Doc(ok, top, canon, version, rev, servers, legacy, hooks)
  PROVE  /\ d.ok = ok /\ d.top = top /\ d.canon = canon /\ d.version = version /\ d.rev = rev
         /\ d.servers = servers /\ d.legacy = legacy /\ d.hooks = hooks
  BY DEF Doc

LEMMA DocIs ==
  ASSUME NEW ok, NEW top, NEW canon, NEW version, NEW rev, NEW servers, NEW legacy, NEW hooks,
         NEW d, d = Doc(ok, top, canon, version, rev, servers, legacy, hooks),
         Places(top), Places(canon), Entries(servers), Entries(legacy)
  PROVE  IsDoc(d)
  BY DocFields DEF IsDoc

\* Documents that differ from another in some places.
LEMMA DocExcept ==
  ASSUME NEW d, d = Doc(d.ok, d.top, d.canon, d.version, d.rev, d.servers, d.legacy, d.hooks),
         NEW x
  PROVE  /\ [d EXCEPT !.ok = x] = Doc(x, d.top, d.canon, d.version, d.rev, d.servers, d.legacy, d.hooks)
         /\ [d EXCEPT !.top = x] = Doc(d.ok, x, d.canon, d.version, d.rev, d.servers, d.legacy, d.hooks)
         /\ [d EXCEPT !.canon = x] = Doc(d.ok, d.top, x, d.version, d.rev, d.servers, d.legacy, d.hooks)
         /\ [d EXCEPT !.version = x] = Doc(d.ok, d.top, d.canon, x, d.rev, d.servers, d.legacy, d.hooks)
         /\ [d EXCEPT !.servers = x] = Doc(d.ok, d.top, d.canon, d.version, d.rev, x, d.legacy, d.hooks)
         /\ [d EXCEPT !.legacy = x] = Doc(d.ok, d.top, d.canon, d.version, d.rev, d.servers, x, d.hooks)
         /\ [d EXCEPT !.hooks = x] = Doc(d.ok, d.top, d.canon, d.version, d.rev, d.servers, d.legacy, x)
<1>1. PICK ok, top, canon, version, rev, servers, legacy, hooks :
        /\ d.ok = ok /\ d.top = top /\ d.canon = canon /\ d.version = version /\ d.rev = rev
        /\ d.servers = servers /\ d.legacy = legacy /\ d.hooks = hooks
  OBVIOUS
<1> DEFINE r == [ok |-> ok, top |-> top, canon |-> canon, version |-> version, rev |-> rev,
                 servers |-> servers, legacy |-> legacy, hooks |-> hooks]
<1>2. d = r
  BY <1>1, Zenon DEF Doc
<1>3. [r EXCEPT !.ok = x] = [ok |-> x, top |-> top, canon |-> canon, version |-> version,
        rev |-> rev, servers |-> servers, legacy |-> legacy, hooks |-> hooks]
  OBVIOUS
<1>4. [r EXCEPT !.top = x] = [ok |-> ok, top |-> x, canon |-> canon, version |-> version,
        rev |-> rev, servers |-> servers, legacy |-> legacy, hooks |-> hooks]
  OBVIOUS
<1>5. [r EXCEPT !.canon = x] = [ok |-> ok, top |-> top, canon |-> x, version |-> version,
        rev |-> rev, servers |-> servers, legacy |-> legacy, hooks |-> hooks]
  OBVIOUS
<1>6. [r EXCEPT !.version = x] = [ok |-> ok, top |-> top, canon |-> canon, version |-> x,
        rev |-> rev, servers |-> servers, legacy |-> legacy, hooks |-> hooks]
  OBVIOUS
<1>7. [r EXCEPT !.servers = x] = [ok |-> ok, top |-> top, canon |-> canon, version |-> version,
        rev |-> rev, servers |-> x, legacy |-> legacy, hooks |-> hooks]
  OBVIOUS
<1>8. [r EXCEPT !.legacy = x] = [ok |-> ok, top |-> top, canon |-> canon, version |-> version,
        rev |-> rev, servers |-> servers, legacy |-> x, hooks |-> hooks]
  OBVIOUS
<1>9. [r EXCEPT !.hooks = x] = [ok |-> ok, top |-> top, canon |-> canon, version |-> version,
        rev |-> rev, servers |-> servers, legacy |-> legacy, hooks |-> x]
  OBVIOUS
<1>. HIDE DEF r
<1>. QED
  BY <1>1, <1>2, <1>3, <1>4, <1>5, <1>6, <1>7, <1>8, <1>9, Zenon DEF Doc

-----------------------------------------------------------------------------
\* What Promote and the two rewritings leave of a document.

LEMMA EmptyIs ==
  /\ Empty = Doc(TRUE, Nowhere, Nowhere, FALSE, 0, None, None, FALSE)
  /\ IsDoc(Empty)
<1>1. Empty = Doc(TRUE, Nowhere, Nowhere, FALSE, 0, None, None, FALSE)
  BY Zenon DEF Empty, Doc
<1>2. Places(Nowhere)
  BY DEF Nowhere, Places
<1>3. Entries(None)
  BY NoServerStays DEF None, Entries
<1>4. PICK t, f, z : t = TRUE /\ f = FALSE /\ z = 0
  OBVIOUS
<1>. QED
  BY <1>1, <1>2, <1>3, <1>4, DocIs

LEMMA PromoteIs ==
  ASSUME NEW d, IsDoc(d), Has(d.legacy) # {}, NEW servers,
         servers = [i \in Ids |-> IF d.servers[i] # NoServer THEN d.servers[i] ELSE ToCanonical(d.legacy[i])]
  PROVE  Promote(d) = Doc(d.ok, d.top, d.canon, TRUE, d.rev, servers, None, d.hooks)
<1>1. Promote(d) = [d EXCEPT !.servers = servers, !.version = TRUE, !.legacy = None]
  BY Zenon DEF Promote
<1>2. PICK t, n : t = TRUE /\ n = None
  OBVIOUS
<1>3. [d EXCEPT !.servers = servers, !.version = t, !.legacy = n]
        = Doc(d.ok, d.top, d.canon, t, d.rev, servers, n, d.hooks)
  <2>1. PICK ok, top, canon, version, rev, entries, legacy, hooks :
          /\ d.ok = ok /\ d.top = top /\ d.canon = canon /\ d.version = version /\ d.rev = rev
          /\ d.servers = entries /\ d.legacy = legacy /\ d.hooks = hooks
    OBVIOUS
  <2>2. d = Doc(d.ok, d.top, d.canon, d.version, d.rev, d.servers, d.legacy, d.hooks)
    BY DEF IsDoc
  <2>3. d = [ok |-> ok, top |-> top, canon |-> canon, version |-> version, rev |-> rev,
             servers |-> entries, legacy |-> legacy, hooks |-> hooks]
    BY <2>1, <2>2, Zenon DEF Doc
  <2>4. PICK u : u = [[ok |-> ok, top |-> top, canon |-> canon, version |-> version, rev |-> rev,
                       servers |-> entries, legacy |-> legacy, hooks |-> hooks]
                      EXCEPT !.servers = servers, !.version = t, !.legacy = n]
    OBVIOUS
  <2>5. u = [ok |-> ok, top |-> top, canon |-> canon, version |-> t, rev |-> rev,
             servers |-> servers, legacy |-> n, hooks |-> hooks]
    BY <2>4
  <2>. QED
    BY <2>1, <2>3, <2>4, <2>5, Zenon DEF Doc
<1>. QED
  BY <1>1, <1>2, <1>3, Zenon

\* The modules and the keys nobody knows stay, and a server in force (but for one written twice)
\* stays in force as it was.
LEMMA PromoteKeeps ==
  ASSUME NEW d, IsDoc(d), token # "ref", NEW q, q = Promote(d)
  PROVE  /\ IsDoc(q)
         /\ q.ok = d.ok /\ q.top = d.top /\ q.canon = d.canon /\ q.hooks = d.hooks
         /\ \A i \in Has(Catalog(d)) \ Doubled(d) :
              q.version /\ ToCanonical(q.servers[i]) = ToCanonical(Catalog(d)[i])
<1>1. CASE Has(d.legacy) = {}
  <2>1. q = d
    BY <1>1 DEF Promote
  <2>2. ASSUME NEW i \in Has(Catalog(d))
        PROVE  d.version /\ ToCanonical(d.servers[i]) = ToCanonical(Catalog(d)[i])
    <3>1. i \in Ids /\ Catalog(d)[i] # NoServer
      BY <2>2 DEF Has
    <3>2. CASE ~d.version
      <4>1. Source(d) = "empty"
        BY <1>1, <3>2 DEF Source
      <4>2. Catalog(d)[i] = Interpolate(NoServer)
        BY <3>1, <4>1 DEF Catalog, None
      <4>. QED
        BY <3>1, <4>2, NoServerStays
    <3>3. CASE d.version
      <4>1. Catalog(d)[i] = Interpolate(d.servers[i])
        BY <3>1, <3>3 DEF Catalog, Source
      <4>2. IsServer(d.servers[i])
        BY <3>1 DEF IsDoc, Entries
      <4>. QED
        BY <3>3, <4>1, <4>2, CanonicalStays
    <3>. QED
      BY <3>2, <3>3
  <2>. QED
    BY <2>1, <2>2
<1>2. CASE Has(d.legacy) # {}
  <2>1. PICK servers : servers =
          [i \in Ids |-> IF d.servers[i] # NoServer THEN d.servers[i] ELSE ToCanonical(d.legacy[i])]
    OBVIOUS
  <2>2. q = Doc(d.ok, d.top, d.canon, TRUE, d.rev, servers, None, d.hooks)
    BY <1>2, <2>1, PromoteIs
  <2>3. Entries(servers) /\ Entries(None)
    <3>1. \A i \in Ids : IsServer(d.servers[i]) /\ IsServer(ToCanonical(d.legacy[i]))
      BY CanonicalStays DEF IsDoc, Entries
    <3>2. Entries(servers)
      BY <2>1, <3>1 DEF Entries
    <3>3. Entries(None)
      BY NoServerStays DEF Entries, None
    <3>. QED
      BY <3>2, <3>3
  <2>4. PICK t : t = TRUE
    OBVIOUS
  <2>5. q = Doc(d.ok, d.top, d.canon, t, d.rev, servers, None, d.hooks)
    BY <2>2, <2>4, Zenon
  <2>6. /\ IsDoc(q)
        /\ q.ok = d.ok /\ q.top = d.top /\ q.canon = d.canon /\ q.hooks = d.hooks
        /\ q.version = t /\ q.servers = servers
    <3>1. IsDoc(q)
      BY <2>3, <2>5, DocIs DEF IsDoc
    <3>. QED
      BY <2>5, <3>1, DocFields
  <2>7. ASSUME NEW i \in Has(Catalog(d)) \ Doubled(d)
        PROVE  ToCanonical(servers[i]) = ToCanonical(Catalog(d)[i])
    <3>1. i \in Ids /\ Catalog(d)[i] # NoServer
      BY <2>7 DEF Has
    <3>2. CASE d.version
      <4>1. Catalog(d)[i] = Interpolate(d.servers[i])
        BY <3>1, <3>2 DEF Catalog, Source
      <4>2. d.servers[i] # NoServer
        BY <3>1, <4>1, NoServerStays
      <4>3. servers[i] = d.servers[i] /\ IsServer(d.servers[i])
        BY <2>1, <3>1, <4>2 DEF IsDoc, Entries
      <4>. QED
        BY <4>1, <4>3, CanonicalStays
    <3>3. CASE ~d.version
      <4>1. Catalog(d)[i] = Interpolate(d.legacy[i])
        BY <1>2, <3>1, <3>3 DEF Catalog, Source
      <4>2. d.legacy[i] # NoServer
        BY <3>1, <4>1, NoServerStays
      <4>3. d.servers[i] = NoServer
        BY <2>7, <3>1, <3>3, <4>2 DEF Doubled, Has
      <4>4. servers[i] = ToCanonical(d.legacy[i]) /\ IsServer(d.legacy[i])
        BY <2>1, <3>1, <4>3 DEF IsDoc, Entries
      <4>5. ToCanonical(ToCanonical(d.legacy[i])) = ToCanonical(d.legacy[i])
        BY <4>4, CanonicalStays
      <4>. QED
        BY <4>1, <4>4, <4>5, CanonicalStays
    <3>. QED
      BY <3>2, <3>3
  <2>. QED
    BY <2>4, <2>6, <2>7
<1>. QED
  BY <1>1, <1>2

LEMMA CatalogIs ==
  ASSUME NEW d, IsDoc(d), token # "ref"
  PROVE  \A i \in Ids : IsServer(Catalog(d)[i])
<1>1. \A i \in Ids : IsServer(Interpolate(d.servers[i])) /\ IsServer(Interpolate(d.legacy[i]))
                     /\ IsServer(Interpolate(NoServer))
  BY CanonicalStays, NoServerStays DEF IsDoc, Entries
<1>2. CASE Source(d) = "mcp"
  <2>1. Catalog(d) = [i \in Ids |-> Interpolate(d.servers[i])]
    BY <1>2 DEF Catalog
  <2>. QED
    BY <1>1, <2>1
<1>3. CASE Source(d) = "mcp_servers"
  <2>1. Catalog(d) = [i \in Ids |-> Interpolate(d.legacy[i])]
    BY <1>3 DEF Catalog
  <2>. QED
    BY <1>1, <2>1
<1>4. CASE Source(d) = "empty"
  <2>1. Catalog(d) = [i \in Ids |-> Interpolate(None[i])]
    BY <1>4 DEF Catalog
  <2>2. \A i \in Ids : None[i] = NoServer
    BY DEF None
  <2>. QED
    BY <1>1, <2>1, <2>2
<1>. QED
  BY <1>2, <1>3, <1>4 DEF Source

LEMMA StoredIs ==
  ASSUME NEW d, IsDoc(d), token # "ref", NEW canon, NEW servers,
         canon = [m \in Modules |-> Module(d, m)],
         servers = [i \in Ids |-> ToCanonical(Catalog(d)[i])]
  PROVE  /\ Stored(d) = Doc(TRUE, Nowhere, canon, TRUE, CatalogRevision(d), servers, None, d.hooks)
         /\ Places(canon) /\ Entries(servers)
<1>1. Stored(d) = [Empty EXCEPT !.canon = canon, !.version = TRUE, !.rev = CatalogRevision(d),
                                !.servers = servers, !.hooks = d.hooks]
  BY Zenon DEF Stored
<1>2. PICK t, r, h, e : t = TRUE /\ r = CatalogRevision(d) /\ h = d.hooks /\ e = Empty
  OBVIOUS
<1>3. e = Doc(e.ok, e.top, e.canon, e.version, e.rev, e.servers, e.legacy, e.hooks)
  BY <1>2, EmptyIs DEF IsDoc
<1>4. [e EXCEPT !.canon = canon, !.version = t, !.rev = r, !.servers = servers, !.hooks = h]
        = Doc(e.ok, e.top, canon, t, r, servers, e.legacy, h)
  <2>1. PICK ok, top, below, version, rev, entries, legacy, hooks :
          /\ e.ok = ok /\ e.top = top /\ e.canon = below /\ e.version = version /\ e.rev = rev
          /\ e.servers = entries /\ e.legacy = legacy /\ e.hooks = hooks
    OBVIOUS
  <2>2. e = Doc(e.ok, e.top, e.canon, e.version, e.rev, e.servers, e.legacy, e.hooks)
    BY <1>3
  <2>3. e = [ok |-> ok, top |-> top, canon |-> below, version |-> version, rev |-> rev,
             servers |-> entries, legacy |-> legacy, hooks |-> hooks]
    BY <2>1, <2>2, Zenon DEF Doc
  <2>4. PICK u : u = [[ok |-> ok, top |-> top, canon |-> below, version |-> version, rev |-> rev,
                       servers |-> entries, legacy |-> legacy, hooks |-> hooks]
                      EXCEPT !.canon = canon, !.version = t, !.rev = r, !.servers = servers, !.hooks = h]
    OBVIOUS
  <2>5. u = [ok |-> ok, top |-> top, canon |-> canon, version |-> t, rev |-> r,
             servers |-> servers, legacy |-> legacy, hooks |-> h]
    BY <2>4
  <2>. QED
    BY <2>1, <2>3, <2>4, <2>5, Zenon DEF Doc
<1>5. e.ok = TRUE /\ e.top = Nowhere /\ e.legacy = None
  BY <1>2 DEF Empty
<1>6. Places(canon)
  BY DEF Places
<1>7. Entries(servers)
  <2>1. \A i \in Ids : IsServer(ToCanonical(Catalog(d)[i]))
    BY CatalogIs, CanonicalStays
  <2>. QED
    BY <2>1 DEF Entries
<1>. QED
  BY <1>1, <1>2, <1>4, <1>5, <1>6, <1>7, Zenon

\* The save of a module.
LEMMA MergeModuleKeeps ==
  ASSUME NEW d, IsDoc(d), token # "ref", NEW m \in Visible, NEW v \in Valid,
         NEW after, after = MergeModule(d, m, v)
  PROVE  IsDoc(after) /\ KeepsTheRest(d, after, m)
<1>1. PICK q : q = Promote(d)
  OBVIOUS
<1>2. /\ IsDoc(q)
      /\ q.ok = d.ok /\ q.top = d.top /\ q.canon = d.canon /\ q.hooks = d.hooks
      /\ \A i \in Has(Catalog(d)) \ Doubled(d) :
           q.version /\ ToCanonical(q.servers[i]) = ToCanonical(Catalog(d)[i])
  BY <1>1, PromoteKeeps
<1>3. PICK canon, servers : /\ canon = [n \in Modules |-> Module(q, n)]
                            /\ servers = [i \in Ids |-> ToCanonical(Catalog(q)[i])]
  OBVIOUS
<1>4. PICK t, z, none, nowhere : t = TRUE /\ z = CatalogRevision(q) /\ none = None /\ nowhere = Nowhere
  OBVIOUS
<1>5. PICK st : /\ st = Stored(q) /\ st = Doc(t, nowhere, canon, t, z, servers, none, q.hooks)
                /\ Places(canon) /\ Entries(servers)
  BY <1>2, <1>3, <1>4, StoredIs, Zenon
<1>6. /\ st.ok = t /\ st.top = nowhere /\ st.canon = canon /\ st.version = t /\ st.rev = z
      /\ st.servers = servers /\ st.legacy = none /\ st.hooks = q.hooks
  BY <1>5, DocFields
<1>7. PICK to : to = [canon EXCEPT ![m] = v]
  OBVIOUS
<1>8. after = [st EXCEPT !.canon = to]
  BY <1>1, <1>5, <1>6, <1>7, Zenon DEF MergeModule
<1>9. after = Doc(t, nowhere, to, t, z, servers, none, q.hooks)
  <2>1. st = Doc(st.ok, st.top, st.canon, st.version, st.rev, st.servers, st.legacy, st.hooks)
    BY <1>5, <1>6
  <2>2. [st EXCEPT !.canon = to] = Doc(st.ok, st.top, to, st.version, st.rev, st.servers, st.legacy, st.hooks)
    BY <2>1, DocExcept
  <2>. QED
    BY <1>6, <1>8, <2>2
<1>10. /\ after.ok = t /\ after.top = nowhere /\ after.canon = to /\ after.version = t
       /\ after.servers = servers /\ after.hooks = q.hooks
  BY <1>9, DocFields
<1>11. IsDoc(after)
  <2>1. Places(nowhere) /\ Entries(none)
    BY <1>4, EmptyIs DEF IsDoc, Empty
  <2>2. Places(to)
    BY <1>5, <1>7 DEF Places
  <2>. QED
    BY <1>5, <1>9, <2>1, <2>2, DocIs
<1>12. ASSUME NEW n \in Modules \ {m} PROVE Module(after, n) = Module(d, n)
  <2>1. to[n] = Module(q, n)
    BY <1>3, <1>7
  <2>2. Module(q, n) = Module(d, n)
    BY <1>2 DEF Module, Pick
  <2>3. Module(q, n) \in Valid
    BY DEF Module, Valid
  <2>. QED
    BY <1>4, <1>10, <2>1, <2>2, <2>3 DEF Module, Pick, Drafts
<1>13. ASSUME NEW i \in Has(Catalog(d)) \ Doubled(d)
       PROVE  ToCanonical(Catalog(after)[i]) = ToCanonical(Catalog(d)[i])
  <2>1. i \in Ids /\ q.version /\ IsServer(q.servers[i])
    BY <1>2, <1>13 DEF Has, IsDoc, Entries
  <2>2. Catalog(q)[i] = Interpolate(q.servers[i])
    BY <2>1 DEF Catalog, Source
  <2>3. servers[i] = ToCanonical(q.servers[i])
    BY <1>3, <2>1, <2>2, CanonicalStays
  <2>4. Catalog(after)[i] = Interpolate(servers[i])
    BY <1>4, <1>10, <2>1 DEF Catalog, Source
  <2>. QED
    BY <1>2, <1>13, <2>1, <2>3, <2>4, CanonicalStays
<1>. QED
  BY <1>2, <1>10, <1>11, <1>12, <1>13 DEF KeepsTheRest

\* The save, the removal and the switch of a server.
LEMMA WithServerKeeps ==
  ASSUME NEW d, IsDoc(d), token # "ref", NEW i \in Ids, NEW s, IsServer(s),
         NEW after, after = WithServer(d, i, s)
  PROVE  IsDoc(after) /\ KeepsTheRest(d, after, i)
<1>1. PICK q : q = Promote(d)
  OBVIOUS
<1>2. /\ IsDoc(q)
      /\ q.ok = d.ok /\ q.top = d.top /\ q.canon = d.canon /\ q.hooks = d.hooks
      /\ \A j \in Has(Catalog(d)) \ Doubled(d) :
           q.version /\ ToCanonical(q.servers[j]) = ToCanonical(Catalog(d)[j])
  BY <1>1, PromoteKeeps
<1>3. PICK to, t, z : to = [q.servers EXCEPT ![i] = s] /\ t = TRUE /\ z = CatalogRevision(q) + 1
  OBVIOUS
<1>4. after = [q EXCEPT !.servers = to, !.version = t, !.rev = z]
  BY <1>1, <1>3, Zenon DEF WithServer
<1>5. after = Doc(q.ok, q.top, q.canon, t, z, to, q.legacy, q.hooks)
  <2>1. PICK ok, top, canon, version, rev, entries, legacy, hooks :
          /\ q.ok = ok /\ q.top = top /\ q.canon = canon /\ q.version = version /\ q.rev = rev
          /\ q.servers = entries /\ q.legacy = legacy /\ q.hooks = hooks
    OBVIOUS
  <2>2. q = Doc(q.ok, q.top, q.canon, q.version, q.rev, q.servers, q.legacy, q.hooks)
    BY <1>2 DEF IsDoc
  <2>3. q = [ok |-> ok, top |-> top, canon |-> canon, version |-> version, rev |-> rev,
             servers |-> entries, legacy |-> legacy, hooks |-> hooks]
    BY <2>1, <2>2, Zenon DEF Doc
  <2>4. PICK u : u = [[ok |-> ok, top |-> top, canon |-> canon, version |-> version, rev |-> rev,
                       servers |-> entries, legacy |-> legacy, hooks |-> hooks]
                      EXCEPT !.servers = to, !.version = t, !.rev = z]
    OBVIOUS
  <2>5. u = [ok |-> ok, top |-> top, canon |-> canon, version |-> t, rev |-> z,
             servers |-> to, legacy |-> legacy, hooks |-> hooks]
    BY <2>4
  <2>. QED
    BY <1>4, <2>1, <2>3, <2>4, <2>5, Zenon DEF Doc
<1>6. /\ after.ok = q.ok /\ after.top = q.top /\ after.canon = q.canon /\ after.version = t
      /\ after.servers = to /\ after.hooks = q.hooks
  BY <1>5, DocFields
<1>7. IsDoc(after)
  <2>1. Entries(to)
    BY <1>2, <1>3 DEF IsDoc, Entries
  <2>. QED
    BY <1>2, <1>5, <2>1, DocIs DEF IsDoc
<1>8. \A n \in Modules : Module(after, n) = Module(d, n)
  BY <1>2, <1>6 DEF Module, Pick
<1>9. ASSUME NEW j \in Has(Catalog(d)) \ (Doubled(d) \union {i})
      PROVE  ToCanonical(Catalog(after)[j]) = ToCanonical(Catalog(d)[j])
  <2>1. j \in Ids /\ j # i /\ q.version /\ IsServer(q.servers[j])
    BY <1>2, <1>9 DEF Has, IsDoc, Entries
  <2>2. to[j] = q.servers[j]
    BY <1>2, <1>3, <2>1 DEF IsDoc, Entries
  <2>3. Catalog(after)[j] = Interpolate(q.servers[j])
    BY <1>3, <1>6, <2>1, <2>2 DEF Catalog, Source
  <2>. QED
    BY <1>2, <1>9, <2>1, <2>3, CanonicalStays
<1>. QED
  BY <1>2, <1>6, <1>7, <1>8, <1>9 DEF KeepsTheRest

LEMMA ServerExcept ==
  ASSUME NEW s, IsServer(s), NEW h, NEW e
  PROVE  IsServer([s EXCEPT !.headers = h, !.env = e]) /\ IsServer([s EXCEPT !.on = h])
<1>1. PICK type, headers, env, on :
        s = [type |-> type, headers |-> headers, env |-> env, on |-> on]
  BY DEF IsServer, Server
<1>2. PICK u : u = [s EXCEPT !.headers = h, !.env = e]
  OBVIOUS
<1>3. u = [[type |-> type, headers |-> headers, env |-> env, on |-> on] EXCEPT !.headers = h, !.env = e]
  BY <1>1, <1>2, Zenon
<1>4. u = [type |-> type, headers |-> h, env |-> e, on |-> on]
  BY <1>3
<1>5. PICK w : w = [s EXCEPT !.on = h]
  OBVIOUS
<1>6. w = [[type |-> type, headers |-> headers, env |-> env, on |-> on] EXCEPT !.on = h]
  BY <1>1, <1>5, Zenon
<1>7. w = [type |-> type, headers |-> headers, env |-> env, on |-> h]
  BY <1>6
<1>8. IsServer(u) /\ IsServer(w)
  BY <1>4, <1>7, Zenon DEF IsServer, Server
<1>. QED
  BY <1>2, <1>5, <1>8, Zenon

LEMMA BodiesAre ==
  ASSUME NEW body \in Bodies, IsDoc(doc), token # "ref", NEW i \in Ids
  PROVE  IsServer(Merged(i, body))
<1>1. IsServer(body)
  <2>1. CASE body \in {[type |-> "http", headers |-> h, env |-> "none", on |-> b] :
                         h \in {"mask", "ref", "lit"}, b \in BOOLEAN}
    <3>1. PICK h \in {"mask", "ref", "lit"}, b \in BOOLEAN :
            body = [type |-> "http", headers |-> h, env |-> "none", on |-> b]
      BY <2>1
    <3>. QED
      BY <3>1, Zenon DEF IsServer, Server
  <2>2. CASE body \in {[type |-> "stdio", headers |-> "none", env |-> e, on |-> TRUE] : e \in {"mask", "clear"}}
    <3>1. PICK e \in {"mask", "clear"} :
            body = [type |-> "stdio", headers |-> "none", env |-> e, on |-> TRUE]
      BY <2>2
    <3>. QED
      BY <3>1, Zenon DEF IsServer, Server
  <2>. QED
    BY <2>1, <2>2 DEF Bodies
<1>2. PICK old : old = Catalog(doc)[i]
  OBVIOUS
<1>3. PICK h, e : h = MergeSecret(old.headers, body.headers) /\ e = MergeSecret(old.env, body.env)
  OBVIOUS
<1>4. Merged(i, body) = [body EXCEPT !.headers = h, !.env = e]
  BY <1>2, <1>3, Zenon DEF Merged
<1>5. IsServer([body EXCEPT !.headers = h, !.env = e])
  BY <1>1, ServerExcept, Zenon
<1>. QED
  BY <1>4, <1>5

\* What a person can make of a document is one.
LEMMA HandwrittenIs ==
  ASSUME IsDoc(doc), NEW d \in Handwritten
  PROVE  IsDoc(d)
<1>1. PICK c : c = doc /\ IsDoc(c)
  OBVIOUS
<1>2. c = Doc(c.ok, c.top, c.canon, c.version, c.rev, c.servers, c.legacy, c.hooks)
  BY <1>1 DEF IsDoc
<1>3. ASSUME NEW m, NEW v, d = [doc EXCEPT !.canon[m] = v] PROVE IsDoc(d)
  <2>1. PICK to : to = [c.canon EXCEPT ![m] = v]
    OBVIOUS
  <2>2. d = [c EXCEPT !.canon = to]
    BY <1>1, <1>3, <2>1, Zenon
  <2>3. d = Doc(c.ok, c.top, to, c.version, c.rev, c.servers, c.legacy, c.hooks)
    BY <1>2, <2>2, DocExcept
  <2>4. Places(to)
    BY <1>1, <2>1 DEF IsDoc, Places
  <2>. QED
    BY <1>1, <2>3, <2>4, DocIs DEF IsDoc
<1>4. ASSUME NEW m, NEW v, d = [doc EXCEPT !.top[m] = v] PROVE IsDoc(d)
  <2>1. PICK to : to = [c.top EXCEPT ![m] = v]
    OBVIOUS
  <2>2. d = [c EXCEPT !.top = to]
    BY <1>1, <1>4, <2>1, Zenon
  <2>3. d = Doc(c.ok, to, c.canon, c.version, c.rev, c.servers, c.legacy, c.hooks)
    BY <1>2, <2>2, DocExcept
  <2>4. Places(to)
    BY <1>1, <2>1 DEF IsDoc, Places
  <2>. QED
    BY <1>1, <2>3, <2>4, DocIs DEF IsDoc
<1>5. ASSUME NEW i \in Ids, NEW s, IsServer(s), d = [doc EXCEPT !.servers[i] = s] PROVE IsDoc(d)
  <2>1. PICK to : to = [c.servers EXCEPT ![i] = s]
    OBVIOUS
  <2>2. d = [c EXCEPT !.servers = to]
    BY <1>1, <1>5, <2>1, Zenon
  <2>3. d = Doc(c.ok, c.top, c.canon, c.version, c.rev, to, c.legacy, c.hooks)
    BY <1>2, <2>2, DocExcept
  <2>4. Entries(to)
    BY <1>1, <1>5, <2>1 DEF IsDoc, Entries
  <2>. QED
    BY <1>1, <2>3, <2>4, DocIs DEF IsDoc
<1>6. ASSUME NEW i \in Ids, NEW s, IsServer(s), d = [doc EXCEPT !.legacy[i] = s] PROVE IsDoc(d)
  <2>1. PICK to : to = [c.legacy EXCEPT ![i] = s]
    OBVIOUS
  <2>2. d = [c EXCEPT !.legacy = to]
    BY <1>1, <1>6, <2>1, Zenon
  <2>3. d = Doc(c.ok, c.top, c.canon, c.version, c.rev, c.servers, to, c.hooks)
    BY <1>2, <2>2, DocExcept
  <2>4. Entries(to)
    BY <1>1, <1>6, <2>1 DEF IsDoc, Entries
  <2>. QED
    BY <1>1, <2>3, <2>4, DocIs DEF IsDoc
<1>7. ASSUME NEW x,
             d = [doc EXCEPT !.version = x] \/ d = [doc EXCEPT !.hooks = x] \/ d = [doc EXCEPT !.ok = x]
      PROVE  IsDoc(d)
  <2>1. \/ d = Doc(c.ok, c.top, c.canon, x, c.rev, c.servers, c.legacy, c.hooks)
        \/ d = Doc(c.ok, c.top, c.canon, c.version, c.rev, c.servers, c.legacy, x)
        \/ d = Doc(x, c.top, c.canon, c.version, c.rev, c.servers, c.legacy, c.hooks)
    <3>1. CASE d = [doc EXCEPT !.version = x]
      <4>1. d = [c EXCEPT !.version = x]
        BY <1>1, <3>1, Zenon
      <4>. QED
        BY <1>2, <4>1, DocExcept
    <3>2. CASE d = [doc EXCEPT !.hooks = x]
      <4>1. d = [c EXCEPT !.hooks = x]
        BY <1>1, <3>2, Zenon
      <4>. QED
        BY <1>2, <4>1, DocExcept
    <3>3. CASE d = [doc EXCEPT !.ok = x]
      <4>1. d = [c EXCEPT !.ok = x]
        BY <1>1, <3>3, Zenon
      <4>. QED
        BY <1>2, <4>1, DocExcept
    <3>. QED
      BY <1>7, <3>1, <3>2, <3>3
  <2>. QED
    BY <1>1, <2>1, DocIs DEF IsDoc
<1>8. ASSUME NEW s, NEW b,
             \/ s = [type |-> "http", headers |-> "ref", env |-> "none", on |-> b]
             \/ s = [type |-> "stdio", headers |-> "none", env |-> "lit", on |-> b]
      PROVE  IsServer(s)
  BY <1>8, Zenon DEF IsServer, Server
<1>9. PICK t, f : t = TRUE /\ f = FALSE
  OBVIOUS
<1>10. CASE d \in {[doc EXCEPT !.canon[m] = v] : m \in {"agent"}, v \in {"new", "bad", "odd"}}
  BY <1>3, <1>10
<1>11. CASE d \in {[doc EXCEPT !.top[m] = v] : m \in {"agent"}, v \in {"new", "odd"}}
  BY <1>4, <1>11
<1>12. CASE d \in {[doc EXCEPT !.servers[i] = [type |-> "http", headers |-> "ref", env |-> "none", on |-> TRUE]] : i \in Ids}
  <2>1. PICK s : s = [type |-> "http", headers |-> "ref", env |-> "none", on |-> TRUE]
    OBVIOUS
  <2>2. PICK i \in Ids : d = [doc EXCEPT !.servers[i] = s]
    BY <1>12, <2>1
  <2>3. IsServer(s)
    BY <2>1, Zenon DEF IsServer, Server
  <2>. QED
    BY <1>5, <2>2, <2>3
<1>13. CASE d \in {[doc EXCEPT !.legacy[i] = [type |-> "stdio", headers |-> "none", env |-> "lit", on |-> b]] : i \in Ids, b \in BOOLEAN}
  <2>1. PICK i \in Ids, b \in BOOLEAN :
          d = [doc EXCEPT !.legacy[i] = [type |-> "stdio", headers |-> "none", env |-> "lit", on |-> b]]
    BY <1>13
  <2>2. PICK s : s = [type |-> "stdio", headers |-> "none", env |-> "lit", on |-> b]
    OBVIOUS
  <2>3. d = [doc EXCEPT !.legacy[i] = s]
    BY <2>1, <2>2, Zenon
  <2>4. IsServer(s)
    BY <2>2, Zenon DEF IsServer, Server
  <2>. QED
    BY <1>6, <2>3, <2>4
<1>14. CASE d \in {[doc EXCEPT !.version = TRUE], [doc EXCEPT !.hooks = TRUE], [doc EXCEPT !.ok = FALSE]}
  BY <1>7, <1>9, <1>14, Zenon
<1>. QED
  BY <1>10, <1>11, <1>12, <1>13, <1>14 DEF Handwritten

DocInv == IsDoc(doc) /\ token \in {"unset", "t1", "t2"}

LEMMA TopIs ==
  ASSUME NEW to, Places(to), NEW d, d = [Empty EXCEPT !.top = to]
  PROVE  IsDoc(d)
<1>1. PICK e : e = Empty /\ IsDoc(e)
  BY EmptyIs
<1>2. e = Doc(e.ok, e.top, e.canon, e.version, e.rev, e.servers, e.legacy, e.hooks)
  BY <1>1 DEF IsDoc
<1>3. d = Doc(e.ok, to, e.canon, e.version, e.rev, e.servers, e.legacy, e.hooks)
  <2>1. d = [e EXCEPT !.top = to]
    BY <1>1, Zenon
  <2>. QED
    BY <1>2, <2>1, DocExcept
<1>. QED
  BY <1>1, <1>3, DocIs DEF IsDoc

LEMMA TemplateIs == IsDoc(Template)
<1>1. PICK to : to = [m \in Modules |-> "default"]
  OBVIOUS
<1>2. Template = [Empty EXCEPT !.top = to]
  BY <1>1, Zenon DEF Template
<1>3. Places(to)
  BY <1>1 DEF Places
<1>. QED
  BY <1>2, <1>3, TopIs

LEMMA DocNext == DocInv /\ [ConfigNext]_cvars => DocInv' /\ [EditIsLocal]_cvars
<1>1. SUFFICES ASSUME DocInv, [ConfigNext]_cvars PROVE DocInv' /\ [EditIsLocal]_cvars
  OBVIOUS
<1>2. IsDoc(doc) /\ token \in {"unset", "t1", "t2"} /\ token # "ref"
  BY <1>1 DEF DocInv
\* Steps that do not write the file.
<1>3. ASSUME doc' = doc, token' \in {"unset", "t1", "t2"} PROVE DocInv'
  BY <1>2, <1>3 DEF DocInv
<1>4. ASSUME NEW d, IsDoc(d), doc' = d, token' = token PROVE DocInv'
  BY <1>2, <1>4 DEF DocInv
<1>5. ASSUME NEW p \in Pages, ListModules(p) PROVE DocInv' /\ did'.op = "list"
  BY <1>2, <1>3, <1>5 DEF ListModules, Did
<1>6. ASSUME NEW p \in Pages, NEW m \in Visible, NEW v \in Drafts, UpdateModule(p, m, v)
      PROVE  DocInv' /\ EditIsLocal
  <2>1. v \in Valid /\ doc' = MergeModule(doc, m, v) /\ token' = token /\ did'.on = m
    BY <1>6 DEF UpdateModule, Write, Call, Did
  <2>2. PICK d : d = MergeModule(doc, m, v) /\ IsDoc(d) /\ KeepsTheRest(doc, d, m)
    BY <1>2, <2>1, MergeModuleKeeps
  <2>. QED
    BY <1>4, <2>1, <2>2 DEF EditIsLocal
<1>7. ASSUME NEW p \in Pages, NEW v \in Drafts, UpdateRefused(p, v) PROVE DocInv' /\ did'.op = "refused"
  BY <1>2, <1>3, <1>7 DEF UpdateRefused, Did
<1>8. ASSUME NEW i \in Ids, NEW s, IsServer(s), NEW op, SaveDocument(WithServer(doc, i, s), op, i)
      PROVE  DocInv' /\ EditIsLocal
  <2>1. doc' = WithServer(doc, i, s) /\ token' = token /\ did'.on = i
    BY <1>8 DEF SaveDocument, Write, Call, Did
  <2>2. PICK d : d = WithServer(doc, i, s) /\ IsDoc(d) /\ KeepsTheRest(doc, d, i)
    BY <1>2, <1>8, WithServerKeeps
  <2>. QED
    BY <1>4, <2>1, <2>2 DEF EditIsLocal
<1>9. ASSUME NEW i \in Ids, NEW body \in Bodies, UpsertServer(i, body) PROVE DocInv' /\ EditIsLocal
  BY <1>2, <1>8, <1>9, BodiesAre DEF UpsertServer
<1>10. ASSUME NEW i \in Ids, DeleteServer(i) PROVE DocInv' /\ EditIsLocal
  BY <1>8, <1>10, NoServerStays DEF DeleteServer
<1>11. ASSUME NEW i \in Ids, NEW b \in BOOLEAN, EnableServer(i, b) PROVE DocInv' /\ EditIsLocal
  <2>1. IsServer(ToCanonical(Catalog(doc)[i]))
    BY <1>2, CatalogIs, CanonicalStays
  <2>2. IsServer([ToCanonical(Catalog(doc)[i]) EXCEPT !.on = b])
    BY <2>1, ServerExcept
  <2>. QED
    BY <1>8, <1>11, <2>2 DEF EnableServer
<1>12. ASSUME NEW b \in BOOLEAN, SetSkillEnabled(b) PROVE DocInv' /\ did'.op = "skill"
  <2>1. PICK to : to = [Nowhere EXCEPT !["skills"] = IF b THEN "default" ELSE "new"]
    OBVIOUS
  <2>2. Empty.top = Nowhere
    BY DEF Empty
  <2>3. doc' = [Empty EXCEPT !.top = to] /\ token' = token /\ did'.op = "skill"
    BY <1>12, <2>1, <2>2, Zenon DEF SetSkillEnabled, Write, ReadAsJson, Call, Did
  <2>4. Places(to)
    BY <2>1 DEF Places, Nowhere
  <2>. QED
    BY <1>4, <2>3, <2>4, TopIs
<1>13. ASSUME ResetGlobal PROVE DocInv' /\ did'.op = "reset"
  BY <1>4, <1>13, TemplateIs DEF ResetGlobal, Write, Call, Did
<1>14. ASSUME NEW d \in Handwritten, EditByHand(d) PROVE DocInv' /\ did'.op = "hand"
  BY <1>2, <1>4, <1>14, HandwrittenIs DEF EditByHand, Outside, Did
<1>15. ASSUME SetToken PROVE DocInv' /\ did'.op = "env"
  BY <1>3, <1>15 DEF SetToken, Outside, Did
<1>16. ASSUME NEW t \in {"unset", "t1", "t2"}, Restart(t) PROVE DocInv' /\ did'.op = "restart"
  BY <1>3, <1>16 DEF Restart, Outside, Did
<1>17. CASE UNCHANGED cvars
  BY <1>2, <1>3, <1>17 DEF cvars
<1>18. CASE \/ \E p \in Pages : ListModules(p)
            \/ \E p \in Pages, v \in Drafts : UpdateRefused(p, v)
            \/ \E b \in BOOLEAN : SetSkillEnabled(b)
            \/ ResetGlobal
            \/ \E d \in Handwritten : EditByHand(d)
            \/ SetToken
            \/ \E t \in {"unset", "t1", "t2"} : Restart(t)
  BY <1>5, <1>7, <1>12, <1>13, <1>14, <1>15, <1>16, <1>18 DEF EditIsLocal
<1>19. CASE \/ \E p \in Pages, m \in Visible, v \in Drafts : UpdateModule(p, m, v)
            \/ \E i \in Ids, body \in Bodies : UpsertServer(i, body)
            \/ \E i \in Ids : DeleteServer(i)
            \/ \E i \in Ids, b \in BOOLEAN : EnableServer(i, b)
  BY <1>6, <1>9, <1>10, <1>11, <1>19
<1>. QED
  BY <1>1, <1>17, <1>18, <1>19 DEF ConfigNext

\* EditsAreLocal, for every number of pages, servers and operations: the save of a module or of
\* a server leaves everything else as it was, whatever a person has made of the document.
THEOREM EditsStayLocal == ConfigSpec => EditsAreLocal
<1>1. ConfigInit => DocInv
  BY TemplateIs DEF ConfigInit, DocInv
<1>. QED
  BY <1>1, DocNext, PTL DEF ConfigSpec, EditsAreLocal

-----------------------------------------------------------------------------
(* The tools node                                                           *)

\* Counting up: what holds of zero and goes on from each number to the next.
LEMMA CountUp ==
  ASSUME NEW n \in Nat, NEW T, 0 \in T, \A k \in 1..n : k - 1 \in T => k \in T
  PROVE  \A k \in 0..n : k \in T
<1> DEFINE Out == {k \in 0..n : k \notin T}
           R == OpToRel(<, Nat)
<1>1. CASE Out = {}
  BY <1>1
<1>2. CASE Out # {}
  <2>1. IsWellFoundedOn(R, Nat)
    BY NatLessThanWellFounded
  <2>2. \A x, y \in Nat : y < x => <<y, x>> \in R
    BY DEF OpToRel
  <2>7. /\ Out \in SUBSET Nat
        /\ \A k : k \in Out <=> k \in 0..n /\ k \notin T
    OBVIOUS
  <2>. HIDE DEF R, Out
  <2>3. PICK x \in Out : \A y \in Out : <<y, x>> \notin R
    BY <1>2, <2>1, <2>7, WFMin
  <2>4. x \in 0..n /\ x \notin T
    BY <2>7
  <2>5. x \in 1..n /\ x - 1 \in 0..n /\ x - 1 < x /\ x - 1 \in Nat /\ x \in Nat
    BY <2>4
  <2>6. x - 1 \in Out
    BY <2>4, <2>5, <2>7
  <2>. QED
    BY <2>2, <2>3, <2>5, <2>6
<1>. QED
  BY <1>1, <1>2

-----------------------------------------------------------------------------
WalkStart == [stop |-> 0, used |-> 0, over |-> FALSE, run |-> {}, granted |-> {}]

\* The walk of the node: the function that NodeRun chooses.
WalkedTo(replies, f, i) == IF i = 0 THEN WalkStart ELSE Decided(replies, f[i - 1], i)
Walks(replies, f) == f = [i \in 0..NumCalls |-> WalkedTo(replies, f, i)]

\* There is one: it is found call by call.
LEMMA WalkExists ==
  ASSUME NEW replies, NumCalls \in Nat
  PROVE  \E f : Walks(replies, f)
<1> DEFINE Upto(n, f) == f = [i \in 0..n |-> WalkedTo(replies, f, i)]
           T == {n \in 0..NumCalls : \E f : Upto(n, f)}
<1>1. 0 \in T
  <2> DEFINE g == [i \in 0..0 |-> WalkStart]
  <2>1. Upto(0, g)
    BY DEF WalkedTo
  <2>. HIDE DEF g
  <2>. QED
    BY <2>1
<1>2. ASSUME NEW k \in 1..NumCalls, k - 1 \in T PROVE k \in T
  <2>1. PICK f : Upto(k - 1, f)
    BY <1>2
  <2> DEFINE g == [i \in 0..k |-> IF i = k THEN Decided(replies, f[k - 1], k) ELSE f[i]]
  <2>2. \A i \in 0..k - 1 : g[i] = f[i]
    OBVIOUS
  <2>3. \A i \in 0..k : g[i] = WalkedTo(replies, g, i)
    <3>1. ASSUME NEW i \in 0..k PROVE g[i] = WalkedTo(replies, g, i)
      <4>1. CASE i = k
        BY <2>2, <4>1 DEF WalkedTo
      <4>2. CASE i # k
        <5>1. i \in 0..k - 1
          BY <4>2
        <5>2. g[i] = WalkedTo(replies, f, i)
          BY <2>1, <2>2, <5>1
        <5>3. i # 0 => i - 1 \in 0..k - 1
          BY <5>1
        <5>. HIDE DEF g
        <5>. QED
          BY <2>2, <5>2, <5>3 DEF WalkedTo
      <4>. QED
        BY <4>1, <4>2
    <3>. QED
      BY <3>1
  <2>4. g = [i \in 0..k |-> g[i]]
    OBVIOUS
  <2>. HIDE DEF g
  <2>5. Upto(k, g)
    BY <2>3, <2>4
  <2>. HIDE DEF Upto
  <2>. QED
    BY <2>5
<1>3. \A k \in 1..NumCalls : k - 1 \in T => k \in T
  BY <1>2
<1>. HIDE DEF T
<1>4. NumCalls \in T
  BY <1>1, <1>3, CountUp
<1>5. PICK f : Upto(NumCalls, f)
  BY <1>4 DEF T
<1>. QED
  BY <1>5 DEF Walks

\* The walk from call to call.
LEMMA WalkStep ==
  ASSUME NEW replies, NumCalls \in Nat
  PROVE  /\ NodeRun(replies, 0) = WalkStart
         /\ \A i \in 1..NumCalls :
              NodeRun(replies, i) = Decided(replies, NodeRun(replies, i - 1), i)
<1>1. PICK f : f = CHOOSE g : Walks(replies, g)
  OBVIOUS
<1>2. Walks(replies, f)
  BY <1>1, WalkExists
<1>3. ASSUME NEW i \in 0..NumCalls PROVE NodeRun(replies, i) = f[i]
  BY <1>1 DEF NodeRun, Walks, WalkedTo, WalkStart
<1>4. \A i \in 0..NumCalls : f[i] = WalkedTo(replies, f, i)
  BY <1>2 DEF Walks
<1>5. \A i \in 1..NumCalls : i - 1 \in 0..NumCalls /\ i \in 0..NumCalls /\ i # 0
  OBVIOUS
<1>6. NodeRun(replies, 0) = WalkStart
  BY <1>3, <1>4 DEF WalkedTo
<1>7. ASSUME NEW i \in 1..NumCalls
      PROVE  NodeRun(replies, i) = Decided(replies, NodeRun(replies, i - 1), i)
  BY <1>3, <1>4, <1>5 DEF WalkedTo
<1>. QED
  BY <1>6, <1>7

-----------------------------------------------------------------------------
Says == {"allow", "deny", "answer", "none"}
Replies == [call : GateCalls, says : Says]
WalkStates == [stop : 0..NumCalls, used : Nat, over : BOOLEAN, run : SUBSET GateCalls,
               granted : SUBSET GateCalls]

\* What the node does with a call depends on the answers only when it asks.
LEMMA DecidedCases ==
  ASSUME NEW a, NEW i
  PROVE  \/ \A replies : Decided(replies, a, i) = a
         \/ a.stop = 0 /\ \A replies : Decided(replies, a, i) = AskUser(replies, a, i)
         \/ a.stop = 0 /\ \A replies : Decided(replies, a, i) = Approve(replies, a, i)
         \/ a.stop = 0 /\ \A replies : Decided(replies, a, i) = [a EXCEPT !.run = @ \cup {i}]
<1>1. CASE a.stop # 0 \/ a.over
  BY <1>1 DEF Decided
<1>2. CASE a.stop = 0 /\ ~a.over /\ calls[i].kind \in {"ask", "handoff"}
  BY <1>2 DEF Decided
<1>3. CASE a.stop = 0 /\ ~a.over /\ calls[i].kind \notin {"ask", "handoff"}
  <2>1. PICK e : e = Evaluate(calls[i], FALSE, AutoApproves(calls[i]))
    OBVIOUS
  <2>2. CASE e = "deny"
    BY <1>3, <2>1, <2>2 DEF Decided
  <2>3. CASE e = "needs_approval"
    BY <1>3, <2>1, <2>3 DEF Decided
  <2>4. CASE e # "deny" /\ e # "needs_approval"
    BY <1>3, <2>1, <2>4 DEF Decided
  <2>. QED
    BY <2>2, <2>3, <2>4
<1>. QED
  BY <1>1, <1>2, <1>3

\* An answer is heard: the question of the call takes the next one.
Heard(replies, a, d, i) ==
  /\ a.stop = 0 /\ a.used < Len(replies)
  /\ d.stop = 0 /\ d.used = a.used + 1
  /\ \/ d.run = a.run /\ d.granted = a.granted
     \/ /\ d.run = a.run \cup {i} /\ d.granted = a.granted \cup {i}
        /\ replies[a.used + 1].says = "allow"

LEMMA AskUserShape ==
  ASSUME NEW replies \in Seq(Replies), NEW a \in WalkStates, NEW i \in GateCalls,
         a.used <= Len(replies), a.stop = 0, NEW d, d = AskUser(replies, a, i), NumCalls \in Nat
  PROVE  /\ d \in WalkStates
         /\ \/ a.used = Len(replies) /\ d = Stop(a, i)
            \/ Heard(replies, a, d, i)
<1>1. CASE a.used = Len(replies)
  BY <1>1 DEF AskUser, Interrupted, Stop, WalkStates, GateCalls
<1>2. CASE a.used # Len(replies)
  <2>1. PICK o \in BOOLEAN : d = [a EXCEPT !.used = @ + 1, !.over = o]
    <3>1. d = [a EXCEPT !.used = @ + 1,
                       !.over = calls[i].kind = "handoff"
                                /\ Reply(replies, a) = [call |-> i, says |-> "answer"]]
      BY <1>2 DEF AskUser, Interrupted
    <3>2. PICK o \in BOOLEAN : o = (calls[i].kind = "handoff"
                                    /\ Reply(replies, a) = [call |-> i, says |-> "answer"])
      BY Zenon
    <3>. QED
      BY <3>1, <3>2, Zenon
  <2>2. a.used < Len(replies)
    BY <1>2 DEF WalkStates
  <2>3. d \in WalkStates
    <3>1. a.used + 1 \in Nat
      BY DEF WalkStates
    <3>. QED
      BY <2>1, <3>1, Zenon DEF WalkStates
  <2>4. d.stop = 0 /\ d.used = a.used + 1 /\ d.run = a.run /\ d.granted = a.granted
    BY <2>1 DEF WalkStates
  <2>. QED
    BY <2>2, <2>3, <2>4 DEF Heard
<1>. QED
  BY <1>1, <1>2

LEMMA ApproveShape ==
  ASSUME NEW replies \in Seq(Replies), NEW a \in WalkStates, NEW i \in GateCalls,
         a.used <= Len(replies), a.stop = 0, NEW d, d = Approve(replies, a, i), NumCalls \in Nat
  PROVE  /\ d \in WalkStates
         /\ \/ a.used = Len(replies) /\ d = Stop(a, i)
            \/ Heard(replies, a, d, i)
<1>1. CASE a.used = Len(replies)
  BY <1>1 DEF Approve, Interrupted, Stop, WalkStates, GateCalls
<1>2. CASE a.used # Len(replies)
  <2> DEFINE b == [a EXCEPT !.used = @ + 1]
  <2>1. \/ d = b
        \/ /\ d = [b EXCEPT !.run = @ \cup {i}, !.granted = @ \cup {i}]
           /\ replies[a.used + 1].says = "allow"
    BY <1>2 DEF Approve, Interrupted, Reply
  <2>2. a.used < Len(replies)
    BY <1>2 DEF WalkStates
  <2>3. b \in WalkStates /\ b.stop = 0 /\ b.used = a.used + 1 /\ b.run = a.run /\ b.granted = a.granted
    BY DEF WalkStates
  <2>. HIDE DEF b
  <2>4. CASE d = b
    BY <2>2, <2>3, <2>4 DEF Heard
  <2>5. CASE /\ d = [b EXCEPT !.run = @ \cup {i}, !.granted = @ \cup {i}]
             /\ replies[a.used + 1].says = "allow"
    <3>1. d \in WalkStates
      <4>1. b.run \cup {i} \in SUBSET GateCalls /\ b.granted \cup {i} \in SUBSET GateCalls
        BY <2>3 DEF WalkStates
      <4>. QED
        BY <2>3, <2>5, <4>1, Zenon DEF WalkStates
    <3>2. /\ d.stop = b.stop /\ d.used = b.used
          /\ d.run = b.run \cup {i} /\ d.granted = b.granted \cup {i}
      BY <2>3, <2>5 DEF WalkStates
    <3>. QED
      BY <2>2, <2>3, <2>5, <3>1, <3>2 DEF Heard
  <2>. QED
    BY <2>1, <2>4, <2>5
<1>. QED
  BY <1>1, <1>2

\* What the walk does at a call: nothing, stop, hear an answer, or let the call through.
Goes(replies, a, d, i) ==
  \/ d = a
  \/ a.stop = 0 /\ a.used = Len(replies) /\ d = Stop(a, i)
  \/ Heard(replies, a, d, i)
  \/ /\ a.stop = 0 /\ d.stop = 0 /\ d.used = a.used
     /\ d.run = a.run \cup {i} /\ d.granted = a.granted

LEMMA DecidedShape ==
  ASSUME NEW replies \in Seq(Replies), NEW a \in WalkStates, NEW i \in GateCalls,
         a.used <= Len(replies), NEW d, d = Decided(replies, a, i), NumCalls \in Nat
  PROVE  /\ d \in WalkStates
         /\ d.used <= Len(replies)
         /\ Goes(replies, a, d, i)
<1>1. CASE d = a
  BY <1>1 DEF Goes
<1>2. CASE a.stop = 0 /\ (d = AskUser(replies, a, i) \/ d = Approve(replies, a, i))
  <2>1. /\ d \in WalkStates
        /\ \/ a.used = Len(replies) /\ d = Stop(a, i)
           \/ Heard(replies, a, d, i)
    BY <1>2, AskUserShape, ApproveShape
  <2>2. d.used <= Len(replies)
    BY <2>1 DEF Heard, Stop, WalkStates
  <2>. QED
    BY <1>2, <2>1, <2>2 DEF Goes
<1>3. CASE a.stop = 0 /\ d = [a EXCEPT !.run = @ \cup {i}]
  BY <1>3 DEF WalkStates, Goes
<1>. QED
  BY <1>1, <1>2, <1>3, DecidedCases

\* Answers that are a beginning of others.
Begins(part, whole) ==
  /\ part \in Seq(Replies) /\ whole \in Seq(Replies) /\ Len(part) <= Len(whole)
  /\ \A k \in 1..Len(part) : part[k] = whole[k]

\* The walk with the beginning goes the same way until it lacks an answer.
LEMMA DecidedAgrees ==
  ASSUME NEW part, NEW whole, Begins(part, whole), NEW a \in WalkStates, NEW i \in GateCalls,
         a.used <= Len(part), NEW d, d = Decided(whole, a, i), d.stop = 0, d.used <= Len(part),
         NumCalls \in Nat
  PROVE  Decided(part, a, i) = d
<1>1. CASE \A replies : Decided(replies, a, i) = a
  BY <1>1
<1>2. CASE a.stop = 0 /\ \A replies : Decided(replies, a, i) = AskUser(replies, a, i)
  <2>1. a.used <= Len(whole) /\ a.used \in Nat /\ Len(part) \in Nat /\ Len(whole) \in Nat
    BY DEF Begins, WalkStates
  <2>2. a.used # Len(whole) /\ d.used = a.used + 1
    <3>1. d = AskUser(whole, a, i) /\ whole \in Seq(Replies)
      BY <1>2 DEF Begins
    <3>2. i # 0 /\ (d = Stop(a, i) => d.stop = i)
      BY DEF GateCalls, Stop, WalkStates
    <3>3. \/ a.used = Len(whole) /\ d = Stop(a, i)
          \/ Heard(whole, a, d, i)
      BY <1>2, <2>1, <3>1, AskUserShape
    <3>4. Heard(whole, a, d, i)
      BY <3>2, <3>3
    <3>. QED
      BY <2>1, <3>4 DEF Heard
  <2>3. a.used # Len(part) /\ part[a.used + 1] = whole[a.used + 1]
    BY <2>1, <2>2 DEF Begins
  <2>4. Decided(part, a, i) = AskUser(part, a, i) /\ d = AskUser(whole, a, i)
    BY <1>2
  <2>5. Interrupted(part, a) = FALSE /\ Interrupted(whole, a) = FALSE
    BY <2>2, <2>3 DEF Interrupted
  <2>6. Reply(part, a) = Reply(whole, a)
    BY <2>3 DEF Reply
  <2>7. AskUser(part, a, i) = AskUser(whole, a, i)
    BY <2>5, <2>6, Zenon DEF AskUser
  <2>. QED
    BY <2>4, <2>7
<1>3. CASE a.stop = 0 /\ \A replies : Decided(replies, a, i) = Approve(replies, a, i)
  <2>1. a.used <= Len(whole) /\ a.used \in Nat /\ Len(part) \in Nat /\ Len(whole) \in Nat
    BY DEF Begins, WalkStates
  <2>2. a.used # Len(whole) /\ d.used = a.used + 1
    <3>1. d = Approve(whole, a, i) /\ whole \in Seq(Replies)
      BY <1>3 DEF Begins
    <3>2. i # 0 /\ (d = Stop(a, i) => d.stop = i)
      BY DEF GateCalls, Stop, WalkStates
    <3>3. \/ a.used = Len(whole) /\ d = Stop(a, i)
          \/ Heard(whole, a, d, i)
      BY <1>3, <2>1, <3>1, ApproveShape
    <3>4. Heard(whole, a, d, i)
      BY <3>2, <3>3
    <3>. QED
      BY <2>1, <3>4 DEF Heard
  <2>3. a.used # Len(part) /\ part[a.used + 1] = whole[a.used + 1]
    BY <2>1, <2>2 DEF Begins
  <2>4. Decided(part, a, i) = Approve(part, a, i) /\ d = Approve(whole, a, i)
    BY <1>3
  <2>5. Interrupted(part, a) = FALSE /\ Interrupted(whole, a) = FALSE
    BY <2>2, <2>3 DEF Interrupted
  <2>6. Reply(part, a) = Reply(whole, a)
    BY <2>3 DEF Reply
  <2>7. Approve(part, a, i) = Approve(whole, a, i)
    BY <2>5, <2>6, Zenon DEF Approve
  <2>. QED
    BY <2>4, <2>7
<1>4. CASE a.stop = 0 /\ \A replies : Decided(replies, a, i) = [a EXCEPT !.run = @ \cup {i}]
  BY <1>4
<1>. QED
  BY <1>1, <1>2, <1>3, <1>4, DecidedCases

\* Where it lacks one it stops.
LEMMA DecidedStops ==
  ASSUME NEW part, NEW whole, NEW a \in WalkStates, NEW i \in GateCalls, a.used = Len(part),
         Decided(whole, a, i).used # a.used
  PROVE  Decided(part, a, i).stop = i
<1>1. CASE \A replies : Decided(replies, a, i) = a
  BY <1>1
<1>2. CASE a.stop = 0 /\ \A replies : Decided(replies, a, i) = AskUser(replies, a, i)
  <2>1. Decided(part, a, i) = Stop(a, i)
    BY <1>2 DEF AskUser, Interrupted
  <2>. QED
    BY <2>1 DEF Stop, WalkStates
<1>3. CASE a.stop = 0 /\ \A replies : Decided(replies, a, i) = Approve(replies, a, i)
  <2>1. Decided(part, a, i) = Stop(a, i)
    BY <1>3 DEF Approve, Interrupted
  <2>. QED
    BY <2>1 DEF Stop, WalkStates
<1>4. CASE a.stop = 0 /\ \A replies : Decided(replies, a, i) = [a EXCEPT !.run = @ \cup {i}]
  <2>1. Decided(whole, a, i) = [a EXCEPT !.run = @ \cup {i}]
    BY <1>4
  <2>. QED
    BY <2>1 DEF WalkStates
<1>. QED
  BY <1>1, <1>2, <1>3, <1>4, DecidedCases

-----------------------------------------------------------------------------
(* Walks with a beginning of the answers *)

LEMMA WalkTypes ==
  ASSUME NEW replies \in Seq(Replies), NumCalls \in Nat
  PROVE  \A i \in 0..NumCalls : NodeRun(replies, i) \in WalkStates
                                /\ NodeRun(replies, i).used <= Len(replies)
<1> DEFINE T == {i \in 0..NumCalls : NodeRun(replies, i) \in WalkStates
                                     /\ NodeRun(replies, i).used <= Len(replies)}
<1>1. 0 \in T
  <2>1. WalkStart \in WalkStates /\ WalkStart.used = 0 /\ Len(replies) \in Nat
    BY DEF WalkStart, WalkStates
  <2>2. NodeRun(replies, 0) = WalkStart
    BY WalkStep
  <2>. QED
    BY <2>1, <2>2
<1>2. ASSUME NEW i \in 1..NumCalls, i - 1 \in T PROVE i \in T
  <2>1. PICK a : a = NodeRun(replies, i - 1)
    OBVIOUS
  <2>2. a \in WalkStates /\ a.used <= Len(replies) /\ i \in GateCalls
    BY <1>2, <2>1 DEF GateCalls
  <2>3. PICK d : d = Decided(replies, a, i)
    OBVIOUS
  <2>4. d = NodeRun(replies, i)
    BY <2>1, <2>3, WalkStep
  <2>5. d \in WalkStates /\ d.used <= Len(replies)
    BY <2>2, <2>3, DecidedShape
  <2>. QED
    BY <2>4, <2>5
<1>. HIDE DEF T
<1>3. \A i \in 0..NumCalls : i \in T
  BY <1>1, <1>2, CountUp
<1>. QED
  BY <1>3 DEF T

\* One call further.
LEMMA WalkOn ==
  ASSUME NEW replies \in Seq(Replies), NEW i \in 1..NumCalls, NumCalls \in Nat
  PROVE  \E a \in WalkStates, d \in WalkStates :
           /\ a = NodeRun(replies, i - 1) /\ d = NodeRun(replies, i)
           /\ d = Decided(replies, a, i)
           /\ a.used <= Len(replies) /\ d.used <= Len(replies)
           /\ i \in GateCalls /\ i - 1 \in 0..NumCalls /\ i \in 0..NumCalls
           /\ Goes(replies, a, d, i)
<1>1. i - 1 \in 0..NumCalls /\ i \in 0..NumCalls /\ i \in GateCalls
  BY DEF GateCalls
<1>2. PICK a : a = NodeRun(replies, i - 1)
  OBVIOUS
<1>3. PICK d : d = Decided(replies, a, i)
  OBVIOUS
<1>4. d = NodeRun(replies, i)
  BY <1>2, <1>3, WalkStep
<1>5. a \in WalkStates /\ a.used <= Len(replies)
  BY <1>1, <1>2, WalkTypes
<1>6. d \in WalkStates /\ d.used <= Len(replies) /\ Goes(replies, a, d, i)
  BY <1>1, <1>3, <1>5, DecidedShape
<1>. QED
  BY <1>1, <1>2, <1>3, <1>4, <1>5, <1>6

LEMMA WalkAgrees ==
  ASSUME NEW part, NEW whole, Begins(part, whole), NumCalls \in Nat
  PROVE  \A i \in 0..NumCalls :
           NodeRun(whole, i).stop = 0 /\ NodeRun(whole, i).used <= Len(part)
           => NodeRun(part, i) = NodeRun(whole, i)
<1> DEFINE T == {i \in 0..NumCalls :
                   NodeRun(whole, i).stop = 0 /\ NodeRun(whole, i).used <= Len(part)
                   => NodeRun(part, i) = NodeRun(whole, i)}
<1>0. part \in Seq(Replies) /\ whole \in Seq(Replies)
  BY DEF Begins
<1>1. 0 \in T
  <2>1. NodeRun(whole, 0) = WalkStart /\ NodeRun(part, 0) = WalkStart
    BY WalkStep
  <2>. QED
    BY <2>1
<1>2. ASSUME NEW i \in 1..NumCalls, i - 1 \in T PROVE i \in T
  <2>1. PICK a \in WalkStates, d \in WalkStates :
          /\ a = NodeRun(whole, i - 1) /\ d = NodeRun(whole, i)
          /\ d = Decided(whole, a, i)
          /\ i \in GateCalls /\ i \in 0..NumCalls
          /\ Goes(whole, a, d, i)
    BY <1>0, WalkOn
  <2>2. SUFFICES ASSUME d.stop = 0, d.used <= Len(part) PROVE NodeRun(part, i) = d
    BY <2>1
  <2>3. a.stop = 0 /\ a.used <= Len(part)
    <3>1. i # 0 /\ a.used \in Nat /\ d.used \in Nat /\ Len(part) \in Nat
      BY <1>0, <2>1 DEF WalkStates
    <3>2. Stop(a, i).stop = i
      BY DEF Stop, WalkStates
    <3>. QED
      BY <2>1, <2>2, <3>1, <3>2 DEF Heard, Goes
  <2>4. NodeRun(part, i - 1) = a
    BY <1>2, <2>1, <2>3
  <2>5. Decided(part, a, i) = d
    BY <2>1, <2>2, <2>3, DecidedAgrees
  <2>. QED
    BY <2>4, <2>5, WalkStep
<1>. HIDE DEF T
<1>3. \A i \in 0..NumCalls : i \in T
  BY <1>1, <1>2, CountUp
<1>. QED
  BY <1>3 DEF T

\* Where the walk stopped it stays.
LEMMA WalkStops ==
  ASSUME NEW replies, NEW i \in 0..NumCalls, NodeRun(replies, i).stop # 0, NumCalls \in Nat
  PROVE  NodeRun(replies, NumCalls).stop = NodeRun(replies, i).stop
<1>0. PICK s : s = NodeRun(replies, i).stop /\ s # 0
  OBVIOUS
<1> DEFINE T == {k \in 0..NumCalls : i <= k => NodeRun(replies, k).stop = s}
<1>1. 0 \in T
  <2>1. i <= 0 => i = 0
    OBVIOUS
  <2>. QED
    BY <1>0, <2>1
<1>2. ASSUME NEW k \in 1..NumCalls, k - 1 \in T PROVE k \in T
  <2>1. SUFFICES ASSUME i <= k, k # i PROVE NodeRun(replies, k).stop = s
    BY <1>0
  <2>2. i <= k - 1
    BY <2>1
  <2>3. NodeRun(replies, k - 1).stop = s
    BY <1>2, <2>2
  <2>4. NodeRun(replies, k) = NodeRun(replies, k - 1)
    BY <1>0, <2>3, WalkStep DEF Decided
  <2>. QED
    BY <2>3, <2>4
<1>. HIDE DEF T
<1>3. \A k \in 0..NumCalls : k \in T
  BY <1>1, <1>2, CountUp
<1>4. NumCalls \in T
  BY <1>3
<1>. QED
  BY <1>0, <1>4 DEF T

-----------------------------------------------------------------------------
(* Each answer answers the question that the walk with the answers before  *)
(* it stops at.                                                            *)
Before(replies, k) == SubSeq(replies, 1, k - 1)
Consistent(replies) ==
  \A k \in 1..Len(replies) : NodeRun(Before(replies, k), NumCalls).stop = replies[k].call

LEMMA BeforeBegins ==
  ASSUME NEW replies \in Seq(Replies), NEW k \in 1..Len(replies) + 1
  PROVE  Begins(Before(replies, k), replies) /\ Len(Before(replies, k)) = k - 1
<1>1. k - 1 \in 0..Len(replies) /\ Len(replies) \in Nat
  OBVIOUS
<1>2. /\ Before(replies, k) \in Seq(Replies)
      /\ Len(Before(replies, k)) = k - 1
      /\ \A j \in 1..k - 1 : Before(replies, k)[j] = replies[j]
  BY <1>1 DEF Before
<1>. QED
  BY <1>1, <1>2 DEF Begins

\* So the node gives an answer to the call that asked for it.
LEMMA AnswerIsItsOwn ==
  ASSUME NEW replies \in Seq(Replies), Consistent(replies), NEW i \in 1..NumCalls, NumCalls \in Nat,
         Heard(replies, NodeRun(replies, i - 1), NodeRun(replies, i), i)
  PROVE  replies[NodeRun(replies, i - 1).used + 1].call = i
<1>1. PICK a \in WalkStates, d \in WalkStates :
        /\ a = NodeRun(replies, i - 1) /\ d = NodeRun(replies, i)
        /\ d = Decided(replies, a, i)
        /\ i \in GateCalls /\ i \in 0..NumCalls /\ i - 1 \in 0..NumCalls
  BY WalkOn
<1>2. Heard(replies, a, d, i)
  BY <1>1
<1>3. a.used + 1 \in 1..Len(replies) /\ a.used \in Nat /\ a.stop = 0
      /\ d.stop = 0 /\ d.used = a.used + 1
  BY <1>2 DEF Heard, WalkStates
<1>4. PICK k \in 1..Len(replies) : k = a.used + 1
  BY <1>3
<1>10. PICK part : part = Before(replies, k)
  OBVIOUS
<1>5. Begins(part, replies) /\ Len(part) = a.used
  <2>1. k \in 1..Len(replies) + 1
    OBVIOUS
  <2>2. Begins(part, replies) /\ Len(part) = k - 1
    BY <1>10, <2>1, BeforeBegins
  <2>. QED
    BY <1>3, <1>4, <2>2
<1>6. NodeRun(part, i - 1) = a
  <2>1. NodeRun(replies, i - 1).stop = 0 /\ NodeRun(replies, i - 1).used <= Len(part)
        => NodeRun(part, i - 1) = NodeRun(replies, i - 1)
    BY <1>1, <1>5, WalkAgrees
  <2>. QED
    BY <1>1, <1>3, <1>5, <2>1
<1>7. Decided(part, a, i).stop = i
  <2>1. PICK c \in GateCalls : c = i
    BY <1>1
  <2>2. Decided(replies, a, c).used # a.used /\ a.used = Len(part)
    BY <1>1, <1>3, <1>5, <2>1
  <2>3. Decided(part, a, c).stop = c
    BY <2>2, DecidedStops
  <2>. QED
    BY <2>1, <2>3, Zenon
<1>8. NodeRun(part, i).stop = i
  BY <1>6, <1>7, WalkStep
<1>9. NodeRun(part, NumCalls).stop = i
  <2>1. i # 0
    OBVIOUS
  <2>. QED
    BY <1>1, <1>8, <2>1, WalkStops
<1>. QED
  BY <1>1, <1>4, <1>9, <1>10 DEF Consistent

\* After i calls: what runs was not refused, what was granted was allowed.
Kept(replies, a, i) ==
  /\ a.run \subseteq 1..i /\ a.granted \subseteq 1..i
  /\ \A k \in 1..a.used : replies[k].call <= i
  /\ \A j \in a.run : \A k \in 1..a.used : replies[k] # [call |-> j, says |-> "deny"]
  /\ \A j \in a.granted : \E k \in 1..a.used : replies[k] = [call |-> j, says |-> "allow"]

LEMMA WalkKeeps ==
  ASSUME NEW replies \in Seq(Replies), Consistent(replies), NumCalls \in Nat
  PROVE  \A i \in 0..NumCalls : Kept(replies, NodeRun(replies, i), i)
<1> DEFINE T == {i \in 0..NumCalls : Kept(replies, NodeRun(replies, i), i)}
<1>1. 0 \in T
  <2>1. Kept(replies, WalkStart, 0)
    BY DEF Kept, WalkStart
  <2>2. NodeRun(replies, 0) = WalkStart
    BY WalkStep
  <2>. QED
    BY <2>1, <2>2
<1>2. ASSUME NEW i \in 1..NumCalls, i - 1 \in T PROVE i \in T
  <2>1. PICK a \in WalkStates, d \in WalkStates :
          /\ a = NodeRun(replies, i - 1) /\ d = NodeRun(replies, i)
          /\ a.used <= Len(replies)
          /\ i \in 0..NumCalls
          /\ d = Decided(replies, a, i)
          /\ Goes(replies, a, d, i)
    BY WalkOn
  <2>0. a.used \in Nat /\ i \in Nat /\ 1..i - 1 \subseteq 1..i /\ i \in 1..i /\ i \notin 1..i - 1
    BY <2>1 DEF WalkStates
  <2>2. Kept(replies, a, i - 1)
    BY <1>2, <2>1
  <2>3. \A k \in 1..a.used : replies[k].call \in Nat /\ replies[k].call <= i - 1
                             /\ replies[k].call < i /\ replies[k].call <= i
    <3>1. ASSUME NEW k \in 1..a.used
          PROVE  /\ replies[k].call \in Nat /\ replies[k].call <= i - 1
                 /\ replies[k].call < i /\ replies[k].call <= i
      <4>1. k \in 1..Len(replies)
        BY <2>0, <2>1
      <4>2. PICK c \in GateCalls : c = replies[k].call
        <5>1. replies[k] \in Replies
          BY <4>1
        <5>. QED
          BY <5>1 DEF Replies
      <4>3. c <= i - 1
        BY <2>2, <4>2 DEF Kept
      <4>. QED
        BY <2>0, <4>2, <4>3 DEF GateCalls
    <3>. QED
      BY <3>1
  <2>4. \A k \in 1..a.used : replies[k] # [call |-> i, says |-> "deny"]
    BY <2>0, <2>3
  <2>5. ASSUME d.run \in {a.run, a.run \cup {i}}, d.granted = a.granted, d.used = a.used
        PROVE  Kept(replies, d, i)
    <3>1. d.run \subseteq 1..i /\ d.granted \subseteq 1..i
      BY <2>0, <2>2, <2>5 DEF Kept
    <3>2. \A k \in 1..d.used : replies[k].call <= i
      BY <2>3, <2>5
    <3>3. \A j \in d.run : \A k \in 1..d.used : replies[k] # [call |-> j, says |-> "deny"]
      BY <2>2, <2>4, <2>5 DEF Kept
    <3>4. \A j \in d.granted : \E k \in 1..d.used : replies[k] = [call |-> j, says |-> "allow"]
      BY <2>2, <2>5 DEF Kept
    <3>. QED
      BY <3>1, <3>2, <3>3, <3>4 DEF Kept
  <2>6. ASSUME Heard(replies, a, d, i)
        PROVE  Kept(replies, d, i)
    <3>1. PICK r \in Replies : r = replies[a.used + 1]
      BY <2>0, <2>6 DEF Heard
    <3>2. r.call = i
      BY <2>1, <2>6, <3>1, AnswerIsItsOwn
    <3>3. /\ 1..d.used = 1..a.used \cup {a.used + 1}
          /\ a.used + 1 \in 1..d.used
      BY <2>0, <2>6 DEF Heard
    <3>4. \A k \in 1..d.used : k \in 1..a.used \/ replies[k] = r
      BY <3>1, <3>3
    <3>5. \A k \in 1..d.used : replies[k].call <= i
      BY <2>0, <2>3, <3>2, <3>4
    <3>6. \A j \in a.run : \A k \in 1..d.used : replies[k] # [call |-> j, says |-> "deny"]
      <4>1. ASSUME NEW j \in a.run, NEW k \in 1..d.used, replies[k] = [call |-> j, says |-> "deny"]
            PROVE  FALSE
        <5>1. k \notin 1..a.used
          BY <2>2, <4>1 DEF Kept
        <5>2. r.call = j
          BY <3>4, <4>1, <5>1
        <5>3. j \in 1..i - 1
          BY <2>2 DEF Kept
        <5>. QED
          BY <2>0, <3>2, <5>2, <5>3
      <4>. QED
        BY <4>1
    <3>7. \A j \in a.granted : \E k \in 1..d.used : replies[k] = [call |-> j, says |-> "allow"]
      BY <2>2, <3>3 DEF Kept
    <3>8. a.run \subseteq 1..i /\ a.granted \subseteq 1..i
      BY <2>0, <2>2 DEF Kept
    <3>9. CASE d.run = a.run /\ d.granted = a.granted
      BY <3>5, <3>6, <3>7, <3>8, <3>9 DEF Kept
    <3>10. CASE d.run = a.run \cup {i} /\ d.granted = a.granted \cup {i} /\ r.says = "allow"
      <4>1. r = [call |-> i, says |-> "allow"]
        BY <3>2, <3>10 DEF Replies
      <4>2. \A k \in 1..d.used : replies[k] # [call |-> i, says |-> "deny"]
        <5>2. r # [call |-> i, says |-> "deny"]
          BY <4>1
        <5>. QED
          BY <2>4, <3>4, <5>2
      <4>3. \E k \in 1..d.used : replies[k] = [call |-> i, says |-> "allow"]
        BY <3>1, <3>3, <4>1
      <4>4. d.run \subseteq 1..i /\ d.granted \subseteq 1..i
        BY <2>0, <3>8, <3>10
      <4>5. \A j \in d.run : \A k \in 1..d.used : replies[k] # [call |-> j, says |-> "deny"]
        BY <3>6, <3>10, <4>2
      <4>6. \A j \in d.granted : \E k \in 1..d.used : replies[k] = [call |-> j, says |-> "allow"]
        BY <3>7, <3>10, <4>3
      <4>. QED
        BY <3>5, <4>4, <4>5, <4>6 DEF Kept
    <3>. QED
      BY <2>6, <3>1, <3>9, <3>10 DEF Heard
  <2>7. \/ d.run \in {a.run, a.run \cup {i}} /\ d.granted = a.granted /\ d.used = a.used
        \/ Heard(replies, a, d, i)
    <3>1. /\ Stop(a, i).run = a.run /\ Stop(a, i).granted = a.granted
          /\ Stop(a, i).used = a.used
      BY DEF Stop, WalkStates
    <3>. QED
      BY <2>1, <3>1 DEF Goes
  <2>8. Kept(replies, d, i)
    BY <2>5, <2>6, <2>7
  <2>. QED
    BY <2>1, <2>8
<1>. HIDE DEF T
<1>3. \A i \in 0..NumCalls : i \in T
  BY <1>1, <1>2, CountUp
<1>. QED
  BY <1>3 DEF T


-----------------------------------------------------------------------------
(* The walk reads only the calls and the settings. *)

LEMMA DecidedStays ==
  ASSUME UNCHANGED <<calls, settings>>, NEW replies, NEW a, NEW i
  PROVE  Decided(replies, a, i)' = Decided(replies, a, i)
<1>1. PICK c : c = calls[i] /\ c = (calls[i])'
  OBVIOUS
<1>2. \A granted, matched : Evaluate(c, granted, matched)' = Evaluate(c, granted, matched)
  BY DEF Evaluate, ShellHardDeny, SandboxAllows, Unresolved, PathsInWorkspace
<1>3. AutoApproves(c)' = AutoApproves(c)
  BY DEF AutoApproves
<1>4. AskUser(replies, a, i)' = AskUser(replies, a, i)
  BY <1>1 DEF AskUser, Interrupted, Reply, Stop
<1>5. Approve(replies, a, i)' = Approve(replies, a, i)
  BY <1>1, <1>2, <1>3 DEF Approve, Interrupted, Reply, Stop
<1>. QED
  BY <1>1, <1>2, <1>3, <1>4, <1>5 DEF Decided

WalkSteps ==
  \A replies : /\ NodeRun(replies, 0) = WalkStart
               /\ \A i \in 1..NumCalls :
                    NodeRun(replies, i) = Decided(replies, NodeRun(replies, i - 1), i)

LEMMA WalkStepsAlways == WalkSteps
  BY GateAssumption, WalkStep DEF WalkSteps

LEMMA WalkStepsNext == WalkSteps'
  BY WalkStepsAlways, PTL

LEMMA WalkStays ==
  ASSUME UNCHANGED <<calls, settings>>, NEW replies
  PROVE  NodeRun(replies, NumCalls)' = NodeRun(replies, NumCalls)
<1> DEFINE T == {i \in 0..NumCalls : NodeRun(replies, i)' = NodeRun(replies, i)}
<1>1. 0 \in T
  BY GateAssumption, WalkStepsAlways, WalkStepsNext DEF WalkSteps
<1>2. ASSUME NEW i \in 1..NumCalls, i - 1 \in T PROVE i \in T
  <2>1. PICK b : b = NodeRun(replies, i - 1) /\ b = NodeRun(replies, i - 1)'
    BY <1>2
  <2>2. NodeRun(replies, i)' = Decided(replies, b, i)'
    BY <2>1, WalkStepsNext DEF WalkSteps
  <2>3. NodeRun(replies, i) = Decided(replies, b, i)
    BY <2>1, WalkStepsAlways DEF WalkSteps
  <2>. QED
    BY <2>2, <2>3, DecidedStays
<1>. HIDE DEF T
<1>3. NumCalls \in T
  BY GateAssumption, <1>1, <1>2, CountUp
<1>. QED
  BY <1>3 DEF T


-----------------------------------------------------------------------------
(* The invariant *)

GateStates == [pc : {"off", "run", "wait", "batch"}, asked : 0..NumCalls, replies : Seq(Replies),
               run : SUBSET GateCalls, matched : SUBSET GateCalls, granted : SUBSET GateCalls,
               started : SUBSET GateCalls, edited : BOOLEAN, edits : Nat]

\* What AnswersKept says, of the calls that may still start too.
CallsKept ==
  \A i \in gate.run \cup gate.started :
    /\ i \in gate.granted => \E k \in DOMAIN gate.replies :
                                gate.replies[k] = [call |-> i, says |-> "allow"]
    /\ \A k \in DOMAIN gate.replies : gate.replies[k] # [call |-> i, says |-> "deny"]

Asks == gate.pc \in {"run", "wait"}

AnswersInv ==
  /\ gate \in GateStates
  /\ Asks => gate.run = {} /\ gate.started = {}
  /\ gate.pc = "off" => gate.run = {} /\ gate.started = {} /\ ~gate.edited
  /\ gate.pc = "wait" => gate.asked # 0
  /\ ~gate.edited =>
       /\ Asks => Consistent(gate.replies)
       /\ gate.pc = "wait" => gate.asked = Walked.stop
       /\ CallsKept


\* When the node gets through, every answer was heard: a shorter walk had stopped.
LEMMA AllHeard ==
  ASSUME NEW replies \in Seq(Replies), Consistent(replies), NumCalls \in Nat,
         NodeRun(replies, NumCalls).stop = 0
  PROVE  NodeRun(replies, NumCalls).used = Len(replies)
<1>1. PICK d \in WalkStates : d = NodeRun(replies, NumCalls) /\ d.used <= Len(replies) /\ d.stop = 0
  <2>1. NumCalls \in 0..NumCalls
    OBVIOUS
  <2>. QED
    BY <2>1, WalkTypes
<1>2. SUFFICES ASSUME d.used # Len(replies) PROVE FALSE
  BY <1>1
<1>3. PICK k \in 1..Len(replies) : k = d.used + 1
  BY <1>1, <1>2 DEF WalkStates
<1>4. PICK part : part = Before(replies, k)
  OBVIOUS
<1>5. k \in 1..Len(replies) + 1
  OBVIOUS
<1>6. Begins(part, replies) /\ Len(part) = k - 1
  BY <1>4, <1>5, BeforeBegins
<1>7. d.used <= Len(part)
  BY <1>1, <1>3, <1>6 DEF WalkStates
<1>8. NodeRun(part, NumCalls) = d
  <2>1. NumCalls \in 0..NumCalls
    OBVIOUS
  <2>2. NodeRun(replies, NumCalls).stop = 0 /\ NodeRun(replies, NumCalls).used <= Len(part)
        => NodeRun(part, NumCalls) = NodeRun(replies, NumCalls)
    BY <1>6, <2>1, WalkAgrees
  <2>. QED
    BY <1>1, <1>7, <2>2
<1>9. replies[k] \in Replies /\ replies[k].call = 0
  BY <1>1, <1>4, <1>8 DEF Consistent
<1>. QED
  BY <1>9 DEF Replies, GateCalls

LEMMA ConsistentGrows ==
  ASSUME NEW replies \in Seq(Replies), Consistent(replies), NEW r \in Replies,
         NodeRun(replies, NumCalls).stop = r.call
  PROVE  Consistent(Append(replies, r))
<1>1. PICK more \in Seq(Replies) : more = Append(replies, r)
  BY AppendProperties
<1>2. PICK n \in Nat : n = Len(replies)
  OBVIOUS
<1>3. Len(more) = n + 1 /\ more[n + 1] = r /\ \A k \in 1..n : more[k] = replies[k]
  BY <1>1, <1>2
<1>4. \A k \in 1..n + 1 : Before(more, k) = Before(replies, k)
  <2>1. ASSUME NEW k \in 1..n + 1 PROVE Before(more, k) = Before(replies, k)
    <3>1. SubSeq(more, 1, k - 1) \in Seq(Replies) /\ SubSeq(replies, 1, k - 1) \in Seq(Replies)
      BY <1>2, <1>3
    <3>2. /\ Len(SubSeq(more, 1, k - 1)) = k - 1
          /\ Len(SubSeq(replies, 1, k - 1)) = k - 1
      BY <1>2, <1>3
    <3>3. \A j \in 1..k - 1 : SubSeq(more, 1, k - 1)[j] = SubSeq(replies, 1, k - 1)[j]
      BY <1>2, <1>3
    <3>. QED
      BY <3>1, <3>2, <3>3, SeqEqual DEF Before
  <2>. QED
    BY <2>1
<1>5. Before(replies, n + 1) = replies
  <2>1. n + 1 - 1 = n
    OBVIOUS
  <2>2. SubSeq(replies, 1, n) = replies
    BY <1>2
  <2>. QED
    BY <2>1, <2>2 DEF Before
<1>6. ASSUME NEW k \in 1..Len(more)
      PROVE  NodeRun(Before(more, k), NumCalls).stop = more[k].call
  <2>1. CASE k = n + 1
    BY <1>3, <1>4, <1>5, <2>1
  <2>2. CASE k # n + 1
    <3>1. k \in 1..n
      BY <1>3, <2>2
    <3>2. Before(more, k) = Before(replies, k) /\ more[k] = replies[k]
      BY <1>3, <1>4, <3>1
    <3>. QED
      BY <1>2, <3>1, <3>2 DEF Consistent
  <2>. QED
    BY <2>1, <2>2
<1>. QED
  BY <1>1, <1>6 DEF Consistent

LEMMA ConsistentStays ==
  ASSUME UNCHANGED <<calls, settings>>, NEW replies, Consistent(replies)
  PROVE  Consistent(replies)'
<1>1. ASSUME NEW k \in 1..Len(replies)
      PROVE  (NodeRun(Before(replies, k), NumCalls).stop = replies[k].call)'
  <2>1. PICK part : part = Before(replies, k)
    OBVIOUS
  <2>2. NodeRun(part, NumCalls)' = NodeRun(part, NumCalls)
    BY WalkStays
  <2>. QED
    BY <2>1, <2>2 DEF Consistent, Before
<1>. QED
  BY <1>1 DEF Consistent


LEMMA AnswersStart == GateInit => AnswersInv
<1>1. SUFFICES ASSUME GateInit PROVE AnswersInv
  OBVIOUS
<1>2. gate = [pc |-> "off", asked |-> 0, replies |-> <<>>, run |-> {}, matched |-> {},
              granted |-> {}, started |-> {}, edited |-> FALSE, edits |-> 0]
  BY <1>1 DEF GateInit, NodeStart
<1>3. <<>> \in Seq(Replies)
  OBVIOUS
<1>. QED
  BY <1>2, <1>3, GateAssumption DEF AnswersInv, GateStates, Asks, CallsKept

LEMMA ArriveKeeps ==
  ASSUME AnswersInv, NEW cs, NEW s, Arrive(cs, s)
  PROVE  AnswersInv'
<1>1. gate' = [pc |-> "run", asked |-> 0, replies |-> <<>>, run |-> {}, matched |-> {},
               granted |-> {}, started |-> {}, edited |-> FALSE, edits |-> 0]
  BY DEF Arrive, NodeStart
<1>2. <<>> \in Seq(Replies)
  OBVIOUS
<1>3. gate' \in GateStates
  BY <1>1, <1>2, GateAssumption DEF GateStates
<1>4. Consistent(gate.replies)'
  BY <1>1 DEF Consistent
<1>. QED
  BY <1>1, <1>3, <1>4 DEF AnswersInv, Asks, CallsKept

LEMMA RunNodeKeeps ==
  ASSUME AnswersInv, RunNode
  PROVE  AnswersInv'
<1>1. PICK rp \in Seq(Replies) : rp = gate.replies
  BY DEF AnswersInv, GateStates
<1>2. PICK d : d = NodeRun(rp, NumCalls)
  OBVIOUS
<1>3. d \in WalkStates /\ d = Walked
  <2>1. NumCalls \in 0..NumCalls
    BY GateAssumption
  <2>. QED
    BY <1>1, <1>2, <2>1, GateAssumption, WalkTypes DEF Walked
<1>4. CASE d.stop # 0
  <2>1. gate' = [gate EXCEPT !.pc = "wait", !.asked = d.stop]
    BY <1>3, <1>4 DEF RunNode
  <2>2. /\ gate' \in GateStates
        /\ gate'.pc = "wait" /\ gate'.asked = d.stop /\ gate'.replies = rp
        /\ gate'.run = gate.run /\ gate'.started = gate.started /\ gate'.edited = gate.edited
    BY <1>1, <1>3, <2>1 DEF AnswersInv, GateStates, WalkStates
  <2>3. NodeRun(rp, NumCalls)' = d
    BY <1>2, WalkStays DEF RunNode
  <2>4. Walked' = d
    BY <2>2, <2>3 DEF Walked
  <2>5. gate.run = {} /\ gate.started = {}
    BY DEF RunNode, AnswersInv, Asks
  <2>6. CallsKept'
    BY <2>2, <2>5 DEF CallsKept
  <2>7. ~gate.edited => Consistent(gate.replies)'
    <3>1. ~gate.edited => Consistent(rp)
      BY <1>1 DEF RunNode, AnswersInv, Asks
    <3>2. Consistent(rp) => Consistent(rp)'
      BY ConsistentStays DEF RunNode
    <3>. QED
      BY <2>2, <3>1, <3>2
  <2>. QED
    BY <1>4, <2>2, <2>4, <2>5, <2>6, <2>7 DEF AnswersInv
<1>5. CASE d.stop = 0
  <2>1. PICK m \in SUBSET GateCalls :
          gate' = [gate EXCEPT !.pc = "batch", !.run = d.run, !.granted = d.granted, !.matched = m]
    <3>1. gate' = [gate EXCEPT !.pc = "batch", !.run = d.run, !.granted = d.granted,
                               !.matched = {i \in GateCalls : AutoApproves(calls[i])}]
      BY <1>3, <1>5 DEF RunNode
    <3>2. {i \in GateCalls : AutoApproves(calls[i])} \in SUBSET GateCalls
      OBVIOUS
    <3>. QED
      BY <3>1, <3>2, Zenon
  <2>2. /\ gate' \in GateStates
        /\ gate'.pc = "batch" /\ gate'.run = d.run /\ gate'.granted = d.granted
        /\ gate'.started = gate.started /\ gate'.edited = gate.edited /\ gate'.replies = rp
    BY <1>1, <1>3, <2>1 DEF AnswersInv, GateStates, WalkStates
  <2>3. gate.started = {}
    BY DEF RunNode, AnswersInv, Asks
  <2>4. ASSUME ~gate.edited PROVE CallsKept'
    <3>1. Consistent(rp)
      BY <1>1, <2>4 DEF RunNode, AnswersInv, Asks
    <3>2. d.used = Len(rp)
      BY <1>2, <1>5, <3>1, GateAssumption, AllHeard
    <3>3. Kept(rp, d, NumCalls)
      <4>1. NumCalls \in 0..NumCalls
        BY GateAssumption
      <4>. QED
        BY <1>2, <3>1, <4>1, GateAssumption, WalkKeeps
    <3>4. DOMAIN rp = 1..d.used
      BY <3>2
    <3>5. /\ \A j \in d.run : \A k \in DOMAIN rp : rp[k] # [call |-> j, says |-> "deny"]
          /\ \A j \in d.granted : \E k \in DOMAIN rp : rp[k] = [call |-> j, says |-> "allow"]
      BY <3>3, <3>4 DEF Kept
    <3>. QED
      BY <2>2, <2>3, <3>5 DEF CallsKept
  <2>. QED
    BY <2>2, <2>4 DEF AnswersInv, Asks
<1>. QED
  BY <1>4, <1>5

LEMMA AnswerKeeps ==
  ASSUME AnswersInv, NEW says \in Says, Answer(says)
  PROVE  AnswersInv'
<1>1. PICK rp \in Seq(Replies) : rp = gate.replies
  BY DEF AnswersInv, GateStates
<1>2. PICK r \in Replies : r = [call |-> gate.asked, says |-> says]
  <2>1. gate.asked \in 0..NumCalls /\ gate.asked # 0
    BY DEF Answer, AnswersInv, GateStates
  <2>2. gate.asked \in GateCalls
    BY <2>1, GateAssumption DEF GateCalls
  <2>. QED
    BY <2>2 DEF Replies
<1>3. PICK more \in Seq(Replies) : more = Append(rp, r)
  BY AppendProperties
<1>4. gate' = [gate EXCEPT !.pc = "run", !.asked = 0, !.replies = more]
  BY <1>1, <1>2, <1>3 DEF Answer
<1>5. /\ gate' \in GateStates
      /\ gate'.pc = "run" /\ gate'.replies = more
      /\ gate'.run = gate.run /\ gate'.started = gate.started /\ gate'.edited = gate.edited
  <2>1. 0 \in 0..NumCalls /\ gate \in GateStates
    BY GateAssumption DEF AnswersInv
  <2>2. gate' \in GateStates
    BY <1>4, <2>1, Zenon DEF GateStates
  <2>. QED
    BY <1>4, <2>1, <2>2 DEF GateStates
<1>6. gate.run = {} /\ gate.started = {}
  BY DEF Answer, AnswersInv, Asks
<1>7. CallsKept'
  BY <1>5, <1>6 DEF CallsKept
<1>8. ASSUME ~gate.edited PROVE Consistent(gate.replies)'
  <2>1. Consistent(rp) /\ NodeRun(rp, NumCalls).stop = r.call
    BY <1>1, <1>2, <1>8 DEF Answer, AnswersInv, Asks, Walked
  <2>2. Consistent(more)
    BY <1>3, <2>1, ConsistentGrows
  <2>3. Consistent(more)'
    BY <2>2, ConsistentStays DEF Answer
  <2>. QED
    BY <1>5, <2>3
<1>. QED
  BY <1>5, <1>6, <1>7, <1>8 DEF AnswersInv

LEMMA InvokeKeeps ==
  ASSUME AnswersInv, NEW i \in GateCalls, Invoke(i)
  PROVE  AnswersInv'
<1>1. PICK started \in SUBSET GateCalls :
        /\ gate' = [gate EXCEPT !.run = @ \ {i}, !.started = started]
        /\ started \in {gate.started, gate.started \cup {i}}
  BY DEF Invoke, AnswersInv, GateStates
<1>2. /\ gate' \in GateStates
      /\ gate'.pc = "batch" /\ gate'.replies = gate.replies /\ gate'.granted = gate.granted
      /\ gate'.run = gate.run \ {i} /\ gate'.started = started /\ gate'.edited = gate.edited
  BY <1>1 DEF Invoke, AnswersInv, GateStates
<1>3. gate'.run \cup gate'.started \subseteq gate.run \cup gate.started
  BY <1>1, <1>2 DEF Invoke
<1>4. CallsKept => CallsKept'
  BY <1>2, <1>3 DEF CallsKept
<1>. QED
  BY <1>2, <1>4 DEF AnswersInv, Asks

\* An edit while nothing has been answered leaves nothing to contradict.
LEMMA EditKeeps ==
  ASSUME AnswersInv, NEW s, EditSettings(s)
  PROVE  AnswersInv'
<1>1. PICK e \in BOOLEAN :
        /\ gate' = [gate EXCEPT !.edits = @ + 1, !.edited = e]
        /\ ~e => ~gate.edited /\ ~Asking
        /\ gate.edited => e
        /\ e => gate.edited \/ Asking
  <2>1. PICK e : e = (gate.edited \/ Asking)
    OBVIOUS
  <2>2. e \in BOOLEAN
    BY <2>1, Zenon
  <2>. QED
    BY <2>1, <2>2 DEF EditSettings
<1>2. /\ gate' \in GateStates
      /\ gate'.pc = gate.pc /\ gate'.asked = gate.asked /\ gate'.replies = gate.replies
      /\ gate'.granted = gate.granted
      /\ gate'.run = gate.run /\ gate'.started = gate.started /\ gate'.edited = e
  <2>1. gate \in GateStates
    BY DEF AnswersInv
  <2>2. gate.edits + 1 \in Nat
    BY <2>1 DEF GateStates
  <2>3. gate' \in GateStates
    BY <1>1, <2>1, <2>2, Zenon DEF GateStates
  <2>. QED
    BY <1>1, <2>1, <2>3 DEF GateStates
<1>3. gate.pc = "off" => ~e
  BY <1>1 DEF AnswersInv, EditSettings, Asking
<1>4. ASSUME ~e PROVE (Asks => Consistent(gate.replies))'
  BY <1>1, <1>2, <1>4 DEF Asks, Asking, Consistent
<1>5. ~e => gate.pc # "wait"
  BY <1>1 DEF Asking
<1>6. CallsKept => CallsKept'
  BY <1>2 DEF CallsKept
<1>. QED
  BY <1>1, <1>2, <1>3, <1>4, <1>5, <1>6 DEF AnswersInv, Asks

LEMMA AnswersStep == AnswersInv /\ [GateNext]_gvars => AnswersInv'
<1>1. SUFFICES ASSUME AnswersInv, [GateNext]_gvars PROVE AnswersInv'
  OBVIOUS
<1>2. CASE \E cs \in [GateCalls -> Requests], s \in AllSettings : Arrive(cs, s)
  BY <1>1, <1>2, ArriveKeeps
<1>3. CASE RunNode
  BY <1>1, <1>3, RunNodeKeeps
<1>4. CASE \E says \in Says : Answer(says)
  BY <1>1, <1>4, AnswerKeeps
<1>5. CASE \E i \in GateCalls : Invoke(i)
  BY <1>1, <1>5, InvokeKeeps
<1>6. CASE \E s \in AllSettings : EditSettings(s)
  BY <1>1, <1>6, EditKeeps
<1>7. CASE UNCHANGED gvars
  <2>1. UNCHANGED <<calls, settings, gate>>
    BY <1>7 DEF gvars
  <2>2. PICK rp \in Seq(Replies) : rp = gate.replies /\ rp = gate'.replies
    BY <1>1, <2>1 DEF AnswersInv, GateStates
  <2>3. Consistent(rp) => Consistent(rp)'
    BY <2>1, ConsistentStays
  <2>4. NodeRun(rp, NumCalls)' = NodeRun(rp, NumCalls)
    BY <2>1, WalkStays
  <2>5. Walked' = Walked
    BY <2>2, <2>4 DEF Walked
  <2>6. Consistent(gate.replies) => Consistent(gate.replies)'
    BY <2>2, <2>3
  <2>7. CallsKept => CallsKept'
    BY <2>1 DEF CallsKept
  <2>. QED
    BY <1>1, <2>1, <2>5, <2>6, <2>7 DEF AnswersInv, Asks
<1>. QED
  BY <1>1, <1>2, <1>3, <1>4, <1>5, <1>6, <1>7 DEF GateNext, Says

\* A call runs only if it needs no approval or its own question was allowed, and no call
\* runs that the user refused, while the settings stay as they were (agent/nodes/tools.py call_tools,
\* tools/policy/gate.py evaluate_policy).
THEOREM AnswersAreKept == GateSpec => []AnswersMeetQuestions
<1>1. AnswersInv => AnswersMeetQuestions
  BY DEF AnswersInv, CallsKept, AnswersMeetQuestions, AnswersKept
<1>. QED
  BY <1>1, AnswersStart, AnswersStep, PTL DEF GateSpec

=============================================================================
