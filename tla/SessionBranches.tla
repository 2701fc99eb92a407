---------------------------- MODULE SessionBranches ----------------------------
(***************************************************************************)
(* Sends to one session over its ledger file: a submission is looked up, a *)
(* branch is forked or continued from its checkpoint, the message is       *)
(* accepted, and the turn writes its facts and moves the checkpoint of its *)
(* branch.  A send holds the session's execution lock until its stream     *)
(* ends; a turn that waits for the user has let go of it and is resumed    *)
(* without it.  Every call goes through one of several objects, each with  *)
(* an index of its own.  Writes may be cut short and the process may die.  *)
(***************************************************************************)
EXTENDS ConversationFiles

CONSTANTS
  Instances,   \* the SessionConversationFiles objects
  Bodies,      \* message contents
  MaxSends, MaxFaults,
  Callers,     \* the sends whose turn may define a tool call
  Resending    \* whether clients send an earlier submission again

ASSUME SendAssumption ==
  MaxSends \in Nat /\ MaxFaults \in Nat /\ Callers \subseteq 1..MaxSends /\ Resending \in BOOLEAN

Sends == 1..MaxSends

VARIABLES
  file,    \* ledger.jsonl
  index,   \* instance -> its index of the file
  ckpt,    \* branch -> cursor of the branch's checkpoint
  send,    \* send -> what was asked and how far it is
  busy,    \* the sends that hold the session's execution lock
  acked,   \* [seq, id] of every event a write call has returned
  faults

vars == <<file, index, ckpt, send, busy, acked, faults>>

NewSend == [pc |-> "new", sub |-> 0, body |-> "none", branch |-> Main,
            from |-> NoCursor, reply |-> 0]

Init ==
  /\ file = EmptyFile
  /\ index = [i \in Instances |-> NoIndex]
  /\ ckpt = [b \in Branches |-> NoCursor]
  /\ send = [r \in Sends |-> NewSend]
  /\ busy = {}
  /\ acked = {}
  /\ faults = 0

-----------------------------------------------------------------------------
(* A call on the files: load, maybe write, and keep the loaded index.      *)

Loaded(i) == Load(file, index[i]).index.recs

Reads(i) ==
  /\ file' = Load(file, index[i]).file
  /\ index' = [index EXCEPT ![i] = Load(file, index[i]).index]
  /\ UNCHANGED <<acked, faults>>

Writes(i, res, id) ==
  /\ file' = res.file
  /\ index' = [index EXCEPT ![i] = res.index]
  /\ acked' = IF res.result \in {"new", "known"} THEN acked \cup {[seq |-> res.seq, id |-> id]}
              ELSE acked
  /\ faults' = IF res.result = "error" THEN faults + 1 ELSE faults

WriteOutcomes == {"ok"} \cup IF faults < MaxFaults THEN {"torn", "unacked"} ELSE {}

\* A send that has ended keeps nothing of what was asked.
Goes(r, pc) == /\ send' = [send EXCEPT ![r] = IF pc \in {"refused", "failed", "done"}
                                              THEN [NewSend EXCEPT !.pc = pc]
                                              ELSE [@ EXCEPT !.pc = pc]]
               /\ busy' = IF pc \in {"checked", "ready", "running"} THEN busy ELSE busy \ {r}

\* The fork cursors a client can name: an event it has seen, by the branch
\* it has seen it on, and the start of a branch.
Cursors(recs) ==
  {Origin(b) : b \in Branches} \cup
  UNION {{[CursorOf(e) EXCEPT !.branch = b] : e \in Visible(recs, b)} : b \in KnownBranches(recs)}
ForkRequests(branch) ==
  IF branch = Main THEN {NoCursor}
  ELSE {NoCursor} \cup {c \in Cursors(file.lines) : c.branch /= branch}

\* A message has a submission id of its own, or one a client sends again.
SubmissionsOf(r) == {r} \cup {q \in Sends : Resending /\ q < r}

-----------------------------------------------------------------------------
(* A send.                                                                 *)

\* _session_execution and _existing_submission.
Begin(r, i) ==
  /\ send[r].pc = "new"
  /\ \A q \in Sends : q < r => send[q].pc /= "new"
  /\ busy = {}
  /\ \E sub \in SubmissionsOf(r), body \in Bodies, branch \in Branches :
     \E from \in ForkRequests(branch) :
       LET asked == [send[r] EXCEPT !.sub = sub, !.body = body, !.branch = branch, !.from = from]
           stored == FindSubmission(Loaded(i), sub)
       IN \/ /\ stored = {}
             /\ send' = [send EXCEPT ![r] = [asked EXCEPT !.pc = "checked"]]
             /\ busy' = {r}
          \/ \E e \in stored :
               /\ send' = [send EXCEPT ![r] =
                             IF e.body /= body \/ e.branch /= branch
                             THEN [NewSend EXCEPT !.pc = "refused"]
                             ELSE [asked EXCEPT !.pc = "answered", !.reply = e.turn]]
               /\ UNCHANGED busy
  /\ Reads(i)
  /\ UNCHANGED ckpt

\* _previous_for_branch with a cursor, refused.
RefuseFork(r, i) ==
  /\ send[r].pc = "checked" /\ send[r].from /= NoCursor
  /\ \/ ~Continuable(Loaded(i), send[r].from.branch, send[r].from.seq)
     \/ ~MayFork(Loaded(i), send[r].branch, send[r].from)
  /\ Goes(r, "refused")
  /\ Reads(i)
  /\ UNCHANGED ckpt

\* _previous_for_branch with a cursor: the history up to it is validated,
\* the fork is written unless it is there, the child's history validated.
Fork(r, i) ==
  LET b == send[r].branch
      from == send[r].from
      known == b \in KnownBranches(Loaded(i))
  IN /\ send[r].pc = "checked" /\ from /= NoCursor
     /\ Continuable(Loaded(i), from.branch, from.seq)
     /\ MayFork(Loaded(i), b, from)
     /\ \/ /\ known
           /\ Goes(r, IF Continuable(Loaded(i), b, Len(Loaded(i))) THEN "ready" ELSE "refused")
           /\ Reads(i)
        \/ /\ ~known
           /\ \E write \in WriteOutcomes :
                LET res == AppendEvent(file, index[i], ForkEvent(b, from), write)
                IN /\ Writes(i, res, <<"forked", b>>)
                   /\ Goes(r, IF res.result = "new" THEN "ready" ELSE "failed")
     /\ UNCHANGED ckpt

Waiting(b) == \E q \in Sends : send[q].pc = "waiting" /\ send[q].branch = b

\* _previous_for_branch without a cursor: a branch with a checkpoint, and
\* the main branch, go on from what recovery makes of the ledger.
Continue(r, i) ==
  LET b == send[r].branch
      recs == Loaded(i)
      open == OpenCalls(Visible(recs, b))
      fresh == ckpt[b] = NoCursor /\ b /= Main
  IN /\ send[r].pc = "checked" /\ send[r].from = NoCursor
     /\ \/ /\ open = {} \/ fresh \/ Waiting(b)
           /\ Goes(r, IF (fresh /\ ~Continuable(recs, b, Len(recs))) \/ (~fresh /\ Waiting(b))
                      THEN "refused" ELSE "ready")
           /\ Reads(i)
        \/ /\ open /= {} /\ ~fresh /\ ~Waiting(b)
           /\ \E turn \in open, write \in WriteOutcomes :
                LET res == AppendEvent(file, index[i], Event("result", turn, b), write)
                IN /\ Writes(i, res, <<"result", turn>>)
                   /\ Goes(r, IF res.result = "new" THEN "checked" ELSE "failed")
     /\ UNCHANGED ckpt

\* _new_run_state: the message id must be new, then the message is accepted.
Accept(r, i) ==
  LET e == MessageEvent(r, send[r].branch, send[r].sub, send[r].body)
  IN /\ send[r].pc = "ready"
     /\ IF Stored(Loaded(i), e.id) /= {}
        THEN Goes(r, "refused") /\ Reads(i)
        ELSE \E write \in WriteOutcomes :
               LET res == AppendMessage(file, index[i], e, write)
               IN /\ Writes(i, res, e.id)
                  /\ Goes(r, IF res.result = "new" THEN "running" ELSE "failed")
     /\ UNCHANGED ckpt

-----------------------------------------------------------------------------
(* The turn the send has started.                                          *)

\* The turn defines a call, or settles the one it has unless another path did.
Work(r, i, type) ==
  LET mine == Visible(Loaded(i), send[r].branch)
      e == Event(type, r, send[r].branch)
  IN /\ send[r].pc = "running" /\ r \in Callers
     /\ r \notin TurnsWith(mine, type)
     /\ type = "result" => r \in TurnsWith(mine, "call")
     /\ \E write \in WriteOutcomes :
          LET res == AppendEvent(file, index[i], e, write)
          IN /\ Writes(i, res, e.id)
             /\ Goes(r, IF res.result = "new" THEN "running" ELSE "failed")
     /\ UNCHANGED ckpt

\* A node has finished: its checkpoint points at the end of the branch.
SaveCheckpoint(r, i) ==
  /\ send[r].pc = "running"
  /\ ckpt' = [ckpt EXCEPT ![send[r].branch] = LedgerPointer(Loaded(i), send[r].branch)]
  /\ Reads(i)
  /\ UNCHANGED <<send, busy>>

\* The open call needs the user: the waiting checkpoint is saved, the
\* stream ends and the lock is free.
Wait(r, i) ==
  /\ send[r].pc = "running"
  /\ r \in OpenCalls(ToSet(Loaded(i)))
  /\ ckpt' = [ckpt EXCEPT ![send[r].branch] = LedgerPointer(Loaded(i), send[r].branch)]
  /\ Goes(r, "waiting")
  /\ Reads(i)

\* The answer: the turn goes on without the lock.
Resume(r) ==
  /\ send[r].pc = "waiting"
  /\ Goes(r, "running")
  /\ UNCHANGED <<file, index, ckpt, acked, faults>>

\* The turn is over and its last node has saved the end of the branch.
Finish(r) ==
  /\ send[r].pc = "running"
  /\ r \notin OpenCalls(ToSet(file.lines))
  /\ ckpt[send[r].branch] = LedgerPointer(file.lines, send[r].branch)
  /\ Goes(r, "done")
  /\ UNCHANGED <<file, index, ckpt, acked, faults>>

\* The process dies; what it had written stays.
Crash ==
  /\ faults < MaxFaults
  /\ faults' = faults + 1
  /\ index' = [i \in Instances |-> NoIndex]
  /\ send' = [r \in Sends |-> IF send[r].pc \in {"checked", "ready", "running"}
                              THEN [NewSend EXCEPT !.pc = "failed"] ELSE send[r]]
  /\ busy' = {}
  /\ UNCHANGED <<file, ckpt, acked>>

Next ==
  \/ \E r \in Sends, i \in Instances :
       \/ Begin(r, i) \/ RefuseFork(r, i) \/ Fork(r, i) \/ Continue(r, i) \/ Accept(r, i)
       \/ Work(r, i, "call") \/ Work(r, i, "result") \/ SaveCheckpoint(r, i)
       \/ Wait(r, i)
  \/ \E r \in Sends : Resume(r) \/ Finish(r)
  \/ Crash

Spec == Init /\ [][Next]_vars

-----------------------------------------------------------------------------
(* Properties.                                                             *)

\* Every variable keeps its type.
TypeOK ==
  /\ file.torn \in BOOLEAN
  /\ \A k \in 1..Len(file.lines) : /\ file.lines[k].branch \in Branches
                                   /\ file.lines[k].turn \in Sends \cup {0}
  /\ DOMAIN index = Instances
  /\ \A b \in Branches : ckpt[b].branch \in Branches /\ ckpt[b].seq \in Nat
  /\ \A r \in Sends : send[r].pc \in {"new", "checked", "ready", "running", "waiting", "answered",
                                      "refused", "failed", "done"}
  /\ busy \subseteq Sends
  /\ faults \in 0..MaxFaults

\* However many objects write, and wherever a write was cut short, the
\* file stays readable: line n carries sequence n and no event id twice.
Readable ==
  \A k \in 1..Len(file.lines) :
    /\ file.lines[k].seq = k
    /\ file.lines[k].id /= Garbled
    /\ \A j \in 1..(k - 1) : file.lines[j].id /= file.lines[k].id

\* An event whose write has returned stays at its sequence for good.
AckedStays == \A a \in acked : a.seq <= Len(file.lines) /\ file.lines[a.seq].id = a.id

\* A submission starts one turn at most, and a client that sends it again
\* is told of that turn.
SubmittedOnce ==
  /\ \A e, f \in ToSet(file.lines) :
       e.type = "accepted" /\ f.type = "accepted" /\ e.sub = f.sub => e.turn = f.turn
  /\ \A r \in Sends, e \in ToSet(file.lines) :
       e.type = "accepted" /\ send[r].pc = "answered" /\ e.sub = send[r].sub => e.turn = send[r].reply

\* What a branch shows never changes, and grows by its own events only: a
\* fork does not see what its parent or a sibling writes afterwards.
BranchesGrowAlone ==
  \A b \in KnownBranches(file.lines) :
    LET before == Visible(file.lines, b)
        after == Visible(file.lines, b)'
    IN /\ before \subseteq after
       /\ \A e \in after \ before : e.branch = b /\ \A f \in before : f.seq < e.seq

BranchesAreIsolated == [][file'.lines /= file.lines => BranchesGrowAlone]_vars

\* A checkpoint's cursor names an event its branch sees, so the checks of
\* recovery never reject a checkpoint the program itself has written.
CursorsHold ==
  \A b \in DOMAIN ckpt : ckpt[b] /= NoCursor =>
    \/ ckpt[b] = Origin(b)
    \/ \E e \in Visible(file.lines, b) : e.seq = ckpt[b].seq /\ e.id = ckpt[b].id

\* No branch is forked off in the middle of a tool call: what a child
\* inherits never holds a call without its result.
ForksAreSettled ==
  \A e \in Forks(file.lines) :
    OpenCalls(VisibleUpTo(file.lines, e.branch, e.seq)) = {}
=============================================================================
