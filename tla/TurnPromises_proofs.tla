------------------------- MODULE TurnPromises_proofs -------------------------
(***************************************************************************)
(* The ledger keeps the session's promises, for every number of turns,      *)
(* calls and requests, every set of gated calls and every bound on faults:  *)
(* TurnRuntime implements TurnPromises.                                     *)
(*                                                                         *)
(* The hard promise is that a completed turn has finished every call it has *)
(* begun.  The agent node that completes a turn does not look at the        *)
(* ledger; it is right because of where its thread can be: a graph that     *)
(* enters the agent node, whether it comes from a batch, from an answer or  *)
(* from a checkpoint attached after a crash, has left no worker behind      *)
(* (RunInv).  For a checkpoint this rests on what the replay of the rows    *)
(* behind its cursor finds (AttachInv, Sound), and on a checkpoint that     *)
(* waits being older than every start that is not finished (WaitInv).       *)
(***************************************************************************)
EXTENDS TurnRuntime_proofs

Begun(t, c)    == HasCall(ledger, "tool_start", t, <<t, c>>)
Finished(t, c) == Resulted(ledger, t, <<t, c>>)
Over(t)        == Settled(ledger, t)
Loose(t, c)    == Begun(t, c) /\ ~Finished(t, c)

Refused(L, t, id) ==
    \E i \in DOMAIN L : IsFor(L[i], "decision", t, id) /\ L[i].status = "deny"

-----------------------------------------------------------------------------
(* The inductive invariant.                                                *)

\* The checkpoint and every state of a graph are borne out by the ledger.
SoundInv ==
    /\ Sound(ledger, cp)
    /\ Sound(ledger, job.view)
    /\ \A t \in Turns : Sound(ledger, mem[t]) /\ Sound(ledger, upd[t])

\* Every row is of an accepted turn; a call is started, and asked for, by a row
\* of its own turn, and asked for only if it is gated.
RowOK(L, row) ==
    /\ Accepted(L, row.turn)
    /\ row.type \in {"ask", "tool_start"} => row.call[1] = row.turn
    /\ row.type = "ask" => row.call[2] \in Gated

RowsInv == \A i \in DOMAIN ledger : RowOK(ledger, ledger[i])

\* A turn that is queued is new; the threads and workers are of accepted turns,
\* and a worker that is done or left behind has its call settled.
ThreadsInv ==
    /\ \A t \in Turns : pc[t] = "queued" => ~Accepted(ledger, t)
    /\ \A t \in Turns : agent[t] # "none" => Accepted(ledger, t)
    /\ \A t \in Turns, c \in Calls :
          /\ work[<<t, c>>] # "none" => Accepted(ledger, t)
          /\ work[<<t, c>>] \in {"running", "left_running"} => Begun(t, c)
          /\ work[<<t, c>>] \in {"done", "left_begun", "left_running"} => Finished(t, c)

\* The node's state keeps no native interrupt; once a batch starts every call
\* has its decision, and every call that may run has its worker, so that all of
\* them are finished when the batch is back; the call asked about has its
\* request in the ledger.
PlaceInv ==
    \A t \in Turns :
        /\ mem[t].intr = NoPending
        /\ pc[t] \in {"batch", "settle"} => Undecided(t) = {}
        /\ pc[t] = "batch"  => \A c \in Runnable(t) : work[<<t, c>>] # "none"
        /\ pc[t] = "settle" => \A c \in Runnable(t) : Finished(t, c)
        /\ pc[t] = "ask" => \A c \in Calls : IsLeast(c, Undecided(t)) => Asked(ledger, t, <<t, c>>)

\* A checkpoint that waits at an interrupt is replaced before its turn's
\* coroutine can come to an end without it, and it has passed no start of a
\* call that is not finished.
WaitInv ==
    cp.intr # NoPending =>
        \A t \in Turns : cp.turn = t =>
            /\ pc[t] \in {"agent", "end"} => t \in put
            /\ pc[t] \notin {"queued", "accepted"}
            /\ pc[t] = "idle" => agent[t] = "none" /\ \A c \in Calls : work[<<t, c>>] = "none"
            /\ \A i \in DOMAIN ledger, c \in Calls :
                  i <= cp.seen /\ IsFor(ledger[i], "tool_start", t, <<t, c>>)
                      => Finished(t, c) \/ Over(t)

\* An attach that may make the turn wait again sees every call that is loose.
Attaching == Recovering /\ pc[job.task] = "idle"
AttachInv ==
    Attaching /\ cp.intr # NoPending =>
        /\ cp.turn = job.task /\ job.view.turn = job.task
        /\ ~Ended(job.view.status) /\ ~Over(job.task) =>
               \A c \in Calls : Loose(job.task, c) => job.view.calls[c] = "running"

\* The places of a graph whose agent node is not running: no thread of the
\* agent node, not even one left behind, is there to define other calls.
Placed   == {"accepted", "gate", "ask", "wait", "resuming", "batch", "settle"}
AloneInv == \A t \in Turns : pc[t] \in Placed => agent[t] = "none"

\* A turn that is not settled and is at one of these places, or has an agent
\* thread, waits for no worker outside of a batch, and a call that is loose is
\* one of the batch.
RunInv ==
    \A t \in Turns :
        ~Over(t) /\ (pc[t] \in Placed \/ agent[t] # "none") =>
            /\ pc[t] # "batch" => Answered(t)
            /\ \A c \in Calls : Loose(t, c) => work[<<t, c>>] = "running"

PromiseInv ==
    /\ SoundInv /\ RowsInv /\ ThreadsInv /\ PlaceInv
    /\ WaitInv /\ AttachInv /\ AloneInv /\ RunInv

-----------------------------------------------------------------------------
(* Which actions change what.                                              *)

\* The checkpoint is replaced by the state of a node, by an interrupt, or by
\* the update of a finalization.
LEMMA CpSteps ==
    ASSUME TypeInv, [Next]_vars
    PROVE  \/ cp' = cp
           \/ \E t \in Turns : \/ t \in put /\ t \notin put' /\ cp' = mem[t]
                             \/ WriteInterrupt(t) \/ UpdateState(t)
<1>1. CASE UNCHANGED vars \/ Crash \/ Recover
  BY <1>1 DEF vars, Crash, Recover
<1>2. ASSUME NEW t \in Turns, Coroutine(t)
      PROVE  cp' = cp \/ WriteInterrupt(t) \/ UpdateState(t)
  BY <1>2
  DEF Coroutine, BeginSend, RefuseSend, AcceptTurn, StartGraph, AgentReturns, AskInteraction,
      StartBatch, GateMismatch, BatchReturns, SettleDenied, FinishTools, EndRun, CommitDecision,
      RejectResume, ResumeGraph, Attach, SkipPhase, BeginPhase, RepairCall, RepairDone, Finalize
<1>3. ASSUME NEW t \in Turns, AgentThread(t) \/ ToolThreads(t) PROVE cp' = cp
  BY <1>3 DEF AgentThread, StartRequest, RequestFails, GiveUp, EndByAgent, Respond, AgentStep,
              ToolThreads, BeginCall, StartCall, FinishCall, LeaveCall, WorkStep
<1>4. ASSUME NEW t \in Turns, FlushCheckpoint(t) \/ User(t) \/ TimesOut(t)
      PROVE  cp' = cp \/ (t \in put /\ t \notin put' /\ cp' = mem[t])
  BY <1>4 DEF FlushCheckpoint, User, Submit, Cancel, LeaveGraph, BeginAttach, BeginResume,
              TimesOut, GraphTimeout, BatchTimeout
<1>. QED
  BY <1>1, <1>2, <1>3, <1>4 DEF Next

\* The state of a turn's graph is replaced by its acceptance, its nodes, the
\* commit of an answer and a crash.
LEMMA MemSteps ==
    ASSUME TypeInv, [Next]_vars, NEW t \in Turns
    PROVE  \/ mem'[t] = mem[t]
           \/ Crash
           \/ AcceptTurn(t) \/ AgentReturns(t) \/ FinishTools(t) \/ CommitDecision(t)
<1>0. mem \in [Turns -> Snapshots]
  BY DEF TypeInv, TypeOK
<1>1. CASE UNCHANGED vars \/ Crash \/ Recover
  BY <1>1 DEF vars, Recover
<1>2. ASSUME NEW u \in Turns, Coroutine(u)
      PROVE  mem'[t] = mem[t] \/ AcceptTurn(t) \/ AgentReturns(t) \/ FinishTools(t) \/ CommitDecision(t)
  <2>1. CASE AcceptTurn(u)
    BY <1>0, <2>1 DEF AcceptTurn
  <2>2. CASE AgentReturns(u)
    BY <1>0, <2>2 DEF AgentReturns
  <2>3. CASE FinishTools(u)
    <3>1. u = t \/ mem'[t] = mem[t]
      BY <1>0, <2>3 DEF FinishTools
    <3>. QED
      BY <2>3, <3>1
  <2>4. CASE CommitDecision(u)
    BY <1>0, <2>4 DEF CommitDecision
  <2>5. CASE ~(AcceptTurn(u) \/ AgentReturns(u) \/ FinishTools(u) \/ CommitDecision(u))
    BY <1>2, <2>5
    DEF Coroutine, BeginSend, RefuseSend, StartGraph, AskInteraction, WriteInterrupt, StartBatch,
        GateMismatch, BatchReturns, SettleDenied, EndRun, RejectResume, ResumeGraph, Attach,
        SkipPhase, BeginPhase, RepairCall, RepairDone, Finalize, UpdateState
  <2>. QED
    BY <2>1, <2>2, <2>3, <2>4, <2>5
<1>3. ASSUME NEW u \in Turns, AgentThread(u) \/ ToolThreads(u) PROVE mem' = mem
  BY <1>3 DEF AgentThread, StartRequest, RequestFails, GiveUp, EndByAgent, Respond, AgentStep,
              ToolThreads, BeginCall, StartCall, FinishCall, LeaveCall, WorkStep
<1>4. ASSUME NEW u \in Turns, FlushCheckpoint(u) \/ User(u) \/ TimesOut(u) PROVE mem' = mem
  BY <1>4 DEF FlushCheckpoint, User, Submit, Cancel, LeaveGraph, BeginAttach, BeginResume,
              TimesOut, GraphTimeout, BatchTimeout
<1>. QED
  BY <1>1, <1>2, <1>3, <1>4 DEF Next

\* The update of a finalization is prepared by its own coroutine.
LEMMA UpdSteps ==
    ASSUME TypeInv, [Next]_vars, NEW t \in Turns
    PROVE  upd'[t] = upd[t] \/ upd'[t] = NoUpdate \/ RepairDone(t) \/ Finalize(t)
<1>0. upd \in [Turns -> Snapshots]
  BY DEF TypeInv, TypeOK
<1>1. CASE UNCHANGED vars \/ Crash \/ Recover
  BY <1>1 DEF vars, Crash, Recover
<1>2. ASSUME NEW u \in Turns, Coroutine(u)
      PROVE  upd'[t] = upd[t] \/ upd'[t] = NoUpdate \/ RepairDone(t) \/ Finalize(t)
  <2>1. CASE RepairDone(u)
    BY <1>0, <2>1 DEF RepairDone
  <2>2. CASE Finalize(u)
    <3>1. u = t \/ upd'[t] = upd[t]
      BY <1>0, <2>2 DEF Finalize
    <3>. QED
      BY <2>2, <3>1
  <2>3. CASE UpdateState(u)
    BY <1>0, <2>3 DEF UpdateState
  <2>4. CASE ~(RepairDone(u) \/ Finalize(u) \/ UpdateState(u))
    BY <1>2, <2>4
    DEF Coroutine, BeginSend, RefuseSend, AcceptTurn, StartGraph, AgentReturns, AskInteraction,
        WriteInterrupt, StartBatch, GateMismatch, BatchReturns, SettleDenied, FinishTools, EndRun,
        CommitDecision, RejectResume, ResumeGraph, Attach, SkipPhase, BeginPhase, RepairCall
  <2>. QED
    BY <2>1, <2>2, <2>3, <2>4
<1>3. ASSUME NEW u \in Turns, AgentThread(u) \/ ToolThreads(u) PROVE upd' = upd
  BY <1>3 DEF AgentThread, StartRequest, RequestFails, GiveUp, EndByAgent, Respond, AgentStep,
              ToolThreads, BeginCall, StartCall, FinishCall, LeaveCall, WorkStep
<1>4. ASSUME NEW u \in Turns, FlushCheckpoint(u) \/ User(u) \/ TimesOut(u) PROVE upd' = upd
  BY <1>4 DEF FlushCheckpoint, User, Submit, Cancel, LeaveGraph, BeginAttach, BeginResume,
              TimesOut, GraphTimeout, BatchTimeout
<1>. QED
  BY <1>1, <1>2, <1>3, <1>4 DEF Next

\* The event loop is taken by a recovery or by the end of a batch; it is let go
\* of, or kept by the steps of a recovery.
LEMMA JobSteps ==
    ASSUME TypeInv, [Next]_vars
    PROVE  \/ job' = job
           \/ job' = NoJob
           \/ Recover
           \/ \E t \in Turns :
                 \/ job' = [NoJob EXCEPT !.task = t] /\ pc'[t] = "settle"
                 \/ BeginSend(t) \/ BeginPhase(t) \/ BeginAttach(t) \/ RepairCall(t)
                 \/ \E d \in Decision : BeginResume(t, d)
<1>0. pc \in [Turns -> PCs]
  BY DEF TypeInv, TypeOK
<1>1. CASE UNCHANGED vars \/ Crash \/ Recover
  BY <1>1 DEF vars, Crash
<1>2. ASSUME NEW t \in Turns, Coroutine(t)
      PROVE  \/ job' = job \/ job' = NoJob
             \/ job' = [NoJob EXCEPT !.task = t] /\ pc'[t] = "settle"
             \/ BeginSend(t) \/ BeginPhase(t) \/ RepairCall(t)
  <2>1. CASE StartBatch(t) \/ BatchReturns(t)
    BY <1>0, <2>1 DEF StartBatch, BatchReturns
  <2>2. CASE ~(StartBatch(t) \/ BatchReturns(t))
    BY <1>2, <2>2
    DEF Coroutine, RefuseSend, AcceptTurn, StartGraph, AgentReturns, AskInteraction,
        WriteInterrupt, GateMismatch, SettleDenied, FinishTools, EndRun, CommitDecision,
        RejectResume, ResumeGraph, Attach, SkipPhase, RepairDone, Finalize, UpdateState
  <2>. QED
    BY <2>1, <2>2
<1>3. ASSUME NEW u \in Turns, AgentThread(u) \/ ToolThreads(u) PROVE job' = job
  BY <1>3 DEF AgentThread, StartRequest, RequestFails, GiveUp, EndByAgent, Respond, AgentStep,
              ToolThreads, BeginCall, StartCall, FinishCall, LeaveCall, WorkStep
<1>4. ASSUME NEW t \in Turns, FlushCheckpoint(t) \/ User(t) \/ TimesOut(t)
      PROVE  job' = job \/ BeginAttach(t) \/ \E d \in Decision : BeginResume(t, d)
  BY <1>4 DEF FlushCheckpoint, User, Submit, Cancel, LeaveGraph,
              TimesOut, GraphTimeout, BatchTimeout
<1>. QED
  BY <1>1, <1>2, <1>3, <1>4 DEF Next

\* A thread of the agent node is started by the start of the graph and by the
\* end of the tools node.
LEMMA AgentSteps ==
    ASSUME TypeInv, [Next]_vars, NEW t \in Turns, agent'[t] # agent[t]
    PROVE  \/ StartGraph(t) \/ FinishTools(t)
           \/ agent'[t] = "none" /\ (Crash \/ AgentReturns(t))
           \/ agent[t] # "none" /\ AgentThread(t)
<1>0. agent \in [Turns -> AgentPC]
  BY DEF TypeInv, TypeOK
<1>1. CASE UNCHANGED vars \/ Crash \/ Recover
  BY <1>1 DEF vars, Crash, Recover
<1>2. ASSUME NEW u \in Turns, Coroutine(u)
      PROVE  StartGraph(t) \/ FinishTools(t) \/ (agent'[t] = "none" /\ AgentReturns(t))
  <2>1. CASE StartGraph(u)
    BY <1>0, <2>1 DEF StartGraph
  <2>2. CASE AgentReturns(u)
    <3>1. agent' = [agent EXCEPT ![u] = "none"]
      BY <2>2 DEF AgentReturns
    <3>2. u = t
      BY <1>0, <3>1
    <3>. QED
      BY <1>0, <2>2, <3>1, <3>2
  <2>3. CASE FinishTools(u)
    <3>1. u = t \/ agent'[t] = agent[t]
      BY <1>0, <2>3 DEF FinishTools
    <3>. QED
      BY <2>3, <3>1
  <2>4. CASE ~(StartGraph(u) \/ AgentReturns(u) \/ FinishTools(u))
    BY <1>2, <2>4
    DEF Coroutine, BeginSend, RefuseSend, AcceptTurn, AskInteraction, WriteInterrupt, StartBatch,
        GateMismatch, BatchReturns, SettleDenied, EndRun, CommitDecision, RejectResume,
        ResumeGraph, Attach, SkipPhase, BeginPhase, RepairCall, RepairDone, Finalize, UpdateState
  <2>. QED
    BY <2>1, <2>2, <2>3, <2>4
<1>3. ASSUME NEW u \in Turns, AgentThread(u) PROVE u = t /\ agent[t] # "none"
  <2>1. PICK from \in AgentPC \ {"none"}, to \in AgentPC : AgentStep(u, from, to)
    BY <1>3 DEF AgentThread, StartRequest, RequestFails, GiveUp, EndByAgent, Respond, AgentPC
  <2>. QED
    BY <1>0, <2>1 DEF AgentStep
<1>4. ASSUME NEW u \in Turns, ToolThreads(u) \/ FlushCheckpoint(u) \/ User(u) \/ TimesOut(u)
      PROVE  agent' = agent
  BY <1>4 DEF ToolThreads, BeginCall, StartCall, FinishCall, LeaveCall, WorkStep,
              FlushCheckpoint, User, Submit, Cancel, LeaveGraph, BeginAttach, BeginResume,
              TimesOut, GraphTimeout, BatchTimeout
<1>. QED
  BY <1>1, <1>2, <1>3, <1>4 DEF Next

\* A checkpoint write under way is done by the flush, dropped by leaving the
\* graph, which does it, or lost with the process.
LEMMA PutSteps ==
    ASSUME TypeInv, [Next]_vars, NEW t \in Turns, t \in put, t \notin put'
    PROVE  cp' = mem[t] \/ Crash
<1>1. CASE UNCHANGED vars \/ Crash \/ Recover
  BY <1>1 DEF vars, Recover
<1>2. ASSUME NEW u \in Turns, Coroutine(u) PROVE FALSE
  BY <1>2
  DEF Coroutine, BeginSend, RefuseSend, AcceptTurn, StartGraph, AgentReturns, AskInteraction,
      WriteInterrupt, StartBatch, GateMismatch, BatchReturns, SettleDenied, FinishTools, EndRun,
      CommitDecision, RejectResume, ResumeGraph, Attach, SkipPhase, BeginPhase, RepairCall,
      RepairDone, Finalize, UpdateState
<1>3. ASSUME NEW u \in Turns, AgentThread(u) \/ ToolThreads(u) PROVE FALSE
  BY <1>3 DEF AgentThread, StartRequest, RequestFails, GiveUp, EndByAgent, Respond, AgentStep,
              ToolThreads, BeginCall, StartCall, FinishCall, LeaveCall, WorkStep
<1>4. ASSUME NEW u \in Turns, FlushCheckpoint(u) \/ User(u) \/ TimesOut(u)
      PROVE  cp' = mem[t]
  BY <1>4 DEF FlushCheckpoint, User, Submit, Cancel, LeaveGraph, BeginAttach, BeginResume,
              TimesOut, GraphTimeout, BatchTimeout
<1>. QED
  BY <1>1, <1>2, <1>3, <1>4 DEF Next

\* A coroutine is moved by its own steps, and by a crash.
LEMMA PcSteps ==
    ASSUME TypeInv, [Next]_vars, NEW t \in Turns, pc'[t] # pc[t]
    PROVE  Crash \/ Coroutine(t) \/ Submit(t) \/ Cancel(t) \/ GraphTimeout(t)
<1>0. pc \in [Turns -> PCs]
  BY DEF TypeInv, TypeOK
<1>1. CASE UNCHANGED vars \/ Crash \/ Recover
  BY <1>1 DEF vars, Recover
<1>2. ASSUME NEW u \in Turns, Coroutine(u) PROVE u = t
  <2>1. \E p : pc' = pc \/ pc' = [pc EXCEPT ![u] = p]
    <3>1. CASE FinishTools(u) \/ StartBatch(u) \/ AgentReturns(u) \/ Attach(u)
      BY <3>1 DEF FinishTools, StartBatch, AgentReturns, Attach
    <3>2. CASE ~(FinishTools(u) \/ StartBatch(u) \/ AgentReturns(u) \/ Attach(u))
      BY <1>2, <3>2
      DEF Coroutine, BeginSend, RefuseSend, AcceptTurn, StartGraph, AskInteraction,
          WriteInterrupt, GateMismatch, BatchReturns, SettleDenied, EndRun, CommitDecision,
          RejectResume, ResumeGraph, SkipPhase, BeginPhase, RepairCall, RepairDone, Finalize,
          UpdateState
    <3>. QED
      BY <3>1, <3>2
  <2>. QED
    BY <1>0, <2>1
<1>3. ASSUME NEW u \in Turns, AgentThread(u) \/ ToolThreads(u) PROVE FALSE
  BY <1>3 DEF AgentThread, StartRequest, RequestFails, GiveUp, EndByAgent, Respond, AgentStep,
              ToolThreads, BeginCall, StartCall, FinishCall, LeaveCall, WorkStep
<1>4. ASSUME NEW u \in Turns, FlushCheckpoint(u) \/ User(u) \/ TimesOut(u)
      PROVE  u = t /\ (Submit(t) \/ Cancel(t) \/ GraphTimeout(t))
  BY <1>0, <1>4 DEF FlushCheckpoint, User, Submit, Cancel, LeaveGraph, BeginAttach, BeginResume,
              TimesOut, GraphTimeout, BatchTimeout
<1>. QED
  BY <1>1, <1>2, <1>3, <1>4 DEF Next

-----------------------------------------------------------------------------
(* What is written, and when it may be.                                    *)

\* A row that may be appended to the ledger as it is.
Fits(row) ==
    /\ row.type = "accepted" => ~Accepted(ledger, row.turn)
    /\ row.type # "accepted" => Accepted(ledger, row.turn)
    /\ row.type \in {"ask", "tool_start", "decision"} => row.call[1] = row.turn
    /\ row.type \in {"ask", "decision"} => row.call[2] \in Gated
    /\ row.type = "ask"      => ~Asked(ledger, row.turn, row.call)
    /\ row.type = "decision" => ~Decided(ledger, row.turn, row.call)
    /\ row.type = "tool_start" /\ row.call[2] \in Gated => Allowed(ledger, row.turn, row.call)
    /\ row.type = "tool_result" =>
          /\ ~Resulted(ledger, row.turn, row.call)
          /\ row.status = "succeeded" => HasCall(ledger, "tool_start", row.turn, row.call)
          /\ row.status = "denied"    => Refused(ledger, row.turn, row.call)
    /\ row.type = "terminal" =>
          /\ ~Over(row.turn)
          /\ row.status = "completed" => \A c \in Calls : Begun(row.turn, c) => Finished(row.turn, c)

\* Who settles a turn.
Settles(t) ==
    \/ Recover /\ FailRecovered
    \/ EndByAgent(t) \/ FinishTools(t)
    \/ \E u \in Turns : Finalize(u)

\* Who writes a row that says that something has begun, is asked or is over.
Signed(row) ==
    /\ row.type = "accepted"   => AcceptTurn(row.turn)
    /\ row.type = "ask"        => AskInteraction(row.turn)
    /\ row.type = "decision"   => CommitDecision(row.turn)
    /\ row.type = "terminal"   => Settles(row.turn)
    /\ row.type = "tool_start" => StartCall(row.turn, row.call[2])
    /\ row.type = "response"   => agent[row.turn] \in {"sent", "failed"}

Writes ==
    \/ ledger' = ledger
    \/ \E row \in Rows : ledger' = Append(ledger, row) /\ Fits(row) /\ Signed(row)

\* The append operations write rows that fit, if their callers may call them.
LEMMA ResultFits ==
    ASSUME NEW t \in Turns, NEW id \in CallIds, NEW s \in FinalResult, Accepted(ledger, t),
           s = "succeeded" => HasCall(ledger, "tool_start", t, id),
           s = "denied" => Refused(ledger, t, id),
           ledger' = SettleTool(ledger, t, id, s)
    PROVE  Writes
<1>1. ResultRow(t, id, s) \in Rows /\ LateRow(t, id, s) \in Rows
  BY RowsAreRows
<1>2. CASE ~Resulted(ledger, t, id)
  <2>1. ledger' = Append(ledger, ResultRow(t, id, s))
    BY <1>2 DEF SettleTool
  <2>2. Fits(ResultRow(t, id, s)) /\ Signed(ResultRow(t, id, s))
    BY <1>2 DEF Fits, Signed, ResultRow, Row
  <2>. QED
    BY <1>1, <2>1, <2>2 DEF Writes
<1>3. CASE Resulted(ledger, t, id)
  <2>1. ledger' = ledger \/ ledger' = Append(ledger, LateRow(t, id, s))
    BY <1>3 DEF SettleTool
  <2>2. Fits(LateRow(t, id, s)) /\ Signed(LateRow(t, id, s))
    BY DEF Fits, Signed, LateRow, Row
  <2>. QED
    BY <1>1, <2>1, <2>2 DEF Writes
<1>. QED
  BY <1>2, <1>3

LEMMA TerminalFits ==
    ASSUME NEW t \in Turns, NEW s \in Terminal, NEW y \in Reason, Accepted(ledger, t),
           s = "completed" /\ ~Over(t) => \A c \in Calls : Begun(t, c) => Finished(t, c),
           Settles(t),
           ledger' = TurnTerminal(ledger, t, s, y)
    PROVE  Writes
<1>1. TerminalRow(t, s, y) \in Rows
  BY RowsAreRows
<1>2. ~Over(t) => Fits(TerminalRow(t, s, y)) /\ Signed(TerminalRow(t, s, y))
  BY DEF Fits, Signed, TerminalRow, Row
<1>. QED
  BY <1>1, <1>2 DEF Writes, TurnTerminal, Over

LEMMA ModelFailedFits ==
    ASSUME NEW t \in Turns, NEW r \in Nat, Accepted(ledger, t),
           ledger' = ModelFailed(ledger, t, r)
    PROVE  Writes
<1>1. ModelFailedRow(t, r) \in Rows /\ Fits(ModelFailedRow(t, r)) /\ Signed(ModelFailedRow(t, r))
  BY RowsAreRows DEF Fits, Signed, ModelFailedRow, Row
<1>. QED
  BY <1>1 DEF Writes, ModelFailed

\* A decided call without consent has been refused.
LEMMA DecidedOrRefused ==
    ASSUME NEW L \in Seq(Rows), NEW t, NEW id, Decided(L, t, id), ~Allowed(L, t, id)
    PROVE  Refused(L, t, id)
<1>1. PICK i \in DOMAIN L : IsFor(L[i], "decision", t, id)
  BY DEF Decided, HasCall
<1>2. L[i].status \in Decision /\ L[i].status # "allow"
  <2>1. L[i] \in Rows
    BY ElementOfSeq
  <2>. QED
    BY <1>1, <2>1 DEF Rows, IsFor, IsOf, Allowed, Consents
<1>. QED
  BY <1>1, <1>2 DEF Refused, Decision

\* In whatever order coroutines, threads and failures come, the ledger grows
\* by at most one row, and by one that fits.
LEMMA StepWrites == TypeInv /\ GateInv /\ PromiseInv /\ [Next]_vars => Writes
<1> SUFFICES ASSUME TypeInv, GateInv, PromiseInv, [Next]_vars PROVE Writes
  OBVIOUS
<1>0. /\ TypeOK /\ ScopeOK /\ JobOK /\ SoundInv /\ ThreadsInv /\ PlaceInv
      /\ AloneInv /\ RunInv
      /\ ledger \in Seq(Rows) /\ job \in Jobs /\ job.view \in Snapshots
  BY DEF TypeInv, TypeOK, Jobs, PromiseInv
<1>1. CASE ledger' = ledger
  BY <1>1 DEF Writes
<1>2. ASSUME job.view.turn # NoTurn
      PROVE  job.view.turn \in Turns /\ Accepted(ledger, job.view.turn)
  BY <1>0, <1>2 DEF Snapshots, SoundInv, Sound
<1>3. ASSUME NEW t \in Turns, pc[t] \in InGraph PROVE Accepted(ledger, t)
  <2>1. mem[t].turn = t /\ t # NoTurn
    BY <1>0, <1>3 DEF ScopeOK, Turns, NoTurn
  <2>. QED
    BY <1>0, <2>1 DEF SoundInv, Sound
<1>4. CASE Recover
  <2>1. CASE job.view.turn = NoTurn
    <3>1. ~Live \/ (Uncertain = {} /\ NotStarted = {} /\ job.lost = {} /\ job.cause = "none"
                    /\ ~Stoppable)
      BY <1>0, <2>1 DEF Live, JobOK, Uncertain, NotStarted, Stoppable
    <3>. QED
      BY <1>4, <3>1 DEF Recover, SettleUncertain, SettleLostRequest, SettleSkipped,
                        FailRecovered, IsLeast, Live
  <2>2. CASE job.view.turn # NoTurn
    <3>1. /\ job.view.turn \in Turns /\ Accepted(ledger, job.view.turn)
          /\ \A c \in Calls : <<job.view.turn, c>> \in CallIds
      BY <1>2, <2>2 DEF CallIds
    <3>2. CASE SettleUncertain
      BY <3>1, <3>2, ResultFits DEF SettleUncertain, FinalResult
    <3>3. CASE SettleLostRequest
      BY <3>1, <3>3, ModelFailedFits DEF SettleLostRequest, Requests
    <3>4. CASE SettleSkipped
      BY <3>1, <3>4, ResultFits DEF SettleSkipped, FinalResult
    <3>5. CASE FailRecovered
      BY <1>4, <3>1, <3>5, TerminalFits DEF Settles, FailRecovered, FailReason, Reason, Terminal
    <3>. QED
      BY <1>4, <3>2, <3>3, <3>4, <3>5 DEF Recover
  <2>. QED
    BY <2>1, <2>2
<1>5. ASSUME NEW t \in Turns, Coroutine(t) PROVE Writes
  <2>1. CASE AcceptTurn(t)
    <3>1. AcceptedRow(t) \in Rows
      BY RowsAreRows
    <3>2. Fits(AcceptedRow(t)) /\ Signed(AcceptedRow(t))
      BY <1>0, <2>1 DEF AcceptTurn, ThreadsInv, Fits, Signed, AcceptedRow, Row
    <3>. QED
      BY <2>1, <3>1, <3>2 DEF AcceptTurn, Writes
  <2>2. CASE AskInteraction(t)
    <3>1. PICK c \in Calls : c \in Gated /\ ledger' = InteractionRequest(ledger, t, <<t, c>>)
      BY <2>2 DEF AskInteraction, IsLeast, Undecided
    <3>2. AskRow(t, <<t, c>>) \in Rows
      BY RowsAreRows DEF CallIds
    <3>3. Accepted(ledger, t)
      BY <1>3, <2>2 DEF AskInteraction, InGraph, GraphPC
    <3>4. ~Asked(ledger, t, <<t, c>>) => Fits(AskRow(t, <<t, c>>)) /\ Signed(AskRow(t, <<t, c>>))
      BY <2>2, <3>1, <3>3 DEF Fits, Signed, AskRow, Row
    <3>. QED
      BY <3>1, <3>2, <3>4 DEF Writes, InteractionRequest
  <2>3. CASE SettleDenied(t)
    <3>1. PICK c \in Calls : /\ c \in Unsettled(t)
                             /\ ledger' = SettleTool(ledger, t, <<t, c>>, "denied")
      BY <2>3 DEF SettleDenied, IsLeast
    <3>2. Accepted(ledger, t)
      BY <1>3, <2>3 DEF SettleDenied, InGraph
    <3>3. c \notin Undecided(t)
      BY <1>0, <2>3 DEF SettleDenied, PlaceInv
    <3>4. Refused(ledger, t, <<t, c>>)
      BY <1>0, <3>1, <3>3, DecidedOrRefused DEF Unsettled, Denied, Undecided
    <3>. QED
      BY <3>1, <3>2, <3>4, ResultFits DEF CallIds, FinalResult
  <2>4. CASE FinishTools(t)
    <3>1. \/ ledger' = ledger
          \/ ledger' = TurnTerminal(ledger, t, "failed", "execution_outcome_unknown")
      BY <2>4 DEF FinishTools
    <3>2. Accepted(ledger, t)
      BY <1>3, <2>4 DEF FinishTools, InGraph
    <3>. QED
      BY <1>1, <2>4, <3>1, <3>2, TerminalFits DEF Settles, Terminal, Reason
  <2>5. CASE CommitDecision(t)
    <3>1. /\ Recovering /\ job.task = t /\ pc[t] = "wait" /\ job.view.turn = t
          /\ job.view.pend # NoPending /\ job.decision \in Decision
      BY <1>0, <2>5 DEF CommitDecision, Recovered, Resumable, JobOK
    <3>2. t # NoTurn
      BY DEF Turns, NoTurn
    <3>3. Accepted(ledger, t) /\ job.view.pend \in Gated
      BY <1>0, <3>1, <3>2 DEF SoundInv, Sound
    <3> DEFINE id  == <<t, job.view.pend>>
               row == DecisionRow(t, id, job.decision)
    <3>4. row \in Rows
      <4>1. id \in CallIds
        BY <1>0, <3>1 DEF Snapshots, CallIds
      <4>. QED
        BY <3>1, <4>1, RowsAreRows
    <3>5. ~Decided(ledger, t, id) => Fits(row) /\ Signed(row)
      BY <2>5, <3>3 DEF Fits, Signed, DecisionRow, Row
    <3>6. ledger' = ledger \/ (~Decided(ledger, t, id) /\ ledger' = Append(ledger, row))
      BY <2>5 DEF CommitDecision
    <3>. HIDE DEF row
    <3>. QED
      BY <3>4, <3>5, <3>6 DEF Writes
  <2>6. CASE RepairCall(t)
    <3>1. Recovering /\ job.task = t /\ pc[t] \in {"repair", "repair2"}
      BY <2>6 DEF RepairCall, Recovered
    <3>2. job.view.turn \in Turns /\ Accepted(ledger, job.view.turn)
      BY <1>0, <1>2, <3>1 DEF JobOK
    <3>3. PICK id \in CallIds : ledger' = SettleTool(ledger, job.view.turn, id, "cancelled")
      BY <2>6 DEF RepairCall, Unrepaired, LastDefined
    <3>. QED
      BY <3>2, <3>3, ResultFits DEF FinalResult
  <2>7. CASE Finalize(t)
    <3>1. Recovering /\ job.task = t /\ pc[t] # "queued"
      BY <2>7 DEF Finalize, Recovered
    <3>2. job.view.turn \in Turns /\ Accepted(ledger, job.view.turn)
      BY <1>0, <1>2, <3>1 DEF JobOK
    <3> DEFINE kept == pc[t] \in {"mark", "mark2", "error"} /\ Ended(job.view.status)
    <3>3. ledger' = IF kept THEN ledger ELSE TurnTerminal(ledger, job.view.turn, Wanted(t), "")
      BY <2>7 DEF Finalize
    <3>4. ~kept => Wanted(t) \in {"failed", "cancelled"}
      BY <2>7 DEF Finalize, Wanted
    <3>. HIDE DEF kept
    <3>5. CASE kept
      BY <1>1, <3>3, <3>5
    <3>6. CASE ~kept
      BY <2>7, <3>2, <3>3, <3>4, <3>6, TerminalFits DEF Settles, Terminal, Reason
    <3>. QED
      BY <3>5, <3>6
  <2>8. CASE ~(\/ AcceptTurn(t) \/ AskInteraction(t) \/ SettleDenied(t) \/ FinishTools(t)
               \/ CommitDecision(t) \/ RepairCall(t) \/ Finalize(t))
    BY <1>1, <1>5, <2>8
    DEF Coroutine, BeginSend, RefuseSend, StartGraph, AgentReturns, WriteInterrupt, StartBatch,
        GateMismatch, BatchReturns, EndRun, RejectResume, ResumeGraph, Attach, SkipPhase,
        BeginPhase, RepairDone, UpdateState
  <2>. QED
    BY <2>1, <2>2, <2>3, <2>4, <2>5, <2>6, <2>7, <2>8
<1>6. ASSUME NEW t \in Turns, AgentThread(t) PROVE Writes
  <2>0. Started(ledger, t) \in Nat /\ NoReq \in Nat
    BY <1>0, StartedType DEF NoReq
  <2>1. Accepted(ledger, t) /\ agent[t] # "none"
    <3>1. agent[t] # "none"
      BY <1>6 DEF AgentThread, StartRequest, RequestFails, GiveUp, EndByAgent, Respond, AgentStep
    <3>. QED
      BY <1>0, <3>1 DEF ThreadsInv
  <2>2. ASSUME NEW row \in Rows, row.type \in {"model_start", "response"}, row.turn = t,
               row.type = "response" => agent[t] \in {"sent", "failed"},
               ledger' = Append(ledger, row)
        PROVE  Writes
    BY <2>1, <2>2 DEF Writes, Fits, Signed
  <2>3. CASE StartRequest(t)
    <3>1. ModelStartRow(t, Started(ledger, t) + 1) \in Rows
      BY <2>0, RowsAreRows
    <3>. QED
      BY <2>2, <2>3, <3>1 DEF StartRequest, ModelStartRow, Row
  <2>4. CASE RequestFails(t)
    BY <2>0, <2>1, <2>4, ModelFailedFits DEF RequestFails
  <2>5. ASSUME NEW r \in Nat, NEW S \in SUBSET Calls, agent[t] \in {"sent", "failed"},
               ledger' = Append(ledger, ResponseRow(t, r, S))
        PROVE  Writes
    <3>1. ResponseRow(t, r, S) \in Rows
      BY RowsAreRows
    <3>. QED
      BY <2>2, <2>5, <3>1 DEF ResponseRow, Row
  <2>6. CASE GiveUp(t)
    BY <2>0, <2>5, <2>6 DEF GiveUp, AgentStep
  <2>7. CASE EndByAgent(t)
    <3>1. ~Over(t) => \A c \in Calls : Begun(t, c) => Finished(t, c)
      <4> SUFFICES ASSUME ~Over(t) PROVE \A c \in Calls : ~Loose(t, c)
        BY DEF Loose
      <4>1. /\ pc[t] # "batch" => Answered(t)
            /\ pc[t] \in Placed => agent[t] = "none"
            /\ \A c \in Calls : Loose(t, c) => work[<<t, c>>] = "running"
        BY <1>0, <2>1 DEF RunInv, AloneInv
      <4>2. Answered(t)
        BY <2>1, <4>1 DEF Placed
      <4>. QED
        BY <4>1, <4>2 DEF Answered
    <3>. QED
      BY <2>1, <2>7, <3>1, TerminalFits DEF Settles, EndByAgent, Terminal, Reason
  <2>8. ASSUME NEW S \in SUBSET Uses[t], Respond(t, S) PROVE Writes
    <3>1. S \in SUBSET Calls
      BY BoundsAssumption
    <3>. QED
      BY <2>0, <2>5, <2>8, <3>1 DEF Respond, AgentStep
  <2>. QED
    BY <1>6, <2>3, <2>4, <2>6, <2>7, <2>8 DEF AgentThread
<1>7. ASSUME NEW t \in Turns, ToolThreads(t) PROVE Writes
  <2>1. PICK c \in Calls : BeginCall(t, c) \/ StartCall(t, c) \/ FinishCall(t, c) \/ LeaveCall(t, c)
    BY <1>7 DEF ToolThreads
  <2>2. work[<<t, c>>] # "none" /\ <<t, c>> \in CallIds
    BY <2>1 DEF BeginCall, StartCall, FinishCall, LeaveCall, WorkStep, CallIds
  <2>3. Accepted(ledger, t)
    BY <1>0, <2>2 DEF ThreadsInv
  <2>4. CASE BeginCall(t, c)
    BY <1>1, <2>4 DEF BeginCall
  <2>5. CASE StartCall(t, c)
    <3>1. c \in Gated => Allowed(ledger, t, <<t, c>>)
      BY <2>2 DEF GateInv
    <3>2. ToolStartRow(t, <<t, c>>) \in Rows /\ Fits(ToolStartRow(t, <<t, c>>)) /\ Signed(ToolStartRow(t, <<t, c>>))
      BY <2>2, <2>3, <2>5, <3>1, RowsAreRows DEF Fits, Signed, ToolStartRow, Row
    <3>. QED
      BY <2>5, <3>2 DEF StartCall, Writes
  <2>6. CASE FinishCall(t, c)
    <3>1. HasCall(ledger, "tool_start", t, <<t, c>>)
      BY <1>0, <2>6 DEF FinishCall, WorkStep, ThreadsInv, Begun
    <3>. QED
      BY <2>2, <2>3, <2>6, <3>1, ResultFits DEF FinishCall, FinalResult
  <2>7. CASE LeaveCall(t, c)
    BY <2>2, <2>3, <2>7, ResultFits DEF LeaveCall, FinalResult
  <2>. QED
    BY <2>1, <2>4, <2>5, <2>6, <2>7
<1>8. ASSUME NEW t \in Turns, FlushCheckpoint(t) \/ User(t) \/ TimesOut(t) PROVE ledger' = ledger
  BY <1>8 DEF FlushCheckpoint, User, Submit, Cancel, LeaveGraph, BeginAttach, BeginResume,
              TimesOut, GraphTimeout, BatchTimeout
<1>9. CASE UNCHANGED vars \/ Crash
  BY <1>1, <1>9 DEF vars, Crash
<1>. QED
  BY <1>1, <1>4, <1>5, <1>6, <1>7, <1>8, <1>9 DEF Next

\* What the ledger said it goes on saying.
LEMMA LedgerKeeps ==
    ASSUME ledger \in Seq(Rows), Writes
    PROVE  /\ ledger' \in Seq(Rows) /\ Len(ledger) <= Len(ledger')
           /\ \A i \in DOMAIN ledger : i \in DOMAIN ledger' /\ ledger'[i] = ledger[i]
           /\ \A type, t : Has(ledger, type, t) => Has(ledger', type, t)
           /\ \A type, t, id : HasCall(ledger, type, t, id) => HasCall(ledger', type, t, id)
           /\ \A t, c, x : Recorded(ledger, t, c, x) => Recorded(ledger', t, c, x)
<1>1. /\ ledger' \in Seq(Rows) /\ Len(ledger) <= Len(ledger')
      /\ \A i \in DOMAIN ledger : i \in DOMAIN ledger' /\ ledger'[i] = ledger[i]
  BY Grown DEF Writes
<1>2. \A type, t : Has(ledger, type, t) => Has(ledger', type, t)
  BY <1>1 DEF Has
<1>3. \A type, t, id : HasCall(ledger, type, t, id) => HasCall(ledger', type, t, id)
  BY <1>1 DEF HasCall
<1>4. \A t, c, x : Recorded(ledger, t, c, x) => Recorded(ledger', t, c, x)
  BY <1>1 DEF Recorded
<1>. QED
  BY <1>1, <1>2, <1>3, <1>4

LEMMA SoundStays ==
    ASSUME ledger \in Seq(Rows), Writes, NEW s \in Snapshots, Sound(ledger, s)
    PROVE  Sound(ledger', s)
<1>1. Len(ledger) <= Len(ledger') /\ Len(ledger) \in Nat /\ Len(ledger') \in Nat /\ s.seen \in Nat
  BY LedgerKeeps DEF Snapshots
<1>. QED
  BY <1>1, LedgerKeeps DEF Sound, Accepted, Asked, Resulted

\* A turn becomes accepted by its own hand.
LEMMA NewTurn ==
    ASSUME ledger \in Seq(Rows), Writes, NEW t, Accepted(ledger', t), ~Accepted(ledger, t)
    PROVE  AcceptTurn(t)
<1>1. PICK row \in Rows : ledger' = Append(ledger, row) /\ Signed(row)
  BY DEF Writes
<1>2. IsOf(row, "accepted", t)
  BY <1>1, GrownHas DEF Accepted
<1>. QED
  BY <1>1, <1>2 DEF Signed, IsOf

\* A call begins by the hand of its worker.
LEMMA NewStart ==
    ASSUME ledger \in Seq(Rows), Writes, NEW t, NEW c, Begun(t, c)', ~Begun(t, c)
    PROVE  StartCall(t, c)
<1>1. PICK row \in Rows : ledger' = Append(ledger, row) /\ Signed(row)
  BY DEF Writes, Begun
<1>2. IsFor(row, "tool_start", t, <<t, c>>)
  BY <1>1, GrownHasCall DEF Begun
<1>. QED
  BY <1>1, <1>2 DEF Signed, IsFor, IsOf

\* A call is decided by the answer its turn's coroutine commits.
LEMMA NewDecision ==
    ASSUME ledger \in Seq(Rows), Writes, NEW t, NEW id,
           Decided(ledger', t, id), ~Decided(ledger, t, id)
    PROVE  CommitDecision(t)
<1>1. PICK row \in Rows : ledger' = Append(ledger, row) /\ Signed(row)
  BY DEF Writes
<1>2. IsFor(row, "decision", t, id)
  BY <1>1, GrownHasCall DEF Decided
<1>. QED
  BY <1>1, <1>2 DEF Signed, IsFor, IsOf

LEMMA NewConsent ==
    ASSUME ledger \in Seq(Rows), Writes, NEW t, NEW id,
           Allowed(ledger', t, id), ~Allowed(ledger, t, id)
    PROVE  CommitDecision(t)
<1>1. PICK row \in Rows : ledger' = Append(ledger, row) /\ Signed(row)
  BY DEF Writes
<1>2. PICK i \in DOMAIN ledger' : Consents(ledger'[i], t, id)
  BY DEF Allowed
<1>3. i \notin DOMAIN ledger
  BY <1>1, <1>2, Grown DEF Allowed
<1>4. ledger'[i] = row
  <2>1. /\ DOMAIN ledger = 1 .. Len(ledger) /\ DOMAIN ledger' = 1 .. (Len(ledger) + 1)
        /\ Len(ledger) \in Nat /\ ledger'[Len(ledger) + 1] = row
    BY <1>1, Grown
  <2>2. i = Len(ledger) + 1
    BY <1>2, <1>3, <2>1
  <2>. QED
    BY <2>1, <2>2
<1>5. row.type = "decision" /\ row.turn = t
  BY <1>2, <1>4 DEF Consents, IsFor, IsOf
<1>. QED
  BY <1>1, <1>5 DEF Signed, IsOf

-----------------------------------------------------------------------------
(* Every part of the invariant is kept.                                    *)

LEMMA StepRows == ledger \in Seq(Rows) /\ RowsInv /\ Writes => RowsInv'
<1> SUFFICES ASSUME ledger \in Seq(Rows), RowsInv, Writes PROVE RowsInv'
  OBVIOUS
<1>1. CASE ledger' = ledger
  BY <1>1 DEF RowsInv, RowOK
<1>2. ASSUME NEW row \in Rows, ledger' = Append(ledger, row), Fits(row) PROVE RowsInv'
  <2>1. ASSUME NEW i \in DOMAIN ledger PROVE RowOK(ledger', ledger'[i])
    <3>1. ledger'[i] = ledger[i] /\ RowOK(ledger, ledger[i])
      BY <1>2, Grown DEF RowsInv
    <3>. QED
      BY <3>1, LedgerKeeps DEF RowOK, Accepted
  <2>2. RowOK(ledger', row)
    <3>1. Accepted(ledger', row.turn)
      BY <1>2, GrownHas DEF Fits, Accepted, IsOf
    <3>. QED
      BY <1>2, <3>1 DEF RowOK, Fits
  <2>3. DOMAIN ledger' = DOMAIN ledger \cup {Len(ledger) + 1} /\ ledger'[Len(ledger) + 1] = row
    BY <1>2, Grown
  <2>. QED
    BY <2>1, <2>2, <2>3 DEF RowsInv
<1>. QED
  BY <1>1, <1>2 DEF Writes

\* A call that has begun is of an accepted turn.
LEMMA BegunAccepted == ASSUME RowsInv, NEW t, NEW c, Begun(t, c) PROVE Accepted(ledger, t)
  BY DEF RowsInv, RowOK, Begun, HasCall, IsFor, IsOf

\* A worker changes by its own steps, by the start of a batch and by a crash.
LEMMA WorkerSteps ==
    ASSUME TypeInv, [Next]_vars, NEW t \in Turns, NEW c \in Calls, work'[<<t, c>>] # work[<<t, c>>]
    PROVE  \/ Crash
           \/ StartBatch(t) /\ c \in Runnable(t) /\ work'[<<t, c>>] = "queued"
           \/ BeginCall(t, c) \/ StartCall(t, c) \/ FinishCall(t, c) \/ LeaveCall(t, c)
<1>0. work \in [CallIds -> WorkPC] /\ <<t, c>> \in CallIds
  BY DEF TypeInv, TypeOK, CallIds
<1>1. work' # work
  OBVIOUS
<1>2. ASSUME NEW u \in Turns, StartBatch(u)
      PROVE  StartBatch(t) /\ c \in Runnable(t) /\ work'[<<t, c>>] = "queued"
  <2>1. work' = [id \in CallIds |-> IF id[1] = u /\ id[2] \in Runnable(u)
                                    THEN "queued" ELSE work[id]]
    BY <1>1, <1>2 DEF StartBatch
  <2>2. work'[<<t, c>>] = IF t = u /\ c \in Runnable(u) THEN "queued" ELSE work[<<t, c>>]
    BY <1>0, <2>1
  <2>. QED
    BY <1>2, <2>2
<1>3. ASSUME NEW u \in Turns, ToolThreads(u)
      PROVE  BeginCall(t, c) \/ StartCall(t, c) \/ FinishCall(t, c) \/ LeaveCall(t, c)
  <2>1. PICK d \in Calls : BeginCall(u, d) \/ StartCall(u, d) \/ FinishCall(u, d) \/ LeaveCall(u, d)
    BY <1>3 DEF ToolThreads
  <2>2. \E from, to : WorkStep(u, d, from, to)
    BY <2>1 DEF BeginCall, StartCall, FinishCall, LeaveCall
  <2>3. <<u, d>> = <<t, c>>
    BY <1>0, <2>2 DEF WorkStep
  <2>. QED
    BY <2>1, <2>3
<1>4. CASE Recover \/ UNCHANGED vars
  BY <1>1, <1>4 DEF Recover, vars
<1>5. ASSUME NEW u \in Turns, AgentThread(u) PROVE FALSE
  BY <1>1, <1>5 DEF AgentThread, StartRequest, RequestFails, GiveUp, EndByAgent, Respond, AgentStep
<1>6. ASSUME NEW u \in Turns, FlushCheckpoint(u) \/ User(u) \/ TimesOut(u) PROVE FALSE
  BY <1>1, <1>6 DEF FlushCheckpoint, User, Submit, Cancel, LeaveGraph, BeginAttach, BeginResume,
                    TimesOut, GraphTimeout, BatchTimeout
<1>7. ASSUME NEW u \in Turns, Coroutine(u) PROVE StartBatch(u)
  BY <1>1, <1>7
  DEF Coroutine, BeginSend, RefuseSend, AcceptTurn, StartGraph, AgentReturns, AskInteraction,
      WriteInterrupt, GateMismatch, BatchReturns, SettleDenied, FinishTools, EndRun,
      CommitDecision, RejectResume, ResumeGraph, Attach, SkipPhase, BeginPhase, RepairCall,
      RepairDone, Finalize, UpdateState
<1>. QED
  BY <1>2, <1>3, <1>4, <1>5, <1>6, <1>7 DEF Next

\* Where a coroutine can have come from.
LEMMA CameFrom ==
    ASSUME TypeInv, [Next]_vars, NEW t \in Turns, pc'[t] # pc[t]
    PROVE  /\ pc'[t] = "queued"   => Submit(t)
           /\ pc'[t] = "accepted" => AcceptTurn(t)
           /\ pc'[t] = "agent"    => StartGraph(t) \/ FinishTools(t)
           /\ pc'[t] = "gate"     => AgentReturns(t) \/ ResumeGraph(t)
           /\ pc'[t] = "ask"      => AskInteraction(t)
           /\ pc'[t] = "batch"    => StartBatch(t)
           /\ pc'[t] = "settle"   => StartBatch(t) \/ BatchReturns(t)
           /\ pc'[t] = "end"      => AgentReturns(t) \/ FinishTools(t)
           /\ pc'[t] = "wait"     => WriteInterrupt(t) \/ Attach(t)
           /\ pc'[t] = "resuming" => CommitDecision(t)
           /\ pc'[t] = "idle"     => \/ Crash
                                    \/ RefuseSend(t) \/ EndRun(t) \/ SkipPhase(t) \/ UpdateState(t)
<1>0. pc \in [Turns -> PCs]
  BY DEF TypeInv, TypeOK
<1>1. CASE Crash
  BY <1>1 DEF Crash
<1>2. CASE Submit(t)
  BY <1>0, <1>2 DEF Submit
<1>3. CASE Cancel(t) \/ GraphTimeout(t)
  BY <1>0, <1>3 DEF Cancel, GraphTimeout, LeaveGraph
<1>4. CASE Coroutine(t)
  <2>1. CASE SkipPhase(t) \/ UpdateState(t)
    <3>1. pc[t] \in PhasePC /\ pc'[t] = NextPhase(pc[t])
      BY <1>0, <2>1 DEF SkipPhase, UpdateState
    <3>2. pc'[t] \in {"repair", "mark", "repair2", "mark2", "idle"}
      BY <3>1 DEF PhasePC, NextPhase
    <3>. QED
      BY <2>1, <3>2
  <2>2. CASE FinishTools(t)
    <3>1. pc'[t] \in {"end", "agent"}
      BY <1>0, <2>2 DEF FinishTools
    <3>. QED
      BY <2>2, <3>1
  <2>3. CASE ~(SkipPhase(t) \/ UpdateState(t) \/ FinishTools(t))
    BY <1>0, <1>4, <2>3
    DEF Coroutine, BeginSend, RefuseSend, AcceptTurn, StartGraph, AgentReturns, AskInteraction,
        WriteInterrupt, StartBatch, GateMismatch, BatchReturns, SettleDenied, EndRun,
        CommitDecision, RejectResume, ResumeGraph, Attach, BeginPhase, RepairCall, RepairDone,
        Finalize
  <2>. QED
    BY <2>1, <2>2, <2>3
<1>. QED
  BY <1>1, <1>2, <1>3, <1>4, PcSteps

LEMMA StepThreads == TypeInv /\ RowsInv /\ SoundInv /\ ThreadsInv /\ Writes /\ [Next]_vars => ThreadsInv'
<1> SUFFICES ASSUME TypeInv, RowsInv, SoundInv, ThreadsInv, Writes, [Next]_vars PROVE ThreadsInv'
  OBVIOUS
<1>0. /\ TypeOK /\ ScopeOK /\ ledger \in Seq(Rows) /\ pc \in [Turns -> PCs]
      /\ agent \in [Turns -> AgentPC] /\ work \in [CallIds -> WorkPC]
  BY DEF TypeInv, TypeOK
<1>1. ASSUME NEW t \in Turns, pc[t] \in InGraph PROVE Accepted(ledger', t)
  <2>1. mem[t].turn = t /\ t # NoTurn
    BY <1>0, <1>1 DEF ScopeOK, Turns, NoTurn
  <2>2. Accepted(ledger, t)
    BY <2>1 DEF SoundInv, Sound
  <2>. QED
    BY <1>0, <2>2, LedgerKeeps DEF Accepted
<1>2. ASSUME NEW t \in Turns, pc'[t] = "queued" PROVE ~Accepted(ledger', t)
  <2>1. CASE pc[t] = "queued"
    <3>1. ~Accepted(ledger, t)
      BY <2>1 DEF ThreadsInv
    <3>2. ASSUME AcceptTurn(t) PROVE FALSE
      BY <1>0, <1>2, <3>2 DEF AcceptTurn
    <3>. QED
      BY <1>0, <3>1, <3>2, NewTurn
  <2>2. CASE pc[t] # "queued"
    <3>1. Submit(t)
      BY <1>2, <2>2, CameFrom
    <3>. QED
      BY <3>1 DEF Submit
  <2>. QED
    BY <2>1, <2>2
<1>3. ASSUME NEW t \in Turns, agent'[t] # "none" PROVE Accepted(ledger', t)
  <2>1. CASE agent[t] # "none"
    <3>1. Accepted(ledger, t)
      BY <2>1 DEF ThreadsInv
    <3>. QED
      BY <1>0, <3>1, LedgerKeeps DEF Accepted
  <2>2. CASE agent[t] = "none"
    <3>1. StartGraph(t) \/ FinishTools(t)
      BY <1>3, <2>2, AgentSteps
    <3>2. pc[t] \in InGraph
      BY <3>1 DEF StartGraph, FinishTools, InGraph
    <3>. QED
      BY <1>1, <3>2
  <2>. QED
    BY <2>1, <2>2
<1>4. ASSUME NEW t \in Turns, NEW c \in Calls
      PROVE  /\ work'[<<t, c>>] # "none" => Accepted(ledger', t)
             /\ work'[<<t, c>>] \in {"running", "left_running"} => Begun(t, c)'
             /\ work'[<<t, c>>] \in {"done", "left_begun", "left_running"} => Finished(t, c)'
  <2>0. <<t, c>> \in CallIds
    BY DEF CallIds
  <2>1. CASE work'[<<t, c>>] = work[<<t, c>>]
    BY <1>0, <2>1, LedgerKeeps DEF ThreadsInv, Accepted, Begun, Finished, Resulted
  <2>2. CASE Crash
    BY <2>0, <2>2 DEF Crash
  <2>3. CASE StartBatch(t) /\ work'[<<t, c>>] = "queued"
    BY <1>1, <2>3 DEF StartBatch, InGraph, GraphPC
  <2>4. ASSUME work[<<t, c>>] # "none" PROVE Accepted(ledger', t)
    BY <1>0, <2>4, LedgerKeeps DEF ThreadsInv, Accepted
  <2>5. CASE BeginCall(t, c)
    BY <1>0, <2>0, <2>4, <2>5 DEF BeginCall, WorkStep
  <2>6. CASE StartCall(t, c)
    <3>1. ToolStartRow(t, <<t, c>>) \in Rows /\ IsFor(ToolStartRow(t, <<t, c>>), "tool_start", t, <<t, c>>)
      BY <2>0, RowsAreRows DEF ToolStartRow, Row, IsFor, IsOf
    <3>2. Begun(t, c)'
      BY <1>0, <2>6, <3>1, GrownHasCall DEF StartCall, Begun
    <3>3. work[<<t, c>>] # "none" /\ (work'[<<t, c>>] = "left_running" => work[<<t, c>>] = "left_begun")
      BY <1>0, <2>0, <2>6 DEF StartCall, WorkStep
    <3>4. work'[<<t, c>>] = "left_running" \/ work'[<<t, c>>] = "running"
      BY <1>0, <2>0, <2>6 DEF StartCall, WorkStep
    <3>5. work'[<<t, c>>] = "left_running" => Finished(t, c)'
      BY <1>0, <3>3, LedgerKeeps DEF ThreadsInv, Finished, Resulted
    <3>. QED
      BY <2>4, <3>2, <3>3, <3>4, <3>5
  <2>7. CASE FinishCall(t, c)
    <3>1. work[<<t, c>>] # "none" /\ work'[<<t, c>>] = "done"
      BY <1>0, <2>0, <2>7 DEF FinishCall, WorkStep
    <3>2. Finished(t, c)'
      BY <1>0, <2>0, <2>7, SettleToolAppends DEF FinishCall, Finished, FinalResult
    <3>. QED
      BY <2>4, <3>1, <3>2
  <2>8. CASE LeaveCall(t, c)
    <3>1. work[<<t, c>>] # "none" /\ (work'[<<t, c>>] = "left_running" => work[<<t, c>>] = "running")
      BY <1>0, <2>0, <2>8 DEF LeaveCall, WorkStep
    <3>2. PICK s \in FinalResult : ledger' = SettleTool(ledger, t, <<t, c>>, s)
      BY <2>8 DEF LeaveCall, FinalResult
    <3>3. Finished(t, c)'
      BY <1>0, <2>0, <3>2, SettleToolAppends DEF Finished
    <3>4. work'[<<t, c>>] = "left_running" => Begun(t, c)'
      BY <1>0, <3>1, LedgerKeeps DEF ThreadsInv, Begun
    <3>5. work'[<<t, c>>] # "running"
      BY <1>0, <2>0, <2>8 DEF LeaveCall, WorkStep
    <3>. QED
      BY <2>4, <3>1, <3>3, <3>4, <3>5
  <2>. QED
    BY <2>1, <2>2, <2>3, <2>5, <2>6, <2>7, <2>8, WorkerSteps
<1>. QED
  BY <1>2, <1>3, <1>4 DEF ThreadsInv

\* The calls a turn's responses define change by the hand of its agent node.
LEMMA DefinedKept ==
    ASSUME ledger \in Seq(Rows), Writes, NEW t \in Turns, agent[t] \notin {"sent", "failed"}
    PROVE  DefinedBy(t)' = DefinedBy(t)
<1> DEFINE D == {i \in DefiningRows(ledger) : ledger[i].turn = t}
           E == {i \in DefiningRows(ledger') : ledger'[i].turn = t}
<1>1. CASE ledger' = ledger
  BY <1>1 DEF DefinedBy
<1>2. ASSUME NEW row \in Rows, ledger' = Append(ledger, row), Signed(row)
      PROVE  DefinedBy(t)' = DefinedBy(t)
  <2>1. row.type # "response" \/ row.turn # t
    BY <1>2 DEF Signed
  <2>2. /\ DOMAIN ledger' = DOMAIN ledger \cup {Len(ledger) + 1} /\ ledger'[Len(ledger) + 1] = row
        /\ \A i \in DOMAIN ledger : ledger'[i] = ledger[i]
    BY <1>2, Grown
  <2>3. E = D
    BY <2>1, <2>2 DEF DefiningRows
  <2>4. \A i \in D : ledger'[i] = ledger[i]
    BY <2>2 DEF DefiningRows
  <2>5. DefinedBy(t) = {c \in Calls : \E i \in D : IsLatest(i, D) /\ c \in ledger[i].calls}
    BY DEF DefinedBy
  <2>6. DefinedBy(t)' = {c \in Calls : \E i \in E : IsLatest(i, E) /\ c \in ledger'[i].calls}
    BY DEF DefinedBy, IsLatest
  <2>. HIDE DEF D, E
  <2>. QED
    BY <2>3, <2>4, <2>5, <2>6
<1>. QED
  BY <1>1, <1>2 DEF Writes

\* Only its own coroutine's answer changes which calls of a step are undecided
\* and which may run.
LEMMA UndecidedKept ==
    ASSUME ledger \in Seq(Rows), Writes, NEW t \in Turns, mem'[t] = mem[t], ~CommitDecision(t),
           agent[t] = "none"
    PROVE  /\ Batch(t)' = Batch(t) /\ Undecided(t)' = Undecided(t)
           /\ Runnable(t)' \subseteq Runnable(t)
<1>1. Batch(t)' = Batch(t)
  <2>1. DefinedBy(t)' = DefinedBy(t)
    BY DefinedKept
  <2>. QED
    BY <2>1 DEF Batch
<1>2. ASSUME NEW c \in Calls
      PROVE  Decided(ledger', t, <<t, c>>) <=> Decided(ledger, t, <<t, c>>)
  BY NewDecision, LedgerKeeps DEF Decided
<1>3. Undecided(t)' = {c \in Batch(t)' \cap Gated : ~Decided(ledger', t, <<t, c>>)}
  BY DEF Undecided
<1>4. \A c \in Batch(t) : c \in Calls
  BY DEF Batch, DefinedBy
<1>5. Undecided(t)' = Undecided(t)
  BY <1>1, <1>2, <1>3, <1>4 DEF Undecided
<1>6. Runnable(t)' = Batch(t)' \ {c \in Batch(t)' \cap Gated : ~Allowed(ledger', t, <<t, c>>)}
  BY DEF Runnable, Denied
<1>7. \A c \in Calls : Allowed(ledger', t, <<t, c>>) => Allowed(ledger, t, <<t, c>>)
  BY NewConsent
<1>. QED
  BY <1>1, <1>4, <1>5, <1>6, <1>7 DEF Runnable, Denied

LEMMA StepPlace ==
    TypeInv /\ ThreadsInv /\ PlaceInv /\ AloneInv /\ Writes /\ [Next]_vars => PlaceInv'
<1> SUFFICES ASSUME TypeInv, ThreadsInv, PlaceInv, AloneInv, Writes, [Next]_vars, NEW t \in Turns
             PROVE  /\ mem'[t].intr = NoPending
                    /\ pc'[t] \in {"batch", "settle"} => Undecided(t)' = {}
                    /\ pc'[t] = "batch"  => \A c \in Runnable(t)' : work'[<<t, c>>] # "none"
                    /\ pc'[t] = "settle" => \A c \in Runnable(t)' : Finished(t, c)'
                    /\ pc'[t] = "ask" => \A c \in Calls : IsLeast(c, Undecided(t)') => Asked(ledger', t, <<t, c>>)
  BY DEF PlaceInv, IsLeast
<1>0. /\ ledger \in Seq(Rows) /\ pc \in [Turns -> PCs] /\ mem \in [Turns -> Snapshots]
      /\ job.view \in Snapshots /\ mem[t] \in Snapshots /\ work \in [CallIds -> WorkPC]
  BY DEF TypeInv, TypeOK, Jobs
<1>1. mem'[t].intr = NoPending
  <2>1. CASE mem'[t] = mem[t]
    BY <2>1 DEF PlaceInv
  <2>2. CASE Crash
    BY <2>2 DEF Crash, EmptySnapshot
  <2>3. CASE AcceptTurn(t)
    BY <1>0, <2>3 DEF AcceptTurn, NewRunState, EmptySnapshot
  <2>4. CASE AgentReturns(t)
    BY <1>0, <2>4 DEF AgentReturns, Snapshots
  <2>5. CASE FinishTools(t)
    BY <1>0, <2>5 DEF FinishTools, Snapshots
  <2>6. CASE CommitDecision(t)
    BY <1>0, <2>6 DEF CommitDecision, Snapshots
  <2>. QED
    BY <2>1, <2>2, <2>3, <2>4, <2>5, <2>6, MemSteps
<1>2. ASSUME pc'[t] = pc[t], pc[t] \in {"ask", "batch", "settle"}
      PROVE  Undecided(t)' = Undecided(t) /\ Runnable(t)' \subseteq Runnable(t)
  <2>1. ~(Crash \/ AcceptTurn(t) \/ AgentReturns(t) \/ CommitDecision(t))
    BY <1>0, <1>2 DEF Crash, AcceptTurn, AgentReturns, CommitDecision
  <2>2. ~FinishTools(t)
    <3>1. FinishTools(t) => pc'[t] \in {"end", "agent"}
      BY <1>0 DEF FinishTools
    <3>. QED
      BY <1>2, <3>1
  <2>3. agent[t] = "none"
    BY <1>2 DEF AloneInv, Placed
  <2>. QED
    BY <1>0, <2>1, <2>2, <2>3, MemSteps, UndecidedKept
<1>3. ASSUME pc'[t] \in {"batch", "settle"} PROVE Undecided(t)' = {}
  <2>1. CASE pc'[t] = pc[t]
    BY <1>2, <1>3, <2>1 DEF PlaceInv
  <2>2. CASE pc'[t] # pc[t]
    <3>1. StartBatch(t) \/ BatchReturns(t)
      BY <1>3, <2>2, CameFrom
    <3>2. mem' = mem /\ ledger' = ledger /\ Undecided(t) = {}
      BY <3>1 DEF StartBatch, BatchReturns, PlaceInv
    <3>. QED
      BY <3>2 DEF Undecided, Batch, DefinedBy
  <2>. QED
    BY <2>1, <2>2
<1>5. ASSUME pc'[t] = "batch", NEW c \in Runnable(t)' PROVE work'[<<t, c>>] # "none"
  <2>0. c \in Calls /\ <<t, c>> \in CallIds
    BY <1>5 DEF Runnable, Batch, DefinedBy, CallIds
  <2>1. CASE pc'[t] = pc[t]
    <3>1. work[<<t, c>>] # "none"
      BY <1>2, <1>5, <2>1 DEF PlaceInv
    <3>2. ASSUME work'[<<t, c>>] # work[<<t, c>>] PROVE work'[<<t, c>>] # "none"
      <4>1. ~Crash
        BY <1>0, <1>5 DEF Crash
      <4>. QED
        BY <1>0, <2>0, <3>2, <4>1, WorkerSteps
        DEF BeginCall, StartCall, FinishCall, LeaveCall, WorkStep
    <3>. QED
      BY <3>1, <3>2
  <2>2. CASE pc'[t] # pc[t]
    <3>1. StartBatch(t)
      BY <1>5, <2>2, CameFrom
    <3>2. Runnable(t)' = Runnable(t)
      BY <3>1 DEF StartBatch, Runnable, Denied, Batch, DefinedBy
    <3>3. Runnable(t) # {}
      BY <1>5, <3>2
    <3>4. work' = [id \in CallIds |-> IF id[1] = t /\ id[2] \in Runnable(t)
                                      THEN "queued" ELSE work[id]]
      BY <3>1, <3>3 DEF StartBatch
    <3>. QED
      BY <1>5, <2>0, <3>2, <3>4
  <2>. QED
    BY <2>1, <2>2
<1>6. ASSUME pc'[t] = "settle", NEW c \in Runnable(t)' PROVE Finished(t, c)'
  <2>0. c \in Calls
    BY <1>6 DEF Runnable, Batch, DefinedBy
  <2>1. CASE pc'[t] = pc[t]
    <3>1. Finished(t, c)
      BY <1>2, <1>6, <2>1 DEF PlaceInv
    <3>. QED
      BY <1>0, <3>1, LedgerKeeps DEF Finished, Resulted
  <2>2. CASE pc'[t] # pc[t]
    <3>1. StartBatch(t) \/ BatchReturns(t)
      BY <1>6, <2>2, CameFrom
    <3>2. ledger' = ledger /\ Runnable(t)' = Runnable(t)
      <4>1. ledger' = ledger /\ mem' = mem
        BY <3>1 DEF StartBatch, BatchReturns
      <4>. QED
        BY <4>1 DEF Runnable, Denied, Batch, DefinedBy
    <3>3. ~StartBatch(t)
      BY <1>0, <1>6, <3>2 DEF StartBatch
    <3>4. pc[t] = "batch" /\ Answered(t)
      BY <3>1, <3>3 DEF BatchReturns
    <3>5. work[<<t, c>>] \in {"done", "left_begun", "left_running"}
      BY <1>0, <1>6, <2>0, <3>2, <3>4 DEF PlaceInv, Answered, WorkPC, CallIds
    <3>. QED
      BY <2>0, <3>2, <3>5 DEF ThreadsInv, Finished
  <2>. QED
    BY <2>1, <2>2
<1>4. ASSUME pc'[t] = "ask", NEW c \in Calls, IsLeast(c, Undecided(t)')
      PROVE  Asked(ledger', t, <<t, c>>)
  <2>1. CASE pc'[t] = pc[t]
    <3>1. Asked(ledger, t, <<t, c>>)
      BY <1>2, <1>4, <2>1 DEF PlaceInv
    <3>. QED
      BY <1>0, <3>1, LedgerKeeps DEF Asked
  <2>2. CASE pc'[t] # pc[t]
    <3>1. AskInteraction(t)
      BY <1>4, <2>2, CameFrom
    <3>2. PICK d \in Calls : /\ IsLeast(d, Undecided(t))
                             /\ ledger' = InteractionRequest(ledger, t, <<t, d>>)
      BY <3>1 DEF AskInteraction
    <3>3. Undecided(t)' = Undecided(t)
      BY <1>0, <3>1, UndecidedKept DEF AskInteraction, CommitDecision, AloneInv, Placed
    <3>4. c = d
      BY <1>4, <3>2, <3>3 DEF IsLeast, Calls
    <3>5. AskRow(t, <<t, c>>) \in Rows /\ IsFor(AskRow(t, <<t, c>>), "ask", t, <<t, c>>)
      BY RowsAreRows DEF CallIds, AskRow, Row, IsFor, IsOf
    <3>. QED
      BY <1>0, <3>2, <3>4, <3>5, GrownHasCall DEF InteractionRequest, Asked
  <2>. QED
    BY <2>1, <2>2
<1>. QED
  BY <1>1, <1>3, <1>4, <1>5, <1>6

\* The result a ledger gives for a call that has one is recorded.
LEMMA ResultOfIsRecorded ==
    ASSUME NEW L \in Seq(Rows), NEW t, NEW c, Resulted(L, t, <<t, c>>)
    PROVE  Recorded(L, t, c, ResultOf(L, t, <<t, c>>))
<1>1. PICK i \in DOMAIN L : IsFor(L[i], "tool_result", t, <<t, c>>)
  BY DEF Resulted, HasCall
<1>2. L[i].status \in FinalResult
  <2>1. L[i] \in Rows
    BY ElementOfSeq
  <2>. QED
    BY <1>1, <2>1 DEF Rows, IsFor, IsOf
<1>. QED
  BY <1>1, <1>2 DEF ResultOf, Recorded, IsFor, IsOf

\* A final outcome is that of a call of the step, and of one of its rows.
LEMMA OutcomeIsResult ==
    ASSUME NEW t, NEW c, Outcome(t, c) \in FinalResult
    PROVE  c \in Batch(t) /\ \E i \in ResultRows(t, c) : ledger[i].status = Outcome(t, c)
<1> DEFINE R == ResultRows(t, c)
           Says(s) == \E i \in R : IsLatest(i, R) /\ ledger[i].status = s
<1>1. Outcome(t, c) = IF c \notin Batch(t) THEN "none"
                      ELSE IF \E s \in FinalResult : Says(s)
                      THEN CHOOSE s \in FinalResult : Says(s) ELSE "pending"
  BY DEF Outcome
<1>2. "none" \notin FinalResult /\ "pending" \notin FinalResult
  BY DEF FinalResult
<1>. HIDE DEF Says
<1>3. c \in Batch(t) /\ Says(Outcome(t, c))
  BY <1>1, <1>2
<1>. QED
  BY <1>3 DEF Says

\* The sequence number turn_terminal returns is inside the ledger.
LEMMA TerminalSeqInside ==
    ASSUME NEW L \in Seq(Rows), NEW t \in Turns, NEW s \in Terminal, NEW y \in Reason
    PROVE  TerminalSeq(TurnTerminal(L, t, s, y), t) <= Len(TurnTerminal(L, t, s, y))
<1> DEFINE K == TurnTerminal(L, t, s, y)
<1>1. K \in Seq(Rows) /\ \E i \in DOMAIN K : IsOf(K[i], "terminal", t)
  <2>1. CASE Settled(L, t)
    BY <2>1 DEF Settled, Has, TurnTerminal
  <2>2. CASE ~Settled(L, t)
    <3>1. TerminalRow(t, s, y) \in Rows /\ IsOf(TerminalRow(t, s, y), "terminal", t)
      BY RowsAreRows DEF TerminalRow, Row, IsOf
    <3>. QED
      BY <2>2, <3>1, Grown DEF TurnTerminal
  <2>. QED
    BY <2>1, <2>2
<1>. HIDE DEF K
<1>2. TerminalSeq(K, t) \in DOMAIN K
  BY <1>1 DEF TerminalSeq
<1>. QED
  BY <1>1, <1>2 DEF K

LEMMA CpSound == TypeInv /\ SoundInv /\ PlaceInv /\ Writes /\ [Next]_vars => Sound(ledger, cp)'
<1> SUFFICES ASSUME TypeInv, SoundInv, PlaceInv, Writes, [Next]_vars PROVE Sound(ledger', cp')
  OBVIOUS
<1>0. /\ ledger \in Seq(Rows) /\ cp \in Snapshots /\ mem \in [Turns -> Snapshots]
      /\ upd \in [Turns -> Snapshots] /\ ScopeOK
  BY DEF TypeInv, TypeOK
<1>1. CASE cp' = cp
  BY <1>0, <1>1, SoundStays DEF SoundInv
<1>2. ASSUME NEW t \in Turns, cp' = mem[t] PROVE Sound(ledger', cp')
  BY <1>0, <1>2, SoundStays DEF SoundInv
<1>3. ASSUME NEW t \in Turns, WriteInterrupt(t) PROVE Sound(ledger', cp')
  <2>1. PICK c \in Calls : /\ IsLeast(c, Undecided(t))
                           /\ cp' = [mem[t] EXCEPT !.status = "waiting_user", !.seen = Len(ledger),
                                                   !.pend = c, !.intr = c]
    BY <1>3 DEF WriteInterrupt
  <2>2. ledger' = ledger /\ pc[t] = "ask"
    BY <1>3 DEF WriteInterrupt
  <2>3. mem[t].turn = t /\ t # NoTurn /\ c # NoPending
    BY <1>0, <2>2 DEF ScopeOK, InGraph, GraphPC, Turns, NoTurn, Calls, NoPending
  <2>4. c \in Gated /\ Asked(ledger, t, <<t, c>>)
    BY <2>1, <2>2 DEF PlaceInv, IsLeast, Undecided
  <2>5. /\ cp'.turn = t /\ cp'.seen = Len(ledger) /\ cp'.pend = c /\ cp'.calls = mem[t].calls
        /\ Len(ledger) \in Nat
    BY <1>0, <2>1, <2>3 DEF Snapshots
  <2>6. /\ Accepted(ledger, t)
        /\ \A d \in Calls : cp'.calls[d] \in FinalResult =>
               Resulted(ledger, t, <<t, d>>) /\ Recorded(ledger, t, d, cp'.calls[d])
    <3>1. Sound(ledger, mem[t])
      BY DEF SoundInv
    <3>. QED
      BY <2>3, <2>5, <3>1 DEF Sound
  <2>. QED
    BY <2>2, <2>3, <2>4, <2>5, <2>6 DEF Sound
<1>4. ASSUME NEW t \in Turns, UpdateState(t) PROVE Sound(ledger', cp')
  <2>1. /\ cp' = [upd[t] EXCEPT !.status = MergeTerminal(cp.status, upd[t].status), !.intr = NoPending]
        /\ ledger' = ledger
    BY <1>4 DEF UpdateState
  <2>2. cp'.status = "waiting_user" => upd[t].status = "waiting_user"
    BY <1>0, <2>1 DEF MergeTerminal, Ended, Terminal, Snapshots
  <2>3. /\ cp'.turn = upd[t].turn /\ cp'.seen = upd[t].seen /\ cp'.calls = upd[t].calls
        /\ cp'.pend = upd[t].pend
    BY <1>0, <2>1 DEF Snapshots
  <2>. QED
    BY <2>1, <2>2, <2>3 DEF SoundInv, Sound
<1>. QED
  BY <1>1, <1>2, <1>3, <1>4, CpSteps

LEMMA MemSound ==
    ASSUME TypeInv, SoundInv, PlaceInv, Writes, [Next]_vars, NEW t \in Turns
    PROVE  Sound(ledger', mem'[t])
<1>0. /\ ledger \in Seq(Rows) /\ mem \in [Turns -> Snapshots] /\ mem[t] \in Snapshots
      /\ job \in Jobs /\ job.view \in Snapshots /\ ScopeOK /\ t # NoTurn
      /\ ledger' \in Seq(Rows) /\ Len(ledger') \in Nat
  BY LedgerKeeps DEF TypeInv, TypeOK, Jobs, Turns, NoTurn
<1>1. CASE mem'[t] = mem[t]
  BY <1>0, <1>1, SoundStays DEF SoundInv
<1>2. CASE Crash
  BY <1>0, <1>2, EmptySnapshotType DEF Crash, Sound
<1>3. ASSUME pc[t] \in InGraph PROVE mem[t].turn = t /\ Accepted(ledger', t)
  <2>1. mem[t].turn = t
    BY <1>0, <1>3 DEF ScopeOK
  <2>. QED
    BY <1>0, <2>1, LedgerKeeps DEF SoundInv, Sound, Accepted
<1>4. CASE AcceptTurn(t)
  <2>1. mem'[t] = NewRunState(t, Len(ledger'))
    BY <1>0, <1>4 DEF AcceptTurn
  <2>2. /\ mem'[t].turn = t /\ mem'[t].seen = Len(ledger') /\ mem'[t].pend = NoPending
        /\ mem'[t].status = "created" /\ \A c \in Calls : mem'[t].calls[c] = "none"
    BY <2>1 DEF NewRunState, EmptySnapshot, NoCallsYet
  <2>3. Accepted(ledger', t)
    <3>1. AcceptedRow(t) \in Rows /\ IsOf(AcceptedRow(t), "accepted", t)
      BY RowsAreRows DEF AcceptedRow, Row, IsOf
    <3>. QED
      BY <1>0, <1>4, <3>1, GrownHas DEF AcceptTurn, Accepted
  <2>. QED
    BY <1>0, <2>2, <2>3 DEF Sound, FinalResult
<1>5. CASE AgentReturns(t)
  <2>1. pc[t] \in InGraph /\ ledger' = ledger
    BY <1>5 DEF AgentReturns, InGraph, GraphPC
  <2>2. /\ mem'[t].turn = t /\ mem'[t].seen = Len(ledger) /\ mem'[t].pend = NoPending
        /\ mem'[t].status # "waiting_user"
        /\ \A c \in Calls : mem'[t].calls[c] \notin FinalResult
    <3> DEFINE st == CASE agent[t] = "calls"     -> "running"
                       [] agent[t] = "completed" -> "completed"
                       [] agent[t] = "broken"    -> "failed"
               cs == [c \in Calls |-> IF agent[t] = "calls" /\ c \in DefinedBy(t)
                                      THEN "pending" ELSE "none"]
    <3>1. mem'[t] = [mem[t] EXCEPT !.status = st, !.calls = cs, !.seen = Len(ledger),
                                   !.pend = NoPending, !.intr = NoPending]
      BY <1>0, <1>5 DEF AgentReturns
    <3>2. st # "waiting_user"
      BY <1>5 DEF AgentReturns
    <3>3. \A c \in Calls : cs[c] \notin FinalResult
      BY DEF FinalResult
    <3>. HIDE DEF st, cs
    <3>4. /\ mem'[t].turn = mem[t].turn /\ mem'[t].status = st /\ mem'[t].calls = cs
          /\ mem'[t].seen = Len(ledger) /\ mem'[t].pend = NoPending
      BY <1>0, <3>1 DEF Snapshots
    <3>. QED
      BY <1>3, <2>1, <3>2, <3>3, <3>4
  <2>. QED
    BY <1>0, <1>3, <2>1, <2>2 DEF Sound
<1>6. CASE FinishTools(t)
  <2>1. pc[t] \in InGraph
    BY <1>6 DEF FinishTools, InGraph
  <2> DEFINE lost == \E c \in Batch(t) : Outcome(t, c) = "unknown"
             st == IF lost THEN "failed" ELSE "running"
             cs == [c \in Calls |-> Outcome(t, c)]
  <2>2. mem'[t] = [mem[t] EXCEPT !.status = st, !.calls = cs, !.seen = Len(ledger'),
                                 !.pend = NoPending, !.intr = NoPending]
    BY <1>0, <1>6 DEF FinishTools
  <2>3. st # "waiting_user"
    OBVIOUS
  <2>4. ASSUME NEW c \in Calls, cs[c] \in FinalResult
        PROVE  Resulted(ledger', t, <<t, c>>) /\ Recorded(ledger', t, c, cs[c])
    <3>1. c \in Batch(t) /\ \E i \in ResultRows(t, c) : ledger[i].status = cs[c]
      BY <2>4, OutcomeIsResult
    <3>2. Recorded(ledger, t, c, cs[c])
      BY <3>1 DEF ResultRows, Recorded
    <3>3. Resulted(ledger, t, <<t, c>>)
      <4>1. pc[t] = "settle" /\ Unsettled(t) = {}
        BY <1>6 DEF FinishTools
      <4>2. CASE c \in Denied(t)
        BY <4>1, <4>2 DEF Unsettled
      <4>3. CASE c \notin Denied(t)
        BY <3>1, <4>1, <4>3 DEF PlaceInv, Runnable, Finished
      <4>. QED
        BY <4>2, <4>3
    <3>. QED
      BY <1>0, <3>2, <3>3, LedgerKeeps DEF Resulted
  <2>. HIDE DEF st, cs
  <2>5. /\ mem'[t].turn = mem[t].turn /\ mem'[t].status = st /\ mem'[t].calls = cs
        /\ mem'[t].seen = Len(ledger') /\ mem'[t].pend = NoPending
    BY <1>0, <2>2 DEF Snapshots
  <2>. QED
    BY <1>0, <1>3, <2>1, <2>3, <2>4, <2>5 DEF Sound
<1>7. CASE CommitDecision(t)
  <2>1. mem'[t] = [job.view EXCEPT !.seen = Len(ledger'), !.intr = NoPending]
    BY <1>0, <1>7 DEF CommitDecision
  <2>2. Sound(ledger', job.view)
    BY <1>0, SoundStays DEF SoundInv
  <2>3. /\ mem'[t].turn = job.view.turn /\ mem'[t].status = job.view.status
        /\ mem'[t].calls = job.view.calls /\ mem'[t].pend = job.view.pend
        /\ mem'[t].seen = Len(ledger')
    BY <1>0, <2>1 DEF Snapshots
  <2>. QED
    BY <1>0, <2>2, <2>3 DEF Sound
<1>. QED
  BY <1>1, <1>2, <1>4, <1>5, <1>6, <1>7, MemSteps

LEMMA UpdSound ==
    ASSUME TypeInv, SoundInv, Writes, [Next]_vars, NEW t \in Turns
    PROVE  Sound(ledger', upd'[t])
<1>0. /\ ledger \in Seq(Rows) /\ upd \in [Turns -> Snapshots] /\ upd[t] \in Snapshots
      /\ job \in Jobs /\ job.view \in Snapshots /\ ScopeOK /\ JobOK /\ t # NoTurn
      /\ ledger' \in Seq(Rows) /\ Len(ledger') \in Nat
  BY LedgerKeeps DEF TypeInv, TypeOK, Jobs, Turns, NoTurn
<1>1. CASE upd'[t] = upd[t]
  BY <1>0, <1>1, SoundStays DEF SoundInv
<1>2. CASE upd'[t] = NoUpdate
  BY <1>2, EmptySnapshotType DEF NoUpdate, Sound
<1>3. Sound(ledger', job.view)
  BY <1>0, SoundStays DEF SoundInv
<1>4. CASE RepairDone(t)
  BY <1>0, <1>3, <1>4 DEF RepairDone
<1>5. CASE Finalize(t)
  <2> DEFINE u == job.view.turn
             kept == pc[t] \in {"mark", "mark2", "error"} /\ Ended(job.view.status)
             n == IF kept THEN job.view.seen ELSE TerminalSeq(ledger', u)
  <2>1. /\ ledger' = IF kept THEN ledger ELSE TurnTerminal(ledger, u, Wanted(t), "")
        /\ upd'[t] = [job.view EXCEPT !.status = Wanted(t), !.pend = NoPending, !.seen = n]
    BY <1>0, <1>5 DEF Finalize
  <2>2. u \in Turns /\ u # NoTurn
    <3>1. Recovering /\ job.task = t /\ pc[t] # "queued"
      BY <1>5 DEF Finalize, Recovered
    <3>. QED
      BY <1>0, <3>1 DEF JobOK, Snapshots
  <2>3. Wanted(t) \in Terminal
    BY DEF Wanted, Ended, Terminal
  <2>4. n <= Len(ledger')
    <3>1. CASE kept
      BY <1>3, <2>2, <3>1 DEF Sound
    <3>2. CASE ~kept
      BY <1>0, <2>1, <2>2, <2>3, <3>2, TerminalSeqInside DEF Reason
    <3>. QED
      BY <3>1, <3>2
  <2>. HIDE DEF n
  <2>5. /\ upd'[t].turn = u /\ upd'[t].status = Wanted(t) /\ upd'[t].calls = job.view.calls
        /\ upd'[t].seen = n /\ upd'[t].pend = NoPending
    BY <1>0, <2>1 DEF Snapshots
  <2>. QED
    BY <1>3, <2>2, <2>3, <2>4, <2>5 DEF Sound, Terminal
<1>. QED
  BY <1>1, <1>2, <1>4, <1>5, UpdSteps

LEMMA ViewSound == TypeInv /\ SoundInv /\ RowsInv /\ Writes /\ [Next]_vars => Sound(ledger, job.view)'
<1> SUFFICES ASSUME TypeInv, SoundInv, RowsInv, Writes, [Next]_vars PROVE Sound(ledger', job'.view)
  OBVIOUS
<1> DEFINE u == job.view.turn
<1>0. /\ ledger \in Seq(Rows) /\ cp \in Snapshots /\ job \in Jobs /\ job.view \in Snapshots
      /\ ScopeOK /\ JobOK /\ ledger' \in Seq(Rows) /\ Len(ledger') \in Nat
  BY LedgerKeeps DEF TypeInv, TypeOK, Jobs
<1>1. Sound(ledger', job.view)
  BY <1>0, SoundStays DEF SoundInv
<1>2. CASE job' = job
  BY <1>1, <1>2
<1>3. CASE job' = NoJob
  BY <1>3, EmptySnapshotType DEF NoJob, Sound
<1>4. ASSUME NEW t \in Turns, job' = [NoJob EXCEPT !.task = t] PROVE Sound(ledger', job'.view)
  BY <1>4, EmptySnapshotType DEF NoJob, Sound
<1>5. ASSUME NEW t \in Turns, NEW snap \in Snapshots, NEW stop, NEW d, Sound(ledger, snap),
             StartRecovery(t, snap, stop, d), ledger' = ledger
      PROVE  Sound(ledger', job'.view)
  <2>1. AsksAreGated(ledger)
    BY DEF RowsInv, RowOK, AsksAreGated
  <2>2. job'.view = Replayed(ledger, snap)
    BY <1>5 DEF StartRecovery
  <2>. QED
    BY <1>0, <1>5, <2>1, <2>2, ReplayIsSound
<1>6. ASSUME NEW t \in Turns, \/ BeginPhase(t) \/ BeginAttach(t) \/ BeginSend(t)
                              \/ \E d \in Decision : BeginResume(t, d)
      PROVE  Sound(ledger', job'.view)
  <2>1. Sound(ledger, cp)
    BY DEF SoundInv
  <2>2. ASSUME NEW v \in Turns, IsLastAccepted(ledger, v)
        PROVE  Synthesized(v) \in Snapshots /\ Sound(ledger, Synthesized(v))
    <3>1. Synthesized(v) \in Snapshots
      BY NewRunStateType DEF Synthesized
    <3>2. /\ Synthesized(v).turn = v /\ Synthesized(v).seen = 0 /\ Synthesized(v).pend = NoPending
          /\ Synthesized(v).status = "created" /\ \A c \in Calls : Synthesized(v).calls[c] = "none"
      BY DEF Synthesized, NewRunState, EmptySnapshot, NoCallsYet
    <3>3. Accepted(ledger, v) /\ 0 <= Len(ledger)
      BY <1>0, <2>2 DEF IsLastAccepted
    <3>. QED
      BY <3>1, <3>2, <3>3 DEF Sound, FinalResult
  <2>3. CASE BeginPhase(t)
    BY <1>0, <1>5, <2>1, <2>3 DEF BeginPhase
  <2>4. CASE BeginAttach(t)
    BY <1>0, <1>5, <2>1, <2>4 DEF BeginAttach
  <2>5. ASSUME NEW d, BeginResume(t, d) PROVE Sound(ledger', job'.view)
    BY <1>0, <1>5, <2>1, <2>5 DEF BeginResume
  <2>6. CASE BeginSend(t)
    <3>1. CASE StartRecovery(t, cp, TRUE, "none")
      BY <1>0, <1>5, <2>1, <2>6, <3>1 DEF BeginSend
    <3>2. ASSUME NEW v \in Turns, IsLastAccepted(ledger, v), StartRecovery(t, Synthesized(v), TRUE, "none")
          PROVE  Sound(ledger', job'.view)
      BY <1>5, <2>2, <2>6, <3>2 DEF BeginSend
    <3>. QED
      BY <2>6, <3>1, <3>2 DEF BeginSend
  <2>. QED
    BY <1>6, <2>3, <2>4, <2>5, <2>6
<1>7. ASSUME NEW t \in Turns, RepairCall(t) PROVE Sound(ledger', job'.view)
  <2>1. job'.view = [job.view EXCEPT !.seen = Len(ledger')]
    BY <1>0, <1>7 DEF RepairCall, Jobs
  <2>2. /\ job'.view.turn = job.view.turn /\ job'.view.status = job.view.status
        /\ job'.view.calls = job.view.calls /\ job'.view.pend = job.view.pend
        /\ job'.view.seen = Len(ledger')
    BY <1>0, <2>1 DEF Snapshots
  <2>. QED
    BY <1>0, <1>1, <2>2 DEF Sound
<1>8. CASE Recover
  <2>1. ASSUME NEW c \in Calls, NEW s \in FinalResult, ledger' = SettleTool(ledger, u, <<u, c>>, s),
               u # NoTurn, job'.view = ViewWithResult(c, ledger')
        PROVE  Sound(ledger', job'.view)
    <3>1. u \in Turns /\ <<u, c>> \in CallIds
      BY <1>0, <2>1 DEF Snapshots, CallIds
    <3>2. Resulted(ledger', u, <<u, c>>) /\ Recorded(ledger', u, c, ResultOf(ledger', u, <<u, c>>))
      BY <1>0, <2>1, <3>1, SettleToolAppends, ResultOfIsRecorded
    <3>3. /\ job'.view.turn = u /\ job'.view.status = job.view.status /\ job'.view.pend = job.view.pend
          /\ job'.view.seen = Len(ledger')
          /\ \A d \in Calls : job'.view.calls[d] = IF d = c THEN ResultOf(ledger', u, <<u, c>>)
                                                  ELSE job.view.calls[d]
      BY <1>0, <2>1 DEF ViewWithResult, Snapshots
    <3>4. /\ Accepted(ledger', u)
          /\ \A d \in Calls : job.view.calls[d] \in FinalResult =>
                 Resulted(ledger', u, <<u, d>>) /\ Recorded(ledger', u, d, job.view.calls[d])
          /\ job.view.pend # NoPending => job.view.pend \in Gated /\ Asked(ledger', u, <<u, job.view.pend>>)
          /\ job.view.status = "waiting_user" => job.view.pend # NoPending
      BY <1>1, <2>1 DEF Sound
    <3>5. \A d \in Calls : job'.view.calls[d] \in FinalResult =>
             Resulted(ledger', u, <<u, d>>) /\ Recorded(ledger', u, d, job'.view.calls[d])
      BY <3>2, <3>3, <3>4
    <3>. QED
      BY <1>0, <3>3, <3>4, <3>5 DEF Sound
  <2>2. CASE u = NoTurn
    <3>1. ~Live \/ (Uncertain = {} /\ NotStarted = {} /\ job.lost = {} /\ job.cause = "none"
                    /\ ~Stoppable)
      BY <1>0, <2>2 DEF Live, JobOK, Uncertain, NotStarted, Stoppable
    <3>. QED
      BY <1>8, <3>1 DEF Recover, SettleUncertain, SettleLostRequest, SettleSkipped,
                        FailRecovered, IsLeast, Live
  <2>3. CASE u # NoTurn
    <3>1. CASE SettleUncertain
      <4>1. PICK c \in Calls : /\ ledger' = SettleTool(ledger, u, <<u, c>>, "unknown")
                               /\ job' = [job EXCEPT !.view = ViewWithResult(c, ledger'),
                                                     !.cause = IF ResultOf(ledger', u, <<u, c>>) = "unknown"
                                                               THEN "tool" ELSE @]
        BY <3>1 DEF SettleUncertain
      <4>2. job'.view = ViewWithResult(c, ledger')
        BY <1>0, <4>1 DEF Jobs
      <4>. QED
        BY <2>1, <2>3, <4>1, <4>2 DEF FinalResult
    <3>2. CASE SettleLostRequest
      <4>1. job'.view = job.view
        BY <1>0, <3>2 DEF SettleLostRequest, Jobs
      <4>. QED
        BY <1>1, <4>1
    <3>3. CASE SettleSkipped
      <4>1. PICK c \in Calls : /\ ledger' = SettleTool(ledger, u, <<u, c>>, "skipped")
                               /\ job' = [job EXCEPT !.view = ViewWithResult(c, ledger')]
        BY <3>3 DEF SettleSkipped
      <4>2. job'.view = ViewWithResult(c, ledger')
        BY <1>0, <4>1 DEF Jobs
      <4>. QED
        BY <2>1, <2>3, <4>1, <4>2 DEF FinalResult
    <3>4. CASE FailRecovered
      <4>1. /\ ledger' = TurnTerminal(ledger, u, "failed", FailReason)
            /\ job'.view = [job.view EXCEPT !.status = "failed", !.pend = NoPending,
                                            !.seen = TerminalSeq(ledger', u)]
        BY <1>0, <3>4 DEF FailRecovered, Jobs
      <4>2. u \in Turns /\ FailReason \in Reason
        BY <1>0, <2>3 DEF Snapshots, FailReason, Reason
      <4>3. TerminalSeq(ledger', u) <= Len(ledger')
        BY <1>0, <4>1, <4>2, TerminalSeqInside DEF Terminal
      <4>4. /\ job'.view.turn = u /\ job'.view.status = "failed" /\ job'.view.pend = NoPending
            /\ job'.view.calls = job.view.calls /\ job'.view.seen = TerminalSeq(ledger', u)
        BY <1>0, <4>1 DEF Snapshots
      <4>. QED
        BY <1>1, <4>3, <4>4 DEF Sound
    <3>. QED
      BY <1>8, <3>1, <3>2, <3>3, <3>4 DEF Recover
  <2>. QED
    BY <2>2, <2>3
<1>. QED
  BY <1>2, <1>3, <1>4, <1>6, <1>7, <1>8, JobSteps

LEMMA StepSound == TypeInv /\ SoundInv /\ RowsInv /\ PlaceInv /\ Writes /\ [Next]_vars => SoundInv'
  BY CpSound, ViewSound, MemSound, UpdSound DEF SoundInv

LEMMA StepWait ==
    TypeInv /\ SoundInv /\ PlaceInv /\ WaitInv /\ RunInv /\ Writes /\ [Next]_vars => WaitInv'
<1> SUFFICES ASSUME TypeInv, SoundInv, PlaceInv, WaitInv, RunInv, Writes, [Next]_vars,
                    cp'.intr # NoPending, NEW t \in Turns, cp'.turn = t
             PROVE  /\ pc'[t] \in {"agent", "end"} => t \in put'
                    /\ pc'[t] \notin {"queued", "accepted"}
                    /\ pc'[t] = "idle" => agent'[t] = "none" /\ \A c \in Calls : work'[<<t, c>>] = "none"
                    /\ \A i \in DOMAIN ledger', c \in Calls :
                          i <= cp'.seen /\ IsFor(ledger'[i], "tool_start", t, <<t, c>>)
                              => Finished(t, c)' \/ Over(t)'
  BY DEF WaitInv
<1>0. /\ ledger \in Seq(Rows) /\ cp \in Snapshots /\ pc \in [Turns -> PCs]
      /\ mem \in [Turns -> Snapshots] /\ upd \in [Turns -> Snapshots]
      /\ agent \in [Turns -> AgentPC] /\ work \in [CallIds -> WorkPC]
      /\ ScopeOK /\ t # NoTurn /\ \A c \in Calls : <<t, c>> \in CallIds
  BY DEF TypeInv, TypeOK, Turns, NoTurn, CallIds
<1>1. ASSUME NEW u \in Turns, cp' = mem[u] PROVE FALSE
  BY <1>1 DEF PlaceInv
<1>2. ASSUME NEW u \in Turns, UpdateState(u) PROVE FALSE
  BY <1>0, <1>2 DEF UpdateState, Snapshots
<1>3. CASE cp' = cp
  <2>1. /\ pc[t] \in {"agent", "end"} => t \in put
        /\ pc[t] \notin {"queued", "accepted"}
        /\ pc[t] = "idle" => agent[t] = "none" /\ \A c \in Calls : work[<<t, c>>] = "none"
        /\ \A i \in DOMAIN ledger, c \in Calls :
              i <= cp.seen /\ IsFor(ledger[i], "tool_start", t, <<t, c>>)
                  => Finished(t, c) \/ Over(t)
    BY <1>3 DEF WaitInv
  <2>2. Accepted(ledger, t) /\ cp.seen <= Len(ledger)
    BY <1>0, <1>3 DEF SoundInv, Sound
  <2>3. ASSUME pc'[t] \in {"agent", "end"} PROVE t \in put'
    <3>1. CASE pc'[t] = pc[t]
      <4>1. t \in put
        BY <2>1, <2>3, <3>1
      <4>2. ~Crash
        BY <2>3 DEF Crash
      <4>. QED
        BY <1>1, <4>1, <4>2, PutSteps
    <3>2. CASE pc'[t] # pc[t]
      <4>1. StartGraph(t) \/ FinishTools(t) \/ AgentReturns(t)
        BY <2>3, <3>2, CameFrom
      <4>2. CASE StartGraph(t)
        BY <2>1, <4>2 DEF StartGraph
      <4>3. CASE FinishTools(t) \/ AgentReturns(t)
        BY <4>3 DEF FinishTools, AgentReturns
      <4>. QED
        BY <4>1, <4>2, <4>3
    <3>. QED
      BY <3>1, <3>2
  <2>4. ASSUME pc'[t] \in {"queued", "accepted"} PROVE FALSE
    <3>1. Submit(t) \/ AcceptTurn(t)
      BY <2>1, <2>4, CameFrom
    <3>. QED
      BY <2>1, <2>2, <3>1 DEF Submit, AcceptTurn
  <2>5. ASSUME pc'[t] = "idle"
        PROVE  agent'[t] = "none" /\ \A c \in Calls : work'[<<t, c>>] = "none"
    <3>1. CASE Crash
      BY <1>0, <3>1 DEF Crash
    <3>2. CASE ~Crash /\ pc[t] = "idle"
      <4>1. agent[t] = "none" /\ \A c \in Calls : work[<<t, c>>] = "none"
        BY <2>1, <3>2
      <4>2. agent'[t] = "none"
        <5>1. ~(StartGraph(t) \/ FinishTools(t))
          BY <3>2 DEF StartGraph, FinishTools
        <5>. QED
          BY <4>1, <5>1, AgentSteps
      <4>3. ASSUME NEW c \in Calls PROVE work'[<<t, c>>] = "none"
        <5>1. ~StartBatch(t)
          BY <3>2 DEF StartBatch
        <5>2. ~(BeginCall(t, c) \/ StartCall(t, c) \/ FinishCall(t, c) \/ LeaveCall(t, c))
          BY <4>1 DEF BeginCall, StartCall, FinishCall, LeaveCall, WorkStep
        <5>. QED
          BY <3>2, <4>1, <5>1, <5>2, WorkerSteps
      <4>. QED
        BY <4>2, <4>3
    <3>3. CASE ~Crash /\ pc[t] # "idle"
      <4>1. RefuseSend(t) \/ EndRun(t) \/ SkipPhase(t)
        BY <1>2, <2>5, <3>3, CameFrom
      <4>2. ~RefuseSend(t)
        BY <2>1 DEF RefuseSend
      <4>3. ~EndRun(t)
        BY <2>1 DEF EndRun
      <4>4. ~SkipPhase(t)
        BY <1>0, <1>3 DEF SkipPhase, Concerns
      <4>. QED
        BY <4>1, <4>2, <4>3, <4>4
    <3>. QED
      BY <3>1, <3>2, <3>3
  <2>6. ASSUME NEW i \in DOMAIN ledger', NEW c \in Calls, i <= cp'.seen,
               IsFor(ledger'[i], "tool_start", t, <<t, c>>)
        PROVE  Finished(t, c)' \/ Over(t)'
    <3>1. i \in DOMAIN ledger /\ i <= cp.seen
      BY <1>0, <1>3, <2>2, <2>6, LedgerKeeps DEF Snapshots
    <3>2. IsFor(ledger[i], "tool_start", t, <<t, c>>)
      BY <1>0, <2>6, <3>1, LedgerKeeps
    <3>3. Finished(t, c) \/ Over(t)
      BY <2>1, <3>1, <3>2
    <3>. QED
      BY <1>0, <3>3, LedgerKeeps DEF Finished, Over, Resulted, Settled
  <2>. QED
    BY <2>3, <2>4, <2>5, <2>6
<1>4. ASSUME NEW u \in Turns, WriteInterrupt(u)
      PROVE  /\ pc'[t] = "wait"
             /\ \A i \in DOMAIN ledger', c \in Calls :
                   i <= cp'.seen /\ IsFor(ledger'[i], "tool_start", t, <<t, c>>)
                       => Finished(t, c)' \/ Over(t)'
  <2>1. pc[u] = "ask" /\ ledger' = ledger /\ pc' = [pc EXCEPT ![u] = "wait"] /\ cp'.turn = mem[u].turn
    BY <1>0, <1>4 DEF WriteInterrupt, Snapshots
  <2>2. u = t
    BY <1>0, <2>1 DEF ScopeOK, InGraph, GraphPC
  <2>3. ASSUME NEW c \in Calls, Begun(t, c), ~Over(t) PROVE Finished(t, c)
    <3>1. Answered(t) /\ (Loose(t, c) => work[<<t, c>>] = "running")
      BY <2>1, <2>2, <2>3 DEF RunInv, Placed
    <3>. QED
      BY <2>3, <3>1 DEF Answered, Loose
  <2>4. \A i \in DOMAIN ledger, c \in Calls :
            IsFor(ledger[i], "tool_start", t, <<t, c>>) => Finished(t, c) \/ Over(t)
    BY <2>3 DEF Begun, HasCall
  <2>. QED
    BY <1>0, <2>1, <2>2, <2>4 DEF Finished, Over
<1>. QED
  BY <1>1, <1>2, <1>3, <1>4, CpSteps

\* A call becomes loose by the step of its worker alone.
LEMMA NewLoose ==
    ASSUME ledger \in Seq(Rows), Writes, NEW t, NEW c, Loose(t, c)', ~StartCall(t, c)
    PROVE  Loose(t, c)
  BY NewStart, LedgerKeeps DEF Loose, Finished, Resulted

LEMMA StepAttach ==
    TypeInv /\ SoundInv /\ PlaceInv /\ WaitInv /\ AttachInv /\ Writes /\ [Next]_vars => AttachInv'
<1> SUFFICES ASSUME TypeInv, SoundInv, PlaceInv, WaitInv, AttachInv, Writes, [Next]_vars,
                    NEW t \in Turns, job'.task = t, pc'[t] = "idle", cp'.intr # NoPending
             PROVE  /\ cp'.turn = t /\ job'.view.turn = t
                    /\ ~Ended(job'.view.status) /\ ~Over(t)' =>
                           \A c \in Calls : Loose(t, c)' => job'.view.calls[c] = "running"
  <2>1. TypeInv /\ [Next]_vars /\ Recovering' => job'.task \in Turns
    <3>1. TypeInv /\ [Next]_vars => job' \in Jobs
      BY StepTypeInv DEF TypeInv, TypeOK
    <3>. QED
      BY <3>1 DEF Recovering, LoopFree, Jobs
  <2>. QED
    BY <2>1 DEF AttachInv, Attaching, Recovering, Ended, Over, Loose, Begun, Finished
<1>0. /\ ledger \in Seq(Rows) /\ cp \in Snapshots /\ pc \in [Turns -> PCs] /\ job \in Jobs
      /\ job.view \in Snapshots /\ job' \in Jobs
      /\ \A u \in Turns, c \in Calls : <<u, c>> \in CallIds
      /\ work \in [CallIds -> WorkPC]
  BY StepTypeInv DEF TypeInv, TypeOK, Jobs, CallIds
<1>1. t # NoTask
  BY NoJobType
<1>2. job' # NoJob
  BY <1>1, NoJobType
<1>3. ASSUME NEW u \in Turns, job' = [NoJob EXCEPT !.task = u], pc'[u] = "settle" PROVE FALSE
  <2>1. job'.task = u
    BY <1>3, JobDoneType
  <2>. QED
    BY <1>3, <2>1
<1>4. ASSUME NEW u \in Turns, \/ BeginSend(u) \/ BeginPhase(u) \/ RepairCall(u)
                              \/ \E d \in Decision : BeginResume(u, d)
      PROVE  FALSE
  <2>1. job'.task = u /\ pc' = pc /\ pc[u] # "idle"
    <3>1. CASE BeginSend(u)
      BY <3>1 DEF BeginSend, StartRecovery
    <3>2. CASE BeginPhase(u)
      BY <3>2 DEF BeginPhase, StartRecovery, PhasePC
    <3>3. CASE RepairCall(u)
      BY <1>0, <3>3 DEF RepairCall, Recovered, Jobs
    <3>4. ASSUME NEW d, BeginResume(u, d) PROVE job'.task = u /\ pc' = pc /\ pc[u] # "idle"
      BY <3>4 DEF BeginResume, StartRecovery
    <3>. QED
      BY <1>4, <3>1, <3>2, <3>3, <3>4
  <2>. QED
    BY <2>1
\* A recovery for an attach is under way, and a worker of the turn does not exist.
<1>5. ASSUME job.task = t, cp' = cp, pc'[t] = pc[t]
      PROVE  /\ cp.turn = t /\ job.view.turn = t
             /\ \A c \in Calls : ~StartCall(t, c)
             /\ ~Ended(job.view.status) /\ ~Over(t)' =>
                    \A c \in Calls : Loose(t, c)' => job.view.calls[c] = "running"
  <2>1. Attaching /\ cp.intr # NoPending
    BY <1>0, <1>1, <1>5 DEF Attaching, Recovering, LoopFree
  <2>2. cp.turn = t /\ job.view.turn = t
    BY <1>5, <2>1 DEF AttachInv
  <2>3. \A c \in Calls : work[<<t, c>>] = "none"
    BY <1>5, <2>1, <2>2 DEF WaitInv, Attaching
  <2>4. \A c \in Calls : ~StartCall(t, c)
    BY <2>3 DEF StartCall, WorkStep
  <2>5. Over(t) => Over(t)'
    BY <1>0, LedgerKeeps DEF Over, Settled
  <2>6. ASSUME NEW c \in Calls, Loose(t, c)' PROVE Loose(t, c)
    BY <1>0, <2>4, <2>6, NewLoose
  <2>. QED
    BY <1>5, <2>1, <2>2, <2>4, <2>5, <2>6 DEF AttachInv
<1>6. CASE job' = job
  <2>1. pc'[t] = pc[t]
    <3> SUFFICES ASSUME pc'[t] # pc[t] PROVE FALSE
      OBVIOUS
    <3>1. \/ Crash \/ RefuseSend(t) \/ EndRun(t) \/ SkipPhase(t) \/ UpdateState(t)
      BY <1>1, <1>6, CameFrom
    <3>. QED
      BY <1>1, <1>2, <1>6, <3>1 DEF Crash, RefuseSend, EndRun, SkipPhase, UpdateState, LoopFree
  <2>2. cp' = cp
    <3>1. ASSUME NEW u \in Turns, cp' = mem[u] PROVE FALSE
      BY <3>1 DEF PlaceInv
    <3>2. ~LoopFree
      BY <1>1, <1>6 DEF LoopFree
    <3>3. ASSUME NEW u \in Turns, WriteInterrupt(u) \/ UpdateState(u) PROVE FALSE
      BY <3>2, <3>3, Zenon DEF WriteInterrupt, UpdateState
    <3>. QED
      BY <3>1, <3>3, CpSteps
  <2>. QED
    BY <1>1, <1>5, <1>6, <2>1, <2>2
<1>7. CASE Recover
  <2>1. UNCHANGED <<cp, pc, work>>
    BY <1>7 DEF Recover
  <2>2. job.task = t
    <3>2. CASE SettleUncertain
      <4>1. PICK d \in Calls, x \in {"tool", job.cause} :
                job' = [job EXCEPT !.view = ViewWithResult(d, ledger'), !.cause = x]
        BY <3>2, Zenon DEF SettleUncertain
      <4>2. job'.task = job.task
        BY <1>0, <4>1 DEF Jobs
      <4>. QED
        BY <4>2
    <3>3. CASE SettleLostRequest
      BY <1>0, <3>3 DEF SettleLostRequest, Jobs
    <3>4. CASE SettleSkipped
      BY <1>0, <3>4 DEF SettleSkipped, Jobs
    <3>5. CASE FailRecovered
      BY <1>0, <3>5 DEF FailRecovered, Jobs
    <3>. QED
      BY <1>7, <3>2, <3>3, <3>4, <3>5 DEF Recover
  <2>3. /\ cp.turn = t /\ job.view.turn = t
        /\ ~Ended(job.view.status) /\ ~Over(t)' =>
               \A c \in Calls : Loose(t, c)' => job.view.calls[c] = "running"
    BY <1>1, <1>5, <2>1, <2>2
  <2>4. ASSUME NEW d \in Calls, NEW s \in FinalResult, ledger' = SettleTool(ledger, t, <<t, d>>, s),
               job'.view = ViewWithResult(d, ledger')
        PROVE  /\ job'.view.turn = t
               /\ ~Ended(job'.view.status) /\ ~Over(t)' =>
                      \A c \in Calls : Loose(t, c)' => job'.view.calls[c] = "running"
    <3>1. Finished(t, d)'
      BY <1>0, <2>3, <2>4, SettleToolAppends DEF Finished
    <3>2. /\ job'.view.turn = t /\ job'.view.status = job.view.status
          /\ \A c \in Calls : c # d => job'.view.calls[c] = job.view.calls[c]
      BY <1>0, <2>3, <2>4 DEF ViewWithResult, Snapshots
    <3>3. \A c \in Calls : Loose(t, c)' => c # d
      BY <3>1 DEF Loose
    <3>. QED
      BY <2>3, <3>2, <3>3
  <2>5. CASE SettleUncertain
    <3> DEFINE v == job.view.turn
    <3>1. PICK d \in Calls : /\ ledger' = SettleTool(ledger, v, <<v, d>>, "unknown")
                             /\ job' = [job EXCEPT !.view = ViewWithResult(d, ledger'),
                                                   !.cause = IF ResultOf(ledger', v, <<v, d>>) = "unknown"
                                                             THEN "tool" ELSE @]
      BY <2>5, Zenon DEF SettleUncertain
    <3>2. ledger' = SettleTool(ledger, t, <<t, d>>, "unknown") /\ job'.view = ViewWithResult(d, ledger')
      BY <1>0, <2>3, <3>1 DEF Jobs
    <3>3. /\ job'.view.turn = t
          /\ ~Ended(job'.view.status) /\ ~Over(t)' =>
                 \A c \in Calls : Loose(t, c)' => job'.view.calls[c] = "running"
      BY <2>4, <3>1, <3>2 DEF FinalResult
    <3>. QED
      BY <2>1, <2>2, <2>3, <3>3
  <2>6. CASE SettleLostRequest
    <3>1. job'.view = job.view
      BY <1>0, <2>6 DEF SettleLostRequest, Jobs
    <3>. QED
      BY <2>1, <2>2, <2>3, <3>1
  <2>7. CASE SettleSkipped
    <3>1. PICK d \in Calls : /\ ledger' = SettleTool(ledger, t, <<t, d>>, "skipped")
                             /\ job' = [job EXCEPT !.view = ViewWithResult(d, ledger')]
      BY <2>3, <2>7 DEF SettleSkipped
    <3>2. job'.view = ViewWithResult(d, ledger')
      BY <1>0, <3>1 DEF Jobs
    <3>3. /\ job'.view.turn = t
          /\ ~Ended(job'.view.status) /\ ~Over(t)' =>
                 \A c \in Calls : Loose(t, c)' => job'.view.calls[c] = "running"
      BY <2>4, <3>1, <3>2 DEF FinalResult
    <3>. QED
      BY <2>1, <2>2, <2>3, <3>3
  <2>8. CASE FailRecovered
    <3>1. job'.view = [job.view EXCEPT !.status = "failed", !.pend = NoPending,
                                       !.seen = TerminalSeq(ledger', job.view.turn)]
      BY <1>0, <2>8 DEF FailRecovered, Jobs
    <3>2. job'.view.turn = t /\ Ended(job'.view.status)
      BY <1>0, <2>3, <3>1 DEF Snapshots, Ended, Terminal
    <3>. QED
      BY <2>1, <2>2, <2>3, <3>2
  <2>. QED
    BY <1>7, <2>5, <2>6, <2>7, <2>8 DEF Recover
<1>8. ASSUME NEW u \in Turns, BeginAttach(u)
      PROVE  /\ job'.task = u /\ cp'.turn = u /\ job'.view.turn = u
             /\ ~Over(u)' => \A c \in Calls : Loose(u, c)' => job'.view.calls[c] = "running"
  <2>1. /\ cp.turn = u /\ pc[u] = "idle" /\ job'.task = u /\ job'.view = Replayed(ledger, cp)
        /\ UNCHANGED <<ledger, cp, pc, work>>
    BY <1>8 DEF BeginAttach, StartRecovery
  <2>2. job'.view.turn = u
    BY <1>0, <2>1, ReplayedType
  <2>3. ASSUME ~Over(u), NEW c \in Calls, Loose(u, c) PROVE job'.view.calls[c] = "running"
    <3>1. PICK i \in DOMAIN ledger : IsFor(ledger[i], "tool_start", u, <<u, c>>)
      BY <2>3 DEF Loose, Begun, HasCall
    <3>2. ~(i <= cp.seen)
      BY <2>1, <2>3, <3>1 DEF WaitInv, Loose
    <3>3. i > cp.seen
      BY <1>0, <3>1, <3>2 DEF Snapshots
    <3>4. u # NoTurn /\ Sound(ledger, cp) /\ ~Resulted(ledger, u, <<u, c>>)
      BY <2>3 DEF SoundInv, Turns, NoTurn, Loose, Finished
    <3>. QED
      BY <1>0, <2>1, <3>1, <3>3, <3>4, ReplayFindsStarts
  <2>. QED
    BY <2>1, <2>2, <2>3 DEF Over, Loose, Begun, Finished
<1>. QED
  BY <1>2, <1>3, <1>4, <1>6, <1>7, <1>8, JobSteps

\* An attach that makes the turn wait again is of the turn whose checkpoint waits.
LEMMA AttachWaits ==
    ASSUME TypeInv, AttachInv, NEW t \in Turns, Attach(t), pc'[t] = "wait"
    PROVE  /\ Attaching /\ job.task = t /\ Uncertain = {} /\ pc[t] = "idle"
           /\ ~Ended(job.view.status) /\ cp.intr # NoPending /\ cp.turn = t
<1>0. pc \in [Turns -> PCs]
  BY DEF TypeInv, TypeOK
<1>1. /\ Recovered(t) /\ pc[t] = "idle" /\ ~Ended(job.view.status)
      /\ job.view.pend # NoPending /\ cp.intr = job.view.pend
  BY <1>0 DEF Attach
<1>2. Recovering /\ job.task = t /\ Uncertain = {}
  BY <1>1 DEF Recovered
<1>3. Attaching /\ cp.intr # NoPending
  BY <1>1, <1>2 DEF Attaching
<1>. QED
  BY <1>1, <1>2, <1>3 DEF AttachInv

\* Where a coroutine that enters one of the places has been.
LEMMA CameToPlace ==
    ASSUME TypeInv, [Next]_vars, NEW t \in Turns, pc'[t] \in Placed, pc'[t] # pc[t]
    PROVE  AcceptTurn(t) \/ AgentReturns(t) \/ pc[t] \in Placed \/ (Attach(t) /\ pc'[t] = "wait")
<1>1. \/ AcceptTurn(t) \/ AgentReturns(t) \/ ResumeGraph(t) \/ AskInteraction(t)
      \/ StartBatch(t) \/ BatchReturns(t) \/ WriteInterrupt(t) \/ CommitDecision(t)
      \/ Attach(t) /\ pc'[t] = "wait"
  BY CameFrom DEF Placed
<1>2. /\ ResumeGraph(t) => pc[t] = "resuming"
      /\ AskInteraction(t) \/ StartBatch(t) => pc[t] = "gate"
      /\ BatchReturns(t) => pc[t] = "batch"
      /\ WriteInterrupt(t) => pc[t] = "ask"
      /\ CommitDecision(t) => pc[t] = "wait"
  BY Zenon DEF ResumeGraph, AskInteraction, StartBatch, BatchReturns, WriteInterrupt, CommitDecision
<1>. QED
  BY <1>1, <1>2 DEF Placed

\* A coroutine comes to a place where its agent node does not run when that
\* node has returned, or has never run.
LEMMA StepAlone == TypeInv /\ ThreadsInv /\ WaitInv /\ AttachInv /\ AloneInv /\ [Next]_vars => AloneInv'
<1> SUFFICES ASSUME TypeInv, ThreadsInv, WaitInv, AttachInv, AloneInv, [Next]_vars, NEW t \in Turns,
                    pc'[t] \in Placed, agent'[t] # "none"
             PROVE  FALSE
  BY DEF AloneInv
<1>0. pc \in [Turns -> PCs] /\ agent \in [Turns -> AgentPC]
  BY DEF TypeInv, TypeOK
<1>1. CASE agent'[t] # agent[t]
  <2>1. ~StartGraph(t) /\ ~FinishTools(t)
    BY <1>0 DEF StartGraph, FinishTools, Placed
  <2>2. AgentThread(t) /\ agent[t] # "none"
    BY <1>1, <2>1, AgentSteps
  <2>3. pc' = pc
    <3>1. ASSUME NEW from, NEW to, AgentStep(t, from, to) PROVE pc' = pc
      BY <3>1 DEF AgentStep
    <3>. QED
      BY <2>2, <3>1, Zenon DEF AgentThread, StartRequest, RequestFails, GiveUp, EndByAgent, Respond
  <2>. QED
    BY <2>2, <2>3 DEF AloneInv
<1>2. CASE agent'[t] = agent[t]
  <2>1. pc[t] \notin Placed /\ pc'[t] # pc[t] /\ agent[t] # "none"
    BY <1>2 DEF AloneInv
  <2>2. ~AcceptTurn(t)
    BY <2>1 DEF ThreadsInv, AcceptTurn
  <2>3. ~AgentReturns(t)
    BY <1>0 DEF AgentReturns
  <2>4. Attach(t) /\ pc'[t] = "wait"
    BY <2>1, <2>2, <2>3, CameToPlace
  <2>. QED
    BY <2>1, <2>4, AttachWaits DEF WaitInv
<1>. QED
  BY <1>1, <1>2

\* The agent node starts, and a batch is left, with no worker behind.
LEMMA StepRun ==
    TypeInv /\ RowsInv /\ ThreadsInv /\ WaitInv /\ AttachInv /\ AloneInv /\ RunInv /\ Writes
        /\ [Next]_vars => RunInv'
<1> SUFFICES ASSUME TypeInv, RowsInv, ThreadsInv, WaitInv, AttachInv, AloneInv, RunInv, Writes,
                    [Next]_vars,
                    NEW t \in Turns, ~Over(t)', pc'[t] \in Placed \/ agent'[t] # "none"
             PROVE  /\ pc'[t] # "batch" => Answered(t)'
                    /\ \A c \in Calls : Loose(t, c)' => work'[<<t, c>>] = "running"
  BY DEF RunInv
<1>0. /\ ledger \in Seq(Rows) /\ pc \in [Turns -> PCs] /\ job \in Jobs
      /\ agent \in [Turns -> AgentPC] /\ work \in [CallIds -> WorkPC]
      /\ \A c \in Calls : <<t, c>> \in CallIds
  BY DEF TypeInv, TypeOK, CallIds
<1>1. ~Crash
  BY DEF Crash, Placed
<1>2. ~Over(t)
  BY <1>0, LedgerKeeps DEF Over, Settled
\* An attach that makes the turn wait again finds nothing of it left behind.
<1>3. ASSUME Attach(t), pc'[t] = "wait"
      PROVE  /\ agent[t] = "none" /\ \A c \in Calls : work[<<t, c>>] = "none"
             /\ \A c \in Calls : ~Loose(t, c)
  <2>1. /\ Attaching /\ job.task = t /\ Uncertain = {} /\ pc[t] = "idle"
        /\ ~Ended(job.view.status) /\ cp.intr # NoPending /\ cp.turn = t
    BY <1>3, AttachWaits
  <2>2. \A c \in Calls : Loose(t, c) => job.view.calls[c] = "running"
    BY <1>2, <2>1 DEF AttachInv
  <2>3. agent[t] = "none" /\ \A c \in Calls : work[<<t, c>>] = "none"
    BY <2>1 DEF WaitInv
  <2>. QED
    BY <2>1, <2>2, <2>3 DEF Uncertain
\* Only the start of a batch gives an answered turn new work.
<1>4. ASSUME Answered(t), ~StartBatch(t) PROVE Answered(t)'
  <2> SUFFICES ASSUME NEW c \in Calls PROVE work'[<<t, c>>] \notin {"queued", "begun", "running"}
    BY DEF Answered
  <2>1. work[<<t, c>>] \notin {"queued", "begun", "running"}
    BY <1>4 DEF Answered
  <2>2. ASSUME BeginCall(t, c) \/ StartCall(t, c) \/ FinishCall(t, c) \/ LeaveCall(t, c)
        PROVE  work'[<<t, c>>] \in {"left_running", "done"}
    BY <1>0, <2>1, <2>2 DEF BeginCall, StartCall, FinishCall, LeaveCall, WorkStep
  <2>. QED
    BY <1>1, <1>4, <2>1, <2>2, WorkerSteps
<1>6. CASE pc[t] \in Placed \/ agent[t] # "none"
  <2>1. /\ pc[t] \in Placed => agent[t] = "none"
        /\ pc[t] # "batch" => Answered(t)
        /\ \A c \in Calls : Loose(t, c) => work[<<t, c>>] = "running"
    BY <1>2, <1>6 DEF RunInv, AloneInv
  <2>3. ASSUME pc'[t] # "batch" PROVE Answered(t)'
    <3>1. CASE StartBatch(t)
      <4>1. work' = work /\ pc[t] = "gate"
        BY <1>0, <2>3, <3>1 DEF StartBatch
      <4>. QED
        BY <2>1, <4>1 DEF Answered
    <3>2. CASE pc[t] = "batch"
      <4>1. agent[t] = "none" /\ pc'[t] # pc[t]
        BY <2>1, <2>3, <3>2 DEF Placed
      <4>2. ASSUME Cancel(t) \/ GraphTimeout(t) PROVE FALSE
        <5>1. pc'[t] \in {"persist", "repair", "abort"} /\ agent' = agent
          BY <1>0, <4>2 DEF Cancel, GraphTimeout, LeaveGraph
        <5>. QED
          BY <4>1, <5>1 DEF Placed
      <4>3. ~Submit(t)
        BY <3>2 DEF Submit
      <4>4. Coroutine(t)
        BY <1>1, <4>1, <4>2, <4>3, PcSteps
      <4>5. BatchReturns(t)
        BY <3>2, <4>1, <4>4
        DEF Coroutine, BeginSend, RefuseSend, AcceptTurn, StartGraph, AgentReturns, AskInteraction,
            WriteInterrupt, StartBatch, GateMismatch, SettleDenied, FinishTools, EndRun,
            CommitDecision, RejectResume, ResumeGraph, Attach, SkipPhase, BeginPhase, RepairCall,
            RepairDone, Finalize, UpdateState, PhasePC
      <4>. QED
        BY <4>5 DEF BatchReturns, Answered
    <3>. QED
      BY <1>4, <2>1, <3>1, <3>2
  <2>4. ASSUME NEW c \in Calls, Loose(t, c)' PROVE work'[<<t, c>>] = "running"
    <3>1. CASE StartCall(t, c)
      <4>1. CASE work[<<t, c>>] = "left_begun"
        BY <1>0, <2>4, <4>1, LedgerKeeps DEF ThreadsInv, Loose, Finished, Resulted
      <4>2. CASE work[<<t, c>>] # "left_begun"
        BY <1>0, <3>1, <4>2 DEF StartCall, WorkStep
      <4>. QED
        BY <4>1, <4>2
    <3>2. CASE ~StartCall(t, c)
      <4>1. Loose(t, c) /\ work[<<t, c>>] = "running"
        BY <1>0, <2>1, <2>4, <3>2, NewLoose
      <4>2. ~StartBatch(t)
        BY <2>1, <4>1 DEF StartBatch, Answered
      <4>3. ASSUME NEW s \in FinalResult, ledger' = SettleTool(ledger, t, <<t, c>>, s) PROVE FALSE
        BY <1>0, <2>4, <4>3, SettleToolAppends DEF Loose, Finished
      <4>4. ~FinishCall(t, c) /\ ~LeaveCall(t, c)
        BY <4>3 DEF FinishCall, LeaveCall, FinalResult
      <4>5. ~BeginCall(t, c)
        BY <4>1 DEF BeginCall, WorkStep
      <4>. QED
        BY <1>1, <3>2, <4>1, <4>2, <4>4, <4>5, WorkerSteps
    <3>. QED
      BY <3>1, <3>2
  <2>. QED
    BY <2>3, <2>4
<1>7. CASE pc[t] \notin Placed /\ agent[t] = "none"
  <2>1. agent'[t] = "none"
    <3>1. ~StartGraph(t) /\ ~FinishTools(t)
      BY <1>7 DEF StartGraph, FinishTools, Placed
    <3>. QED
      BY <1>7, <3>1, AgentSteps
  <2>2. AcceptTurn(t) \/ (Attach(t) /\ pc'[t] = "wait")
    <3>1. pc'[t] \in Placed /\ pc'[t] # pc[t]
      BY <1>7, <2>1
    <3>2. ~AgentReturns(t)
      BY <1>7 DEF AgentReturns
    <3>. QED
      BY <1>7, <3>1, <3>2, CameToPlace
  <2>3. /\ \A c \in Calls : work[<<t, c>>] = "none" /\ ~Loose(t, c)
        /\ work' = work
    <3>1. CASE AcceptTurn(t)
      <4>1. ~Accepted(ledger, t) /\ work' = work
        BY <3>1 DEF AcceptTurn, ThreadsInv
      <4>. QED
        BY <4>1, BegunAccepted DEF ThreadsInv, Loose
    <3>2. CASE Attach(t) /\ pc'[t] = "wait"
      BY <1>3, <3>2 DEF Attach
    <3>. QED
      BY <2>2, <3>1, <3>2
  <2>4. Answered(t)'
    BY <2>3 DEF Answered
  <2>5. \A c \in Calls : ~Loose(t, c)'
    <3>1. \A c \in Calls : ~StartCall(t, c)
      BY <2>3 DEF StartCall, WorkStep
    <3>. QED
      BY <1>0, <2>3, <3>1, NewLoose
  <2>. QED
    BY <2>4, <2>5
<1>. QED
  BY <1>6, <1>7

LEMMA InitPromiseInv == Init => PromiseInv
<1> SUFFICES ASSUME Init PROVE PromiseInv
  OBVIOUS
<1>0. EmptySnapshot.turn = NoTurn /\ EmptySnapshot.intr = NoPending
  BY DEF EmptySnapshot
<1>1. SoundInv
  <2>1. \A L : Sound(L, EmptySnapshot)
    BY <1>0 DEF Sound
  <2>2. cp = EmptySnapshot /\ \A t \in Turns : mem[t] = EmptySnapshot /\ upd[t] = EmptySnapshot
    BY DEF Init, NoUpdate
  <2>3. job.view = EmptySnapshot
    <3>1. NoJob.view = EmptySnapshot
      BY DEF NoJob
    <3>. QED
      BY <3>1 DEF Init
  <2>. QED
    BY <2>1, <2>2, <2>3 DEF SoundInv
<1>2. RowsInv /\ ThreadsInv
  BY DEF Init, RowsInv, ThreadsInv, CallIds
<1>3. PlaceInv /\ WaitInv /\ AttachInv
  BY <1>0 DEF Init, PlaceInv, WaitInv, AttachInv
<1>4. AloneInv /\ RunInv
  BY DEF Init, AloneInv, RunInv, Placed
<1>. QED
  BY <1>1, <1>2, <1>3, <1>4 DEF PromiseInv

LEMMA StepPromiseInv == TypeInv /\ PromiseInv /\ Writes /\ [Next]_vars => PromiseInv'
<1> SUFFICES ASSUME TypeInv, PromiseInv, Writes, [Next]_vars PROVE PromiseInv'
  OBVIOUS
<1>0. /\ SoundInv /\ RowsInv /\ ThreadsInv /\ PlaceInv /\ WaitInv /\ AttachInv
      /\ AloneInv /\ RunInv /\ ledger \in Seq(Rows)
  BY DEF PromiseInv, TypeInv, TypeOK
<1>1. SoundInv' /\ RowsInv'
  BY <1>0, StepSound, StepRows
<1>2. ThreadsInv' /\ PlaceInv'
  BY <1>0, StepThreads, StepPlace
<1>3. WaitInv' /\ AttachInv' /\ AloneInv' /\ RunInv'
  BY <1>0, StepWait, StepAttach, StepAlone, StepRun
<1>. QED
  BY <1>1, <1>2, <1>3 DEF PromiseInv

-----------------------------------------------------------------------------
(* What follows.                                                           *)

LEMMA StepFactsOnce == ledger \in Seq(Rows) /\ FactsWrittenOnce /\ Writes => FactsWrittenOnce'
<1> SUFFICES ASSUME ledger \in Seq(Rows), FactsWrittenOnce, Writes,
                    NEW j \in DOMAIN ledger', ledger'[j].type \in OnceTypes,
                    NEW i \in 1 .. (j - 1), ledger'[i].type = ledger'[j].type,
                    ledger'[i].turn = ledger'[j].turn, ledger'[i].call = ledger'[j].call
             PROVE  FALSE
  BY DEF FactsWrittenOnce
<1>1. j \notin DOMAIN ledger
  <2> SUFFICES ASSUME j \in DOMAIN ledger PROVE FALSE
    OBVIOUS
  <2>1. i \in DOMAIN ledger
    OBVIOUS
  <2>2. ledger'[i] = ledger[i] /\ ledger'[j] = ledger[j]
    BY <2>1, LedgerKeeps
  <2>. QED
    BY <2>2 DEF FactsWrittenOnce
<1>2. PICK row \in Rows : ledger' = Append(ledger, row) /\ Fits(row)
  BY <1>1 DEF Writes
<1>3. j = Len(ledger) + 1 /\ ledger'[j] = row /\ i \in DOMAIN ledger /\ ledger'[i] = ledger[i]
  BY <1>1, <1>2, Grown
<1>4. IsFor(ledger[i], row.type, row.turn, row.call)
  BY <1>3 DEF IsFor, IsOf
<1>5. HasCall(ledger, row.type, row.turn, row.call) /\ Has(ledger, row.type, row.turn)
  BY <1>3, <1>4 DEF HasCall, Has, IsFor
<1>. QED
  BY <1>2, <1>3, <1>5 DEF Fits, OnceTypes, Accepted, Asked, Decided, Resulted, Over, Settled

PromisesInv == TypeInv /\ GateInv /\ PromiseInv /\ FactsWrittenOnce

LEMMA InitPromisesInv == Init => PromisesInv
<1>1. Init => GateInv /\ FactsWrittenOnce
  BY DEF Init, GateInv, FactsWrittenOnce, CallIds
<1>. QED
  BY <1>1, InitTypeInv, InitPromiseInv DEF PromisesInv

LEMMA StepPromisesInv == PromisesInv /\ [Next]_vars => PromisesInv' /\ Writes
<1> SUFFICES ASSUME PromisesInv, [Next]_vars PROVE PromisesInv' /\ Writes
  OBVIOUS
<1>0. TypeInv /\ GateInv /\ PromiseInv /\ FactsWrittenOnce /\ ledger \in Seq(Rows)
  BY DEF PromisesInv, TypeInv, TypeOK
<1>1. Writes
  BY <1>0, StepWrites
<1>. QED
  BY <1>0, <1>1, StepTypeInv, StepGateInv, StepPromiseInv, StepFactsOnce DEF PromisesInv

\* No fact is written twice: a call of a turn has one result, a turn one
\* settlement, an interaction one request and one answer, whichever of the
\* turn's coroutines, workers left behind, finalizations and recoveries
\* report it, in whatever order, before or after a crash.
THEOREM FactsOnce == Spec => []FactsWrittenOnce
<1>1. PromisesInv => FactsWrittenOnce
  BY DEF PromisesInv
<1>2. PromisesInv /\ [Next]_vars => PromisesInv'
  BY StepPromisesInv
<1>. QED
  BY <1>1, <1>2, InitPromisesInv, PTL DEF Spec

-----------------------------------------------------------------------------
(* The refinement: one row is one step of the promises, or none.           *)

\* What one more row adds to what the ledger says.
LEMMA SaidGrows ==
    ASSUME ledger \in Seq(Rows), NEW row \in Rows, ledger' = Append(ledger, row)
    PROVE  /\ \A type : Said(type)' = Said(type) \cup
                 IF row.type = type /\ row.turn = row.call[1] THEN {<<row.call, row.status>>} ELSE {}
           /\ {ledger'[i].turn : i \in RowsOf("accepted")'} =
                 {ledger[i].turn : i \in RowsOf("accepted")} \cup
                 IF row.type = "accepted" THEN {row.turn} ELSE {}
           /\ Outcomes' = Outcomes \cup
                 IF row.type = "terminal" THEN {<<row.turn, row.status>>} ELSE {}
<1> DEFINE n == Len(ledger) + 1
<1>1. /\ DOMAIN ledger' = DOMAIN ledger \cup {n} /\ n \notin DOMAIN ledger /\ ledger'[n] = row
      /\ \A i \in DOMAIN ledger : ledger'[i] = ledger[i]
  BY Grown
<1>. HIDE DEF n
<1>2. ASSUME NEW type
      PROVE  Said(type)' = Said(type) \cup
                 IF row.type = type /\ row.turn = row.call[1] THEN {<<row.call, row.status>>} ELSE {}
  <2> DEFINE Says(r, x) == r.type = type /\ r.turn = r.call[1] /\ x = <<r.call, r.status>>
  <2>1. ASSUME NEW x PROVE x \in Said(type) <=> \E i \in DOMAIN ledger : Says(ledger[i], x)
    BY DEF Said, RowsOf
  <2>2. ASSUME NEW x PROVE x \in Said(type)' <=> \E i \in DOMAIN ledger' : Says(ledger'[i], x)
    BY DEF Said, RowsOf
  <2>3. ASSUME NEW x PROVE x \in Said(type)' <=> x \in Said(type) \/ Says(row, x)
    <3>. HIDE DEF Says
    <3>. QED
      BY <1>1, <2>1, <2>2
  <2>. QED
    BY <2>3
<1>3. {ledger'[i].turn : i \in RowsOf("accepted")'} =
          {ledger[i].turn : i \in RowsOf("accepted")} \cup
          IF row.type = "accepted" THEN {row.turn} ELSE {}
  BY <1>1 DEF RowsOf
<1>4. Outcomes' = Outcomes \cup IF row.type = "terminal" THEN {<<row.turn, row.status>>} ELSE {}
  BY <1>1 DEF Outcomes, RowsOf
<1>. QED
  BY <1>2, <1>3, <1>4

\* One more row is a promise made or kept, or says nothing of one.
LEMMA RowIsPromise ==
    ASSUME ledger \in Seq(Rows), NEW row \in Rows, ledger' = Append(ledger, row), Fits(row)
    PROVE  [Promises!Next]_(Promises!promises)
<1> DEFINE t  == row.turn
           id == row.call
           own == t = id[1]
           accepted == {ledger[i].turn : i \in RowsOf("accepted")}
           begun == {said[1] : said \in Said("tool_start")}
<1>1. /\ \A type : Said(type)' = Said(type) \cup
             IF row.type = type /\ own THEN {<<id, row.status>>} ELSE {}
      /\ {ledger'[i].turn : i \in RowsOf("accepted")'} =
             accepted \cup IF row.type = "accepted" THEN {t} ELSE {}
      /\ Outcomes' = Outcomes \cup IF row.type = "terminal" THEN {<<t, row.status>>} ELSE {}
  BY SaidGrows
<1>2. /\ row.type \in RowType /\ t \in Turns
      /\ row.type \in {"tool_start", "tool_result", "ask", "decision"} => id \in CallIds
      /\ row.type = "tool_result" => row.status \in FinalResult
      /\ row.type = "decision"    => row.status \in Decision
      /\ row.type = "terminal"    => row.status \in Terminal
  <2>1. row \in RowShape
    BY DEF Rows
  <2>2. row.type \in RowType
    BY <2>1, Zenon DEF RowShape
  <2>3. t \in Turns
    BY <2>1, Zenon DEF RowShape
  <2>. QED
    BY <2>2, <2>3 DEF Rows
<1>3. Accepted(ledger, t) <=> t \in accepted
  BY DEF Accepted, Has, IsOf, RowsOf
<1>4. ASSUME NEW type, NEW s, own, <<id, s>> \in Said(type)
      PROVE  HasCall(ledger, type, t, id)
  BY <1>4 DEF Said, RowsOf, HasCall, IsFor, IsOf
<1>5. {said[1] : said \in Said("tool_start")}' =
          begun \cup IF row.type = "tool_start" /\ own THEN {id} ELSE {}
  <2>1. CASE row.type = "tool_start" /\ own
    <3>1. Said("tool_start")' = Said("tool_start") \cup {<<id, row.status>>}
      BY <1>1, <2>1
    <3>2. <<id, row.status>>[1] = id
      OBVIOUS
    <3>3. \A S, pair : {said[1] : said \in S \cup {pair}} = {said[1] : said \in S} \cup {pair[1]}
      BY Zenon
    <3>4. {said[1] : said \in Said("tool_start") \cup {<<id, row.status>>}} = begun \cup {id}
      BY <3>2, <3>3
    <3>5. {said[1] : said \in Said("tool_start")}' = begun \cup {id}
      BY <3>1, <3>4
    <3>. QED
      BY <2>1, <3>5
  <2>2. CASE ~(row.type = "tool_start" /\ own)
    <3>1. Said("tool_start")' = Said("tool_start")
      BY <1>1, <2>2
    <3>. QED
      BY <2>2, <3>1
  <2>. QED
    BY <2>1, <2>2
<1>. HIDE DEF own
<1>6. CASE row.type = "accepted"
  <2>1. Promises!Accept(t)
    BY <1>1, <1>3, <1>5, <1>6 DEF Fits, Promises!Accept
  <2>. QED
    BY <1>2, <2>1 DEF Promises!Next
<1>7. CASE row.type = "decision"
  <2>1. own /\ id \in CallIds /\ id \in Turns \X Gated /\ t \in accepted
    BY <1>2, <1>3, <1>7 DEF Fits, own, CallIds
  <2>2. ~Promises!Known(Said("decision"), id)
    <3> SUFFICES ASSUME NEW pair \in Said("decision"), pair[1] = id PROVE FALSE
      BY DEF Promises!Known
    <3>1. pair = <<id, pair[2]>>
      BY DEF Said
    <3>. QED
      BY <1>4, <1>7, <2>1, <3>1 DEF Fits, Decided
  <2>3. Promises!Decide(id, row.status)
    BY <1>1, <1>5, <1>7, <2>1, <2>2 DEF Promises!Decide, own
  <2>. QED
    BY <1>2, <1>7, <2>1, <2>3 DEF Promises!Next, Decision
<1>8. CASE row.type = "tool_start"
  <2>1. own /\ id \in CallIds /\ t \in accepted
    BY <1>2, <1>3, <1>8 DEF Fits, own
  <2>2. ASSUME id \in Turns \X Gated PROVE <<id, "allow">> \in Said("decision")
    <3>1. PICK i \in DOMAIN ledger : Consents(ledger[i], t, id)
      BY <1>8, <2>2 DEF Fits, Allowed
    <3>. QED
      BY <2>1, <3>1 DEF Said, RowsOf, Consents, IsFor, IsOf, own
  <2>3. Promises!Begin(id)
    BY <1>1, <1>5, <1>8, <2>1, <2>2 DEF Promises!Begin, own
  <2>. QED
    BY <2>1, <2>3 DEF Promises!Next
<1>9. CASE row.type = "tool_result" /\ own
  <2>1. id \in CallIds /\ t \in accepted /\ row.status \in FinalResult
    BY <1>2, <1>3, <1>9 DEF Fits
  <2>2. ~Promises!Known(Said("tool_result"), id)
    <3> SUFFICES ASSUME NEW pair \in Said("tool_result"), pair[1] = id PROVE FALSE
      BY DEF Promises!Known
    <3>1. pair = <<id, pair[2]>>
      BY DEF Said
    <3>. QED
      BY <1>4, <1>9, <3>1 DEF Fits, Resulted
  <2>3. ASSUME row.status = "succeeded" PROVE id \in begun
    <3>1. PICK i \in DOMAIN ledger : IsFor(ledger[i], "tool_start", t, id)
      BY <1>9, <2>3 DEF Fits, HasCall
    <3>2. <<id, ledger[i].status>> \in Said("tool_start")
      BY <1>9, <3>1 DEF Said, RowsOf, IsFor, IsOf, own
    <3>. QED
      BY <3>2
  <2>4. ASSUME row.status = "denied" PROVE <<id, "deny">> \in Said("decision")
    <3>1. PICK i \in DOMAIN ledger : IsFor(ledger[i], "decision", t, id) /\ ledger[i].status = "deny"
      BY <1>9, <2>4 DEF Fits, Refused
    <3>. QED
      BY <1>9, <3>1 DEF Said, RowsOf, IsFor, IsOf, own
  <2>5. Promises!Finish(id, row.status)
    BY <1>1, <1>5, <1>9, <2>1, <2>2, <2>3, <2>4 DEF Promises!Finish, own
  <2>. QED
    BY <2>1, <2>5 DEF Promises!Next
<1>10. CASE row.type = "terminal"
  <2>1. t \in accepted /\ row.status \in Terminal
    BY <1>2, <1>3, <1>10 DEF Fits
  <2>2. ~Promises!Known(Outcomes, t)
    <3> SUFFICES ASSUME NEW pair \in Outcomes, pair[1] = t PROVE FALSE
      BY DEF Promises!Known
    <3>1. PICK i \in RowsOf("terminal") : pair = <<ledger[i].turn, ledger[i].status>>
      BY DEF Outcomes
    <3>. QED
      BY <1>10, <3>1 DEF Fits, Over, Settled, Has, IsOf, RowsOf
  <2>3. ASSUME row.status = "completed", NEW x \in begun, x[1] = t
        PROVE  Promises!Known(Said("tool_result"), x)
    <3>1. PICK i \in RowsOf("tool_start") : x = ledger[i].call /\ ledger[i].turn = ledger[i].call[1]
      BY DEF Said
    <3>2. x \in CallIds /\ IsFor(ledger[i], "tool_start", t, x) /\ i \in DOMAIN ledger
      <4>1. i \in DOMAIN ledger /\ ledger[i] \in Rows /\ ledger[i].type = "tool_start"
        BY ElementOfSeq DEF RowsOf
      <4>. QED
        BY <2>3, <3>1, <4>1 DEF Rows, IsFor, IsOf
    <3>3. PICK c \in Calls : x = <<t, c>>
      BY <2>3, <3>2 DEF CallIds
    <3>4. Finished(t, c)
      BY <1>10, <2>3, <3>2, <3>3 DEF Fits, Begun, HasCall
    <3>5. PICK j \in DOMAIN ledger : IsFor(ledger[j], "tool_result", t, x)
      BY <3>3, <3>4 DEF Finished, Resulted, HasCall
    <3>6. <<x, ledger[j].status>> \in Said("tool_result")
      BY <2>3, <3>5 DEF Said, RowsOf, IsFor, IsOf
    <3>. QED
      BY <3>6 DEF Promises!Known
  <2>4. Promises!End(t, row.status)
    BY <1>1, <1>5, <1>10, <2>1, <2>2, <2>3 DEF Promises!End
  <2>. QED
    BY <1>2, <2>1, <2>4 DEF Promises!Next
<1>11. CASE /\ row.type \notin {"accepted", "decision", "tool_start", "terminal"}
            /\ ~(row.type = "tool_result" /\ own)
  BY <1>1, <1>5, <1>11 DEF Promises!promises
<1>. QED
  BY <1>6, <1>7, <1>8, <1>9, <1>10, <1>11

LEMMA StepIsPromise ==
    ASSUME ledger \in Seq(Rows), Writes
    PROVE  [Promises!Next]_(Promises!promises)
<1>1. CASE ledger' = ledger
  BY <1>1 DEF Promises!promises, Said, Outcomes, RowsOf
<1>. QED
  BY <1>1, RowIsPromise DEF Writes

\* The ledger keeps the session's promises: one answer, one result and one
\* outcome each; a gated call begins with the user's consent, a success has
\* begun and a refusal was refused; a turn that completes has finished every
\* call it has begun.
THEOREM KeepsPromises == Spec => PromisesKept
<1>1. Init => Promises!Init
  BY DEF Init, Promises!Init, Said, Outcomes, RowsOf
<1>2. PromisesInv /\ [Next]_vars => [Promises!Next]_(Promises!promises)
  <2>1. PromisesInv => ledger \in Seq(Rows)
    BY DEF PromisesInv, TypeInv, TypeOK
  <2>. QED
    BY <2>1, StepPromisesInv, StepIsPromise
<1>3. PromisesInv /\ [Next]_vars => PromisesInv'
  BY StepPromisesInv
<1>. QED
  BY <1>1, <1>2, <1>3, InitPromisesInv, PTL DEF Spec, PromisesKept, Promises!Spec

-----------------------------------------------------------------------------
(* The checkpoint.                                                         *)

\* A session of one turn: any two turns are the same.
LEMMA OneTurn == ASSUME MaxTurn = 1, NEW t \in Turns, NEW u \in Turns PROVE t = u
  BY DEF Turns

\* In a session of one turn every row is of that turn, and a call has one
\* result there: the one that is recorded.
LEMMA RecordedIsResult ==
    ASSUME MaxTurn = 1, FactsWrittenOnce, ledger \in Seq(Rows), NEW t \in Turns, NEW c \in Calls,
           NEW x \in FinalResult, Recorded(ledger, t, c, x)
    PROVE  Resulted(ledger, t, <<t, c>>) /\ ResultOf(ledger, t, <<t, c>>) = x
<1> DEFINE Shows(s) == \E i \in DOMAIN ledger :
                          IsFor(ledger[i], "tool_result", t, <<t, c>>) /\ ledger[i].status = s
<1>0. ASSUME NEW i \in DOMAIN ledger PROVE ledger[i].turn = t
  <2>1. ledger[i] \in Rows
    BY ElementOfSeq
  <2>2. ledger[i].turn \in Turns
    BY <2>1 DEF Rows, RowShape
  <2>. QED
    BY <2>2, OneTurn
<1>1. PICK i \in DOMAIN ledger : IsFor(ledger[i], "tool_result", t, <<t, c>>) /\ ledger[i].status = x
  BY <1>0 DEF Recorded, IsFor, IsOf
<1>2. ASSUME NEW j \in DOMAIN ledger, IsFor(ledger[j], "tool_result", t, <<t, c>>)
      PROVE  j = i
  <2>1. /\ ledger[i].type = "tool_result" /\ ledger[j].type = "tool_result"
        /\ ledger[i].turn = ledger[j].turn /\ ledger[i].call = ledger[j].call
    BY <1>1, <1>2 DEF IsFor, IsOf
  <2>2. ~(i \in 1 .. (j - 1)) /\ ~(j \in 1 .. (i - 1))
    BY <1>1, <1>2, <2>1 DEF FactsWrittenOnce, OnceTypes
  <2>3. DOMAIN ledger = 1 .. Len(ledger) /\ Len(ledger) \in Nat
    OBVIOUS
  <2>. QED
    BY <1>1, <1>2, <2>2, <2>3
<1>3. Shows(x) /\ \A s \in FinalResult : Shows(s) => s = x
  BY <1>1, <1>2
<1>4. ResultOf(ledger, t, <<t, c>>) = CHOOSE s \in FinalResult : Shows(s)
  BY DEF ResultOf
<1>. HIDE DEF Shows
<1>5. (CHOOSE s \in FinalResult : Shows(s)) = x
  BY <1>3
<1>. QED
  BY <1>1, <1>4, <1>5 DEF Resulted, HasCall

\* The checkpoint is borne out by the ledger, for every number of turns: its
\* turn is accepted, its cursor inside, what it waits for has been asked, and
\* a call it holds a result of has one, the checkpoint's being in some row of
\* that call.  Only the invariant that this is so of every state the graph, the
\* finalizations and the recoveries build carries through an update that
\* merges two of them.
THEOREM CheckpointIsBorneOut == Spec => []Sound(ledger, cp)
<1>1. PromisesInv => Sound(ledger, cp)
  BY DEF PromisesInv, PromiseInv, SoundInv
<1>2. PromisesInv /\ [Next]_vars => PromisesInv'
  BY StepPromisesInv
<1>. QED
  BY <1>1, <1>2, InitPromisesInv, PTL DEF Spec

\* In a session of one turn the result the checkpoint holds is the one of the
\* call in that turn: what a restarted process finds in the checkpoint is a
\* prefix of what it can read.  It is not so of two turns and a cancel, because
\* finish_node looks results up by their call alone: it takes the row that the
\* repair of the other, cancelled turn has written for the call's own.
THEOREM CheckpointIsBehind ==
    ASSUME MaxTurn = 1
    PROVE  Spec => []CheckpointFollowsLedger
<1>1. PromisesInv => CheckpointFollowsLedger
  <2> SUFFICES ASSUME PromisesInv, cp.turn # NoTurn PROVE CheckpointFollowsLedger
    BY DEF CheckpointFollowsLedger
  <2>1. /\ FactsWrittenOnce /\ ledger \in Seq(Rows) /\ cp \in Snapshots
        /\ Sound(ledger, cp)
    BY DEF PromisesInv, TypeInv, TypeOK, PromiseInv, SoundInv
  <2>2. cp.turn \in Turns
    BY <2>1 DEF Snapshots
  <2>3. ASSUME NEW c \in Calls, cp.calls[c] \in FinalResult
        PROVE  /\ Resulted(ledger, cp.turn, <<cp.turn, c>>)
               /\ ResultOf(ledger, cp.turn, <<cp.turn, c>>) = cp.calls[c]
    BY <2>1, <2>2, <2>3, RecordedIsResult DEF Sound
  <2>. QED
    BY <2>1, <2>3 DEF Sound, CheckpointFollowsLedger
<1>2. PromisesInv /\ [Next]_vars => PromisesInv'
  BY StepPromisesInv
<1>. QED
  BY <1>1, <1>2, InitPromisesInv, PTL DEF Spec

-----------------------------------------------------------------------------
(* A call is started once, as long as the process does not die.            *)

Defined(t, c) == \E i \in DOMAIN ledger : IsOf(ledger[i], "response", t) /\ c \in ledger[i].calls

\* No call of the turn's latest response has a worker, or has had one.
Untouched(t) == \A c \in DefinedBy(t) : ~Begun(t, c) /\ work[<<t, c>>] = "none"

\* The calls an agent node has defined are untouched until their batch starts:
\* no coroutine comes back to the places before it once it has left them.  A
\* worker that has yet to start its call is the first to do so, and works for a
\* call its turn has defined.
OnceInv ==
    /\ \A t \in Turns :
          pc[t] \in {"gate", "ask", "wait", "resuming"} \/ agent[t] = "calls" => Untouched(t)
    /\ cp.intr # NoPending => \A t \in Turns : cp.turn = t => pc[t] # "idle"
    /\ \A t \in Turns, c \in Calls :
          /\ work[<<t, c>>] \in {"queued", "begun", "left_begun"} => ~Begun(t, c)
          /\ Begun(t, c) \/ work[<<t, c>>] # "none" => Defined(t, c)
    /\ StartsAreSingle

\* The count of the crashes goes up with every crash, and never down.
LEMMA CrashesCount ==
    ASSUME TypeInv, [Next]_vars, faults'["crash"] = 0
    PROVE  faults["crash"] = 0 /\ ~Crash
<1>0. faults \in [Fault -> Nat] /\ "crash" \in Fault
  BY DEF TypeInv, TypeOK, Fault
<1>1. ASSUME NEW k \in Fault \ {"crash"}, NEW max, Budget(k, max) PROVE faults'["crash"] = faults["crash"]
  BY <1>0, <1>1 DEF Budget
<1>2. ~Crash
  <2> SUFFICES ASSUME Crash PROVE FALSE
    OBVIOUS
  <2>1. faults' = [faults EXCEPT !["crash"] = @ + 1]
    BY DEF Crash, Budget
  <2>2. faults'["crash"] = faults["crash"] + 1 /\ faults["crash"] \in Nat
    BY <1>0, <2>1
  <2>. QED
    BY <2>2
<1>3. CASE UNCHANGED vars \/ Recover
  BY <1>2, <1>3 DEF vars, Recover
<1>4. ASSUME NEW t \in Turns, Coroutine(t) PROVE faults' = faults
  BY <1>4
  DEF Coroutine, BeginSend, RefuseSend, AcceptTurn, StartGraph, AgentReturns, AskInteraction,
      WriteInterrupt, StartBatch, GateMismatch, BatchReturns, SettleDenied, FinishTools, EndRun,
      CommitDecision, RejectResume, ResumeGraph, Attach, SkipPhase, BeginPhase, RepairCall,
      RepairDone, Finalize, UpdateState
<1>5. ASSUME NEW t \in Turns, AgentThread(t) \/ ToolThreads(t) PROVE faults' = faults
  BY <1>5 DEF AgentThread, StartRequest, RequestFails, GiveUp, EndByAgent, Respond, AgentStep,
              ToolThreads, BeginCall, StartCall, FinishCall, LeaveCall, WorkStep
<1>6. ASSUME NEW t \in Turns, FlushCheckpoint(t) \/ User(t) \/ TimesOut(t)
      PROVE  faults'["crash"] = faults["crash"]
  <2>1. CASE Cancel(t)
    BY <1>1, <2>1 DEF Cancel, Fault
  <2>2. CASE GraphTimeout(t)
    BY <1>1, <2>2 DEF GraphTimeout, Fault
  <2>3. CASE BatchTimeout(t)
    BY <1>1, <2>3 DEF BatchTimeout, Fault
  <2>4. CASE ~(Cancel(t) \/ GraphTimeout(t) \/ BatchTimeout(t))
    BY <1>6, <2>4 DEF FlushCheckpoint, User, Submit, BeginAttach, BeginResume, TimesOut
  <2>. QED
    BY <2>1, <2>2, <2>3, <2>4
<1>. QED
  BY <1>2, <1>3, <1>4, <1>5, <1>6 DEF Next

\* Without a crash, a coroutine whose checkpoint waits does not come to its end.
LEMMA StepWaiting ==
    ASSUME PromisesInv, OnceInv, ~Crash, [Next]_vars, cp'.intr # NoPending,
           NEW t \in Turns, cp'.turn = t
    PROVE  pc'[t] # "idle"
<1>0. /\ TypeInv /\ TypeOK /\ ScopeOK /\ PlaceInv /\ WaitInv
      /\ cp \in Snapshots /\ pc \in [Turns -> PCs] /\ mem \in [Turns -> Snapshots]
      /\ upd \in [Turns -> Snapshots]
  BY DEF PromisesInv, PromiseInv, TypeInv, TypeOK
<1>1. ASSUME NEW u \in Turns, cp' = mem[u] PROVE FALSE
  BY <1>0, <1>1 DEF PlaceInv
<1>2. ASSUME NEW u \in Turns, UpdateState(u) PROVE FALSE
  BY <1>0, <1>2 DEF UpdateState, Snapshots
<1>3. ASSUME NEW u \in Turns, WriteInterrupt(u) PROVE pc'[t] # "idle"
  <2>1. pc[u] = "ask" /\ pc' = [pc EXCEPT ![u] = "wait"] /\ cp'.turn = mem[u].turn
    BY <1>0, <1>3 DEF WriteInterrupt, Snapshots
  <2>2. mem[u].turn = u
    BY <1>0, <2>1 DEF ScopeOK, InGraph, GraphPC
  <2>. QED
    BY <1>0, <2>1, <2>2
<1>4. ASSUME cp' = cp, pc'[t] = "idle" PROVE FALSE
  <2>1. /\ pc[t] \in {"agent", "end"} => t \in put
        /\ pc[t] \notin {"queued", "accepted", "idle"}
    BY <1>0, <1>4 DEF OnceInv, WaitInv
  <2>2. RefuseSend(t) \/ EndRun(t) \/ SkipPhase(t)
    BY <1>0, <1>2, <1>4, <2>1, CameFrom
  <2>3. ~RefuseSend(t) /\ ~EndRun(t)
    BY <2>1 DEF RefuseSend, EndRun
  <2>4. ~SkipPhase(t)
    BY <1>0, <1>4 DEF SkipPhase, Concerns, Turns, NoTurn
  <2>. QED
    BY <2>2, <2>3, <2>4
<1>. QED
  BY <1>0, <1>1, <1>2, <1>3, <1>4, CpSteps

\* A defined call stays defined.
LEMMA DefinedStays ==
    ASSUME ledger \in Seq(Rows), Writes, NEW t, NEW c, Defined(t, c)
    PROVE  Defined(t, c)'
  BY LedgerKeeps DEF Defined

\* The calls of a new response are what its turn's latest response defines, and
\* none of them had been defined.
LEMMA RespondDefines ==
    ASSUME ledger \in Seq(Rows), NEW t \in Turns, NEW S \in SUBSET Uses[t], S # {}, Respond(t, S),
           NEW c \in DefinedBy(t)'
    PROVE  c \in Calls /\ ~Defined(t, c)
<1> DEFINE row == ResponseRow(t, Started(ledger, t), S)
           E   == {i \in DefiningRows(ledger') : ledger'[i].turn = t}
           n   == Len(ledger) + 1
<1>1. S \subseteq Calls /\ S \subseteq Fresh(t) /\ ledger' = Append(ledger, row)
  BY BoundsAssumption DEF Respond
<1>2. row \in Rows /\ row.type = "response" /\ row.turn = t /\ row.calls = S
  <2>1. row \in Rows
    BY <1>1, StartedType, RowsAreRows
  <2>. QED
    BY <2>1 DEF ResponseRow, Row
<1>3. Len(ledger) \in Nat
  OBVIOUS
<1>. HIDE DEF row
<1>4. DOMAIN ledger' = DOMAIN ledger \cup {n} /\ ledger'[n] = row
  BY <1>1, <1>2, Grown
<1>5. n \in E
  BY <1>2, <1>4 DEF DefiningRows, NoCalls
<1>6. \A i \in E : i \in DOMAIN ledger \/ i = n
  BY <1>4 DEF DefiningRows
<1>7. PICK i \in E : IsLatest(i, E) /\ c \in ledger'[i].calls /\ c \in Calls
  BY DEF DefinedBy, IsLatest
<1>8. i = n
  <2>1. n <= i
    BY <1>5, <1>7 DEF IsLatest
  <2>. QED
    BY <1>3, <1>6, <2>1
<1>9. c \in S
  BY <1>2, <1>4, <1>7, <1>8
<1>. QED
  BY <1>1, <1>7, <1>9 DEF Fresh, Defined, IsOf

\* What an untouched turn's calls are until its batch starts.
LEMMA UntouchedKept ==
    ASSUME TypeInv, Writes, [Next]_vars, ~Crash, NEW t \in Turns, Untouched(t),
           agent[t] \notin {"sent", "failed"}, ~StartBatch(t)
    PROVE  Untouched(t)'
<1>0. ledger \in Seq(Rows)
  BY DEF TypeInv, TypeOK
<1>1. DefinedBy(t)' = DefinedBy(t) /\ DefinedBy(t) \subseteq Calls
  BY <1>0, DefinedKept DEF DefinedBy
<1>2. ASSUME NEW c \in DefinedBy(t) PROVE ~Begun(t, c)' /\ work'[<<t, c>>] = "none"
  <2>1. c \in Calls /\ ~Begun(t, c) /\ work[<<t, c>>] = "none"
    BY <1>1 DEF Untouched
  <2>2. ~(BeginCall(t, c) \/ StartCall(t, c) \/ FinishCall(t, c) \/ LeaveCall(t, c))
    BY <2>1 DEF BeginCall, StartCall, FinishCall, LeaveCall, WorkStep
  <2>3. work'[<<t, c>>] = "none"
    BY <2>1, <2>2, WorkerSteps
  <2>. QED
    BY <1>0, <2>1, <2>2, <2>3, NewStart
<1>. QED
  BY <1>1, <1>2 DEF Untouched

\* The places before a batch are entered with calls that are untouched.
LEMMA StepUntouched ==
    ASSUME PromisesInv, OnceInv, Writes, ~Crash, [Next]_vars, NEW t \in Turns,
           pc'[t] \in {"gate", "ask", "wait", "resuming"} \/ agent'[t] = "calls"
    PROVE  Untouched(t)'
<1>0. /\ TypeInv /\ ThreadsInv /\ PlaceInv /\ WaitInv /\ AttachInv /\ AloneInv /\ AloneInv'
      /\ ledger \in Seq(Rows) /\ pc \in [Turns -> PCs] /\ agent \in [Turns -> AgentPC]
  <2>1. PromisesInv'
    BY StepPromisesInv
  <2>. QED
    BY <2>1 DEF PromisesInv, PromiseInv, TypeInv, TypeOK
<1> DEFINE Before == {"gate", "ask", "wait", "resuming"}
<1>1. CASE (pc[t] \in Before \/ agent[t] = "calls") /\ ~StartBatch(t)
  <2>1. Untouched(t)
    BY <1>1 DEF OnceInv
  <2>2. agent[t] \notin {"sent", "failed"}
    BY <1>0, <1>1 DEF AloneInv, Placed
  <2>. QED
    BY <1>0, <1>1, <2>1, <2>2, UntouchedKept
<1>2. CASE StartBatch(t)
  <2>1. pc[t] = "gate" /\ agent' = agent /\ pc'[t] \in {"settle", "batch"}
    BY <1>0, <1>2 DEF StartBatch
  <2>. QED
    BY <1>0, <2>1 DEF AloneInv, Placed
<1>3. CASE pc[t] \notin Before /\ agent[t] # "calls"
  <2>1. CASE agent'[t] = "calls"
    <3>1. ~StartGraph(t) /\ ~FinishTools(t)
      BY <1>0, <2>1 DEF StartGraph, FinishTools
    <3>2. AgentThread(t)
      BY <1>0, <1>3, <2>1, <3>1, AgentSteps
    <3>3. PICK S \in SUBSET Uses[t] : Respond(t, S) /\ S # {}
      <4>1. ~(StartRequest(t) \/ RequestFails(t) \/ GiveUp(t) \/ EndByAgent(t))
        BY <1>0, <2>1 DEF StartRequest, RequestFails, GiveUp, EndByAgent, AgentStep
      <4>2. PICK S \in SUBSET Uses[t] : Respond(t, S)
        BY <3>2, <4>1 DEF AgentThread
      <4>3. S # {}
        BY <1>0, <2>1, <4>2 DEF Respond, AgentStep
      <4>. QED
        BY <4>2, <4>3
    <3>4. work' = work
      BY <3>3 DEF Respond, AgentStep
    <3>5. ASSUME NEW c \in DefinedBy(t)' PROVE ~Begun(t, c)' /\ work'[<<t, c>>] = "none"
      <4>1. c \in Calls /\ ~Defined(t, c)
        BY <1>0, <3>3, RespondDefines
      <4>2. ~Begun(t, c) /\ work[<<t, c>>] = "none"
        BY <4>1 DEF OnceInv
      <4>3. ~StartCall(t, c)
        BY <4>2 DEF StartCall, WorkStep
      <4>. QED
        BY <1>0, <3>4, <4>2, <4>3, NewStart
    <3>. QED
      BY <3>5 DEF Untouched
  <2>2. CASE pc'[t] \in Before
    <3>1. pc'[t] # pc[t]
      BY <1>3, <2>2
    <3>2. AgentReturns(t) \/ AskInteraction(t) \/ WriteInterrupt(t) \/ ResumeGraph(t)
          \/ CommitDecision(t) \/ (Attach(t) /\ pc'[t] = "wait")
      BY <1>0, <2>2, <3>1, CameFrom
    <3>3. ~AgentReturns(t)
      BY <1>0, <1>3, <2>2 DEF AgentReturns
    <3>4. /\ AskInteraction(t) => pc[t] = "gate"
          /\ WriteInterrupt(t) => pc[t] = "ask"
          /\ ResumeGraph(t)    => pc[t] = "resuming"
          /\ CommitDecision(t) => pc[t] = "wait"
      BY Zenon DEF AskInteraction, WriteInterrupt, ResumeGraph, CommitDecision
    <3>5. ASSUME Attach(t), pc'[t] = "wait" PROVE FALSE
      BY <1>0, <3>5, AttachWaits DEF OnceInv
    <3>. QED
      BY <1>3, <3>2, <3>3, <3>4, <3>5
  <2>. QED
    BY <2>1, <2>2
<1>. QED
  BY <1>1, <1>2, <1>3

\* A worker that has yet to start its call is the first to, and every worker
\* and every start is of a call that has been defined.
LEMMA StepWorkers ==
    ASSUME PromisesInv, OnceInv, Writes, ~Crash, [Next]_vars, NEW t \in Turns, NEW c \in Calls
    PROVE  /\ work'[<<t, c>>] \in {"queued", "begun", "left_begun"} => ~Begun(t, c)'
           /\ Begun(t, c)' \/ work'[<<t, c>>] # "none" => Defined(t, c)'
<1>0. /\ TypeInv /\ ledger \in Seq(Rows) /\ work \in [CallIds -> WorkPC] /\ <<t, c>> \in CallIds
  BY DEF PromisesInv, TypeInv, TypeOK, CallIds
<1>1. /\ work[<<t, c>>] \in {"queued", "begun", "left_begun"} => ~Begun(t, c)
      /\ Begun(t, c) \/ work[<<t, c>>] # "none" => Defined(t, c)
  BY DEF OnceInv
<1>2. Defined(t, c) => Defined(t, c)'
  BY <1>0, DefinedStays
<1>3. Begun(t, c)' => Begun(t, c) \/ StartCall(t, c)
  BY <1>0, NewStart
<1>4. CASE StartCall(t, c)
  <2>1. work[<<t, c>>] # "none" /\ work'[<<t, c>>] \in {"running", "left_running"}
    BY <1>0, <1>4 DEF StartCall, WorkStep
  <2>. QED
    BY <1>1, <1>2, <2>1
<1>5. CASE StartBatch(t) /\ c \in Runnable(t)
  <2>1. c \in DefinedBy(t) /\ Untouched(t)
    BY <1>5 DEF StartBatch, Runnable, Batch, OnceInv
  <2>2. Defined(t, c) /\ ~Begun(t, c)
    BY <2>1 DEF Untouched, DefinedBy, DefiningRows, Defined, IsOf
  <2>3. ledger' = ledger
    BY <1>5 DEF StartBatch
  <2>. QED
    BY <1>2, <2>2, <2>3 DEF Begun
<1>6. CASE ~StartCall(t, c) /\ work'[<<t, c>>] = work[<<t, c>>]
  BY <1>1, <1>2, <1>3, <1>6
<1>7. CASE BeginCall(t, c) \/ FinishCall(t, c) \/ LeaveCall(t, c)
  <2>1. /\ work[<<t, c>>] # "none"
        /\ work'[<<t, c>>] \in {"queued", "begun", "left_begun"}
               => work[<<t, c>>] \in {"queued", "begun", "left_begun"}
    BY <1>0, <1>7 DEF BeginCall, FinishCall, LeaveCall, WorkStep
  <2>2. work'[<<t, c>>] \in {"queued", "begun", "left_begun"} => ~StartCall(t, c)
    BY <1>0 DEF StartCall, WorkStep
  <2>. QED
    BY <1>1, <1>2, <1>3, <2>1, <2>2
<1>. QED
  BY <1>0, <1>4, <1>5, <1>6, <1>7, WorkerSteps

\* The row of a start is the first of its call.
LEMMA StepSingle ==
    ASSUME PromisesInv, OnceInv, Writes
    PROVE  StartsAreSingle'
<1>0. /\ RowsInv /\ ledger \in Seq(Rows) /\ work \in [CallIds -> WorkPC]
  BY DEF PromisesInv, PromiseInv, TypeInv, TypeOK
<1>1. CASE ledger' = ledger
  BY <1>1 DEF OnceInv, StartsAreSingle, RowsOf
<1>2. ASSUME NEW row \in Rows, ledger' = Append(ledger, row), Fits(row), Signed(row)
      PROVE  StartsAreSingle'
  <2> DEFINE n == Len(ledger) + 1
  <2>1. /\ DOMAIN ledger' = DOMAIN ledger \cup {n} /\ ledger'[n] = row
        /\ \A i \in DOMAIN ledger : ledger'[i] = ledger[i]
    BY <1>2, Grown
  <2>2. ASSUME NEW i \in DOMAIN ledger, ledger[i].type = "tool_start", row.type = "tool_start",
               ledger[i].call = row.call
        PROVE  FALSE
    <3>1. PICK t \in Turns, c \in Calls : row.turn = t /\ row.call = <<t, c>>
      <4>1. row.call \in Turns \X Calls
        BY <2>2 DEF Rows, CallIds
      <4>2. row.call[1] = row.turn
        BY <1>2, <2>2 DEF Fits
      <4>. QED
        BY <4>1, <4>2
    <3>2. StartCall(t, c)
      BY <1>2, <2>2, <3>1 DEF Signed
    <3>3. work[<<t, c>>] \in {"begun", "left_begun"}
      BY <3>2 DEF StartCall, WorkStep
    <3>4. ~Begun(t, c)
      BY <3>3 DEF OnceInv
    <3>5. ledger[i].turn = t
      BY <1>0, <2>2, <3>1 DEF RowsInv, RowOK
    <3>. QED
      BY <2>2, <3>1, <3>4, <3>5 DEF Begun, HasCall, IsFor, IsOf
  <2>3. \A i, j \in DOMAIN ledger :
            ledger[i].type = "tool_start" /\ ledger[j].type = "tool_start"
            /\ ledger[i].call = ledger[j].call => i = j
    BY DEF OnceInv, StartsAreSingle, RowsOf
  <2>. HIDE DEF n
  <2>4. ASSUME NEW i \in DOMAIN ledger', NEW j \in DOMAIN ledger', ledger'[i].type = "tool_start",
               ledger'[j].type = "tool_start", ledger'[i].call = ledger'[j].call
        PROVE  i = j
    BY <2>1, <2>2, <2>3, <2>4
  <2>. QED
    BY <2>4 DEF StartsAreSingle, RowsOf
<1>. QED
  BY <1>1, <1>2 DEF Writes

LEMMA InitOnceInv == Init => OnceInv
<1> SUFFICES ASSUME Init PROVE OnceInv
  OBVIOUS
<1>1. ledger = <<>> /\ cp.intr = NoPending
  BY DEF Init, EmptySnapshot
<1>. QED
  BY <1>1 DEF Init, OnceInv, Begun, HasCall, StartsAreSingle, RowsOf, CallIds

LEMMA StepOnceInv ==
    ASSUME PromisesInv, OnceInv, ~Crash, [Next]_vars
    PROVE  OnceInv'
<1>0. Writes
  BY StepPromisesInv
<1>1. \A t \in Turns :
          pc'[t] \in {"gate", "ask", "wait", "resuming"} \/ agent'[t] = "calls" => Untouched(t)'
  BY <1>0, StepUntouched
<1>2. cp'.intr # NoPending => \A t \in Turns : cp'.turn = t => pc'[t] # "idle"
  BY StepWaiting
<1>3. \A t \in Turns, c \in Calls :
          /\ work'[<<t, c>>] \in {"queued", "begun", "left_begun"} => ~Begun(t, c)'
          /\ Begun(t, c)' \/ work'[<<t, c>>] # "none" => Defined(t, c)'
  BY <1>0, StepWorkers
<1>4. StartsAreSingle'
  BY <1>0, StepSingle
<1>. QED
  BY <1>1, <1>2, <1>3, <1>4 DEF OnceInv

\* A call is started at most once as long as the process does not die: however
\* cancels, time-outs, late workers, answers and other turns interleave, no gate,
\* batch or repair runs it again.
THEOREM CallsStartOnce == Spec => []StartedOnce
<1> DEFINE Inv == PromisesInv /\ (faults["crash"] = 0 => OnceInv)
<1>1. Init => Inv
  BY InitPromisesInv, InitOnceInv
<1>2. Inv /\ [Next]_vars => Inv'
  <2> SUFFICES ASSUME Inv, [Next]_vars PROVE Inv'
    OBVIOUS
  <2>1. PromisesInv'
    BY StepPromisesInv
  <2>2. ASSUME faults'["crash"] = 0 PROVE OnceInv'
    <3>1. faults["crash"] = 0 /\ ~Crash
      BY <2>2, CrashesCount DEF PromisesInv
    <3>. QED
      BY <3>1, StepOnceInv
  <2>. QED
    BY <2>1, <2>2
<1>3. Inv => StartedOnce
  BY DEF OnceInv, StartedOnce
<1>. QED
  BY <1>1, <1>2, <1>3, PTL DEF Spec

-----------------------------------------------------------------------------
(* A session of one turn: once the turn is settled nothing is asked,         *)
(* answered or started, and a checkpoint that says so goes on saying so.     *)

\* Where a turn's graph is at work, and where a recovery finds a coroutine.
Working == {"accepted", "gate", "ask", "batch", "settle", "resuming"}
Resting == {"queued", "wait", "idle"} \cup PhasePC

\* The turn waits for an answer, or may be made to wait by an attach.
Waiting(t) == pc[t] = "wait" \/ (pc[t] = "idle" /\ cp.intr # NoPending)

\* A turn is settled by the recovery of its coroutine, at the end of its graph,
\* or by a finalization: never while the graph is at work or waits, and a
\* recovery that may let it go on sees that it is settled.
OverOK(t) ==
    /\ pc[t] \notin Working
    /\ pc[t] = "agent" => agent[t] \in {"completed", "broken"}
    /\ pc[t] = "wait"  => job.task = t
    /\ Recovering /\ job.task = t /\ Waiting(t) => Ended(job.view.status)

QuietInv ==
    /\ \A i, j \in DOMAIN ledger :
          i < j /\ ledger[i].type = "terminal" /\ ledger[i].turn = ledger[j].turn
              => ledger[j].type # "ask"
    /\ cp.intr # NoPending =>
          \A i \in DOMAIN ledger : IsOf(ledger[i], "terminal", cp.turn) => i > cp.seen
    /\ Recovering => pc[job.task] \in Resting
    /\ \A t \in Turns : Over(t) => OverOK(t)

\* A turn becomes settled by one of four actions.
LEMMA NewEnd ==
    ASSUME ledger \in Seq(Rows), Writes, NEW t, Over(t)', ~Over(t)
    PROVE  Settles(t)
<1>1. PICK row \in Rows : ledger' = Append(ledger, row) /\ Signed(row)
  BY DEF Writes, Over
<1>2. IsOf(row, "terminal", t)
  BY <1>1, GrownHas DEF Over, Settled
<1>. QED
  BY <1>1, <1>2 DEF Signed, IsOf

\* A new row is signed by the action that writes it.
LEMMA NewRow ==
    ASSUME ledger \in Seq(Rows), Writes, NEW i \in DOMAIN ledger', i \notin DOMAIN ledger
    PROVE  Signed(ledger'[i])
<1>1. PICK row \in Rows : ledger' = Append(ledger, row) /\ Signed(row)
  BY DEF Writes
<1>2. ledger'[i] = row
  BY <1>1, Grown
<1>. QED
  BY <1>1, <1>2

\* While the event loop is held no coroutine moves but to let go of it.
LEMMA HeldStays ==
    ASSUME TypeInv, [Next]_vars, ~LoopFree, pc' # pc
    PROVE  job' = NoJob
<1>1. CASE UNCHANGED vars \/ Crash \/ Recover
  BY <1>1 DEF vars, Crash, Recover
<1>2. ASSUME NEW t \in Turns, Coroutine(t) PROVE job' = NoJob
  BY <1>2
  DEF Coroutine, BeginSend, RefuseSend, AcceptTurn, StartGraph, AgentReturns, AskInteraction,
      WriteInterrupt, StartBatch, GateMismatch, BatchReturns, SettleDenied, FinishTools, EndRun,
      CommitDecision, RejectResume, ResumeGraph, Attach, SkipPhase, BeginPhase, RepairCall,
      RepairDone, Finalize, UpdateState
<1>3. ASSUME NEW t \in Turns, AgentThread(t) \/ ToolThreads(t) PROVE pc' = pc
  BY <1>3 DEF AgentThread, StartRequest, RequestFails, GiveUp, EndByAgent, Respond, AgentStep,
              ToolThreads, BeginCall, StartCall, FinishCall, LeaveCall, WorkStep
<1>4. ASSUME NEW t \in Turns, FlushCheckpoint(t) \/ User(t) \/ TimesOut(t) PROVE pc' = pc
  BY <1>4 DEF FlushCheckpoint, User, Submit, Cancel, BeginAttach, BeginResume,
              TimesOut, GraphTimeout, BatchTimeout
<1>. QED
  BY <1>1, <1>2, <1>3, <1>4 DEF Next

\* What the steps that take the event loop for a recovery have in common.
LEMMA RecoveryStarts ==
    ASSUME NEW t \in Turns,
           \/ BeginSend(t) \/ BeginPhase(t) \/ BeginAttach(t)
           \/ \E d \in Decision : BeginResume(t, d)
    PROVE  /\ LoopFree /\ job'.task = t /\ UNCHANGED <<ledger, cp, pc, agent>>
           /\ pc[t] \in Resting
           /\ ~BeginSend(t) => job'.view = Replayed(ledger, cp)
  BY DEF BeginSend, BeginPhase, BeginAttach, BeginResume, StartRecovery, Resting

LEMMA StepResting == TypeInv /\ QuietInv /\ [Next]_vars /\ Recovering' => pc'[job'.task] \in Resting
<1> SUFFICES ASSUME TypeInv, QuietInv, [Next]_vars, Recovering' PROVE pc'[job'.task] \in Resting
  OBVIOUS
<1>0. job \in Jobs /\ pc \in [Turns -> PCs] /\ job'.task # NoTask /\ pc'[job'.task] # "settle"
  BY DEF TypeInv, TypeOK, Recovering, LoopFree
<1>1. NoJob.task = NoTask
  BY NoJobType
<1>2. CASE job' = job
  <2>1. pc' = pc
    BY <1>0, <1>1, <1>2, HeldStays DEF LoopFree
  <2>. QED
    BY <1>0, <1>2, <2>1 DEF QuietInv, Recovering, LoopFree
<1>3. CASE Recover
  <2>1. Recovering /\ pc' = pc /\ job'.task = job.task
    BY <1>0, <1>3 DEF Recover, Live, SettleUncertain, SettleLostRequest, SettleSkipped,
                      FailRecovered, Jobs
  <2>. QED
    BY <2>1 DEF QuietInv
<1>4. ASSUME NEW t \in Turns, job' = [NoJob EXCEPT !.task = t], pc'[t] = "settle" PROVE FALSE
  <2>1. job'.task = t
    BY <1>4, NoJobType DEF NoJob
  <2>. QED
    BY <1>0, <1>4, <2>1
<1>5. ASSUME NEW t \in Turns, RepairCall(t) PROVE pc'[job'.task] \in Resting
  BY <1>0, <1>5 DEF RepairCall, Recovered, Jobs, Resting, PhasePC
<1>. QED
  BY <1>0, <1>1, <1>2, <1>3, <1>4, <1>5, JobSteps, RecoveryStarts

\* A coroutine that waits and holds the event loop lets go of it by moving.
LEMMA WaitHeld ==
    ASSUME TypeInv, [Next]_vars, NEW t \in Turns, job.task = t, pc[t] = "wait", pc'[t] = "wait"
    PROVE  job' # NoJob
<1>0. job.task # NoTask /\ NoJob.task = NoTask /\ pc \in [Turns -> PCs]
  BY NoJobType DEF Turns, NoTask, TypeInv, TypeOK
<1>1. CASE UNCHANGED vars
  BY <1>0, <1>1 DEF vars
<1>2. CASE Crash
  BY <1>2 DEF Crash
<1>3. CASE Recover
  <2>1. job'.task = job.task
    BY <1>3 DEF Recover, SettleUncertain, SettleLostRequest, SettleSkipped, FailRecovered, TypeInv,
                TypeOK, Jobs
  <2>. QED
    BY <1>0, <2>1
<1>4. ASSUME NEW u \in Turns, Coroutine(u) PROVE job' # NoJob
  <2>1. CASE u = t
    BY <1>0, <1>4, <2>1
    DEF Coroutine, BeginSend, RefuseSend, AcceptTurn, StartGraph, AgentReturns, AskInteraction,
        WriteInterrupt, StartBatch, GateMismatch, BatchReturns, SettleDenied, FinishTools, EndRun,
        CommitDecision, RejectResume, ResumeGraph, Attach, SkipPhase, BeginPhase, RepairCall,
        RepairDone, Finalize, UpdateState, Recovered, PhasePC
  <2>2. CASE u # t
    BY <1>0, <1>4, <2>2
    DEF Coroutine, BeginSend, RefuseSend, AcceptTurn, StartGraph, AgentReturns, AskInteraction,
        WriteInterrupt, StartBatch, GateMismatch, BatchReturns, SettleDenied, FinishTools, EndRun,
        CommitDecision, RejectResume, ResumeGraph, Attach, SkipPhase, BeginPhase, RepairCall,
        RepairDone, Finalize, UpdateState, Recovered, LoopFree, StartRecovery
  <2>. QED
    BY <2>1, <2>2
<1>5. ASSUME NEW u \in Turns, AgentThread(u) \/ ToolThreads(u) PROVE job' = job
  BY <1>5 DEF AgentThread, StartRequest, RequestFails, GiveUp, EndByAgent, Respond, AgentStep,
              ToolThreads, BeginCall, StartCall, FinishCall, LeaveCall, WorkStep
<1>6. ASSUME NEW u \in Turns, FlushCheckpoint(u) \/ User(u) \/ TimesOut(u) PROVE job' = job
  BY <1>0, <1>6 DEF FlushCheckpoint, User, Submit, Cancel, LeaveGraph, BeginAttach, BeginResume,
                    StartRecovery, LoopFree, TimesOut, GraphTimeout, BatchTimeout
<1>. QED
  BY <1>0, <1>1, <1>2, <1>3, <1>4, <1>5, <1>6 DEF Next

\* A checkpoint with an interrupt is written by the node that asks.
LEMMA CpAsks ==
    ASSUME TypeInv, PlaceInv, [Next]_vars, cp'.intr # NoPending
    PROVE  cp' = cp \/ \E u \in Turns : WriteInterrupt(u)
<1>1. ASSUME NEW u \in Turns, cp' = mem[u] PROVE FALSE
  BY <1>1 DEF PlaceInv
<1>2. ASSUME NEW u \in Turns, UpdateState(u) PROVE FALSE
  <2>1. upd[u] \in Snapshots
    BY DEF TypeInv, TypeOK
  <2>. QED
    BY <1>2, <2>1 DEF UpdateState, Snapshots
<1>. QED
  BY <1>1, <1>2, CpSteps

\* The replay ends with an ended state when the snapshot has ended, or a
\* settlement is behind it, and no request comes after the settlements.
LEMMA ReplayEnds ==
    ASSUME NEW L \in Seq(Rows), NEW s \in Snapshots,
           \A i \in DOMAIN L : i > s.seen /\ IsOf(L[i], "ask", s.turn)
               => \E j \in DOMAIN L : j > i /\ IsOf(L[j], "terminal", s.turn),
           \/ Ended(s.status)
           \/ \E j \in DOMAIN L : j > s.seen /\ IsOf(L[j], "terminal", s.turn)
    PROVE  Ended(Replayed(L, s).status)
<1> DEFINE C == BehindOf(L, s, {"ask", "terminal"}) \cup OrphanDecisions(L, s)
           Says(i, x) == x = CASE L[i].type = "terminal" -> L[i].status
                               [] L[i].type = "ask"      -> "waiting_user"
                               [] L[i].type = "decision" -> "failed"
<1>1. Replayed(L, s).status = ReplayedStatus(L, s)
  BY DEF Replayed, Snapshots
<1>2. ReplayedStatus(L, s) = IF \E i \in C, x \in TurnStatus : IsLatest(i, C) /\ Says(i, x)
                             THEN CHOOSE x \in TurnStatus : \E i \in C : IsLatest(i, C) /\ Says(i, x)
                             ELSE s.status
  BY DEF ReplayedStatus
<1>3. /\ Len(L) \in Nat /\ s.seen \in Nat
      /\ \A i \in C : /\ i \in 1 .. Len(L) /\ i \in DOMAIN L /\ i > s.seen
                      /\ L[i].turn = s.turn /\ L[i] \in Rows
                      /\ L[i].type \in {"ask", "terminal", "decision"}
  BY ElementOfSeq DEF BehindOf, Behind, OrphanDecisions, Snapshots
<1>4. \A j \in DOMAIN L : j > s.seen /\ IsOf(L[j], "terminal", s.turn) => j \in C
  BY DEF BehindOf, Behind, IsOf
<1>5. \A i \in C : L[i].type = "terminal" => L[i].status \in Terminal
  BY <1>3 DEF Rows
<1>. HIDE DEF C
<1>6. CASE C = {}
  BY <1>1, <1>2, <1>4, <1>6
<1>7. CASE C # {}
  <2>1. ASSUME NEW i \in C, IsLatest(i, C) PROVE L[i].type # "ask"
    <3> SUFFICES ASSUME L[i].type = "ask" PROVE FALSE
      OBVIOUS
    <3>1. PICK j \in DOMAIN L : j > i /\ IsOf(L[j], "terminal", s.turn)
      BY <1>3, <2>1 DEF IsOf
    <3>2. j \in C
      <4>1. j > s.seen
        BY <1>3, <2>1, <3>1
      <4>. QED
        BY <1>4, <3>1, <4>1
    <3>3. j <= i
      BY <2>1, <3>2 DEF IsLatest
    <3>. QED
      BY <1>3, <3>1, <3>3
  <2>2. ASSUME NEW i \in C, IsLatest(i, C), NEW x, Says(i, x) PROVE x \in Terminal
    BY <1>3, <1>5, <2>1, <2>2 DEF Terminal
  <2>3. PICK i \in C : IsLatest(i, C)
    BY <1>3, <1>7, LatestExists
  <2>4. \E x \in TurnStatus : Says(i, x)
    BY <1>3, <1>5, <2>1, <2>3 DEF TurnStatus, Terminal
  <2>. HIDE DEF Says
  <2>5. ReplayedStatus(L, s) \in Terminal
    BY <1>2, <2>2, <2>3, <2>4
  <2>. QED
    BY <1>1, <2>5 DEF Ended
<1>. QED
  BY <1>6, <1>7

\* A turn that becomes settled is at no place where it could go on.
LEMMA SettledOK ==
    ASSUME MaxTurn = 1, PromisesInv, QuietInv, Writes, [Next]_vars, NEW t \in Turns,
           Over(t)', ~Over(t)
    PROVE  OverOK(t)'
<1>0. /\ TypeInv /\ AloneInv /\ AttachInv /\ WaitInv /\ ledger \in Seq(Rows)
      /\ pc \in [Turns -> PCs] /\ agent \in [Turns -> AgentPC] /\ job \in Jobs
  BY DEF PromisesInv, PromiseInv, TypeInv, TypeOK
<1>1. CASE Recover /\ FailRecovered
  <2>1. /\ Recovering /\ pc' = pc /\ cp' = cp /\ job'.task = job.task
        /\ job'.view.status = "failed"
    BY <1>0, <1>1 DEF Recover, FailRecovered, Live, Jobs, Snapshots
  <2>2. job.task = t /\ pc[t] \in Resting
    <3>1. job.task \in Turns
      BY <1>0, <2>1 DEF Recovering, LoopFree, Jobs
    <3>. QED
      BY <2>1, <3>1, OneTurn DEF QuietInv
  <2>. QED
    BY <2>1, <2>2 DEF OverOK, Resting, PhasePC, Working, Ended, Terminal
<1>2. CASE EndByAgent(t)
  <2>1. agent[t] # "none" /\ agent'[t] \in {"completed", "broken"} /\ UNCHANGED <<pc, cp, job>>
    BY <1>0, <1>2 DEF EndByAgent, AgentStep
  <2>2. pc[t] \notin Placed
    BY <1>0, <2>1 DEF AloneInv
  <2>3. ~(Recovering /\ job.task = t /\ Waiting(t))
    BY <1>0, <2>1, <2>2 DEF Placed, Waiting, AttachInv, Attaching, WaitInv
  <2>. QED
    BY <2>1, <2>2, <2>3 DEF OverOK, Placed, Working, Recovering, LoopFree, Waiting
<1>3. CASE FinishTools(t)
  <2>1. pc'[t] = "end" \/ ledger' = ledger
    BY <1>0, <1>3 DEF FinishTools
  <2>2. pc'[t] = "end"
    BY <2>1 DEF Over
  <2>. QED
    BY <2>2 DEF OverOK, Working, Waiting
<1>4. ASSUME NEW u \in Turns, Finalize(u) PROVE OverOK(t)'
  <2>1. pc'[t] \in PhasePC
    BY <1>4, OneTurn DEF Finalize, PhasePC
  <2>. QED
    BY <2>1 DEF OverOK, Working, Waiting, PhasePC
<1>. QED
  BY <1>0, <1>1, <1>2, <1>3, <1>4, NewEnd DEF Settles

\* A settled turn is let go on by nothing.
LEMMA SettledStaysOK ==
    ASSUME MaxTurn = 1, PromisesInv, QuietInv, Writes, [Next]_vars, NEW t \in Turns, Over(t)
    PROVE  OverOK(t)'
<1>0. /\ TypeInv /\ AloneInv /\ AttachInv /\ WaitInv /\ ThreadsInv /\ PlaceInv /\ RowsInv
      /\ ledger \in Seq(Rows)
      /\ pc \in [Turns -> PCs] /\ agent \in [Turns -> AgentPC] /\ job \in Jobs /\ cp \in Snapshots
  BY DEF PromisesInv, PromiseInv, TypeInv, TypeOK
<1>1. OverOK(t) /\ Accepted(ledger, t)
  BY <1>0 DEF QuietInv, RowsInv, RowOK, Over, Settled, Has, IsOf
<1>2. ~CommitDecision(t) /\ ~AcceptTurn(t)
  <2>1. ~CommitDecision(t)
    BY <1>1 DEF CommitDecision, Recovered, Resumable, OverOK, Waiting
  <2>2. ~AcceptTurn(t)
    BY <1>0, <1>1 DEF AcceptTurn, ThreadsInv
  <2>. QED
    BY <2>1, <2>2
<1>3. pc'[t] \notin Working
  <2>1. AgentReturns(t) => pc'[t] = "end"
    BY <1>0, <1>1 DEF AgentReturns, OverOK
  <2>. QED
    BY <1>0, <1>1, <1>2, <2>1, CameFrom
    DEF Working, OverOK, AskInteraction, StartBatch, BatchReturns, ResumeGraph
<1>4. ASSUME pc'[t] = "agent" PROVE agent'[t] \in {"completed", "broken"}
  <2>1. pc[t] = "agent" /\ ~StartGraph(t) /\ ~FinishTools(t)
    BY <1>0, <1>1, <1>4, CameFrom DEF OverOK, Working, StartGraph, FinishTools
  <2>2. agent[t] \in {"completed", "broken"}
    BY <1>1, <2>1 DEF OverOK
  <2>3. ~Crash /\ ~AgentReturns(t)
    BY <1>0, <1>4, <2>2 DEF Crash, AgentReturns
  <2>4. ~AgentThread(t)
    BY <2>2 DEF AgentThread, StartRequest, RequestFails, GiveUp, EndByAgent, Respond, AgentStep
  <2>. QED
    BY <1>0, <2>1, <2>2, <2>3, <2>4, AgentSteps
<1>5. ~WriteInterrupt(t) /\ (Attach(t) => pc'[t] # "wait")
  <2>1. ~WriteInterrupt(t)
    BY <1>1 DEF WriteInterrupt, OverOK, Working
  <2>2. ASSUME Attach(t), pc'[t] = "wait" PROVE FALSE
    <3>1. Recovering /\ job.task = t /\ pc[t] = "idle"
      BY <2>2 DEF Attach, Recovered
    <3>2. ~Ended(job.view.status) /\ cp.intr # NoPending
      BY <1>0, <2>2, <3>1 DEF Attach
    <3>. QED
      BY <1>1, <3>1, <3>2 DEF OverOK, Waiting
  <2>. QED
    BY <2>1, <2>2
<1>6. ASSUME pc'[t] = "wait" PROVE pc[t] = "wait" /\ job'.task = t
  <2>1. pc[t] = "wait"
    BY <1>0, <1>5, <1>6, CameFrom
  <2>2. job.task = t /\ t # NoTask /\ job.task # NoTask
    BY <1>1, <2>1 DEF OverOK, Turns, NoTask
  <2>3. CASE job' = job
    BY <2>1, <2>2, <2>3
  <2>4. CASE Recover
    BY <1>0, <2>1, <2>2, <2>4 DEF Recover, SettleUncertain, SettleLostRequest, SettleSkipped,
                            FailRecovered, Jobs
  <2>5. ASSUME job' = NoJob PROVE FALSE
    BY <1>0, <1>6, <2>1, <2>2, <2>5, WaitHeld
  <2>6. ASSUME NEW u \in Turns, RepairCall(u) PROVE FALSE
    BY <2>1, <2>6, OneTurn DEF RepairCall
  <2>7. ASSUME NEW u \in Turns, pc'[u] = "settle" PROVE FALSE
    BY <1>6, <2>7, OneTurn
  <2>. QED
    BY <1>0, <2>1, <2>2, <2>3, <2>4, <2>5, <2>6, <2>7, JobSteps, RecoveryStarts DEF LoopFree
<1>7. ASSUME Recovering', job'.task = t, Waiting(t)' PROVE Ended(job'.view.status)
  <2>1. ASSUME cp'.intr # NoPending PROVE cp' = cp
    <3>1. ASSUME NEW u \in Turns, WriteInterrupt(u) PROVE FALSE
      BY <1>1, <3>1, OneTurn DEF WriteInterrupt, OverOK, Working
    <3>. QED
      BY <1>0, <2>1, <3>1, CpAsks
  <2>2. NoJob.task = NoTask /\ t # NoTask
    BY NoJobType DEF Turns, NoTask
  <2>3. CASE job' = job
    <3>1. pc' = pc
      BY <1>0, <1>7, <2>2, <2>3, HeldStays DEF LoopFree
    <3>2. Recovering /\ job.task = t /\ Waiting(t)
      BY <1>7, <2>1, <2>3, <3>1 DEF Waiting, Recovering, LoopFree
    <3>. QED
      BY <1>1, <2>3, <3>2 DEF OverOK
  <2>4. CASE Recover
    <3>1. /\ pc' = pc /\ cp' = cp /\ Recovering /\ job'.task = job.task
          /\ Ended(job.view.status) => Ended(job'.view.status)
      BY <1>0, <2>4 DEF Recover, Live, SettleUncertain, SettleLostRequest, SettleSkipped,
                        FailRecovered, Jobs
    <3>2. Waiting(t)
      BY <1>7, <3>1 DEF Waiting
    <3>. QED
      BY <1>1, <1>7, <3>1, <3>2 DEF OverOK
  <2>5. ASSUME NEW u \in Turns, job' = [NoJob EXCEPT !.task = u], pc'[u] = "settle" PROVE FALSE
    BY <1>7, <2>5, OneTurn DEF Waiting
  <2>6. ASSUME NEW u \in Turns, RepairCall(u) \/ BeginSend(u) \/ BeginPhase(u) PROVE FALSE
    <3>1. u = t /\ pc[u] \in {"queued"} \cup PhasePC /\ pc' = pc
      BY <2>6, OneTurn DEF RepairCall, BeginSend, BeginPhase, PhasePC
    <3>. QED
      BY <1>7, <3>1 DEF Waiting, PhasePC
  <2>7. ASSUME NEW u \in Turns, NEW d \in Decision, BeginResume(u, d) PROVE FALSE
    <3>1. u = t /\ pc[u] = "wait" /\ job.task = NoTask
      BY <2>7, OneTurn DEF BeginResume, StartRecovery, LoopFree
    <3>. QED
      BY <1>1, <2>2, <3>1 DEF OverOK
  <2>8. ASSUME NEW u \in Turns, BeginAttach(u) PROVE Ended(job'.view.status)
    <3>1. u = t /\ cp.turn = t /\ pc[t] = "idle" /\ pc' = pc /\ cp' = cp
      BY <2>8, OneTurn DEF BeginAttach
    <3>2. cp.intr # NoPending
      BY <1>7, <3>1 DEF Waiting
    <3>3. job'.view = Replayed(ledger, cp)
      BY <2>8, RecoveryStarts DEF BeginAttach, BeginSend
    <3>4. PICK j \in DOMAIN ledger : IsOf(ledger[j], "terminal", t)
      BY DEF Over, Settled, Has
    <3>5. j > cp.seen
      BY <3>1, <3>2, <3>4 DEF QuietInv
    <3>6. ASSUME NEW i \in DOMAIN ledger, IsOf(ledger[i], "ask", t) PROVE j > i
      <4>1. i # j /\ ~(j < i)
        BY <3>4, <3>6 DEF QuietInv, IsOf
      <4>2. Len(ledger) \in Nat /\ i \in 1 .. Len(ledger) /\ j \in 1 .. Len(ledger)
        BY <1>0
      <4>. QED
        BY <4>1, <4>2
    <3>. QED
      BY <1>0, <3>1, <3>3, <3>4, <3>5, <3>6, ReplayEnds
  <2>. QED
    BY <1>0, <1>7, <2>2, <2>3, <2>4, <2>5, <2>6, <2>7, <2>8, JobSteps DEF Recovering, LoopFree
<1>. QED
  BY <1>3, <1>4, <1>6, <1>7 DEF OverOK

\* A settled turn's coroutine is at no place where it asks, answers or runs.
LEMMA SettledRefuses ==
    ASSUME PromisesInv, QuietInv, NEW t \in Turns, Over(t)
    PROVE  /\ ~AskInteraction(t) /\ ~WriteInterrupt(t) /\ ~StartBatch(t) /\ ~CommitDecision(t)
<1>1. OverOK(t)
  BY DEF QuietInv
<1>2. ~CommitDecision(t)
  BY <1>1 DEF CommitDecision, Recovered, Resumable, OverOK, Waiting
<1>. QED
  BY <1>1, <1>2 DEF OverOK, Working, AskInteraction, WriteInterrupt, StartBatch

LEMMA StepQuietInv ==
    ASSUME MaxTurn = 1, PromisesInv, QuietInv, [Next]_vars
    PROVE  QuietInv'
<1>0. Writes /\ TypeInv /\ PlaceInv /\ SoundInv /\ ledger \in Seq(Rows) /\ cp \in Snapshots
  BY StepPromisesInv DEF PromisesInv, PromiseInv, TypeInv, TypeOK
<1>1. \/ ledger' = ledger
      \/ \E row \in Rows : ledger' = Append(ledger, row) /\ Signed(row)
  BY <1>0 DEF Writes
<1>2. /\ DOMAIN ledger \subseteq DOMAIN ledger' /\ DOMAIN ledger = 1 .. Len(ledger)
      /\ \A i \in DOMAIN ledger : ledger'[i] = ledger[i]
      /\ Len(ledger) \in Nat /\ DOMAIN ledger' \subseteq 1 .. (Len(ledger) + 1)
  BY <1>0, <1>1, Grown
<1>3. ASSUME NEW i \in DOMAIN ledger', NEW j \in DOMAIN ledger', i < j,
             ledger'[i].type = "terminal", ledger'[i].turn = ledger'[j].turn
      PROVE  ledger'[j].type # "ask"
  <2>1. i \in DOMAIN ledger /\ ledger'[i] = ledger[i]
    BY <1>2, <1>3
  <2>2. CASE j \in DOMAIN ledger
    BY <1>2, <1>3, <2>1, <2>2 DEF QuietInv
  <2>3. CASE j \notin DOMAIN ledger
    <3>1. ledger'[j].type = "ask" => AskInteraction(ledger'[j].turn)
      BY <1>0, <2>3, NewRow DEF Signed
    <3>2. PICK u : u = ledger[i].turn
      OBVIOUS
    <3>3. u \in Turns /\ Over(u)
      <4>1. ledger[i] \in Rows
        BY <1>0, <2>1, ElementOfSeq
      <4>. QED
        BY <1>3, <2>1, <3>2, <4>1 DEF Rows, RowShape, Over, Settled, Has, IsOf
    <3>. QED
      BY <1>3, <2>1, <3>1, <3>2, <3>3, SettledRefuses
  <2>. QED
    BY <2>2, <2>3
<1>4. ASSUME cp'.intr # NoPending, NEW i \in DOMAIN ledger', IsOf(ledger'[i], "terminal", cp'.turn)
      PROVE  i > cp'.seen
  <2>1. CASE cp' = cp
    <3>1. CASE i \in DOMAIN ledger
      BY <1>2, <1>4, <2>1, <3>1 DEF QuietInv
    <3>2. CASE i \notin DOMAIN ledger
      <4>1. i = Len(ledger) + 1
        BY <1>2, <3>2
      <4>2. cp.turn # NoTurn => cp.seen <= Len(ledger)
        BY <1>0 DEF SoundInv, Sound
      <4>3. cp.seen \in Nat
        BY <1>0 DEF Snapshots
      <4>4. cp.turn # NoTurn
        <5>1. ledger'[i] \in Rows
          BY <1>0, <1>1, Grown, ElementOfSeq
        <5>2. ledger'[i].turn \in Turns /\ ledger'[i].turn = cp.turn
          BY <1>4, <2>1, <5>1 DEF Rows, RowShape, IsOf
        <5>. QED
          BY <5>2 DEF Turns, NoTurn
      <4>. QED
        BY <1>2, <2>1, <4>1, <4>2, <4>3, <4>4
    <3>. QED
      BY <3>1, <3>2
  <2>2. ASSUME NEW u \in Turns, WriteInterrupt(u) PROVE FALSE
    <3>1. ledger' = ledger
      BY <2>2 DEF WriteInterrupt
    <3>2. ledger[i] \in Rows /\ IsOf(ledger[i], "terminal", cp'.turn)
      BY <1>0, <1>4, <3>1, ElementOfSeq
    <3>3. cp'.turn = u
      BY <3>2, OneTurn DEF Rows, RowShape, IsOf
    <3>4. Over(u)
      BY <1>4, <3>1, <3>2, <3>3 DEF Over, Settled, Has
    <3>. QED
      BY <2>2, <3>4, SettledRefuses
  <2>. QED
    BY <1>0, <1>4, <2>1, <2>2, CpAsks
<1>5. Recovering' => pc'[job'.task] \in Resting
  BY <1>0, StepResting
<1>6. ASSUME NEW t \in Turns, Over(t)' PROVE OverOK(t)'
  BY <1>0, <1>6, SettledOK, SettledStaysOK
<1>. QED
  BY <1>3, <1>4, <1>5, <1>6 DEF QuietInv

LEMMA InitQuietInv == Init => QuietInv
<1> SUFFICES ASSUME Init PROVE QuietInv
  OBVIOUS
<1>1. ledger = <<>> /\ cp.intr = NoPending /\ job.task = NoTask
  BY NoJobType DEF Init, EmptySnapshot
<1>. QED
  BY <1>1 DEF QuietInv, Over, Settled, Has, Recovering, LoopFree

\* A runner's wait is opened by the batch of its turn.
LEMMA RunnerOpens ==
    ASSUME TypeInv, [Next]_vars, NEW t \in Turns, runner'[t] = "open", runner[t] # "open"
    PROVE  StartBatch(t)
<1>0. runner \in [Turns -> RunnerPC]
  BY DEF TypeInv, TypeOK
<1>1. CASE UNCHANGED vars \/ Crash \/ Recover
  BY <1>0, <1>1 DEF vars, Crash, Recover
<1>2. ASSUME NEW u \in Turns, StartBatch(u) PROVE StartBatch(t)
  BY <1>0, <1>2 DEF StartBatch
<1>3. ASSUME NEW u \in Turns, Coroutine(u), ~StartBatch(u) PROVE FALSE
  BY <1>0, <1>3
  DEF Coroutine, BeginSend, RefuseSend, AcceptTurn, StartGraph, AgentReturns, AskInteraction,
      WriteInterrupt, GateMismatch, BatchReturns, SettleDenied, FinishTools, EndRun,
      CommitDecision, RejectResume, ResumeGraph, Attach, SkipPhase, BeginPhase, RepairCall,
      RepairDone, Finalize, UpdateState
<1>4. ASSUME NEW u \in Turns, AgentThread(u) \/ ToolThreads(u) PROVE FALSE
  BY <1>0, <1>4 DEF AgentThread, StartRequest, RequestFails, GiveUp, EndByAgent, Respond, AgentStep,
                    ToolThreads, BeginCall, StartCall, FinishCall, LeaveCall, WorkStep
<1>5. ASSUME NEW u \in Turns, FlushCheckpoint(u) \/ User(u) \/ TimesOut(u) PROVE FALSE
  BY <1>0, <1>5 DEF FlushCheckpoint, User, Submit, Cancel, LeaveGraph, BeginAttach, BeginResume,
                    TimesOut, GraphTimeout, BatchTimeout
<1>. QED
  BY <1>1, <1>2, <1>3, <1>4, <1>5 DEF Next

\* Once a session's one turn is settled, by whichever of its owners, it asks for
\* nothing, takes no answer and starts no batch: a recovery that has found it
\* waiting sees the settlement before it could let the turn go on.
THEOREM SettledStaysQuiet == ASSUME MaxTurn = 1 PROVE Spec => SettledIsQuiet
<1> DEFINE Inv == PromisesInv /\ QuietInv
           Quiet(t) ==
               Settled(ledger, t) =>
                   /\ \A i \in DOMAIN ledger' \ DOMAIN ledger :
                         ledger'[i].turn = t => ledger'[i].type \notin {"ask", "decision"}
                   /\ runner'[t] = "open" => runner[t] = "open"
<1>1. Init => Inv
  BY InitPromisesInv, InitQuietInv
<1>2. Inv /\ [Next]_vars => Inv'
  BY StepPromisesInv, StepQuietInv
<1>3. Inv /\ [Next]_vars => [\A t \in Turns : Quiet(t)]_vars
  <2> SUFFICES ASSUME Inv, [Next]_vars, NEW t \in Turns, Settled(ledger, t) PROVE Quiet(t)
    OBVIOUS
  <2>1. Writes /\ TypeInv /\ ledger \in Seq(Rows)
    BY StepPromisesInv DEF PromisesInv, TypeInv, TypeOK
  <2>2. ~AskInteraction(t) /\ ~StartBatch(t) /\ ~CommitDecision(t)
    BY SettledRefuses DEF Over
  <2>3. ASSUME NEW i \in DOMAIN ledger' \ DOMAIN ledger, ledger'[i].turn = t
        PROVE  ledger'[i].type \notin {"ask", "decision"}
    BY <2>1, <2>2, <2>3, NewRow DEF Signed
  <2>. QED
    BY <2>1, <2>2, <2>3, RunnerOpens
<1>. QED
  BY <1>1, <1>2, <1>3, PTL DEF Spec, SettledIsQuiet

-----------------------------------------------------------------------------
(* A checkpoint write under way is of a graph at work or at its end, and an  *)
(* update of a finalization is of its coroutine: for every number of turns.  *)

PutPCs == {"agent", "gate", "ask", "batch", "settle", "end"}

PutOK(t) ==
    /\ t \in put => pc[t] \in PutPCs
    /\ t \in put /\ Ended(mem[t].status) => pc[t] = "end"
    /\ t \in put /\ pc[t] = "gate" => HasOpenCall(t)
    /\ agent[t] = "calls" => DefinedBy(t) # {}
    /\ pc[t] = "accepted" => ~Ended(mem[t].status)
    /\ upd[t] # NoUpdate => pc[t] \in PhasePC

PutInv == \A t \in Turns : PutOK(t)

\* A checkpoint is put by the start of the graph and by its nodes.
LEMMA PutGrows ==
    ASSUME TypeInv, [Next]_vars, NEW t \in Turns, t \in put', t \notin put
    PROVE  StartGraph(t) \/ AgentReturns(t) \/ FinishTools(t)
<1>1. CASE UNCHANGED vars \/ Crash \/ Recover
  BY <1>1 DEF vars, Crash, Recover
<1>2. ASSUME NEW u \in Turns, Coroutine(u) PROVE StartGraph(t) \/ AgentReturns(t) \/ FinishTools(t)
  <2>1. CASE StartGraph(u) \/ AgentReturns(u) \/ FinishTools(u)
    <3>1. u = t
      BY <2>1 DEF StartGraph, AgentReturns, FinishTools
    <3>. QED
      BY <2>1, <3>1
  <2>2. CASE ~(StartGraph(u) \/ AgentReturns(u) \/ FinishTools(u))
    BY <1>2, <2>2
    DEF Coroutine, BeginSend, RefuseSend, AcceptTurn, AskInteraction, WriteInterrupt, StartBatch,
        GateMismatch, BatchReturns, SettleDenied, EndRun, CommitDecision, RejectResume,
        ResumeGraph, Attach, SkipPhase, BeginPhase, RepairCall, RepairDone, Finalize, UpdateState
  <2>. QED
    BY <2>1, <2>2
<1>3. ASSUME NEW u \in Turns, AgentThread(u) \/ ToolThreads(u) PROVE FALSE
  BY <1>3 DEF AgentThread, StartRequest, RequestFails, GiveUp, EndByAgent, Respond, AgentStep,
              ToolThreads, BeginCall, StartCall, FinishCall, LeaveCall, WorkStep
<1>4. ASSUME NEW u \in Turns, FlushCheckpoint(u) \/ User(u) \/ TimesOut(u) PROVE FALSE
  BY <1>4 DEF FlushCheckpoint, User, Submit, Cancel, LeaveGraph, BeginAttach, BeginResume,
              TimesOut, GraphTimeout, BatchTimeout
<1>. QED
  BY <1>1, <1>2, <1>3, <1>4 DEF Next

\* How a graph with a checkpoint write under way moves on with it.
LEMMA MovesWithPut ==
    ASSUME TypeInv, [Next]_vars, NEW t \in Turns, t \in put, t \in put', pc[t] \in PutPCs,
           pc'[t] # pc[t]
    PROVE  \/ AgentReturns(t) \/ AskInteraction(t) \/ StartBatch(t) \/ GateMismatch(t)
           \/ BatchReturns(t) \/ FinishTools(t)
<1>1. ~Crash /\ ~Cancel(t) /\ ~GraphTimeout(t)
  BY DEF Crash, Cancel, GraphTimeout, LeaveGraph
<1>2. ~Submit(t)
  BY DEF Submit, PutPCs
<1>3. ASSUME Coroutine(t),
             ~(\/ AgentReturns(t) \/ AskInteraction(t) \/ StartBatch(t) \/ GateMismatch(t)
               \/ BatchReturns(t) \/ FinishTools(t))
      PROVE  FALSE
  BY <1>3
  DEF Coroutine, BeginSend, RefuseSend, AcceptTurn, StartGraph, WriteInterrupt, SettleDenied,
      EndRun, CommitDecision, RejectResume, ResumeGraph, Attach, SkipPhase, BeginPhase, RepairCall,
      RepairDone, Finalize, UpdateState, PutPCs, PhasePC
<1>. QED
  BY <1>1, <1>2, <1>3, PcSteps

\* A response with calls defines them.
LEMMA RespondDefinesSome ==
    ASSUME ledger \in Seq(Rows), NEW t \in Turns, NEW S \in SUBSET Uses[t], S # {}, Respond(t, S)
    PROVE  DefinedBy(t)' # {}
<1> DEFINE row == ResponseRow(t, Started(ledger, t), S)
           E   == {i \in DefiningRows(ledger') : ledger'[i].turn = t}
           n   == Len(ledger) + 1
<1>1. S \subseteq Calls /\ ledger' = Append(ledger, row)
  BY BoundsAssumption DEF Respond
<1>2. row \in Rows /\ row.type = "response" /\ row.turn = t /\ row.calls = S
  <2>1. row \in Rows
    BY <1>1, StartedType, RowsAreRows
  <2>. QED
    BY <2>1 DEF ResponseRow, Row
<1>. HIDE DEF row
<1>3. /\ DOMAIN ledger' = 1 .. n /\ n \in Nat /\ n \in DOMAIN ledger' /\ ledger'[n] = row
  BY <1>1, <1>2, Grown
<1>4. n \in E /\ \A i \in E : i <= n
  BY <1>2, <1>3 DEF DefiningRows, NoCalls
<1>5. PICK c : c \in S
  OBVIOUS
<1>6. IsLatest(n, E) /\ c \in ledger'[n].calls /\ c \in Calls
  BY <1>1, <1>2, <1>3, <1>4, <1>5 DEF IsLatest
<1>. HIDE DEF n
<1>7. DefinedBy(t)' = {d \in Calls : \E i \in E : IsLatest(i, E) /\ d \in ledger'[i].calls}
  BY DEF DefinedBy, IsLatest
<1>. HIDE DEF E
<1>. QED
  BY <1>4, <1>6, <1>7

LEMMA StepPut ==
    ASSUME PromisesInv, PutInv, Writes, [Next]_vars, NEW t \in Turns
    PROVE  PutOK(t)'
<1>0. /\ TypeInv /\ AloneInv /\ PutOK(t) /\ ledger \in Seq(Rows)
      /\ pc \in [Turns -> PCs] /\ agent \in [Turns -> AgentPC] /\ mem \in [Turns -> Snapshots]
      /\ upd \in [Turns -> Snapshots]
  BY DEF PromisesInv, PromiseInv, TypeInv, TypeOK, PutInv
<1>1. ASSUME t \in put' PROVE pc'[t] \in PutPCs
  <2>1. CASE t \notin put
    <3>1. StartGraph(t) \/ AgentReturns(t) \/ FinishTools(t)
      BY <1>0, <1>1, <2>1, PutGrows
    <3>. QED
      BY <1>0, <3>1 DEF StartGraph, AgentReturns, FinishTools, PutPCs
  <2>2. CASE t \in put /\ pc'[t] # pc[t]
    <3>1. ~GateMismatch(t)
      BY <1>0, <2>2 DEF GateMismatch, PutOK
    <3>2. \/ AgentReturns(t) \/ AskInteraction(t) \/ StartBatch(t)
          \/ BatchReturns(t) \/ FinishTools(t)
      BY <1>0, <1>1, <2>2, <3>1, MovesWithPut DEF PutOK
    <3>. QED
      BY <1>0, <3>2 DEF AgentReturns, AskInteraction, StartBatch, BatchReturns, FinishTools, PutPCs
  <2>. QED
    BY <1>0, <2>1, <2>2 DEF PutOK
<1>2. ASSUME t \in put', Ended(mem'[t].status) PROVE pc'[t] = "end"
  <2>1. CASE AgentReturns(t)
    BY <1>0, <1>2, <2>1 DEF AgentReturns, Ended, Terminal, Snapshots
  <2>2. CASE FinishTools(t)
    BY <1>0, <1>2, <2>2 DEF FinishTools, Ended, Terminal, Snapshots
  <2>3. CASE StartGraph(t)
    BY <1>0, <1>2, <2>3 DEF StartGraph, PutOK
  <2>4. CASE t \in put /\ ~AgentReturns(t) /\ ~FinishTools(t)
    <3>1. ~Crash /\ ~AcceptTurn(t) /\ ~CommitDecision(t)
      BY <1>0, <1>2, <2>4 DEF Crash, AcceptTurn, CommitDecision, PutOK, PutPCs
    <3>2. pc[t] = "end"
      BY <1>0, <1>2, <2>4, <3>1, MemSteps DEF PutOK
    <3>3. pc[t] \in PutPCs
      BY <3>2 DEF PutPCs
    <3>. QED
      BY <1>0, <1>2, <2>4, <3>2, <3>3, MovesWithPut
      DEF AskInteraction, StartBatch, GateMismatch, BatchReturns
  <2>. QED
    BY <1>0, <1>2, <2>1, <2>2, <2>3, <2>4, PutGrows
<1>3. ASSUME t \in put', pc'[t] = "gate" PROVE HasOpenCall(t)'
  <2>1. CASE AgentReturns(t)
    <3>1. agent[t] = "calls" /\ ledger' = ledger
      BY <1>0, <1>3, <2>1 DEF AgentReturns
    <3>2. PICK c : c \in DefinedBy(t)
      BY <1>0, <3>1 DEF PutOK
    <3>3. c \in Calls /\ DefinedBy(t)' = DefinedBy(t)
      BY <3>1, <3>2 DEF DefinedBy
    <3>4. mem'[t].calls[c] = "pending"
      BY <1>0, <2>1, <3>1, <3>2, <3>3 DEF AgentReturns, Snapshots
    <3>5. c \in Batch(t)' /\ mem'[t].calls[c] \notin FinalResult
      BY <3>2, <3>3, <3>4 DEF Batch, FinalResult
    <3>. QED
      BY <3>5 DEF HasOpenCall
  <2>2. CASE ~AgentReturns(t)
    <3>1. t \in put
      BY <1>0, <1>3, <2>2, PutGrows DEF StartGraph, FinishTools
    <3>2. pc[t] = "gate"
      BY <1>0, <1>3, <2>2, <3>1, CameFrom DEF ResumeGraph, PutOK, PutPCs
    <3>3. mem'[t] = mem[t]
      <4>1. ~Crash /\ ~AcceptTurn(t) /\ ~CommitDecision(t) /\ ~FinishTools(t)
        BY <1>0, <1>3, <3>2 DEF Crash, AcceptTurn, CommitDecision, FinishTools
      <4>. QED
        BY <1>0, <2>2, <4>1, MemSteps
    <3>4. DefinedBy(t)' = DefinedBy(t)
      <4>1. agent[t] = "none"
        BY <1>0, <3>2 DEF AloneInv, Placed
      <4>. QED
        BY <1>0, <4>1, DefinedKept
    <3>5. HasOpenCall(t)
      BY <1>0, <3>1, <3>2 DEF PutOK
    <3>. QED
      BY <3>3, <3>4, <3>5 DEF HasOpenCall, Batch
  <2>. QED
    BY <2>1, <2>2
<1>4. ASSUME agent'[t] = "calls" PROVE DefinedBy(t)' # {}
  <2>1. CASE agent[t] = "calls"
    BY <1>0, <2>1, DefinedKept DEF PutOK
  <2>2. CASE agent[t] # "calls"
    <3>1. ~StartGraph(t) /\ ~FinishTools(t)
      BY <1>0, <1>4 DEF StartGraph, FinishTools
    <3>2. AgentThread(t)
      BY <1>0, <1>4, <2>2, <3>1, AgentSteps
    <3>3. ~(StartRequest(t) \/ RequestFails(t) \/ GiveUp(t) \/ EndByAgent(t))
      BY <1>0, <1>4 DEF StartRequest, RequestFails, GiveUp, EndByAgent, AgentStep
    <3>4. PICK S \in SUBSET Uses[t] : Respond(t, S)
      BY <3>2, <3>3 DEF AgentThread
    <3>5. S # {}
      BY <1>0, <1>4, <3>4 DEF Respond, AgentStep
    <3>. QED
      BY <1>0, <3>4, <3>5, RespondDefinesSome
  <2>. QED
    BY <2>1, <2>2
<1>5. ASSUME pc'[t] = "accepted" PROVE ~Ended(mem'[t].status)
  <2>1. CASE AcceptTurn(t)
    BY <1>0, <2>1 DEF AcceptTurn, NewRunState, EmptySnapshot, Ended, Terminal
  <2>2. CASE ~AcceptTurn(t)
    <3>1. pc[t] = "accepted"
      BY <1>0, <1>5, <2>2, CameFrom
    <3>2. ~Crash /\ ~AgentReturns(t) /\ ~FinishTools(t) /\ ~CommitDecision(t)
      BY <1>0, <1>5, <3>1 DEF Crash, AgentReturns, FinishTools, CommitDecision
    <3>. QED
      BY <1>0, <2>2, <3>1, <3>2, MemSteps DEF PutOK
  <2>. QED
    BY <2>1, <2>2
<1>6. ASSUME upd'[t] # NoUpdate PROVE pc'[t] \in PhasePC
  <2>1. CASE RepairDone(t) \/ Finalize(t)
    BY <2>1 DEF RepairDone, Finalize, PhasePC
  <2>2. CASE upd'[t] = upd[t]
    <3>1. pc[t] \in PhasePC /\ upd[t] # NoUpdate
      BY <1>0, <1>6, <2>2 DEF PutOK
    <3>2. ~Crash /\ ~Submit(t) /\ ~Cancel(t) /\ ~GraphTimeout(t)
      BY <1>6, <3>1 DEF Crash, Submit, Cancel, GraphTimeout, PhasePC, GraphPC
    <3>3. ~UpdateState(t)
      BY <1>0, <1>6 DEF UpdateState
    <3>4. ASSUME pc'[t] # pc[t], Coroutine(t), pc'[t] \notin PhasePC PROVE FALSE
      BY <1>0, <3>1, <3>3, <3>4
      DEF Coroutine, BeginSend, RefuseSend, AcceptTurn, StartGraph, AgentReturns, AskInteraction,
          WriteInterrupt, StartBatch, GateMismatch, BatchReturns, SettleDenied, FinishTools,
          EndRun, CommitDecision, RejectResume, ResumeGraph, Attach, SkipPhase, BeginPhase,
          RepairCall, RepairDone, Finalize, PhasePC
    <3>. QED
      BY <1>0, <3>1, <3>2, <3>4, PcSteps
  <2>. QED
    BY <1>0, <1>6, <2>1, <2>2, UpdSteps
<1>. QED
  BY <1>1, <1>2, <1>3, <1>4, <1>5, <1>6 DEF PutOK

\* No request of the snapshot's turn is behind it.
Clear(L, s) == \A i \in DOMAIN L : IsOf(L[i], "ask", s.turn) => i <= s.seen

\* A state that has ended has no request behind it, and once the checkpoint has
\* ended nothing is left that could write another state over it.
EndsInv ==
    /\ \A t \in Turns :
          /\ t \in put /\ Ended(mem[t].status) => Clear(ledger, mem[t])
          /\ Ended(upd[t].status) => Clear(ledger, upd[t])
          /\ Ended(cp.status) => /\ pc[t] \in {"idle", "end"} \cup PhasePC
                                 /\ t \notin put
                                 /\ upd[t] # NoUpdate => Ended(upd[t].status)
    /\ Ended(cp.status) => Clear(ledger, cp) /\ (Recovering => Ended(job.view.status))
    /\ Recovering /\ Ended(job.view.status) => Clear(ledger, job.view)

LEMMA ClearKept ==
    ASSUME MaxTurn = 1, ledger \in Seq(Rows), Writes, NEW t \in Turns, ~AskInteraction(t),
           NEW s, Clear(ledger, s)
    PROVE  Clear(ledger', s)
<1>1. \/ ledger' = ledger
      \/ \E row \in Rows : ledger' = Append(ledger, row) /\ Signed(row)
  BY DEF Writes
<1>2. \A i \in DOMAIN ledger : ledger'[i] = ledger[i]
  BY <1>1, Grown
<1>3. ASSUME NEW i \in DOMAIN ledger', IsOf(ledger'[i], "ask", s.turn) PROVE i <= s.seen
  <2>1. CASE i \in DOMAIN ledger
    BY <1>2, <1>3, <2>1 DEF Clear
  <2>2. CASE i \notin DOMAIN ledger
    <3>1. ledger'[i] \in Rows
      BY <1>1, Grown, ElementOfSeq
    <3>2. AskInteraction(ledger'[i].turn)
      BY <1>3, <2>2, NewRow DEF Signed, IsOf
    <3>3. ledger'[i].turn = t
      BY <3>1, OneTurn DEF Rows, RowShape
    <3>. QED
      BY <3>2, <3>3
  <2>. QED
    BY <2>1, <2>2
<1>. QED
  BY <1>3 DEF Clear

\* Nothing is behind a state that has seen the whole ledger, or the settlement.
LEMMA ClearAll ==
    ASSUME NEW L \in Seq(Rows), NEW s, s.seen = Len(L)
    PROVE  Clear(L, s)
  BY DEF Clear

LEMMA ClearTerminal ==
    ASSUME NEW L \in Seq(Rows), NEW s, Settled(L, s.turn), s.seen = TerminalSeq(L, s.turn),
           \A i, j \in DOMAIN L :
              i < j /\ L[i].type = "terminal" /\ L[i].turn = L[j].turn => L[j].type # "ask"
    PROVE  Clear(L, s)
<1>1. s.seen \in DOMAIN L /\ IsOf(L[s.seen], "terminal", s.turn)
  BY DEF Settled, Has, TerminalSeq
<1>2. ASSUME NEW i \in DOMAIN L, IsOf(L[i], "ask", s.turn) PROVE i <= s.seen
  <2>1. ~(s.seen < i)
    BY <1>1, <1>2 DEF IsOf
  <2>2. Len(L) \in Nat /\ i \in 1 .. Len(L) /\ s.seen \in 1 .. Len(L)
    BY <1>1
  <2>. QED
    BY <2>1, <2>2
<1>. QED
  BY <1>2 DEF Clear

LEMMA TerminalSettles ==
    ASSUME NEW L \in Seq(Rows), NEW u \in Turns, NEW x \in Terminal, NEW y \in Reason
    PROVE  Settled(TurnTerminal(L, u, x, y), u)
<1>1. CASE Settled(L, u)
  BY <1>1 DEF TurnTerminal
<1>2. CASE ~Settled(L, u)
  <2>1. TerminalRow(u, x, y) \in Rows /\ IsOf(TerminalRow(u, x, y), "terminal", u)
    BY RowsAreRows DEF TerminalRow, Row, IsOf
  <2>. QED
    BY <1>2, <2>1, GrownHas DEF Settled, TurnTerminal
<1>. QED
  BY <1>1, <1>2

\* A node's state that is being put and has ended.
LEMMA StepMemClear ==
    ASSUME MaxTurn = 1, PromisesInv, PutInv, EndsInv, Writes, [Next]_vars, NEW t \in Turns,
           t \in put', Ended(mem'[t].status)
    PROVE  Clear(ledger', mem'[t])
<1>0. /\ TypeInv /\ PutOK(t) /\ ledger \in Seq(Rows) /\ ledger' \in Seq(Rows)
      /\ mem \in [Turns -> Snapshots]
  <2>1. PromisesInv'
    BY StepPromisesInv
  <2>. QED
    BY <2>1 DEF PromisesInv, TypeInv, TypeOK, PutInv
<1>1. CASE AgentReturns(t) \/ FinishTools(t)
  <2>1. AgentReturns(t) => mem'[t].seen = Len(ledger')
    BY <1>0 DEF AgentReturns, Snapshots
  <2>2. FinishTools(t) => mem'[t].seen = Len(ledger')
    BY <1>0 DEF FinishTools, Snapshots
  <2>. QED
    BY <1>0, <1>1, <2>1, <2>2, ClearAll
<1>2. CASE StartGraph(t)
  BY <1>0, <1>2 DEF StartGraph, PutOK
<1>3. CASE t \in put /\ ~AgentReturns(t) /\ ~FinishTools(t)
  <2>1. ~Crash /\ ~AcceptTurn(t) /\ ~CommitDecision(t)
    BY <1>0, <1>3 DEF Crash, AcceptTurn, CommitDecision, PutOK, PutPCs
  <2>2. mem'[t] = mem[t]
    BY <1>0, <1>3, <2>1, MemSteps
  <2>3. pc[t] = "end" /\ Clear(ledger, mem[t])
    BY <1>0, <1>3, <2>2 DEF PutOK, EndsInv
  <2>4. ~AskInteraction(t)
    BY <2>3 DEF AskInteraction
  <2>. QED
    BY <1>0, <2>2, <2>3, <2>4, ClearKept
<1>. QED
  BY <1>0, <1>1, <1>2, <1>3, PutGrows

\* An update that says that the turn has ended.
LEMMA StepUpdClear ==
    ASSUME MaxTurn = 1, PromisesInv, QuietInv, PutInv, EndsInv, [Next]_vars, NEW t \in Turns,
           Ended(upd'[t].status)
    PROVE  Clear(ledger', upd'[t])
<1>0. /\ Writes /\ TypeInv /\ JobOK /\ PutOK(t) /\ ledger \in Seq(Rows) /\ ledger' \in Seq(Rows)
      /\ upd \in [Turns -> Snapshots] /\ job \in Jobs /\ job.view \in Snapshots
  <2>1. PromisesInv' /\ Writes
    BY StepPromisesInv
  <2>. QED
    BY <2>1 DEF PromisesInv, TypeInv, TypeOK, PutInv, Jobs
<1>1. upd'[t] # NoUpdate
  BY DEF NoUpdate, EmptySnapshot, Ended, Terminal
<1>2. CASE upd'[t] = upd[t]
  <2>1. pc[t] \in PhasePC /\ Clear(ledger, upd[t])
    BY <1>0, <1>1, <1>2 DEF PutOK, EndsInv
  <2>2. ~AskInteraction(t)
    BY <2>1 DEF AskInteraction, PhasePC
  <2>. QED
    BY <1>0, <1>2, <2>1, <2>2, ClearKept
<1>3. CASE RepairDone(t)
  <2>1. Recovering /\ upd'[t] = job.view /\ ledger' = ledger
    BY <1>0, <1>3 DEF RepairDone, Recovered
  <2>. QED
    BY <2>1 DEF EndsInv
<1>4. CASE Finalize(t)
  <2> DEFINE u       == job.view.turn
             settled == pc[t] \in {"mark", "mark2", "error"} /\ Ended(job.view.status)
  <2>1. /\ Recovering /\ job.task = t /\ pc[t] \in PhasePC
    BY <1>4 DEF Finalize, Recovered, PhasePC
  <2>2. u \in Turns
    BY <1>0, <2>1 DEF JobOK, Snapshots, PhasePC
  <2>3. CASE settled
    <3>1. ledger' = ledger /\ upd'[t].turn = u /\ upd'[t].seen = job.view.seen
      BY <1>0, <1>4, <2>3 DEF Finalize, Snapshots
    <3>2. Clear(ledger, job.view)
      BY <2>1, <2>3 DEF EndsInv
    <3>. QED
      BY <3>1, <3>2 DEF Clear
  <2>4. CASE ~settled
    <3>1. /\ ledger' = TurnTerminal(ledger, u, Wanted(t), "")
          /\ upd'[t].turn = u /\ upd'[t].seen = TerminalSeq(ledger', u)
      BY <1>0, <1>4, <2>4 DEF Finalize, Snapshots
    <3>2. Wanted(t) \in Terminal /\ "" \in Reason
      BY DEF Wanted, Ended, Terminal, Reason
    <3>3. Settled(ledger', u)
      BY <1>0, <2>2, <3>1, <3>2, TerminalSettles
    <3>4. QuietInv'
      BY StepQuietInv
    <3>. QED
      BY <1>0, <3>1, <3>3, <3>4, ClearTerminal DEF QuietInv
  <2>. QED
    BY <2>3, <2>4
<1>. QED
  BY <1>0, <1>1, <1>2, <1>3, <1>4, UpdSteps

\* A recovery that has found that the turn has ended.
LEMMA StepViewClear ==
    ASSUME MaxTurn = 1, PromisesInv, QuietInv, EndsInv, [Next]_vars,
           Recovering', Ended(job'.view.status)
    PROVE  Clear(ledger', job'.view)
<1>0. /\ Writes /\ TypeInv /\ JobOK /\ ledger \in Seq(Rows) /\ ledger' \in Seq(Rows)
      /\ cp \in Snapshots /\ job \in Jobs /\ job.view \in Snapshots /\ NoJob.task = NoTask
  <2>1. PromisesInv' /\ Writes
    BY StepPromisesInv
  <2>. QED
    BY <2>1, NoJobType DEF PromisesInv, TypeInv, TypeOK, Jobs
<1>1. CASE job' = job
  <2>1. pc' = pc
    BY <1>0, <1>1, HeldStays DEF Recovering, LoopFree
  <2>2. Recovering /\ Clear(ledger, job.view)
    BY <1>1, <2>1 DEF EndsInv, Recovering, LoopFree
  <2>3. PICK t \in Turns : TRUE
    BY LedgerAssumption DEF Turns
  <2>4. ~AskInteraction(t)
    BY <2>2 DEF AskInteraction, Recovering
  <2>. QED
    BY <1>0, <1>1, <2>2, <2>4, ClearKept
<1>2. CASE Recover
  <2> DEFINE u == job.view.turn
  <2>1. FailRecovered
    <3>1. ~Ended(job.view.status)
      BY <1>2 DEF Recover, Live, SettleUncertain, SettleLostRequest, SettleSkipped, FailRecovered
    <3>2. \A c \in Calls : ViewWithResult(c, ledger').status = job.view.status
      BY <1>0 DEF ViewWithResult, Snapshots
    <3>3. SettleUncertain \/ SettleSkipped => \E c \in Calls : job'.view = ViewWithResult(c, ledger')
      BY <1>0 DEF SettleUncertain, SettleSkipped, Jobs
    <3>4. SettleLostRequest => job'.view = job.view
      BY <1>0 DEF SettleLostRequest, Jobs
    <3>. QED
      BY <1>2, <3>1, <3>2, <3>3, <3>4 DEF Recover
  <2>2. /\ ledger' = TurnTerminal(ledger, u, "failed", FailReason)
        /\ job'.view.turn = u /\ job'.view.seen = TerminalSeq(ledger', u)
    BY <1>0, <2>1 DEF FailRecovered, Jobs, Snapshots
  <2>3. "failed" \in Terminal /\ FailReason \in Reason
    BY DEF Terminal, FailReason, Reason
  <2>4. u \in Turns
    <3>1. Recovering /\ ~Ended(job.view.status) /\ (job.cause # "none" \/ Stoppable)
      BY <2>1 DEF FailRecovered, Live
    <3>. QED
      BY <1>0, <3>1 DEF JobOK, Snapshots, Stoppable
  <2>5. Settled(ledger', u)
    BY <1>0, <2>2, <2>3, <2>4, TerminalSettles
  <2>6. QuietInv'
    BY StepQuietInv
  <2>. QED
    BY <1>0, <2>2, <2>5, <2>6, ClearTerminal DEF QuietInv
<1>3. ASSUME NEW t \in Turns, job' = [NoJob EXCEPT !.task = t], pc'[t] = "settle" PROVE FALSE
  BY <1>3, NoJobType DEF Recovering, NoJob
<1>4. ASSUME NEW t \in Turns,
             \/ BeginSend(t) \/ BeginPhase(t) \/ BeginAttach(t)
             \/ \E d \in Decision : BeginResume(t, d)
      PROVE  Clear(ledger', job'.view)
  <2>1. ledger' = ledger
    BY <1>4, RecoveryStarts
  <2>2. PICK s \in Snapshots : job'.view = Replayed(ledger, s)
    <3>1. \A u \in Turns : Synthesized(u) \in Snapshots
      BY NewRunStateType DEF Synthesized
    <3>2. ASSUME BeginSend(t) PROVE \E s \in Snapshots : job'.view = Replayed(ledger, s)
      BY <1>0, <3>1, <3>2 DEF BeginSend, StartRecovery
    <3>. QED
      BY <1>0, <1>4, <3>2, RecoveryStarts
  <2>3. job'.view.seen = Len(ledger)
    BY <2>2 DEF Replayed, Snapshots
  <2>. QED
    BY <1>0, <2>1, <2>3, ClearAll
<1>5. ASSUME NEW t \in Turns, RepairCall(t) PROVE Clear(ledger', job'.view)
  <2>1. job'.view.seen = Len(ledger')
    BY <1>0, <1>5 DEF RepairCall, Jobs, Snapshots
  <2>. QED
    BY <1>0, <2>1, ClearAll
<1>. QED
  BY <1>0, <1>1, <1>2, <1>3, <1>4, <1>5, JobSteps DEF Recovering, LoopFree

\* Where a coroutine that has ended, or is on its way out, can be next.
LEMMA StaysOut ==
    ASSUME TypeInv, ThreadsInv, [Next]_vars, NEW t \in Turns,
           pc[t] \in {"idle", "end"} \cup PhasePC, Accepted(ledger, t),
           Attach(t) => pc'[t] # "wait"
    PROVE  pc'[t] \in {"idle", "end"} \cup PhasePC
<1>0. pc'[t] \in PCs
  <2>1. pc' \in [Turns -> PCs]
    BY StepTypeInv DEF TypeInv, TypeOK
  <2>. QED
    BY <2>1
<1>1. CASE pc'[t] = pc[t]
  BY <1>1
<1>2. CASE pc'[t] # pc[t]
  <2>1. ~Submit(t)
    BY DEF Submit
  <2>2. /\ ~AcceptTurn(t) /\ ~StartGraph(t) /\ ~FinishTools(t) /\ ~AgentReturns(t)
        /\ ~ResumeGraph(t) /\ ~AskInteraction(t) /\ ~StartBatch(t) /\ ~BatchReturns(t)
        /\ ~WriteInterrupt(t) /\ ~CommitDecision(t)
    BY DEF AcceptTurn, StartGraph, FinishTools, AgentReturns, ResumeGraph, AskInteraction,
           StartBatch, BatchReturns, WriteInterrupt, CommitDecision, PhasePC
  <2>3. pc'[t] \notin {"queued", "accepted", "agent", "gate", "ask", "batch", "settle", "wait",
                       "resuming"}
    BY <1>2, <2>1, <2>2, CameFrom
  <2>. QED
    BY <1>0, <2>3 DEF PCs, GraphPC
<1>. QED
  BY <1>1, <1>2

\* The turn of a checkpoint that has ended is accepted.
LEMMA EndedIsAccepted ==
    ASSUME MaxTurn = 1, TypeInv, SoundInv, Ended(cp.status), NEW t \in Turns
    PROVE  cp.turn = t /\ Accepted(ledger, t)
<1>1. cp \in Snapshots /\ cp.turn # NoTurn
  BY DEF TypeInv, TypeOK, ScopeOK, EmptySnapshot, Ended, Terminal
<1>2. cp.turn = t
  BY <1>1, OneTurn DEF Snapshots
<1>. QED
  BY <1>1, <1>2 DEF SoundInv, Sound

\* A checkpoint becomes an ended one by the last node's write or a finalization.
LEMMA CpEnds ==
    ASSUME MaxTurn = 1, PromisesInv, PutInv, EndsInv, [Next]_vars, NEW t \in Turns,
           cp' # cp, Ended(cp'.status)
    PROVE  \/ t \in put /\ t \notin put' /\ cp' = mem[t] /\ pc[t] = "end"
           \/ UpdateState(t) /\ Ended(upd[t].status)
<1>0. /\ TypeInv /\ PutOK(t) /\ mem \in [Turns -> Snapshots] /\ upd \in [Turns -> Snapshots]
  BY DEF PromisesInv, TypeInv, TypeOK, PutInv
<1>1. ASSUME NEW u \in Turns, WriteInterrupt(u) PROVE FALSE
  BY <1>0, <1>1 DEF WriteInterrupt, Snapshots, Ended, Terminal
<1>2. ASSUME UpdateState(t) PROVE Ended(upd[t].status)
  <2>1. cp'.status = MergeTerminal(cp.status, upd[t].status) /\ upd[t] # NoUpdate
    BY <1>0, <1>2 DEF UpdateState, Snapshots
  <2>2. Ended(cp.status) => Ended(upd[t].status)
    BY <2>1 DEF EndsInv
  <2>. QED
    BY <2>1, <2>2 DEF MergeTerminal
<1>3. ASSUME t \in put, cp' = mem[t] PROVE pc[t] = "end"
  BY <1>0, <1>3 DEF PutOK
<1>4. PICK u \in Turns : \/ u \in put /\ u \notin put' /\ cp' = mem[u]
                         \/ UpdateState(u)
  BY <1>0, <1>1, CpSteps
<1>5. u = t
  BY OneTurn
<1>. QED
  BY <1>2, <1>3, <1>4, <1>5

\* While the checkpoint stays an ended one.
LEMMA StepEnded ==
    ASSUME MaxTurn = 1, PromisesInv, QuietInv, PutInv, EndsInv, [Next]_vars, NEW t \in Turns,
           cp' = cp, Ended(cp.status)
    PROVE  /\ pc'[t] \in {"idle", "end"} \cup PhasePC
           /\ t \notin put'
           /\ upd'[t] # NoUpdate => Ended(upd'[t].status)
           /\ Clear(ledger', cp')
           /\ Recovering' => Ended(job'.view.status)
<1>0. /\ Writes /\ TypeInv /\ SoundInv /\ ThreadsInv /\ PutOK(t) /\ ledger \in Seq(Rows)
      /\ cp \in Snapshots /\ job \in Jobs /\ job.view \in Snapshots /\ upd \in [Turns -> Snapshots]
      /\ NoJob.task = NoTask /\ t # NoTask
  BY StepPromisesInv, NoJobType DEF PromisesInv, PromiseInv, TypeInv, TypeOK, PutInv, Jobs
<1>1. /\ pc[t] \in {"idle", "end"} \cup PhasePC /\ t \notin put
      /\ upd[t] # NoUpdate => Ended(upd[t].status)
      /\ Clear(ledger, cp) /\ (Recovering => Ended(job.view.status))
  BY DEF EndsInv
<1>2. cp.turn = t /\ Accepted(ledger, t)
  BY <1>0, EndedIsAccepted
<1>3. pc'[t] \in {"idle", "end"} \cup PhasePC
  <2>1. ASSUME Attach(t) PROVE pc'[t] # "wait"
    <3>1. Ended(job.view.status) /\ pc \in [Turns -> PCs]
      BY <1>0, <1>1, <2>1 DEF Attach, Recovered, TypeInv, TypeOK
    <3>. QED
      BY <2>1, <3>1 DEF Attach
  <2>. QED
    BY <1>0, <1>1, <1>2, <2>1, StaysOut
<1>4. t \notin put'
  <2>1. ~StartGraph(t) /\ ~AgentReturns(t) /\ ~FinishTools(t)
    BY <1>1 DEF StartGraph, AgentReturns, FinishTools, PhasePC
  <2>. QED
    BY <1>0, <1>1, <2>1, PutGrows
<1>5. ASSUME upd'[t] # NoUpdate PROVE Ended(upd'[t].status)
  <2>1. CASE RepairDone(t)
    <3>1. Recovering /\ upd'[t] = job.view
      BY <1>0, <2>1 DEF RepairDone, Recovered
    <3>. QED
      BY <1>1, <3>1
  <2>2. CASE Finalize(t)
    <3>1. upd'[t].status = Wanted(t)
      BY <1>0, <2>2 DEF Finalize, Snapshots
    <3>. QED
      BY <3>1 DEF Wanted, Ended, Terminal
  <2>. QED
    BY <1>0, <1>1, <1>5, <2>1, <2>2, UpdSteps
<1>6. Clear(ledger', cp')
  <2>1. ~AskInteraction(t)
    BY <1>1 DEF AskInteraction, PhasePC
  <2>. QED
    BY <1>0, <1>1, <2>1, ClearKept
<1>7. ASSUME Recovering' PROVE Ended(job'.view.status)
  <2>1. CASE job' = job
    <3>1. pc' = pc
      BY <1>0, <1>7, <2>1, HeldStays DEF Recovering, LoopFree
    <3>. QED
      BY <1>1, <1>7, <2>1, <3>1 DEF Recovering, LoopFree
  <2>2. CASE Recover
    <3>1. ~Live
      BY <1>1 DEF Live
    <3>. QED
      BY <2>2, <3>1 DEF Recover, SettleUncertain, SettleLostRequest, SettleSkipped, FailRecovered
  <2>3. ASSUME NEW u \in Turns, job' = [NoJob EXCEPT !.task = u], pc'[u] = "settle" PROVE FALSE
    BY <1>3, <2>3, OneTurn DEF PhasePC
  <2>4. ASSUME NEW u \in Turns, \/ BeginSend(u) \/ BeginAttach(u)
                                \/ \E d \in Decision : BeginResume(u, d)
        PROVE  FALSE
    BY <1>1, <2>4, OneTurn DEF BeginSend, BeginAttach, BeginResume, PhasePC
  <2>5. ASSUME NEW u \in Turns, BeginPhase(u) PROVE Ended(job'.view.status)
    <3>1. job'.view = Replayed(ledger, cp)
      BY <2>5 DEF BeginPhase, StartRecovery
    <3>2. Len(ledger) \in Nat /\ \A i \in DOMAIN ledger : i \in Nat
      BY <1>0
    <3>3. \A i \in DOMAIN ledger : ~(i > cp.seen /\ IsOf(ledger[i], "ask", cp.turn))
      BY <1>0, <1>1, <3>2 DEF Clear, Snapshots
    <3>. QED
      BY <1>0, <3>1, <3>3, ReplayEnds
  <2>6. ASSUME NEW u \in Turns, RepairCall(u) PROVE Ended(job'.view.status)
    <3>1. Recovering /\ job'.view.status = job.view.status
      BY <1>0, <2>6 DEF RepairCall, Recovered, Jobs, Snapshots
    <3>. QED
      BY <1>1, <3>1
  <2>. QED
    BY <1>0, <1>7, <2>1, <2>2, <2>3, <2>4, <2>5, <2>6, JobSteps DEF Recovering, LoopFree
<1>. QED
  BY <1>3, <1>4, <1>5, <1>6, <1>7

\* When the checkpoint becomes an ended one.
LEMMA StepEnds ==
    ASSUME MaxTurn = 1, PromisesInv, QuietInv, PutInv, EndsInv, [Next]_vars, NEW t \in Turns,
           cp' # cp, Ended(cp'.status)
    PROVE  /\ pc'[t] \in {"idle", "end"} \cup PhasePC
           /\ t \notin put'
           /\ upd'[t] # NoUpdate => Ended(upd'[t].status)
           /\ Clear(ledger', cp')
           /\ ~Recovering'
<1>0. /\ Writes /\ TypeInv /\ SoundInv /\ ThreadsInv /\ PutOK(t) /\ ledger \in Seq(Rows)
      /\ job \in Jobs /\ mem \in [Turns -> Snapshots] /\ upd \in [Turns -> Snapshots]
      /\ pc \in [Turns -> PCs] /\ NoJob.task = NoTask
  BY StepPromisesInv, NoJobType DEF PromisesInv, PromiseInv, TypeInv, TypeOK, PutInv
<1>1. CASE t \in put /\ t \notin put' /\ cp' = mem[t] /\ pc[t] = "end"
  <2>1. Accepted(ledger, t)
    <3>1. mem[t].turn = t
      BY <1>0, <1>1 DEF TypeInv, ScopeOK
    <3>. QED
      BY <1>0, <3>1 DEF SoundInv, Sound, Turns, NoTurn
  <2>2. ~Attach(t) /\ ~RepairDone(t) /\ ~Finalize(t) /\ ~AskInteraction(t)
    BY <1>1 DEF Attach, RepairDone, Finalize, AskInteraction
  <2>3. pc'[t] \in {"idle", "end"} \cup PhasePC
    BY <1>0, <1>1, <2>1, <2>2, StaysOut
  <2>4. upd'[t] = NoUpdate
    BY <1>0, <1>1, <2>2, UpdSteps DEF PutOK, PhasePC
  <2>5. Clear(ledger', cp')
    <3>1. Clear(ledger, mem[t])
      BY <1>1 DEF EndsInv
    <3>. QED
      BY <1>0, <1>1, <2>2, <3>1, ClearKept
  <2>6. ~Recovering'
    <3> SUFFICES ASSUME Recovering' PROVE FALSE
      OBVIOUS
    <3>1. job'.task # NoTask
      BY DEF Recovering, LoopFree
    <3>2. CASE job' = job
      <4>1. pc' = pc
        BY <1>0, <3>1, <3>2, HeldStays DEF LoopFree
      <4>2. Recovering
        BY <3>2, <4>1 DEF Recovering, LoopFree
      <4>3. job.task \in Turns
        BY <1>0, <4>2 DEF Recovering, LoopFree, Jobs
      <4>4. job.task = t
        BY <4>3, OneTurn
      <4>. QED
        BY <1>1, <4>2, <4>4 DEF QuietInv, Resting, PhasePC
    <3>3. CASE Recover
      BY <3>3 DEF Recover
    <3>4. ASSUME NEW u \in Turns, job' = [NoJob EXCEPT !.task = u], pc'[u] = "settle" PROVE FALSE
      BY <2>3, <3>4, OneTurn DEF PhasePC
    <3>5. ASSUME NEW u \in Turns, RepairCall(u) PROVE FALSE
      BY <3>5 DEF RepairCall
    <3>. QED
      BY <1>0, <3>1, <3>2, <3>3, <3>4, <3>5, JobSteps, RecoveryStarts
  <2>. QED
    BY <1>1, <2>3, <2>4, <2>5, <2>6
<1>2. CASE UpdateState(t) /\ Ended(upd[t].status)
  <2>1. /\ pc[t] \in PhasePC /\ LoopFree /\ UNCHANGED <<ledger, put, job>>
        /\ pc'[t] = NextPhase(pc[t]) /\ upd'[t] = NoUpdate
        /\ cp'.turn = upd[t].turn /\ cp'.seen = upd[t].seen
    BY <1>0, <1>2 DEF UpdateState, Snapshots
  <2>2. pc'[t] \in {"idle", "end"} \cup PhasePC
    BY <2>1 DEF NextPhase, PhasePC
  <2>3. t \notin put'
    BY <1>0, <2>1 DEF PutOK, PutPCs, PhasePC
  <2>4. Clear(ledger', cp')
    <3>1. Clear(ledger, upd[t])
      BY <1>2 DEF EndsInv
    <3>. QED
      BY <2>1, <3>1 DEF Clear
  <2>5. ~Recovering'
    BY <2>1 DEF Recovering, LoopFree
  <2>. QED
    BY <2>1, <2>2, <2>3, <2>4, <2>5
<1>. QED
  BY <1>1, <1>2, CpEnds

LEMMA StepEndsInv ==
    ASSUME MaxTurn = 1, PromisesInv, QuietInv, PutInv, EndsInv, [Next]_vars
    PROVE  PutInv' /\ EndsInv'
<1>0. Writes
  BY StepPromisesInv
<1>1. PutInv'
  BY <1>0, StepPut DEF PutInv
<1>2. ASSUME NEW t \in Turns
      PROVE  /\ t \in put' /\ Ended(mem'[t].status) => Clear(ledger', mem'[t])
             /\ Ended(upd'[t].status) => Clear(ledger', upd'[t])
  BY <1>0, StepMemClear, StepUpdClear
<1>3. ASSUME Ended(cp'.status), NEW t \in Turns
      PROVE  /\ pc'[t] \in {"idle", "end"} \cup PhasePC /\ t \notin put'
             /\ upd'[t] # NoUpdate => Ended(upd'[t].status)
             /\ Clear(ledger', cp') /\ (Recovering' => Ended(job'.view.status))
  <2>1. CASE cp' = cp
    BY <1>3, <2>1, StepEnded
  <2>2. CASE cp' # cp
    BY <1>3, <2>2, StepEnds
  <2>. QED
    BY <2>1, <2>2
<1>4. Turns # {}
  BY LedgerAssumption DEF Turns
<1>5. Recovering' /\ Ended(job'.view.status) => Clear(ledger', job'.view)
  BY StepViewClear
<1>6. Ended(cp'.status) => Clear(ledger', cp') /\ (Recovering' => Ended(job'.view.status))
  BY <1>3, <1>4
<1>7. EndsInv' <=>
        /\ \A t \in Turns :
              /\ t \in put' /\ Ended(mem'[t].status) => Clear(ledger', mem'[t])
              /\ Ended(upd'[t].status) => Clear(ledger', upd'[t])
              /\ Ended(cp'.status) => /\ pc'[t] \in {"idle", "end"} \cup PhasePC
                                      /\ t \notin put'
                                      /\ upd'[t] # NoUpdate => Ended(upd'[t].status)
        /\ Ended(cp'.status) => Clear(ledger', cp') /\ (Recovering' => Ended(job'.view.status))
        /\ Recovering' /\ Ended(job'.view.status) => Clear(ledger', job'.view)
  BY DEF EndsInv, Clear, Ended
<1>. QED
  BY <1>1, <1>2, <1>3, <1>5, <1>6, <1>7

LEMMA InitEndsInv == Init => PutInv /\ EndsInv
<1> SUFFICES ASSUME Init PROVE PutInv /\ EndsInv
  OBVIOUS
<1>1. /\ ~Ended(EmptySnapshot.status) /\ job.task = NoTask
      /\ \A t \in Turns : upd[t] = NoUpdate /\ t \notin put /\ pc[t] = "idle" /\ agent[t] = "none"
  BY NoJobType DEF Init, EmptySnapshot, Ended, Terminal
<1>2. cp = EmptySnapshot /\ NoUpdate = EmptySnapshot
  BY DEF Init, NoUpdate
<1>. QED
  BY <1>1, <1>2 DEF PutInv, PutOK, EndsInv, Recovering, LoopFree

\* In a session of one turn a checkpoint that says that the turn has ended, and
\* how, goes on saying so: no write of a node left behind, no update of a
\* finalization that was prepared before, and no attach puts another status over
\* it.
THEOREM EndedStays == ASSUME MaxTurn = 1 PROVE Spec => TerminalStays
<1> DEFINE Inv == PromisesInv /\ QuietInv /\ PutInv /\ EndsInv
<1>1. Init => Inv
  BY InitPromisesInv, InitQuietInv, InitEndsInv
<1>2. Inv /\ [Next]_vars => Inv'
  BY StepPromisesInv, StepQuietInv, StepEndsInv
<1>3. Inv /\ [Next]_vars => [Ended(cp.status) /\ cp'.turn = cp.turn => cp'.status = cp.status]_cp
  <2> SUFFICES ASSUME Inv, [Next]_vars, cp' # cp, Ended(cp.status) PROVE cp'.status = cp.status
    OBVIOUS
  <2>0. TypeInv /\ upd \in [Turns -> Snapshots]
    BY DEF PromisesInv, TypeInv, TypeOK
  <2>1. ASSUME NEW t \in Turns, t \in put PROVE FALSE
    BY <2>1 DEF EndsInv
  <2>2. ASSUME NEW t \in Turns, WriteInterrupt(t) PROVE FALSE
    BY <2>2 DEF EndsInv, WriteInterrupt, PhasePC
  <2>3. ASSUME NEW t \in Turns, UpdateState(t) PROVE cp'.status = cp.status
    <3>1. cp'.status = MergeTerminal(cp.status, upd[t].status) /\ upd[t] # NoUpdate
      BY <2>0, <2>3 DEF UpdateState, Snapshots
    <3>2. Ended(upd[t].status)
      BY <3>1 DEF EndsInv
    <3>. QED
      BY <3>1, <3>2 DEF MergeTerminal, Ended, Terminal
  <2>. QED
    BY <2>0, <2>1, <2>2, <2>3, CpSteps
<1>. QED
  BY <1>1, <1>2, <1>3, PTL DEF Spec, TerminalStays
=============================================================================
