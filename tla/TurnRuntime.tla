----------------------------- MODULE TurnRuntime -----------------------------
(***************************************************************************)
(* The life of the turns of one session: submission, the agent/tools graph,  *)
(* approval interrupts, cancellation, time-outs, process crashes, re-attach  *)
(* and recovery, over a durable ledger and a durable checkpoint that are     *)
(* written separately.                                                       *)
(*                                                                         *)
(* Who runs concurrently: the event loop runs one coroutine at a time; the   *)
(* synchronous agent node and the tool workers run on threads that a         *)
(* cancelled coroutine leaves behind.  Every ledger append is a step of its  *)
(* own, so a crash or a thread may come between any two.  A stretch of a     *)
(* coroutine without an await holds the loop: variable job.                  *)
(***************************************************************************)
EXTENDS LedgerRecovery

CONSTANTS
    Uses,         \* bound: the calls the responses of each turn may define
    Attempts,     \* bound: the model requests each turn may start
    MaxCrash,     \* bound: crashes of the process
    MaxCancel,    \* bound: cancel requests
    MaxDeadline,  \* bound: time-outs of the graph run
    MaxExpiry     \* bound: time-outs of a tool batch

ASSUME BoundsAssumption ==
    /\ Uses \in [Turns -> SUBSET Calls]
    /\ Attempts \in [Turns -> Requests]
    /\ {MaxCrash, MaxCancel, MaxDeadline, MaxExpiry} \subseteq Nat

VARIABLES
    ledger,   \* durable: the rows of the session's ledger
    cp,       \* durable: the latest checkpoint of the session's thread
    pc,       \* where the coroutine that runs the turn is
    resumed,  \* the turns whose graph run was started by a resume
    mem,      \* the graph's in-memory channels between two nodes
    put,      \* the turns with a checkpoint write of mem under way
    upd,      \* the snapshot an aupdate_state in flight will write
    agent,    \* the thread of the agent node
    work,     \* the worker of each call of a tool batch
    runner,   \* the thread that waits for the batch
    job,      \* the synchronous section that holds the event loop
    faults    \* how many crashes, cancels and time-outs have happened

vars == <<ledger, cp, pc, resumed, mem, put, upd, agent, work, runner, job, faults>>

\* Control states of a turn's coroutine (_execute_run, _execute_waiting_turn,
\* and after them the rest of cancel_run).
GraphPC  == {"agent", "gate", "ask", "batch"}       \* inside stream_graph_events
PhasePC  == {"persist", "repair", "mark",           \* the cancelled coroutine
             "repair2", "mark2",                    \* cancel_run, once it ended
             "abort", "error"}                      \* exception in the graph; failed resume
PCs      == {"idle", "queued", "accepted", "settle", "end", "wait", "resuming"}
            \cup GraphPC \cup PhasePC

AgentPC  == {"none", "invoke", "sent", "failed", "final", "error",
             "calls", "completed", "broken"}
WorkPC   == {"none", "queued", "begun", "running", "done", "left_begun", "left_running"}
RunnerPC == {"none", "open", "cancelled", "expired"}

NoTask == 0
NoJob  == [task |-> NoTask, view |-> EmptySnapshot, stop |-> FALSE,
           lost |-> {}, cause |-> "none", reason |-> "", decision |-> "none"]

Jobs == [task     : Turns \cup {NoTask},
         view     : Snapshots,            \* the recovered state so far
         stop     : BOOLEAN,              \* stop_incomplete
         lost     : SUBSET Requests,      \* model requests still to settle
         cause    : {"none", "tool", "model"},
         reason   : Reason,
         decision : Decision \cup {"none"}]

NoUpdate == EmptySnapshot

Fault == {"crash", "cancel", "deadline", "expiry"}

TypeOK ==
    /\ ledger \in Seq(Rows)
    /\ cp \in Snapshots
    /\ pc \in [Turns -> PCs]
    /\ resumed \subseteq Turns
    /\ mem \in [Turns -> Snapshots]
    /\ put \subseteq Turns
    /\ upd \in [Turns -> Snapshots]
    /\ agent \in [Turns -> AgentPC]
    /\ work \in [CallIds -> WorkPC]
    /\ runner \in [Turns -> RunnerPC]
    /\ job \in Jobs
    /\ faults \in [Fault -> Nat]

Init ==
    /\ ledger = <<>>
    /\ cp = EmptySnapshot
    /\ pc = [t \in Turns |-> "idle"]
    /\ resumed = {}
    /\ mem = [t \in Turns |-> EmptySnapshot]
    /\ put = {}
    /\ upd = [t \in Turns |-> NoUpdate]
    /\ agent = [t \in Turns |-> "none"]
    /\ work = [id \in CallIds |-> "none"]
    /\ runner = [t \in Turns |-> "none"]
    /\ job = NoJob
    /\ faults = [k \in Fault |-> 0]

-----------------------------------------------------------------------------
Ended(s)  == s \in Terminal
LoopFree  == job.task = NoTask
IsLeast(c, S) == c \in S /\ \A d \in S : c <= d
Budget(k, max) == faults[k] < max /\ faults' = [faults EXCEPT ![k] = @ + 1]

\* The calls of the turn's latest response that has any.
DefinedBy(t) ==
    LET D == {i \in DefiningRows(ledger) : ledger[i].turn = t}
    IN  {c \in Calls : \E i \in D : IsLatest(i, D) /\ c \in ledger[i].calls}

\* The calls the tools node works on, those of the latest message, and which may run.
Batch(t)     == {c \in DefinedBy(t) : mem[t].calls[c] # "none"}
Undecided(t) == {c \in Batch(t) \cap Gated : ~Decided(ledger, t, <<t, c>>)}
Denied(t)    == {c \in Batch(t) \cap Gated : ~Allowed(ledger, t, <<t, c>>)}

\* Mutant: a decision lets the call run, whatever it says.
RunnableDecided(t) == Batch(t)

Runnable(t)  == Batch(t) \ Denied(t)

-----------------------------------------------------------------------------
(* recover_ledger_tail: run by every caller on the checkpoint it has read.  *)

StartRecovery(t, snap, stop, d) ==
    /\ LoopFree
    /\ job' = [task     |-> t,
               view     |-> Replayed(ledger, snap),
               stop     |-> stop,
               lost     |-> UnresolvedRequests(ledger, snap),
               cause    |-> "none",
               reason   |-> ReplayedReason(ledger, snap),
               decision |-> d]

Recovering == ~LoopFree /\ pc[job.task] # "settle"
Uncertain  == {c \in Calls : job.view.calls[c] = "running"}
NotStarted == {c \in Calls : job.view.calls[c] = "pending"}
Live       == Recovering /\ ~Ended(job.view.status)

\* Mutant: recovery takes the result it reports for the one that is recorded.
ViewAsReported(c, L) ==
    [job.view EXCEPT !.calls[c] = IF @ = "running" THEN "unknown" ELSE "skipped",
                     !.seen = Len(L)]

ViewWithResult(c, L) ==
    [job.view EXCEPT !.calls[c] = ResultOf(L, job.view.turn, <<job.view.turn, c>>),
                     !.seen = Len(L)]

\* A call that was started and has no result is settled "unknown", once.
SettleUncertain ==
    /\ Live
    /\ \E c \in Calls :
        LET t == job.view.turn IN
        /\ IsLeast(c, Uncertain)
        /\ ledger' = SettleTool(ledger, t, <<t, c>>, "unknown")
        /\ job' = [job EXCEPT !.view = ViewWithResult(c, ledger'),
                              !.cause = IF ResultOf(ledger', t, <<t, c>>) = "unknown"
                                        THEN "tool" ELSE @]

\* A model request that was started and not answered is settled "unknown".
SettleLostRequest ==
    /\ Live
    /\ Uncertain = {}
    /\ job.cause # "tool"
    /\ \E r \in Requests :
        /\ IsLeast(r, job.lost)
        /\ ledger' = ModelFailed(ledger, job.view.turn, r)
        /\ job' = [job EXCEPT !.lost = @ \ {r}, !.cause = "model"]

\* stop_incomplete: calls that never started are settled "skipped".
Stoppable == job.stop /\ job.cause = "none" /\ job.view.status \in {"created", "running"}

SettleSkipped ==
    /\ Live
    /\ Uncertain = {} /\ job.lost = {}
    /\ Stoppable
    /\ \E c \in Calls :
        LET t == job.view.turn IN
        /\ IsLeast(c, NotStarted)
        /\ ledger' = SettleTool(ledger, t, <<t, c>>, "skipped")
        /\ job' = [job EXCEPT !.view = ViewWithResult(c, ledger')]

FailReason == CASE job.cause = "tool"  -> "execution_outcome_unknown"
                [] job.cause = "model" -> "model_request_outcome_unknown"
                [] OTHER               -> "interrupted_turn"

\* Whatever could not be accounted for fails the turn.
FailRecovered ==
    /\ Live
    /\ Uncertain = {}
    /\ \/ job.cause = "tool"
       \/ job.cause = "model" /\ job.lost = {}
       \/ Stoppable /\ job.lost = {} /\ NotStarted = {}
    /\ ledger' = TurnTerminal(ledger, job.view.turn, "failed", FailReason)
    /\ job' = [job EXCEPT !.view.status = "failed", !.view.pend = NoPending,
                          !.view.seen = TerminalSeq(ledger', job.view.turn),
                          !.reason = FailReason]

Recover ==
    /\ SettleUncertain \/ SettleLostRequest \/ SettleSkipped \/ FailRecovered
    /\ UNCHANGED <<cp, pc, resumed, mem, put, upd, agent, work, runner, faults>>

\* Recovery has nothing left to write; the caller goes on.
Recovered(t) ==
    /\ Recovering
    /\ job.task = t
    /\ \/ Ended(job.view.status)
       \/ /\ Uncertain = {} /\ job.lost = {} /\ job.cause = "none"
          /\ ~Stoppable

-----------------------------------------------------------------------------
(* chat.send: _start_run, the session lock, iter_chat_events up to the graph. *)

\* Mutant: the lock is released before the last checkpoint is written.
HoldsLockUntilEnd(t) ==
    /\ pc[t] \in {"queued", "accepted", "settle"} \cup GraphPC
    /\ t \notin resumed

\* The lock of _exclusive_turn: held by the generator that runs a new turn,
\* not by the one that resumes a waiting turn.
HoldsLock(t) ==
    /\ pc[t] \in {"queued", "accepted", "settle", "end", "persist", "abort"} \cup GraphPC
    /\ t \notin resumed

\* _session_execution: a second turn is refused while the lock is held.
Submit(t) ==
    /\ LoopFree
    /\ pc[t] = "idle" /\ ~Accepted(ledger, t)
    /\ \A u \in Turns : u < t => Accepted(ledger, u)
    /\ \A u \in Turns : ~HoldsLock(u)
    /\ pc' = [pc EXCEPT ![t] = "queued"]
    /\ resumed' = resumed \ {t}
    /\ UNCHANGED <<ledger, cp, mem, put, upd, agent, work, runner, job, faults>>

\* _previous_for_branch: recover the previous state, stopping what is unfinished.
BeginSend(t) ==
    /\ pc[t] = "queued"
    /\ \/ /\ cp.turn # NoTurn \/ \A u \in Turns : ~Accepted(ledger, u)
          /\ StartRecovery(t, cp, TRUE, "none")
       \/ /\ cp.turn = NoTurn
          /\ \E u \in Turns : /\ IsLastAccepted(ledger, u)
                             /\ StartRecovery(t, Synthesized(u), TRUE, "none")
    /\ UNCHANGED <<ledger, cp, pc, resumed, mem, put, upd, agent, work, runner, faults>>

\* _new_run_state refuses while the previous turn is running or waiting.
RefuseSend(t) ==
    /\ Recovered(t) /\ pc[t] = "queued"
    /\ job.view.status \in {"running", "waiting_user"}
    /\ pc' = [pc EXCEPT ![t] = "idle"]
    /\ job' = NoJob
    /\ UNCHANGED <<ledger, cp, resumed, mem, put, upd, agent, work, runner, faults>>

\* The user message is durable before the graph runs; the recovered previous
\* state is not written back.
AcceptTurn(t) ==
    /\ Recovered(t) /\ pc[t] = "queued"
    /\ job.view.status \notin {"running", "waiting_user"}
    /\ ledger' = Append(ledger, AcceptedRow(t))
    /\ mem' = [mem EXCEPT ![t] = NewRunState(t, Len(ledger'))]
    /\ pc' = [pc EXCEPT ![t] = "accepted"]
    /\ job' = NoJob
    /\ UNCHANGED <<cp, resumed, put, upd, agent, work, runner, faults>>

\* stream_graph_events starts: the input checkpoint is put, the agent node runs.
StartGraph(t) ==
    /\ LoopFree /\ pc[t] = "accepted"
    /\ pc' = [pc EXCEPT ![t] = "agent"]
    /\ put' = put \cup {t}
    /\ agent' = [agent EXCEPT ![t] = "invoke"]
    /\ UNCHANGED <<ledger, cp, resumed, mem, upd, work, runner, job, faults>>

\* LangGraph writes the checkpoint of a finished node while the next one runs.
FlushCheckpoint(t) ==
    /\ t \in put
    /\ cp' = mem[t]
    /\ put' = put \ {t}
    /\ UNCHANGED <<ledger, pc, resumed, mem, upd, agent, work, runner, job, faults>>

-----------------------------------------------------------------------------
(* The agent node, on its thread: _invoke_llm and finish_node.              *)

\* The calls the turn's responses have not defined yet: call ids are new.
Fresh(t) == {c \in Uses[t] : \A i \in DOMAIN ledger :
                ~(ledger[i].type = "response" /\ ledger[i].turn = t /\ c \in ledger[i].calls)}

AgentStep(t, from, to) ==
    /\ agent[t] = from
    /\ agent' = [agent EXCEPT ![t] = to]
    /\ UNCHANGED <<cp, pc, resumed, mem, put, upd, work, runner, job, faults>>

\* A first request, or the retry of one that failed.
StartRequest(t) ==
    /\ Started(ledger, t) < Attempts[t]
    /\ AgentStep(t, "invoke", "sent") \/ AgentStep(t, "failed", "sent")
    /\ ledger' = Append(ledger, ModelStartRow(t, Started(ledger, t) + 1))

RequestFails(t) ==
    /\ AgentStep(t, "sent", "failed")
    /\ ledger' = ModelFailed(ledger, t, Started(ledger, t))

\* The response defines tool calls, or is the final answer.
Respond(t, S) ==
    /\ S \subseteq Fresh(t)
    /\ S # {} => Started(ledger, t) < Attempts[t]
    /\ AgentStep(t, "sent", IF S = {} THEN "final" ELSE "calls")
    /\ ledger' = Append(ledger, ResponseRow(t, Started(ledger, t), S))

\* Retries used up: an error answer ends the turn.
GiveUp(t) ==
    /\ AgentStep(t, "failed", "error")
    /\ ledger' = Append(ledger, ResponseRow(t, NoReq, {}))

EndByAgent(t) ==
    \/ /\ AgentStep(t, "final", "completed")
       /\ ledger' = TurnTerminal(ledger, t, "completed", "")
    \/ /\ AgentStep(t, "error", "broken")
       /\ ledger' = TurnTerminal(ledger, t, "failed", "")

\* The node returns to a loop that still waits for it.
AgentReturns(t) ==
    /\ LoopFree /\ pc[t] = "agent"
    /\ agent[t] \in {"calls", "completed", "broken"}
    /\ agent' = [agent EXCEPT ![t] = "none"]
    /\ mem' = [mem EXCEPT ![t] =
                 [@ EXCEPT !.status = CASE agent[t] = "calls"     -> "running"
                                        [] agent[t] = "completed" -> "completed"
                                        [] agent[t] = "broken"    -> "failed",
                           !.calls  = [c \in Calls |->
                                         IF agent[t] = "calls" /\ c \in DefinedBy(t)
                                         THEN "pending" ELSE "none"],
                           !.seen   = Len(ledger),
                           !.pend   = NoPending,
                           !.intr   = NoPending]]
    /\ put' = put \cup {t}
    /\ pc' = [pc EXCEPT ![t] = IF agent[t] = "calls" THEN "gate" ELSE "end"]
    /\ UNCHANGED <<ledger, cp, resumed, upd, work, runner, job, faults>>

AgentThread(t) ==
    \/ StartRequest(t) \/ RequestFails(t) \/ GiveUp(t) \/ EndByAgent(t)
    \/ \E S \in SUBSET Uses[t] : Respond(t, S)

-----------------------------------------------------------------------------
(* The tools node: call_tools decides every call before it runs any.        *)

\* pending_tool_message: the node needs a call the window has no result of.
HasOpenCall(t) == \E c \in Batch(t) : mem[t].calls[c] \notin FinalResult

AskInteraction(t) ==
    /\ LoopFree /\ pc[t] = "gate"
    /\ HasOpenCall(t)
    /\ \E c \in Calls : /\ IsLeast(c, Undecided(t))
                       /\ ledger' = InteractionRequest(ledger, t, <<t, c>>)
    /\ pc' = [pc EXCEPT ![t] = "ask"]
    /\ UNCHANGED <<cp, resumed, mem, put, upd, agent, work, runner, job, faults>>

\* _waiting_payload: with the native interrupt, the checkpoint becomes waiting.
\* The stream ends, which releases the session lock.
WriteInterrupt(t) ==
    /\ LoopFree /\ pc[t] = "ask"
    /\ t \notin put
    /\ \E c \in Calls :
        /\ IsLeast(c, Undecided(t))
        /\ cp' = [mem[t] EXCEPT !.status = "waiting_user", !.seen = Len(ledger),
                                !.pend = c, !.intr = c]
    /\ pc' = [pc EXCEPT ![t] = "wait"]
    /\ UNCHANGED <<ledger, resumed, mem, put, upd, agent, work, runner, job, faults>>

\* Every call is decided: the batch starts, or nothing may run.
StartBatch(t) ==
    /\ LoopFree /\ pc[t] = "gate"
    /\ HasOpenCall(t)
    /\ Undecided(t) = {}
    /\ IF Runnable(t) = {}
       THEN /\ pc' = [pc EXCEPT ![t] = "settle"]
            /\ job' = [NoJob EXCEPT !.task = t]
            /\ UNCHANGED <<work, runner>>
       ELSE /\ pc' = [pc EXCEPT ![t] = "batch"]
            /\ work' = [id \in CallIds |-> IF id[1] = t /\ id[2] \in Runnable(t)
                                           THEN "queued" ELSE work[id]]
            /\ runner' = [runner EXCEPT ![t] = "open"]
            /\ UNCHANGED job
    /\ UNCHANGED <<ledger, cp, resumed, mem, put, upd, agent, faults>>

\* "tool calls do not match checkpoint state": the stream fails.
GateMismatch(t) ==
    /\ LoopFree /\ pc[t] = "gate"
    /\ ~HasOpenCall(t)
    /\ pc' = [pc EXCEPT ![t] = "abort"]
    /\ UNCHANGED <<ledger, cp, resumed, mem, put, upd, agent, work, runner, job, faults>>

-----------------------------------------------------------------------------
(* The batch: run_tool_calls on its thread, one worker per call.            *)

WorkStep(t, c, from, to) ==
    /\ work[<<t, c>>] = from
    /\ work' = [work EXCEPT ![<<t, c>>] = to]
    /\ UNCHANGED <<cp, pc, resumed, mem, put, upd, agent, runner, job, faults>>

\* The pool picks the call up: from here future.cancel() fails.
BeginCall(t, c) ==
    /\ WorkStep(t, c, "queued", "begun")
    /\ UNCHANGED ledger

\* tool_started: durable before the handler runs; it looks at no settlement.
StartCall(t, c) ==
    /\ WorkStep(t, c, "begun", "running") \/ WorkStep(t, c, "left_begun", "left_running")
    /\ ledger' = Append(ledger, ToolStartRow(t, <<t, c>>))

FinishCall(t, c) ==
    /\ WorkStep(t, c, "running", "done") \/ WorkStep(t, c, "left_running", "done")
    /\ ledger' = SettleTool(ledger, t, <<t, c>>, "succeeded")

\* Mutant: a call the runner stops waiting for is queued again.
LeaveCallRetried(t, c) ==
    /\ runner[t] \in {"cancelled", "expired"}
    /\ WorkStep(t, c, "begun", "queued") \/ WorkStep(t, c, "running", "queued")
    /\ ledger' = SettleTool(ledger, t, <<t, c>>, "unknown")

\* _unresolved: the runner has stopped waiting.  A call still queued is
\* withdrawn; one that has begun has an unknown outcome and is left behind.
LeaveCall(t, c) ==
    /\ runner[t] \in {"cancelled", "expired"}
    /\ \/ /\ WorkStep(t, c, "queued", "done")
          /\ ledger' = SettleTool(ledger, t, <<t, c>>,
                                  IF runner[t] = "cancelled" THEN "cancelled" ELSE "skipped")
       \/ /\ WorkStep(t, c, "begun", "left_begun") \/ WorkStep(t, c, "running", "left_running")
          /\ ledger' = SettleTool(ledger, t, <<t, c>>, "unknown")

\* Mutant: the batch is back as soon as one call is answered.
AnsweredOnce(t) == \E c \in Calls : work[<<t, c>>] = "done"

Answered(t) == \A c \in Calls : work[<<t, c>>] \notin {"queued", "begun", "running"}

BatchTimeout(t) ==
    /\ runner[t] = "open" /\ ~Answered(t)
    /\ Budget("expiry", MaxExpiry)
    /\ runner' = [runner EXCEPT ![t] = "expired"]
    /\ UNCHANGED <<ledger, cp, pc, resumed, mem, put, upd, agent, work, job>>

\* The batch is back: finish_node of the tools node begins, on the loop.
BatchReturns(t) ==
    /\ LoopFree /\ pc[t] = "batch"
    /\ Answered(t)
    /\ pc' = [pc EXCEPT ![t] = "settle"]
    /\ runner' = [runner EXCEPT ![t] = "none"]
    /\ job' = [NoJob EXCEPT !.task = t]
    /\ UNCHANGED <<ledger, cp, resumed, mem, put, upd, agent, work, faults>>

Unsettled(t) == {c \in Denied(t) : ~Resulted(ledger, t, <<t, c>>)}

\* finish_node settles the refused calls, which nothing has settled before.
SettleDenied(t) ==
    /\ job.task = t /\ pc[t] = "settle"
    /\ \E c \in Calls :
        /\ IsLeast(c, Unsettled(t))
        /\ ledger' = SettleTool(ledger, t, <<t, c>>, "denied")
    /\ UNCHANGED <<cp, pc, resumed, mem, put, upd, agent, work, runner, job, faults>>

\* Results are found by the call alone, whatever turn their row was written under.
ResultRows(t, c) ==
    {i \in DOMAIN ledger :
        i > mem[t].seen /\ ledger[i].type = "tool_result" /\ ledger[i].call = <<t, c>>}

\* Mutant: the results of refused calls are not looked up.
OutcomeOfRun(t, c) ==
    IF c \notin Batch(t) THEN "none"
    ELSE IF \E i \in ResultRows(t, c) : ledger[i].status = "succeeded"
    THEN "succeeded" ELSE "pending"

\* A call's outcome: its last result among the rows behind the node's input state.
Outcome(t, c) ==
    LET R == ResultRows(t, c)
        Says(s) == \E i \in R : IsLatest(i, R) /\ ledger[i].status = s
    IN  IF c \notin Batch(t) THEN "none"
        ELSE IF \E s \in FinalResult : Says(s)
        THEN CHOOSE s \in FinalResult : Says(s)
        ELSE "pending"

\* The rest of finish_node: an unknown outcome fails the turn, else the agent
\* node is next.
FinishTools(t) ==
    /\ job.task = t /\ pc[t] = "settle"
    /\ Unsettled(t) = {}
    /\ LET lost == \E c \in Batch(t) : Outcome(t, c) = "unknown"
       IN  /\ ledger' = IF lost
                        THEN TurnTerminal(ledger, t, "failed", "execution_outcome_unknown")
                        ELSE ledger
           /\ mem' = [mem EXCEPT ![t] =
                        [@ EXCEPT !.status = IF lost THEN "failed" ELSE "running",
                                  !.calls  = [c \in Calls |-> Outcome(t, c)],
                                  !.seen   = Len(ledger'),
                                  !.pend   = NoPending,
                                  !.intr   = NoPending]]
           /\ pc' = [pc EXCEPT ![t] = IF lost THEN "end" ELSE "agent"]
           /\ agent' = [agent EXCEPT ![t] = IF lost THEN "none" ELSE "invoke"]
    /\ put' = put \cup {t}
    /\ job' = NoJob
    /\ UNCHANGED <<cp, resumed, upd, work, runner, faults>>

\* The stream ends once the last checkpoint is written.
EndRun(t) ==
    /\ LoopFree /\ pc[t] = "end"
    /\ t \notin put
    /\ pc' = [pc EXCEPT ![t] = "idle"]
    /\ UNCHANGED <<ledger, cp, resumed, mem, put, upd, agent, work, runner, job, faults>>

-----------------------------------------------------------------------------
(* Answering an interaction: _handle_interrupts and resume_chat_events.     *)

\* The user's answer, or "deny" when the wait of 300 s times out.
BeginResume(t, d) ==
    /\ pc[t] = "wait"
    /\ StartRecovery(t, cp, FALSE, d)
    /\ UNCHANGED <<ledger, cp, pc, resumed, mem, put, upd, agent, work, runner, faults>>

Resumable(t) == ~Ended(job.view.status) /\ job.view.turn = t /\ job.view.pend # NoPending

\* A decision already durable is reused, whether its row is behind the cursor or
\* the checkpoint's pending interaction holds it; a new one is durable before
\* the resume.
CommitDecision(t) ==
    /\ Recovered(t) /\ pc[t] = "wait"
    /\ Resumable(t)
    /\ LET id == <<t, job.view.pend>>
       IN  ledger' = IF Decided(ledger, t, id) THEN ledger
                     ELSE Append(ledger, DecisionRow(t, id, job.decision))
    /\ mem' = [mem EXCEPT ![t] = [job.view EXCEPT !.seen = Len(ledger'), !.intr = NoPending]]
    /\ pc' = [pc EXCEPT ![t] = "resuming"]
    /\ job' = NoJob
    /\ UNCHANGED <<cp, resumed, put, upd, agent, work, runner, faults>>

\* resume_chat_events raises; the coroutine marks the turn failed.
RejectResume(t) ==
    /\ Recovered(t) /\ pc[t] = "wait"
    /\ ~Resumable(t)
    /\ pc' = [pc EXCEPT ![t] = "error"]
    /\ job' = NoJob
    /\ UNCHANGED <<ledger, cp, resumed, mem, put, upd, agent, work, runner, faults>>

\* Command(resume=...): the tools node runs again from its start.
ResumeGraph(t) ==
    /\ LoopFree /\ pc[t] = "resuming"
    /\ pc' = [pc EXCEPT ![t] = "gate"]
    /\ resumed' = resumed \cup {t}
    /\ UNCHANGED <<ledger, cp, mem, put, upd, agent, work, runner, job, faults>>

\* _attach_waiting_turn, by state.sync or session.subscribe, when no coroutine
\* runs the turn of the checkpoint.
BeginAttach(t) ==
    /\ cp.turn = t /\ pc[t] = "idle"
    /\ ~Ended(cp.status)
    /\ StartRecovery(t, cp, FALSE, "none")
    /\ UNCHANGED <<ledger, cp, pc, resumed, mem, put, upd, agent, work, runner, faults>>

Attach(t) ==
    /\ Recovered(t) /\ pc[t] = "idle"
    /\ LET waiting == ~Ended(job.view.status) /\ job.view.pend # NoPending
                      /\ cp.intr = job.view.pend
       IN  /\ pc' = [pc EXCEPT ![t] = IF waiting THEN "wait" ELSE "idle"]
           /\ resumed' = IF waiting THEN resumed \cup {t} ELSE resumed
    /\ job' = NoJob
    /\ UNCHANGED <<ledger, cp, mem, put, upd, agent, work, runner, faults>>

-----------------------------------------------------------------------------
(* Cancellation, time-out and the finalization of the checkpoint.           *)

\* Mutant: the checkpoint write under way is dropped with the graph.
LeaveGraphUnflushed(t, phase) ==
    /\ put' = put \ {t}
    /\ runner' = [runner EXCEPT ![t] = IF @ = "open" THEN "cancelled" ELSE @]
    /\ pc' = [pc EXCEPT ![t] = phase]
    /\ UNCHANGED <<ledger, cp, resumed, mem, upd, agent, work, job>>

\* Leaving the graph waits for its checkpoint write and leaves its threads.
LeaveGraph(t, phase) ==
    /\ cp' = IF t \in put THEN mem[t] ELSE cp
    /\ put' = put \ {t}
    /\ runner' = [runner EXCEPT ![t] = IF @ = "open" THEN "cancelled" ELSE @]
    /\ pc' = [pc EXCEPT ![t] = phase]
    /\ UNCHANGED <<ledger, resumed, mem, upd, agent, work, job>>

\* cancel_run: CancelledError reaches the coroutine where it awaits.
Cancel(t) ==
    /\ LoopFree
    /\ Budget("cancel", MaxCancel)
    /\ \/ pc[t] \in GraphPC \cup {"end"} /\ LeaveGraph(t, "persist")
       \/ pc[t] \in {"queued", "accepted", "wait", "resuming"} /\ LeaveGraph(t, "repair")

\* asyncio.timeout around the graph.
GraphTimeout(t) ==
    /\ LoopFree
    /\ Budget("deadline", MaxDeadline)
    /\ pc[t] \in GraphPC
    /\ LeaveGraph(t, "abort")

NextPhase(p) == CASE p = "persist" -> "repair"
                  [] p = "repair"  -> "mark"
                  [] p = "mark"    -> "repair2"
                  [] p = "repair2" -> "mark2"
                  [] p \in {"mark2", "abort", "error"} -> "idle"

\* mark_terminal_checkpoint ignores the checkpoint of another turn; the others
\* take whatever turn the checkpoint has.
Concerns(t) == IF pc[t] \in {"mark", "mark2", "error"} THEN cp.turn = t ELSE cp.turn # NoTurn

SkipPhase(t) ==
    /\ LoopFree /\ pc[t] \in PhasePC
    /\ upd[t] = NoUpdate
    /\ ~Concerns(t)
    /\ pc' = [pc EXCEPT ![t] = NextPhase(pc[t])]
    /\ UNCHANGED <<ledger, cp, resumed, mem, put, upd, agent, work, runner, job, faults>>

BeginPhase(t) ==
    /\ pc[t] \in PhasePC
    /\ upd[t] = NoUpdate
    /\ Concerns(t)
    /\ StartRecovery(t, cp, FALSE, "none")
    /\ UNCHANGED <<ledger, cp, pc, resumed, mem, put, upd, agent, work, runner, faults>>

\* Mutant: the repair does not look for results.
UnrepairedAll == LastDefined(ledger)

\* repair_cancelled_checkpoint: the calls of the window's last tool message
\* that have no result row under the checkpoint's turn.
Unrepaired == {id \in LastDefined(ledger) : ~Resulted(ledger, job.view.turn, id)}

RepairCall(t) ==
    /\ Recovered(t) /\ pc[t] \in {"repair", "repair2"}
    /\ \E id \in Unrepaired :
        /\ \A other \in Unrepaired : id[2] <= other[2]
        /\ ledger' = SettleTool(ledger, job.view.turn, id, "cancelled")
    /\ job' = [job EXCEPT !.view.seen = Len(ledger')]
    /\ UNCHANGED <<cp, pc, resumed, mem, put, upd, agent, work, runner, faults>>

RepairDone(t) ==
    /\ Recovered(t) /\ pc[t] \in {"repair", "repair2"}
    /\ Unrepaired = {}
    /\ upd' = [upd EXCEPT ![t] = job.view]
    /\ job' = NoJob
    /\ UNCHANGED <<ledger, cp, pc, resumed, mem, put, agent, work, runner, faults>>

\* Mutant: a finalization settles the turn with the status it has found.
WantedAsFound(t) == job.view.status

\* The status a finalization asks for; _persist_terminal yields only to an
\* unknown tool outcome, mark_terminal_checkpoint to any terminal state.
Wanted(t) ==
    IF pc[t] \in {"persist", "abort"}
    THEN IF job.reason = "execution_outcome_unknown" \/ pc[t] = "abort"
         THEN "failed" ELSE "cancelled"
    ELSE IF Ended(job.view.status) THEN job.view.status
    ELSE IF pc[t] = "error" THEN "failed" ELSE "cancelled"

\* _persist_terminal and mark_terminal_checkpoint, up to their aupdate_state.
Finalize(t) ==
    /\ Recovered(t) /\ pc[t] \in {"persist", "abort", "mark", "mark2", "error"}
    /\ LET u       == job.view.turn
           settled == pc[t] \in {"mark", "mark2", "error"} /\ Ended(job.view.status)
       IN  /\ ledger' = IF settled THEN ledger ELSE TurnTerminal(ledger, u, Wanted(t), "")
           /\ upd' = [upd EXCEPT ![t] =
                        [job.view EXCEPT !.status = Wanted(t), !.pend = NoPending,
                                         !.seen = IF settled THEN @
                                                  ELSE TerminalSeq(ledger', u)]]
    /\ job' = NoJob
    /\ UNCHANGED <<cp, pc, resumed, mem, put, agent, work, runner, faults>>

\* Mutants: a plain overwrite; a merge that keeps whatever is there.
MergeOverwrite(current, patch) == patch
MergeKeep(current, patch) == current

\* _merge_terminal: a terminal status in the checkpoint is kept.
MergeTerminal(current, patch) ==
    IF Ended(current) /\ patch # "created" THEN current ELSE patch

\* aupdate_state: a new checkpoint on top of the latest one; it drops a native
\* interrupt.
UpdateState(t) ==
    /\ LoopFree /\ pc[t] \in PhasePC /\ upd[t] # NoUpdate
    /\ cp' = [upd[t] EXCEPT !.status = MergeTerminal(cp.status, @), !.intr = NoPending]
    /\ upd' = [upd EXCEPT ![t] = NoUpdate]
    /\ pc' = [pc EXCEPT ![t] = NextPhase(@)]
    /\ UNCHANGED <<ledger, resumed, mem, put, agent, work, runner, job, faults>>

\* The process dies and starts again: only the ledger and the checkpoint stay.
Crash ==
    /\ Budget("crash", MaxCrash)
    /\ pc' = [t \in Turns |-> "idle"]
    /\ resumed' = {}
    /\ mem' = [t \in Turns |-> EmptySnapshot]
    /\ put' = {}
    /\ upd' = [t \in Turns |-> NoUpdate]
    /\ agent' = [t \in Turns |-> "none"]
    /\ work' = [id \in CallIds |-> "none"]
    /\ runner' = [t \in Turns |-> "none"]
    /\ job' = NoJob
    /\ UNCHANGED <<ledger, cp>>

-----------------------------------------------------------------------------
Coroutine(t) ==
    \/ BeginSend(t) \/ RefuseSend(t) \/ AcceptTurn(t) \/ StartGraph(t)
    \/ AgentReturns(t) \/ AskInteraction(t) \/ WriteInterrupt(t)
    \/ StartBatch(t) \/ GateMismatch(t) \/ BatchReturns(t)
    \/ SettleDenied(t) \/ FinishTools(t) \/ EndRun(t)
    \/ CommitDecision(t) \/ RejectResume(t) \/ ResumeGraph(t) \/ Attach(t)
    \/ SkipPhase(t) \/ BeginPhase(t) \/ RepairCall(t) \/ RepairDone(t)
    \/ Finalize(t) \/ UpdateState(t)

ToolThreads(t) ==
    \E c \in Calls : BeginCall(t, c) \/ StartCall(t, c) \/ FinishCall(t, c) \/ LeaveCall(t, c)

User(t) ==
    \/ Submit(t) \/ Cancel(t) \/ BeginAttach(t)
    \/ \E d \in Decision : BeginResume(t, d)

TimesOut(t) == GraphTimeout(t) \/ BatchTimeout(t)

Next ==
    \/ Recover
    \/ \E t \in Turns : \/ Coroutine(t) \/ FlushCheckpoint(t)
                        \/ AgentThread(t) \/ ToolThreads(t)
                        \/ User(t) \/ TimesOut(t)
    \/ Crash

Spec == Init /\ [][Next]_vars
=============================================================================
