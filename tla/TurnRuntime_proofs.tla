------------------------- MODULE TurnRuntime_proofs -------------------------
(***************************************************************************)
(* Type correctness and the approval gate, for every number of turns,      *)
(* calls and requests, every set of gated calls and every bound on faults. *)
(*                                                                         *)
(* The types are not inductive alone: recovery writes rows under the turn  *)
(* of the checkpoint it has read, which is a turn only because a           *)
(* checkpoint without one is the empty one (ScopeOK) and because recovery  *)
(* of that one finds nothing to write (JobOK).                             *)
(*                                                                         *)
(* GateHolds is not inductive: it says nothing of a worker that has been   *)
(* queued and has not started.  GateInv adds that a worker of a gated call *)
(* exists only once the consent is in the ledger, where it stays.          *)
(***************************************************************************)
EXTENDS TurnProperties, TurnLedger_proofs

\* The control states in which mem holds the state of the turn's graph.
InGraph == {"accepted", "settle", "end", "resuming"} \cup GraphPC

\* Whose state a snapshot is.
ScopeOK ==
    /\ cp.turn = NoTurn => cp = EmptySnapshot
    /\ \A t \in Turns : pc[t] = "wait" => cp.turn # NoTurn
    /\ \A t \in Turns : pc[t] \in InGraph \/ t \in put => mem[t].turn = t
    /\ \A t \in Turns : upd[t] = NoUpdate \/ upd[t].turn # NoTurn

\* What a recovery under way has read.
JobOK ==
    Recovering =>
        /\ pc[job.task] = "wait" => job.decision \in Decision
        /\ job.view.turn = NoTurn =>
               /\ pc[job.task] = "queued"
               /\ job.lost = {} /\ job.cause = "none" /\ job.view.status = "none"
               /\ \A c \in Calls : job.view.calls[c] = "none"

TypeInv == TypeOK /\ ScopeOK /\ JobOK

-----------------------------------------------------------------------------
LEMMA NoJobType == NoJob \in Jobs /\ NoJob.task = NoTask /\ NoTask \notin Turns
  BY EmptySnapshotType DEF NoJob, Jobs, Reason, Turns, NoTask

LEMMA InitTypeInv == Init => TypeInv
<1> SUFFICES ASSUME Init PROVE TypeInv
  OBVIOUS
<1>1. ledger \in Seq(Rows)
  BY DEF Init
<1>2. TypeOK
  BY <1>1, NoJobType, EmptySnapshotType
  DEF Init, TypeOK, PCs, AgentPC, WorkPC, RunnerPC, NoUpdate
<1>3. ScopeOK
  BY DEF Init, ScopeOK, InGraph, GraphPC
<1>4. JobOK
  BY NoJobType DEF Init, JobOK, Recovering, LoopFree
<1>. QED
  BY <1>2, <1>3, <1>4 DEF TypeInv

LEMMA StutterTypeInv == TypeInv /\ UNCHANGED vars => TypeInv'
<1> SUFFICES ASSUME TypeInv, UNCHANGED vars PROVE TypeInv'
  OBVIOUS
<1>1. TypeOK'
  BY DEF TypeInv, TypeOK, vars
<1>2. ScopeOK'
  BY DEF TypeInv, ScopeOK, vars
<1>3. JobOK'
  BY DEF TypeInv, JobOK, Recovering, LoopFree, vars
<1>. QED
  BY <1>1, <1>2, <1>3 DEF TypeInv

-----------------------------------------------------------------------------
(* Recovery.                                                               *)

\* A recovery that starts on a snapshot with a turn, or on the empty one.
LEMMA StartRecoveryType ==
    ASSUME TypeOK, NEW t \in Turns, NEW snap \in Snapshots, NEW stop \in BOOLEAN,
           NEW d \in Decision \cup {"none"}, StartRecovery(t, snap, stop, d)
    PROVE  /\ job' \in Jobs
           /\ job'.task = t
           /\ job'.view.turn = snap.turn
           /\ d \in Decision => job'.decision \in Decision
           /\ snap = EmptySnapshot =>
                 /\ job'.lost = {} /\ job'.cause = "none" /\ job'.view.status = "none"
                 /\ \A c \in Calls : job'.view.calls[c] = "none"
<1>1. ledger \in Seq(Rows)
  BY DEF TypeOK
<1>2. Replayed(ledger, snap) \in Snapshots /\ Replayed(ledger, snap).turn = snap.turn
  BY <1>1, ReplayedType
<1>3. UnresolvedRequests(ledger, snap) \in SUBSET Requests
  BY DEF UnresolvedRequests
<1>4. ReplayedReason(ledger, snap) \in Reason
  BY ReplayedReasonType
<1>6. job' = [task |-> t, view |-> Replayed(ledger, snap), stop |-> stop,
              lost |-> UnresolvedRequests(ledger, snap), cause |-> "none",
              reason |-> ReplayedReason(ledger, snap),
              decision |-> d]
  BY DEF StartRecovery
<1>7. job' \in Jobs
  BY <1>2, <1>3, <1>4, <1>6 DEF Jobs
<1>8. d \in Decision => job'.decision \in Decision
  BY <1>6
<1>9. snap = EmptySnapshot =>
          /\ job'.lost = {} /\ job'.cause = "none" /\ job'.view.status = "none"
          /\ \A c \in Calls : job'.view.calls[c] = "none"
  BY <1>1, <1>6, ReplayOfNothing
<1>. QED
  BY <1>2, <1>6, <1>7, <1>8, <1>9

\* A caller that starts a recovery changes nothing else.
LEMMA BeginTypeInv ==
    ASSUME TypeInv, NEW t \in Turns, NEW snap \in Snapshots, NEW stop \in BOOLEAN,
           NEW d \in Decision \cup {"none"}, StartRecovery(t, snap, stop, d),
           UNCHANGED <<ledger, cp, pc, resumed, mem, put, upd, agent, work, runner, faults>>,
           snap.turn # NoTurn \/ (snap = EmptySnapshot /\ pc[t] = "queued"),
           pc[t] = "wait" => d \in Decision
    PROVE  TypeInv'
<1>1. TypeOK
  BY DEF TypeInv
<1>2. /\ job' \in Jobs /\ job'.task = t /\ job'.view.turn = snap.turn
      /\ d \in Decision => job'.decision \in Decision
      /\ snap = EmptySnapshot =>
            /\ job'.lost = {} /\ job'.cause = "none" /\ job'.view.status = "none"
            /\ \A c \in Calls : job'.view.calls[c] = "none"
  BY <1>1, StartRecoveryType
<1>3. TypeOK'
  BY <1>1, <1>2 DEF TypeOK
<1>4. ScopeOK'
  BY DEF TypeInv, ScopeOK
<1>5. JobOK'
  BY <1>2 DEF JobOK
<1>. QED
  BY <1>3, <1>4, <1>5 DEF TypeInv

\* The view of a recovery after a row: same turn, a later cursor.
LEMMA ViewStep ==
    ASSUME NEW v \in Snapshots, NEW n \in Nat, NEW c \in Calls, NEW x \in CallStatus,
           NEW st \in TurnStatus, NEW p \in Calls \cup {NoPending}
    PROVE  /\ [v EXCEPT !.seen = n] \in Snapshots
           /\ [v EXCEPT !.seen = n].turn = v.turn
           /\ [v EXCEPT !.calls[c] = x, !.seen = n] \in Snapshots
           /\ [v EXCEPT !.calls[c] = x, !.seen = n].turn = v.turn
           /\ [v EXCEPT !.status = st, !.pend = p, !.seen = n] \in Snapshots
           /\ [v EXCEPT !.status = st, !.pend = p, !.seen = n].turn = v.turn
  BY DEF Snapshots

\* What a node of the graph leaves: a state of the same turn.
LEMMA NodeState ==
    ASSUME NEW v \in Snapshots, NEW st \in TurnStatus, NEW cs \in [Calls -> CallStatus],
           NEW n \in Nat, NEW p \in Calls \cup {NoPending}, NEW q \in Calls \cup {NoPending}
    PROVE  /\ [v EXCEPT !.status = st, !.calls = cs, !.seen = n, !.pend = p, !.intr = q]
                  \in Snapshots
           /\ [v EXCEPT !.status = st, !.calls = cs, !.seen = n, !.pend = p, !.intr = q].turn
                  = v.turn
  BY DEF Snapshots

LEMMA RecoverTypeInv == ASSUME TypeInv, Recover PROVE TypeInv'
<1> DEFINE t == job.view.turn
<1>0. /\ TypeOK /\ ScopeOK /\ JobOK
      /\ ledger \in Seq(Rows) /\ job \in Jobs /\ job.view \in Snapshots
      /\ UNCHANGED <<cp, pc, resumed, mem, put, upd, agent, work, runner, faults>>
  BY DEF TypeInv, TypeOK, Jobs, Recover
<1>1. ScopeOK'
  BY <1>0 DEF ScopeOK
<1>2. ASSUME ledger' \in Seq(Rows), job' \in Jobs, job'.task = job.task,
             job'.view.turn = t, t # NoTurn, job'.decision = job.decision, Recovering
      PROVE  TypeInv'
  <2>1. TypeOK'
    BY <1>0, <1>2 DEF TypeOK
  <2>2. JobOK'
    BY <1>0, <1>2 DEF JobOK, Recovering, LoopFree
  <2>. QED
    BY <1>1, <2>1, <2>2 DEF TypeInv
<1>3. ASSUME Live, t = NoTurn
      PROVE  Uncertain = {} /\ NotStarted = {} /\ job.lost = {} /\ job.cause = "none"
             /\ ~Stoppable
  <2>1. JobOK /\ Recovering
    BY <1>0, <1>3 DEF Live
  <2>. QED
    BY <1>3, <2>1 DEF JobOK, Uncertain, NotStarted, Stoppable
<1>4. t \in Turns \cup {NoTurn}
  BY <1>0 DEF Snapshots
<1>5. ASSUME NEW c \in Calls, NEW s \in FinalResult, Live, t # NoTurn,
             ledger' = SettleTool(ledger, t, <<t, c>>, s)
      PROVE  /\ ledger' \in Seq(Rows)
             /\ ViewWithResult(c, ledger') \in Snapshots
             /\ ViewWithResult(c, ledger').turn = t
  <2>1. t \in Turns /\ <<t, c>> \in CallIds
    BY <1>4, <1>5 DEF CallIds
  <2>2. ledger' \in Seq(Rows) /\ Resulted(ledger', t, <<t, c>>)
    BY <1>0, <1>5, <2>1, SettleToolAppends
  <2>3. ResultOf(ledger', t, <<t, c>>) \in CallStatus
    BY <2>2, ResultOfType DEF CallStatus
  <2>4. Len(ledger') \in Nat
    BY <2>2
  <2>. QED
    BY <1>0, <2>2, <2>3, <2>4 DEF ViewWithResult, Snapshots
<1>6. CASE SettleUncertain
  <2>1. PICK c \in Calls :
            /\ IsLeast(c, Uncertain)
            /\ ledger' = SettleTool(ledger, t, <<t, c>>, "unknown")
            /\ job' = [job EXCEPT !.view = ViewWithResult(c, ledger'),
                                  !.cause = IF ResultOf(ledger', t, <<t, c>>) = "unknown"
                                            THEN "tool" ELSE @]
    BY <1>6 DEF SettleUncertain
  <2>2. Live /\ t # NoTurn /\ Recovering
    BY <1>3, <1>6, <2>1 DEF SettleUncertain, IsLeast, Live
  <2>3. /\ ledger' \in Seq(Rows) /\ ViewWithResult(c, ledger') \in Snapshots
        /\ ViewWithResult(c, ledger').turn = t
    BY <1>5, <2>1, <2>2 DEF FinalResult
  <2>4. /\ job' \in Jobs /\ job'.task = job.task /\ job'.view.turn = t
        /\ job'.decision = job.decision
    BY <1>0, <2>1, <2>3 DEF Jobs
  <2>. QED
    BY <1>2, <2>2, <2>3, <2>4
<1>7. CASE SettleLostRequest
  <2>1. PICK r \in Requests :
            /\ IsLeast(r, job.lost)
            /\ ledger' = ModelFailed(ledger, t, r)
            /\ job' = [job EXCEPT !.lost = @ \ {r}, !.cause = "model"]
    BY <1>7 DEF SettleLostRequest
  <2>2. Live /\ t # NoTurn /\ Recovering
    BY <1>3, <1>7, <2>1 DEF SettleLostRequest, IsLeast, Live
  <2>3. t \in Turns /\ r \in Nat
    BY <1>4, <2>2 DEF Requests
  <2>4. ledger' \in Seq(Rows)
    BY <1>0, <2>1, <2>3, ModelFailedAppends, Grown
  <2>5. /\ job' \in Jobs /\ job'.task = job.task /\ job'.view.turn = t
        /\ job'.decision = job.decision
    BY <1>0, <2>1 DEF Jobs
  <2>. QED
    BY <1>2, <2>2, <2>4, <2>5
<1>8. CASE SettleSkipped
  <2>1. PICK c \in Calls :
            /\ IsLeast(c, NotStarted)
            /\ ledger' = SettleTool(ledger, t, <<t, c>>, "skipped")
            /\ job' = [job EXCEPT !.view = ViewWithResult(c, ledger')]
    BY <1>8 DEF SettleSkipped
  <2>2. Live /\ t # NoTurn /\ Recovering
    BY <1>3, <1>8, <2>1 DEF SettleSkipped, IsLeast, Live
  <2>3. /\ ledger' \in Seq(Rows) /\ ViewWithResult(c, ledger') \in Snapshots
        /\ ViewWithResult(c, ledger').turn = t
    BY <1>5, <2>1, <2>2 DEF FinalResult
  <2>4. /\ job' \in Jobs /\ job'.task = job.task /\ job'.view.turn = t
        /\ job'.decision = job.decision
    BY <1>0, <2>1, <2>3 DEF Jobs
  <2>. QED
    BY <1>2, <2>2, <2>3, <2>4
<1>9. CASE FailRecovered
  <2>1. /\ ledger' = TurnTerminal(ledger, t, "failed", FailReason)
        /\ job' = [job EXCEPT !.view.status = "failed", !.view.pend = NoPending,
                              !.view.seen = TerminalSeq(ledger', t),
                              !.reason = FailReason]
    BY <1>9 DEF FailRecovered
  <2>2. Live /\ t # NoTurn /\ Recovering
    BY <1>3, <1>9 DEF FailRecovered, Live
  <2>3. FailReason \in Reason
    BY DEF FailReason, Reason
  <2>4. t \in Turns
    BY <1>4, <2>2
  <2>5. ledger' \in Seq(Rows) /\ TerminalSeq(ledger', t) \in Nat
    BY <1>0, <2>1, <2>3, <2>4, TurnTerminalAppends DEF Terminal
  <2>6. /\ job' \in Jobs /\ job'.task = job.task /\ job'.view.turn = t
        /\ job'.decision = job.decision
    BY <1>0, <2>1, <2>3, <2>5 DEF Jobs, Snapshots, TurnStatus, Terminal
  <2>. QED
    BY <1>2, <2>2, <2>5, <2>6
<1>. QED
  BY <1>6, <1>7, <1>8, <1>9 DEF Recover

-----------------------------------------------------------------------------
(* The threads, which touch the ledger and their own control only.          *)

LEMMA ThreadStep ==
    ASSUME TypeInv, ledger' \in Seq(Rows), agent' \in [Turns -> AgentPC],
           work' \in [CallIds -> WorkPC], runner' \in [Turns -> RunnerPC],
           faults' \in [Fault -> Nat], UNCHANGED <<cp, pc, resumed, mem, put, upd, job>>
    PROVE  TypeInv'
<1>1. TypeOK'
  BY DEF TypeInv, TypeOK
<1>2. ScopeOK'
  BY DEF TypeInv, ScopeOK
<1>3. JobOK'
  BY DEF TypeInv, JobOK, Recovering, LoopFree
<1>. QED
  BY <1>1, <1>2, <1>3 DEF TypeInv

LEMMA AgentTypeInv == ASSUME TypeInv, NEW t \in Turns, AgentThread(t) PROVE TypeInv'
<1>0. TypeOK /\ ledger \in Seq(Rows) /\ Started(ledger, t) \in Nat
  BY StartedType DEF TypeInv, TypeOK
<1>1. ASSUME NEW from, NEW to \in AgentPC, AgentStep(t, from, to), ledger' \in Seq(Rows)
      PROVE  TypeInv'
  <2>1. agent' \in [Turns -> AgentPC]
    BY <1>0, <1>1 DEF TypeOK, AgentStep
  <2>. QED
    BY <1>0, <1>1, <2>1, ThreadStep DEF AgentStep, TypeOK
<1>2. ASSUME NEW row \in Rows PROVE Append(ledger, row) \in Seq(Rows)
  BY <1>0
<1>3. CASE StartRequest(t)
  <2>1. ModelStartRow(t, Started(ledger, t) + 1) \in Rows
    BY <1>0, RowsAreRows
  <2>2. ledger' \in Seq(Rows)
    BY <1>2, <1>3, <2>1 DEF StartRequest
  <2>. QED
    BY <1>1, <1>3, <2>2 DEF StartRequest, AgentPC
<1>4. CASE RequestFails(t)
  <2>1. ledger' \in Seq(Rows)
    BY <1>0, <1>2, <1>4, ModelFailedAppends DEF RequestFails
  <2>. QED
    BY <1>1, <1>4, <2>1 DEF RequestFails, AgentPC
<1>5. ASSUME NEW r \in Nat, NEW S \in SUBSET Calls PROVE ResponseRow(t, r, S) \in Rows
  BY RowsAreRows
<1>6. CASE GiveUp(t)
  <2>1. ledger' \in Seq(Rows)
    BY <1>2, <1>5, <1>6 DEF GiveUp, NoReq
  <2>. QED
    BY <1>1, <1>6, <2>1 DEF GiveUp, AgentPC
<1>7. CASE EndByAgent(t)
  <2>1. "completed" \in Terminal /\ "failed" \in Terminal /\ "" \in Reason
    BY DEF Terminal, Reason
  <2>2. ledger' \in Seq(Rows)
    BY <1>0, <1>7, <2>1, TurnTerminalAppends DEF EndByAgent
  <2>. QED
    BY <1>1, <1>7, <2>2 DEF EndByAgent, AgentPC
<1>8. ASSUME NEW S \in SUBSET Uses[t], Respond(t, S) PROVE TypeInv'
  <2>1. S \subseteq Calls
    BY BoundsAssumption
  <2>2. ledger' \in Seq(Rows)
    BY <1>0, <1>2, <1>5, <1>8, <2>1 DEF Respond
  <2>. QED
    BY <1>1, <1>8, <2>2 DEF Respond, AgentPC
<1>. QED
  BY <1>3, <1>4, <1>6, <1>7, <1>8 DEF AgentThread

LEMMA ToolsTypeInv == ASSUME TypeInv, NEW t \in Turns, ToolThreads(t) PROVE TypeInv'
<1>0. TypeOK /\ ledger \in Seq(Rows)
  BY DEF TypeInv, TypeOK
<1>1. PICK c \in Calls : BeginCall(t, c) \/ StartCall(t, c) \/ FinishCall(t, c) \/ LeaveCall(t, c)
  BY DEF ToolThreads
<1>2. <<t, c>> \in CallIds
  BY DEF CallIds
<1>3. ASSUME NEW from, NEW to \in WorkPC, WorkStep(t, c, from, to), ledger' \in Seq(Rows)
      PROVE  TypeInv'
  <2>1. work' \in [CallIds -> WorkPC]
    BY <1>0, <1>2, <1>3 DEF TypeOK, WorkStep
  <2>. QED
    BY <1>0, <1>3, <2>1, ThreadStep DEF WorkStep, TypeOK
<1>4. CASE BeginCall(t, c)
  BY <1>0, <1>3, <1>4 DEF BeginCall, WorkPC
<1>5. CASE StartCall(t, c)
  <2>1. ToolStartRow(t, <<t, c>>) \in Rows
    BY <1>2, RowsAreRows
  <2>2. ledger' \in Seq(Rows)
    BY <1>0, <1>5, <2>1 DEF StartCall
  <2>. QED
    BY <1>3, <1>5, <2>2 DEF StartCall, WorkPC
<1>6. \A s \in FinalResult : SettleTool(ledger, t, <<t, c>>, s) \in Seq(Rows)
  BY <1>0, <1>2, SettleToolAppends
<1>7. CASE FinishCall(t, c)
  BY <1>3, <1>6, <1>7 DEF FinishCall, WorkPC, FinalResult
<1>8. CASE LeaveCall(t, c)
  BY <1>3, <1>6, <1>8 DEF LeaveCall, WorkPC, FinalResult
<1>. QED
  BY <1>1, <1>4, <1>5, <1>7, <1>8

LEMMA TimesOutTypeInv == ASSUME TypeInv, NEW t \in Turns, BatchTimeout(t) PROVE TypeInv'
<1>1. TypeOK
  BY DEF TypeInv
<1>2. runner' \in [Turns -> RunnerPC] /\ faults' \in [Fault -> Nat]
  BY <1>1 DEF BatchTimeout, Budget, TypeOK, RunnerPC, Fault
<1>. QED
  BY <1>1, <1>2, ThreadStep DEF BatchTimeout, TypeOK

-----------------------------------------------------------------------------
(* The coroutine, on the event loop.                                       *)

\* A step after which no recovery is under way.
LEMMA LoopStep ==
    ASSUME TypeOK', ScopeOK', job'.task = NoTask \/ pc'[job'.task] = "settle"
    PROVE  TypeInv'
<1>1. JobOK'
  BY DEF JobOK, Recovering, LoopFree
<1>. QED
  BY <1>1 DEF TypeInv

\* A step that only moves a coroutine on; it may record something, open or
\* close a batch, and let go of the event loop.
LEMMA MoveStep ==
    ASSUME TypeInv, NEW t \in Turns, NEW p \in PCs, pc' = [pc EXCEPT ![t] = p],
           p \in InGraph => mem[t].turn = t, p = "wait" => cp.turn # NoTurn,
           resumed' \in SUBSET Turns, ledger' \in Seq(Rows),
           work' \in [CallIds -> WorkPC], runner' \in [Turns -> RunnerPC],
           \/ job' = NoJob
           \/ job' = job /\ LoopFree
           \/ job' = [NoJob EXCEPT !.task = t] /\ p = "settle",
           UNCHANGED <<cp, mem, put, upd, agent, faults>>
    PROVE  TypeInv'
<1>1. TypeOK /\ ScopeOK
  BY DEF TypeInv
<1>2. job' \in Jobs /\ (job'.task = NoTask \/ (job'.task = t /\ p = "settle"))
  <2>1. CASE job' = NoJob
    BY <2>1, NoJobType
  <2>2. CASE job' = job /\ LoopFree
    BY <1>1, <2>2 DEF TypeOK, LoopFree
  <2>3. CASE job' = [NoJob EXCEPT !.task = t] /\ p = "settle"
    BY <2>3, NoJobType DEF Jobs
  <2>. QED
    BY <2>1, <2>2, <2>3
<1>3. TypeOK'
  BY <1>1, <1>2 DEF TypeOK
<1>4. ScopeOK'
  BY <1>1 DEF ScopeOK, TypeOK
<1>5. job'.task = NoTask \/ pc'[job'.task] = "settle"
  BY <1>1, <1>2 DEF TypeOK
<1>. QED
  BY <1>3, <1>4, <1>5, LoopStep

\* The same, when nothing else changes.
LEMMA GoStep ==
    ASSUME TypeInv, NEW t \in Turns, NEW p \in PCs, pc' = [pc EXCEPT ![t] = p],
           p \in InGraph => mem[t].turn = t, p = "wait" => cp.turn # NoTurn,
           resumed' \in SUBSET Turns, job' = NoJob \/ (job' = job /\ LoopFree),
           UNCHANGED <<ledger, cp, mem, put, upd, agent, work, runner, faults>>
    PROVE  TypeInv'
<1>1. /\ ledger' \in Seq(Rows) /\ work' \in [CallIds -> WorkPC]
      /\ runner' \in [Turns -> RunnerPC]
  BY DEF TypeInv, TypeOK
<1>. QED
  BY <1>1, MoveStep

\* A step that gives a turn's graph a new state.
LEMMA MemStep ==
    ASSUME TypeInv, NEW t \in Turns, NEW p \in PCs, NEW m \in Snapshots, m.turn = t,
           p # "wait", pc' = [pc EXCEPT ![t] = p], mem' = [mem EXCEPT ![t] = m],
           put' = put \/ put' = put \cup {t}, ledger' \in Seq(Rows),
           agent' \in [Turns -> AgentPC], job' = NoJob,
           UNCHANGED <<cp, resumed, upd, work, runner, faults>>
    PROVE  TypeInv'
<1>1. TypeOK /\ ScopeOK
  BY DEF TypeInv
<1>2. TypeOK'
  BY <1>1, NoJobType DEF TypeOK
<1>3. ScopeOK'
  BY <1>1 DEF ScopeOK, TypeOK
<1>. QED
  BY <1>2, <1>3, NoJobType, LoopStep

LEMMA JobDoneType == ASSUME NEW t \in Turns
                     PROVE  [NoJob EXCEPT !.task = t] \in Jobs /\ [NoJob EXCEPT !.task = t].task = t
  BY NoJobType DEF Jobs

LEMMA SendTypeInv ==
    ASSUME TypeInv, NEW t \in Turns,
           Submit(t) \/ BeginSend(t) \/ RefuseSend(t) \/ AcceptTurn(t) \/ StartGraph(t)
    PROVE  TypeInv'
<1>0. /\ TypeOK /\ ScopeOK /\ ledger \in Seq(Rows) /\ pc \in [Turns -> PCs]
      /\ NoTask = NoJob.task /\ NoJob \in Jobs
  BY NoJobType DEF TypeInv, TypeOK
<1>1. CASE Submit(t)
  <2>1. "queued" \in PCs /\ "queued" \notin InGraph
    BY DEF PCs, InGraph, GraphPC
  <2>2. resumed' \in SUBSET Turns
    BY <1>0, <1>1 DEF Submit, TypeOK
  <2>3. /\ pc' = [pc EXCEPT ![t] = "queued"] /\ job' = job /\ LoopFree
        /\ UNCHANGED <<ledger, cp, mem, put, upd, agent, work, runner, faults>>
    BY <1>1 DEF Submit
  <2>. QED
    BY <2>1, <2>2, <2>3, GoStep
<1>2. CASE BeginSend(t)
  <2>1. pc[t] = "queued" /\ cp \in Snapshots
    BY <1>0, <1>2 DEF BeginSend, TypeOK
  <2>2. CASE StartRecovery(t, cp, TRUE, "none")
    <3>1. cp.turn # NoTurn \/ cp = EmptySnapshot
      BY <1>0 DEF ScopeOK
    <3>. QED
      BY <1>2, <2>1, <2>2, <3>1, BeginTypeInv DEF BeginSend
  <2>3. ASSUME NEW u \in Turns, StartRecovery(t, Synthesized(u), TRUE, "none")
        PROVE  TypeInv'
    <3>1. Synthesized(u) \in Snapshots /\ Synthesized(u).turn # NoTurn
      BY NewRunStateType DEF Synthesized, Turns, NoTurn
    <3>. QED
      BY <1>2, <2>1, <2>3, <3>1, BeginTypeInv DEF BeginSend
  <2>. QED
    BY <1>2, <2>2, <2>3 DEF BeginSend
<1>3. CASE RefuseSend(t)
  <2>1. "idle" \in PCs /\ "idle" \notin InGraph /\ "idle" # "wait"
    BY DEF PCs, InGraph, GraphPC
  <2>2. /\ pc' = [pc EXCEPT ![t] = "idle"] /\ job' = NoJob /\ resumed' \in SUBSET Turns
        /\ UNCHANGED <<ledger, cp, mem, put, upd, agent, work, runner, faults>>
    BY <1>0, <1>3 DEF RefuseSend, TypeOK
  <2>. QED
    BY <2>1, <2>2, GoStep
<1>4. CASE AcceptTurn(t)
  <2>1. ledger' \in Seq(Rows)
    BY <1>0, <1>4, RowsAreRows DEF AcceptTurn
  <2>2. NewRunState(t, Len(ledger')) \in Snapshots /\ NewRunState(t, Len(ledger')).turn = t
    BY <2>1, NewRunStateType
  <2>3. "accepted" \in PCs
    BY DEF PCs
  <2>. QED
    BY <1>0, <1>4, <2>1, <2>2, <2>3, MemStep DEF AcceptTurn, TypeOK
<1>5. CASE StartGraph(t)
  <2>1. mem[t].turn = t /\ "agent" \in InGraph /\ "agent" \in PCs /\ "agent" # "wait"
    BY <1>0, <1>5 DEF StartGraph, ScopeOK, InGraph, GraphPC, PCs
  <2>2. TypeOK'
    BY <1>0, <1>5, <2>1 DEF StartGraph, TypeOK, AgentPC
  <2>3. ScopeOK'
    BY <1>0, <1>5, <2>1 DEF StartGraph, ScopeOK
  <2>. QED
    BY <1>5, <2>2, <2>3, LoopStep DEF StartGraph, LoopFree
<1>. QED
  BY <1>1, <1>2, <1>3, <1>4, <1>5

LEMMA FlushTypeInv == ASSUME TypeInv, NEW t \in Turns, FlushCheckpoint(t) PROVE TypeInv'
<1>1. TypeOK /\ ScopeOK /\ JobOK
  BY DEF TypeInv
<1>2. mem[t] \in Snapshots /\ mem[t].turn = t /\ t # NoTurn
  BY <1>1 DEF FlushCheckpoint, ScopeOK, TypeOK, Turns, NoTurn
<1>3. TypeOK'
  BY <1>1, <1>2 DEF FlushCheckpoint, TypeOK
<1>4. ScopeOK'
  BY <1>1, <1>2 DEF FlushCheckpoint, ScopeOK
<1>5. JobOK'
  BY <1>1 DEF FlushCheckpoint, JobOK, Recovering, LoopFree
<1>. QED
  BY <1>3, <1>4, <1>5 DEF TypeInv

LEMMA AgentReturnsTypeInv == ASSUME TypeInv, NEW t \in Turns, AgentReturns(t) PROVE TypeInv'
<1>0. TypeOK /\ ScopeOK /\ ledger \in Seq(Rows) /\ mem[t] \in Snapshots
  BY DEF TypeInv, TypeOK
<1>1. mem[t].turn = t
  BY <1>0 DEF AgentReturns, ScopeOK, InGraph, GraphPC
<1> DEFINE st == CASE agent[t] = "calls"     -> "running"
                   [] agent[t] = "completed" -> "completed"
                   [] agent[t] = "broken"    -> "failed"
           cs == [c \in Calls |-> IF agent[t] = "calls" /\ c \in DefinedBy(t)
                                  THEN "pending" ELSE "none"]
           m  == [mem[t] EXCEPT !.status = st, !.calls = cs, !.seen = Len(ledger),
                                !.pend = NoPending, !.intr = NoPending]
           p  == IF agent[t] = "calls" THEN "gate" ELSE "end"
<1>2. st \in TurnStatus /\ cs \in [Calls -> CallStatus] /\ Len(ledger) \in Nat
  <2>1. st \in TurnStatus
    BY DEF AgentReturns, TurnStatus, Terminal
  <2>2. cs \in [Calls -> CallStatus]
    BY DEF CallStatus
  <2>3. Len(ledger) \in Nat
    BY <1>0
  <2>. QED
    BY <2>1, <2>2, <2>3
<1>3. m \in Snapshots /\ m.turn = t
  <2>. HIDE DEF st, cs
  <2>1. m \in Snapshots
    BY <1>0, <1>2 DEF Snapshots
  <2>2. m.turn = mem[t].turn
    BY <1>0 DEF Snapshots
  <2>. QED
    BY <1>1, <2>1, <2>2
<1>4. p \in PCs /\ p # "wait"
  BY DEF PCs, GraphPC
<1>5. /\ pc' = [pc EXCEPT ![t] = p] /\ mem' = [mem EXCEPT ![t] = m]
      /\ put' = put \cup {t} /\ job.task = NoTask
      /\ agent' = [agent EXCEPT ![t] = "none"]
      /\ UNCHANGED <<ledger, cp, resumed, upd, work, runner, job, faults>>
  BY DEF AgentReturns, LoopFree
<1>. HIDE DEF m, p
<1>6. TypeOK'
  BY <1>0, <1>3, <1>4, <1>5 DEF TypeOK, AgentPC
<1>7. ScopeOK'
  BY <1>0, <1>3, <1>4, <1>5 DEF ScopeOK, TypeOK
<1>. QED
  BY <1>5, <1>6, <1>7, LoopStep

LEMMA GateTypeInv ==
    ASSUME TypeInv, NEW t \in Turns,
           AskInteraction(t) \/ StartBatch(t) \/ GateMismatch(t) \/ BatchReturns(t) \/ EndRun(t)
    PROVE  TypeInv'
<1>0. /\ TypeOK /\ ScopeOK /\ ledger \in Seq(Rows) /\ resumed \in SUBSET Turns
      /\ work \in [CallIds -> WorkPC] /\ runner \in [Turns -> RunnerPC]
  BY DEF TypeInv, TypeOK
<1>1. pc[t] \in InGraph => mem[t].turn = t
  BY <1>0 DEF ScopeOK
<1>2. /\ {"ask", "settle", "batch", "abort", "idle"} \subseteq PCs
      /\ {"gate", "batch"} \subseteq InGraph
      /\ "wait" \notin {"ask", "settle", "batch", "abort", "idle"}
      /\ {"abort", "idle"} \cap InGraph = {}
  BY DEF PCs, InGraph, GraphPC, PhasePC
<1>3. CASE AskInteraction(t)
  <2>1. PICK c \in Calls : ledger' = InteractionRequest(ledger, t, <<t, c>>)
    BY <1>3 DEF AskInteraction
  <2>2. ledger' \in Seq(Rows)
    BY <1>0, <2>1, InteractionRequestAppends, Grown DEF CallIds
  <2>3. /\ pc[t] = "gate" /\ pc' = [pc EXCEPT ![t] = "ask"] /\ job' = job /\ LoopFree
        /\ UNCHANGED <<cp, resumed, mem, put, upd, agent, work, runner, faults>>
    BY <1>3 DEF AskInteraction
  <2>4. resumed' \in SUBSET Turns /\ work' \in [CallIds -> WorkPC] /\ runner' \in [Turns -> RunnerPC]
    BY <1>0, <2>3
  <2>5. mem[t].turn = t /\ "ask" \in PCs /\ "ask" # "wait"
    BY <1>1, <1>2, <2>3
  <2>. QED
    BY <2>2, <2>3, <2>4, <2>5, MoveStep
<1>4. CASE StartBatch(t)
  <2>1. /\ pc[t] = "gate" /\ LoopFree
        /\ UNCHANGED <<ledger, cp, resumed, mem, put, upd, agent, faults>>
    BY <1>4 DEF StartBatch
  <2>2. CASE Runnable(t) = {}
    <3>1. /\ pc' = [pc EXCEPT ![t] = "settle"] /\ job' = [NoJob EXCEPT !.task = t]
          /\ UNCHANGED <<work, runner>>
      BY <1>4, <2>2 DEF StartBatch
    <3>2. /\ mem[t].turn = t /\ "settle" \in PCs /\ "settle" # "wait"
          /\ resumed' \in SUBSET Turns /\ ledger' \in Seq(Rows)
          /\ work' \in [CallIds -> WorkPC] /\ runner' \in [Turns -> RunnerPC]
      BY <1>0, <1>1, <1>2, <2>1, <3>1
    <3>. QED
      BY <2>1, <3>1, <3>2, MoveStep
  <2>3. CASE Runnable(t) # {}
    <3>1. /\ pc' = [pc EXCEPT ![t] = "batch"] /\ job' = job
          /\ work' = [id \in CallIds |-> IF id[1] = t /\ id[2] \in Runnable(t)
                                         THEN "queued" ELSE work[id]]
          /\ runner' = [runner EXCEPT ![t] = "open"]
      BY <1>4, <2>3 DEF StartBatch
    <3>2. work' \in [CallIds -> WorkPC] /\ runner' \in [Turns -> RunnerPC]
      BY <1>0, <3>1 DEF WorkPC, RunnerPC
    <3>3. /\ mem[t].turn = t /\ "batch" \in PCs /\ "batch" # "wait"
          /\ resumed' \in SUBSET Turns /\ ledger' \in Seq(Rows)
      BY <1>0, <1>1, <1>2, <2>1
    <3>. QED
      BY <2>1, <3>1, <3>2, <3>3, MoveStep
  <2>. QED
    BY <2>2, <2>3
<1>5. CASE GateMismatch(t)
  <2>1. /\ pc' = [pc EXCEPT ![t] = "abort"] /\ job' = job /\ LoopFree /\ resumed' \in SUBSET Turns
        /\ UNCHANGED <<ledger, cp, mem, put, upd, agent, work, runner, faults>>
    BY <1>0, <1>5 DEF GateMismatch
  <2>2. "abort" \in PCs /\ "abort" # "wait" /\ "abort" \notin InGraph
    BY <1>2
  <2>. QED
    BY <2>1, <2>2, GoStep
<1>6. CASE BatchReturns(t)
  <2>1. /\ pc[t] = "batch" /\ pc' = [pc EXCEPT ![t] = "settle"]
        /\ job' = [NoJob EXCEPT !.task = t] /\ runner' = [runner EXCEPT ![t] = "none"]
        /\ UNCHANGED <<ledger, cp, resumed, mem, put, upd, agent, work, faults>>
    BY <1>6 DEF BatchReturns
  <2>2. /\ mem[t].turn = t /\ "settle" \in PCs /\ "settle" # "wait"
        /\ resumed' \in SUBSET Turns /\ ledger' \in Seq(Rows) /\ work' \in [CallIds -> WorkPC]
    BY <1>0, <1>1, <1>2, <2>1
  <2>3. runner' \in [Turns -> RunnerPC]
    BY <1>0, <2>1 DEF RunnerPC
  <2>. QED
    BY <2>1, <2>2, <2>3, MoveStep
<1>7. CASE EndRun(t)
  <2>1. /\ pc' = [pc EXCEPT ![t] = "idle"] /\ job' = job /\ LoopFree /\ resumed' \in SUBSET Turns
        /\ UNCHANGED <<ledger, cp, mem, put, upd, agent, work, runner, faults>>
    BY <1>0, <1>7 DEF EndRun
  <2>2. "idle" \in PCs /\ "idle" # "wait" /\ "idle" \notin InGraph
    BY <1>2
  <2>. QED
    BY <2>1, <2>2, GoStep
<1>. QED
  BY <1>3, <1>4, <1>5, <1>6, <1>7

LEMMA InterruptTypeInv == ASSUME TypeInv, NEW t \in Turns, WriteInterrupt(t) PROVE TypeInv'
<1>0. TypeOK /\ ScopeOK /\ ledger \in Seq(Rows) /\ mem[t] \in Snapshots
  BY DEF TypeInv, TypeOK
<1>1. mem[t].turn = t /\ t # NoTurn
  BY <1>0 DEF WriteInterrupt, ScopeOK, InGraph, GraphPC, Turns, NoTurn
<1>2. PICK c \in Calls : cp' = [mem[t] EXCEPT !.status = "waiting_user", !.seen = Len(ledger),
                                             !.pend = c, !.intr = c]
  BY DEF WriteInterrupt
<1>3. "waiting_user" \in TurnStatus /\ Len(ledger) \in Nat
  BY <1>0 DEF TurnStatus
<1>4. cp' \in Snapshots /\ cp'.turn = t
  BY <1>0, <1>1, <1>2, <1>3 DEF Snapshots
<1>5. /\ pc' = [pc EXCEPT ![t] = "wait"] /\ job.task = NoTask
      /\ UNCHANGED <<ledger, resumed, mem, put, upd, agent, work, runner, job, faults>>
  BY DEF WriteInterrupt, LoopFree
<1>6. TypeOK'
  BY <1>0, <1>4, <1>5 DEF TypeOK, PCs
<1>7. ScopeOK'
  <2>1. "wait" \notin InGraph
    BY DEF InGraph, GraphPC
  <2>. QED
    BY <1>0, <1>1, <1>4, <1>5, <2>1 DEF ScopeOK, TypeOK
<1>. QED
  BY <1>5, <1>6, <1>7, LoopStep

LEMMA SettleDeniedTypeInv == ASSUME TypeInv, NEW t \in Turns, SettleDenied(t) PROVE TypeInv'
<1>0. TypeOK /\ ledger \in Seq(Rows)
  BY DEF TypeInv, TypeOK
<1>1. PICK c \in Calls : ledger' = SettleTool(ledger, t, <<t, c>>, "denied")
  BY DEF SettleDenied
<1>2. ledger' \in Seq(Rows)
  BY <1>0, <1>1, SettleToolAppends DEF CallIds, FinalResult
<1>3. /\ agent' \in [Turns -> AgentPC] /\ work' \in [CallIds -> WorkPC]
      /\ runner' \in [Turns -> RunnerPC] /\ faults' \in [Fault -> Nat]
  BY <1>0 DEF SettleDenied, TypeOK
<1>4. UNCHANGED <<cp, pc, resumed, mem, put, upd, job>>
  BY DEF SettleDenied
<1>. QED
  BY <1>2, <1>3, <1>4, ThreadStep

LEMMA FinishToolsTypeInv == ASSUME TypeInv, NEW t \in Turns, FinishTools(t) PROVE TypeInv'
<1>0. TypeOK /\ ScopeOK /\ ledger \in Seq(Rows) /\ mem[t] \in Snapshots
  BY DEF TypeInv, TypeOK
<1>1. mem[t].turn = t
  BY <1>0 DEF FinishTools, ScopeOK, InGraph
<1> DEFINE lost == \E c \in Batch(t) : Outcome(t, c) = "unknown"
           st == IF lost THEN "failed" ELSE "running"
           cs == [c \in Calls |-> Outcome(t, c)]
           p  == IF lost THEN "end" ELSE "agent"
           m  == [mem[t] EXCEPT !.status = st, !.calls = cs, !.seen = Len(ledger'),
                                !.pend = NoPending, !.intr = NoPending]
<1>2. ASSUME NEW c \in Calls PROVE Outcome(t, c) \in CallStatus
  <2> DEFINE R == ResultRows(t, c)
             Says(s) == \E i \in R : IsLatest(i, R) /\ ledger[i].status = s
  <2>1. Outcome(t, c) = IF c \notin Batch(t) THEN "none"
                        ELSE IF \E s \in FinalResult : Says(s)
                        THEN CHOOSE s \in FinalResult : Says(s) ELSE "pending"
    BY DEF Outcome
  <2>. HIDE DEF Says
  <2>. QED
    BY <2>1 DEF CallStatus
<1>3. st \in TurnStatus /\ cs \in [Calls -> CallStatus]
  BY <1>2 DEF TurnStatus, Terminal
<1>4. p \in PCs /\ p # "wait"
  BY DEF PCs, GraphPC
<1>5. /\ ledger' = IF lost THEN TurnTerminal(ledger, t, "failed", "execution_outcome_unknown")
                   ELSE ledger
      /\ mem' = [mem EXCEPT ![t] = m]
      /\ pc' = [pc EXCEPT ![t] = p]
      /\ agent' = [agent EXCEPT ![t] = IF lost THEN "none" ELSE "invoke"]
      /\ put' = put \cup {t}
      /\ job' = NoJob
      /\ UNCHANGED <<cp, resumed, upd, work, runner, faults>>
  BY DEF FinishTools
<1>6. agent' \in [Turns -> AgentPC]
  BY <1>0, <1>5 DEF TypeOK, AgentPC
<1>. HIDE DEF lost
<1>7. ledger' \in Seq(Rows)
  BY <1>0, <1>5, TurnTerminalAppends DEF Terminal, Reason
<1>8. m \in Snapshots /\ m.turn = t
  <2>1. Len(ledger') \in Nat
    BY <1>7
  <2>. HIDE DEF st, cs
  <2>2. m \in Snapshots
    BY <1>0, <1>3, <2>1 DEF Snapshots
  <2>3. m.turn = mem[t].turn
    BY <1>0 DEF Snapshots
  <2>. QED
    BY <1>1, <2>2, <2>3
<1>. HIDE DEF m, p
<1>. QED
  BY <1>4, <1>5, <1>6, <1>7, <1>8, MemStep

LEMMA AnswerTypeInv ==
    ASSUME TypeInv, NEW t \in Turns,
           \/ \E d \in Decision : BeginResume(t, d)
           \/ CommitDecision(t) \/ RejectResume(t) \/ ResumeGraph(t)
           \/ BeginAttach(t) \/ Attach(t)
    PROVE  TypeInv'
<1>0. /\ TypeOK /\ ScopeOK /\ JobOK /\ ledger \in Seq(Rows) /\ cp \in Snapshots
      /\ resumed \in SUBSET Turns /\ job \in Jobs /\ job.view \in Snapshots
  BY DEF TypeInv, TypeOK, Jobs
<1>1. /\ {"wait", "idle", "error", "resuming", "gate"} \subseteq PCs
      /\ {"wait", "idle", "error"} \cap InGraph = {}
      /\ {"resuming", "gate"} \subseteq InGraph
      /\ "wait" \notin {"idle", "error", "resuming", "gate"}
  BY DEF PCs, InGraph, GraphPC, PhasePC
<1>2. ASSUME NEW d \in Decision, BeginResume(t, d) PROVE TypeInv'
  <2>1. cp.turn # NoTurn
    BY <1>0, <1>2 DEF BeginResume, ScopeOK
  <2>. QED
    BY <1>0, <1>2, <2>1, BeginTypeInv DEF BeginResume
<1>3. CASE CommitDecision(t)
  <2>1. /\ Recovering /\ job.task = t /\ pc[t] = "wait" /\ job.view.turn = t
        /\ job.view.pend # NoPending /\ job.decision \in Decision
    BY <1>0, <1>3 DEF CommitDecision, Recovered, Resumable, JobOK
  <2>2. <<t, job.view.pend>> \in CallIds
    BY <1>0, <2>1 DEF Snapshots, CallIds
  <2>3. ledger' \in Seq(Rows)
    <3>1. DecisionRow(t, <<t, job.view.pend>>, job.decision) \in Rows
      BY <2>1, <2>2, RowsAreRows
    <3>. QED
      BY <1>0, <1>3, <3>1 DEF CommitDecision
  <2> DEFINE m == [job.view EXCEPT !.seen = Len(ledger'), !.intr = NoPending]
  <2>4. m \in Snapshots /\ m.turn = t
    <3>1. Len(ledger') \in Nat
      BY <2>3
    <3>. QED
      BY <1>0, <2>1, <3>1 DEF Snapshots
  <2>5. /\ mem' = [mem EXCEPT ![t] = m] /\ pc' = [pc EXCEPT ![t] = "resuming"]
        /\ job' = NoJob /\ put' = put /\ agent' \in [Turns -> AgentPC]
        /\ UNCHANGED <<cp, resumed, upd, work, runner, faults>>
    BY <1>0, <1>3 DEF CommitDecision, TypeOK
  <2>. HIDE DEF m
  <2>. QED
    BY <1>1, <2>3, <2>4, <2>5, MemStep
<1>4. CASE RejectResume(t)
  <2>1. /\ pc' = [pc EXCEPT ![t] = "error"] /\ job' = NoJob /\ resumed' \in SUBSET Turns
        /\ UNCHANGED <<ledger, cp, mem, put, upd, agent, work, runner, faults>>
    BY <1>0, <1>4 DEF RejectResume
  <2>2. "error" \in PCs /\ "error" # "wait" /\ "error" \notin InGraph
    BY <1>1
  <2>. QED
    BY <2>1, <2>2, GoStep
<1>5. CASE ResumeGraph(t)
  <2>1. /\ pc[t] = "resuming" /\ pc' = [pc EXCEPT ![t] = "gate"] /\ job' = job /\ LoopFree
        /\ resumed' \in SUBSET Turns
        /\ UNCHANGED <<ledger, cp, mem, put, upd, agent, work, runner, faults>>
    BY <1>0, <1>5 DEF ResumeGraph
  <2>2. mem[t].turn = t /\ "gate" \in PCs /\ "gate" # "wait"
    BY <1>0, <1>1, <2>1 DEF ScopeOK
  <2>. QED
    BY <2>1, <2>2, GoStep
<1>6. CASE BeginAttach(t)
  <2>1. cp.turn # NoTurn /\ pc[t] = "idle"
    BY <1>6 DEF BeginAttach, Turns, NoTurn
  <2>2. pc[t] # "wait"
    BY <2>1
  <2>. QED
    BY <1>0, <1>6, <2>1, <2>2, BeginTypeInv DEF BeginAttach
<1>7. CASE Attach(t)
  <2> DEFINE waiting == ~Ended(job.view.status) /\ job.view.pend # NoPending
                        /\ cp.intr = job.view.pend
             p == IF waiting THEN "wait" ELSE "idle"
  <2>1. /\ pc' = [pc EXCEPT ![t] = p] /\ job' = NoJob /\ resumed' \in SUBSET Turns
        /\ UNCHANGED <<ledger, cp, mem, put, upd, agent, work, runner, faults>>
    BY <1>0, <1>7 DEF Attach
  <2>2. waiting => cp.turn # NoTurn
    BY <1>0 DEF ScopeOK, EmptySnapshot
  <2>3. p \in PCs /\ p \notin InGraph /\ (p = "wait" => cp.turn # NoTurn)
    BY <1>1, <2>2
  <2>. HIDE DEF p
  <2>. QED
    BY <2>1, <2>3, GoStep
<1>. QED
  BY <1>2, <1>3, <1>4, <1>5, <1>6, <1>7

-----------------------------------------------------------------------------
(* Cancellation, time-out and finalization.                                *)

LEMMA LeaveTypeInv ==
    ASSUME TypeInv, NEW t \in Turns, Cancel(t) \/ GraphTimeout(t) PROVE TypeInv'
<1>0. TypeOK /\ ScopeOK
  BY DEF TypeInv
<1>1. PICK phase \in {"persist", "repair", "abort"} : LeaveGraph(t, phase)
  BY DEF Cancel, GraphTimeout
<1>2. job.task = NoTask /\ job' = job /\ faults' \in [Fault -> Nat]
  BY <1>0 DEF Cancel, GraphTimeout, LoopFree, Budget, LeaveGraph, TypeOK, Fault
<1>3. /\ phase \in PCs /\ phase \notin InGraph /\ phase # "wait"
  BY DEF PCs, InGraph, GraphPC, PhasePC
<1>4. /\ cp' \in Snapshots
      /\ cp' = cp \/ cp'.turn # NoTurn
  BY <1>0, <1>1 DEF LeaveGraph, ScopeOK, TypeOK, Turns, NoTurn
<1>5. runner' \in [Turns -> RunnerPC]
  BY <1>0, <1>1 DEF LeaveGraph, TypeOK, RunnerPC
<1>6. TypeOK'
  BY <1>0, <1>1, <1>2, <1>3, <1>4, <1>5 DEF LeaveGraph, TypeOK
<1>7. ScopeOK'
  BY <1>0, <1>1, <1>3, <1>4 DEF LeaveGraph, ScopeOK, TypeOK
<1>. QED
  BY <1>2, <1>6, <1>7, LoopStep

LEMMA NextPhaseType ==
    ASSUME NEW p \in PhasePC
    PROVE  NextPhase(p) \in PCs /\ NextPhase(p) \notin InGraph /\ NextPhase(p) # "wait"
  BY DEF PhasePC, NextPhase, PCs, InGraph, GraphPC

LEMMA PhaseTypeInv ==
    ASSUME TypeInv, NEW t \in Turns, SkipPhase(t) \/ BeginPhase(t) \/ UpdateState(t)
    PROVE  TypeInv'
<1>0. /\ TypeOK /\ ScopeOK /\ cp \in Snapshots /\ resumed \in SUBSET Turns
      /\ upd[t] \in Snapshots
  BY DEF TypeInv, TypeOK
<1>1. pc[t] \in PhasePC
  BY DEF SkipPhase, BeginPhase, UpdateState
<1>2. /\ NextPhase(pc[t]) \in PCs /\ NextPhase(pc[t]) \notin InGraph
      /\ NextPhase(pc[t]) # "wait" /\ pc[t] # "wait"
  BY <1>1, NextPhaseType DEF PhasePC
<1>3. CASE SkipPhase(t)
  <2>1. /\ pc' = [pc EXCEPT ![t] = NextPhase(pc[t])] /\ job' = job /\ LoopFree
        /\ resumed' \in SUBSET Turns
        /\ UNCHANGED <<ledger, cp, mem, put, upd, agent, work, runner, faults>>
    BY <1>0, <1>3 DEF SkipPhase
  <2>. QED
    BY <1>2, <2>1, GoStep
<1>4. CASE BeginPhase(t)
  <2>1. cp.turn # NoTurn
    BY <1>4 DEF BeginPhase, Concerns, Turns, NoTurn
  <2>. QED
    BY <1>0, <1>2, <1>4, <2>1, BeginTypeInv DEF BeginPhase
<1>5. CASE UpdateState(t)
  <2>1. /\ cp' = [upd[t] EXCEPT !.status = MergeTerminal(cp.status, @), !.intr = NoPending]
        /\ upd' = [upd EXCEPT ![t] = NoUpdate] /\ pc' = [pc EXCEPT ![t] = NextPhase(pc[t])]
        /\ upd[t] # NoUpdate /\ job.task = NoTask
        /\ UNCHANGED <<ledger, resumed, mem, put, agent, work, runner, job, faults>>
    BY <1>0, <1>5 DEF UpdateState, LoopFree, TypeOK
  <2>2. MergeTerminal(cp.status, upd[t].status) \in TurnStatus \cup {"none"}
    BY <1>0 DEF MergeTerminal, Snapshots
  <2>3. cp' \in Snapshots /\ cp'.turn # NoTurn
    <3>1. cp' = [upd[t] EXCEPT !.status = MergeTerminal(cp.status, upd[t].status),
                               !.intr = NoPending]
      BY <2>1
    <3>2. upd[t].turn # NoTurn
      BY <1>0, <2>1 DEF ScopeOK
    <3>. QED
      BY <1>0, <2>2, <3>1, <3>2 DEF Snapshots
  <2>4. TypeOK'
    BY <1>0, <1>2, <2>1, <2>3, EmptySnapshotType DEF TypeOK, NoUpdate
  <2>5. ScopeOK'
    BY <1>0, <1>2, <2>1, <2>3 DEF ScopeOK, TypeOK
  <2>. QED
    BY <2>1, <2>4, <2>5, LoopStep
<1>. QED
  BY <1>3, <1>4, <1>5

LEMMA RepairCallTypeInv == ASSUME TypeInv, NEW t \in Turns, RepairCall(t) PROVE TypeInv'
<1>0. /\ TypeOK /\ ScopeOK /\ JobOK /\ ledger \in Seq(Rows) /\ job \in Jobs
      /\ job.view \in Snapshots
  BY DEF TypeInv, TypeOK, Jobs
<1>1. /\ Recovering /\ job.task = t /\ pc[t] \in {"repair", "repair2"}
      /\ UNCHANGED <<cp, pc, resumed, mem, put, upd, agent, work, runner, faults>>
      /\ job' = [job EXCEPT !.view.seen = Len(ledger')]
  BY DEF RepairCall, Recovered
<1>2. job.view.turn \in Turns
  BY <1>0, <1>1 DEF JobOK, Snapshots
<1>3. PICK id \in CallIds : ledger' = SettleTool(ledger, job.view.turn, id, "cancelled")
  BY DEF RepairCall, Unrepaired, LastDefined
<1>4. ledger' \in Seq(Rows)
  BY <1>0, <1>2, <1>3, SettleToolAppends DEF FinalResult
<1>5. /\ job' \in Jobs /\ job'.view.turn # NoTurn /\ job'.task = job.task
      /\ job'.decision = job.decision
  <2>1. Len(ledger') \in Nat
    BY <1>4
  <2>2. job.view.turn # NoTurn
    BY <1>2 DEF Turns, NoTurn
  <2>. QED
    BY <1>0, <1>1, <2>1, <2>2 DEF Jobs, Snapshots
<1>6. TypeOK'
  BY <1>0, <1>1, <1>4, <1>5 DEF TypeOK
<1>7. ScopeOK'
  BY <1>0, <1>1 DEF ScopeOK
<1>8. JobOK'
  BY <1>1, <1>5 DEF JobOK
<1>. QED
  BY <1>6, <1>7, <1>8 DEF TypeInv

LEMMA FinalizeTypeInv ==
    ASSUME TypeInv, NEW t \in Turns, RepairDone(t) \/ Finalize(t) PROVE TypeInv'
<1>0. /\ TypeOK /\ ScopeOK /\ JobOK /\ ledger \in Seq(Rows) /\ job \in Jobs
      /\ job.view \in Snapshots
  BY DEF TypeInv, TypeOK, Jobs
<1>1. Recovering /\ job.task = t /\ pc[t] \in PhasePC
  BY DEF RepairDone, Finalize, Recovered, PhasePC
<1>2. job.view.turn \in Turns /\ job.view.turn # NoTurn
  <2>1. pc[t] # "queued"
    BY <1>1 DEF PhasePC
  <2>. QED
    BY <1>0, <1>1, <2>1 DEF JobOK, Snapshots
<1>3. ASSUME NEW v \in Snapshots, v.turn # NoTurn, upd' = [upd EXCEPT ![t] = v],
             ledger' \in Seq(Rows), job' = NoJob,
             UNCHANGED <<cp, pc, resumed, mem, put, agent, work, runner, faults>>
      PROVE  TypeInv'
  <2>1. TypeOK'
    BY <1>0, <1>3, NoJobType DEF TypeOK
  <2>2. ScopeOK'
    BY <1>0, <1>3 DEF ScopeOK, TypeOK
  <2>. QED
    BY <1>3, <2>1, <2>2, NoJobType, LoopStep
<1>4. CASE RepairDone(t)
  <2>1. /\ upd' = [upd EXCEPT ![t] = job.view] /\ job' = NoJob /\ ledger' \in Seq(Rows)
        /\ UNCHANGED <<cp, pc, resumed, mem, put, agent, work, runner, faults>>
    BY <1>0, <1>4 DEF RepairDone
  <2>. QED
    BY <1>0, <1>2, <1>3, <2>1
<1>5. CASE Finalize(t)
  <2> DEFINE u == job.view.turn
             settled == pc[t] \in {"mark", "mark2", "error"} /\ Ended(job.view.status)
             n == IF settled THEN job.view.seen ELSE TerminalSeq(ledger', u)
             v == [job.view EXCEPT !.status = Wanted(t), !.pend = NoPending, !.seen = n]
  <2>1. /\ ledger' = IF settled THEN ledger ELSE TurnTerminal(ledger, u, Wanted(t), "")
        /\ upd' = [upd EXCEPT ![t] = v] /\ job' = NoJob
        /\ UNCHANGED <<cp, pc, resumed, mem, put, agent, work, runner, faults>>
    BY <1>5 DEF Finalize
  <2>2. Wanted(t) \in Terminal
    BY DEF Wanted, Ended, Terminal
  <2>3. ledger' \in Seq(Rows) /\ n \in Nat
    <3>1. CASE settled
      BY <1>0, <2>1, <3>1 DEF Snapshots
    <3>2. CASE ~settled
      BY <1>0, <1>2, <2>1, <2>2, <3>2, TurnTerminalAppends DEF Reason
    <3>. QED
      BY <3>1, <3>2
  <2>4. v \in Snapshots /\ v.turn # NoTurn
    <3>. HIDE DEF n
    <3>. QED
      BY <1>0, <1>2, <2>2, <2>3 DEF Snapshots, TurnStatus
  <2>. HIDE DEF v
  <2>. QED
    BY <1>3, <2>1, <2>3, <2>4
<1>. QED
  BY <1>4, <1>5

LEMMA CrashTypeInv == ASSUME TypeInv, Crash PROVE TypeInv'
<1>0. TypeOK /\ ScopeOK
  BY DEF TypeInv
<1>1. faults' \in [Fault -> Nat]
  BY <1>0 DEF Crash, Budget, TypeOK, Fault
<1>2. TypeOK'
  BY <1>0, <1>1, NoJobType, EmptySnapshotType
  DEF Crash, TypeOK, PCs, AgentPC, WorkPC, RunnerPC, NoUpdate
<1>3. ScopeOK'
  BY <1>0 DEF Crash, ScopeOK, InGraph, GraphPC
<1>. QED
  BY <1>2, <1>3, NoJobType, LoopStep DEF Crash

-----------------------------------------------------------------------------
LEMMA StepTypeInv == TypeInv /\ [Next]_vars => TypeInv'
<1> SUFFICES ASSUME TypeInv, [Next]_vars PROVE TypeInv'
  OBVIOUS
<1>1. CASE UNCHANGED vars
  BY <1>1, StutterTypeInv
<1>2. CASE Recover
  BY <1>2, RecoverTypeInv
<1>3. CASE Crash
  BY <1>3, CrashTypeInv
<1>4. ASSUME NEW t \in Turns, Coroutine(t) PROVE TypeInv'
  BY <1>4, SendTypeInv, AgentReturnsTypeInv, GateTypeInv, InterruptTypeInv,
     SettleDeniedTypeInv, FinishToolsTypeInv, AnswerTypeInv, PhaseTypeInv,
     RepairCallTypeInv, FinalizeTypeInv DEF Coroutine
<1>5. ASSUME NEW t \in Turns, FlushCheckpoint(t) \/ AgentThread(t) \/ ToolThreads(t)
      PROVE  TypeInv'
  BY <1>5, FlushTypeInv, AgentTypeInv, ToolsTypeInv
<1>6. ASSUME NEW t \in Turns, User(t) \/ TimesOut(t) PROVE TypeInv'
  BY <1>6, SendTypeInv, LeaveTypeInv, AnswerTypeInv, TimesOutTypeInv DEF User, TimesOut
<1>. QED
  BY <1>1, <1>2, <1>3, <1>4, <1>5, <1>6 DEF Next

\* However many turns, calls and requests there are and whatever fails, the
\* state stays well typed: in particular every row of the ledger names the
\* turn, the call and the status its readers rely on, and every checkpoint is
\* a snapshot.
THEOREM TypeCorrect == Spec => []TypeOK
<1>1. Init => TypeInv
  BY InitTypeInv
<1>2. TypeInv /\ [Next]_vars => TypeInv'
  BY StepTypeInv
<1>3. TypeInv => TypeOK
  BY DEF TypeInv
<1>. QED
  BY <1>1, <1>2, <1>3, PTL DEF Spec

-----------------------------------------------------------------------------
(* The approval gate.                                                      *)

GateInv == \A t \in Turns, c \in Calls :
              c \in Gated /\ work[<<t, c>>] # "none" => Allowed(ledger, t, <<t, c>>)

-----------------------------------------------------------------------------
\* One row more, and it starts no call.
Appends == \E row \in Rows : ledger' = Append(ledger, row) /\ row.type # "tool_start"

\* Whatever happens, the ledger keeps its rows and gets at most one more; a
\* row that starts a call is written by the worker of that call alone.
LEMMA LedgerSteps ==
    ASSUME TypeInv, [Next]_vars
    PROVE  \/ ledger' = ledger
           \/ Appends
           \/ \E t \in Turns, c \in Calls : StartCall(t, c)
<1>0. TypeOK /\ JobOK /\ ledger \in Seq(Rows) /\ job \in Jobs /\ job.view \in Snapshots
  BY DEF TypeInv, TypeOK, Jobs
<1> DEFINE Goal == ledger' = ledger \/ Appends \/ \E t \in Turns, c \in Calls : StartCall(t, c)
<1>1. ASSUME NEW t \in Turns, NEW id \in CallIds, NEW s \in FinalResult,
             ledger' = SettleTool(ledger, t, id, s)
      PROVE  Goal
  BY <1>0, <1>1, SettleToolAppends DEF Appends
<1>2. ASSUME NEW t \in Turns, NEW s \in Terminal, NEW y \in Reason,
             ledger' = TurnTerminal(ledger, t, s, y)
      PROVE  Goal
  BY <1>0, <1>2, TurnTerminalAppends DEF Appends
<1>3. ASSUME NEW t \in Turns, NEW r \in Nat, ledger' = ModelFailed(ledger, t, r)
      PROVE  Goal
  BY <1>0, <1>3, ModelFailedAppends DEF Appends
<1>4. ASSUME NEW t \in Turns, NEW id \in CallIds, ledger' = InteractionRequest(ledger, t, id)
      PROVE  Goal
  BY <1>0, <1>4, InteractionRequestAppends DEF Appends
<1>5. CASE ledger' = ledger
  BY <1>5
<1>6. CASE Recover
  <2>1. CASE job.view.turn = NoTurn
    <3>1. ~Live \/ (Uncertain = {} /\ NotStarted = {} /\ job.lost = {} /\ job.cause = "none"
                    /\ ~Stoppable)
      BY <1>0, <2>1 DEF Live, JobOK, Uncertain, NotStarted, Stoppable
    <3>. QED
      BY <1>6, <3>1 DEF Recover, SettleUncertain, SettleLostRequest, SettleSkipped,
                        FailRecovered, IsLeast, Live
  <2>2. CASE job.view.turn # NoTurn
    <3>1. job.view.turn \in Turns
      BY <1>0, <2>2 DEF Snapshots
    <3>2. \A c \in Calls : <<job.view.turn, c>> \in CallIds
      BY <3>1 DEF CallIds
    <3>3. CASE SettleUncertain
      BY <1>1, <3>1, <3>2, <3>3 DEF SettleUncertain, FinalResult
    <3>4. CASE SettleLostRequest
      BY <1>3, <3>1, <3>4 DEF SettleLostRequest, Requests
    <3>5. CASE SettleSkipped
      BY <1>1, <3>1, <3>2, <3>5 DEF SettleSkipped, FinalResult
    <3>6. CASE FailRecovered
      BY <1>2, <3>1, <3>6 DEF FailRecovered, FailReason, Reason, Terminal
    <3>. QED
      BY <1>6, <3>3, <3>4, <3>5, <3>6 DEF Recover
  <2>. QED
    BY <2>1, <2>2
<1>7. ASSUME NEW t \in Turns, Coroutine(t) PROVE Goal
  <2>1. CASE AcceptTurn(t)
    <3>1. AcceptedRow(t) \in Rows /\ AcceptedRow(t).type = "accepted"
      BY RowsAreRows DEF AcceptedRow, Row
    <3>. QED
      BY <2>1, <3>1 DEF AcceptTurn, Appends
  <2>2. CASE AskInteraction(t)
    BY <1>4, <2>2 DEF AskInteraction, CallIds
  <2>3. CASE SettleDenied(t)
    BY <1>1, <2>3 DEF SettleDenied, CallIds, FinalResult
  <2>4. CASE FinishTools(t)
    <3>1. \/ ledger' = ledger
          \/ ledger' = TurnTerminal(ledger, t, "failed", "execution_outcome_unknown")
      BY <2>4 DEF FinishTools
    <3>. QED
      BY <1>2, <3>1 DEF Terminal, Reason
  <2>5. CASE CommitDecision(t)
    <3>1. /\ Recovering /\ job.task = t /\ pc[t] = "wait" /\ job.view.turn = t
          /\ job.view.pend # NoPending /\ job.decision \in Decision
      BY <1>0, <2>5 DEF CommitDecision, Recovered, Resumable, JobOK
    <3>2. <<t, job.view.pend>> \in CallIds
      BY <1>0, <3>1 DEF Snapshots, CallIds
    <3> DEFINE row == DecisionRow(t, <<t, job.view.pend>>, job.decision)
    <3>3. row \in Rows
      BY <3>1, <3>2, RowsAreRows
    <3>4. row.type = "decision"
      BY DEF DecisionRow, Row
    <3>5. ledger' = ledger \/ ledger' = Append(ledger, row)
      BY <2>5 DEF CommitDecision
    <3>. QED
      BY <3>3, <3>4, <3>5 DEF Appends
  <2>6. CASE RepairCall(t)
    <3>1. Recovering /\ job.task = t /\ pc[t] \in {"repair", "repair2"}
      BY <2>6 DEF RepairCall, Recovered
    <3>2. job.view.turn \in Turns
      BY <1>0, <3>1 DEF JobOK, Snapshots
    <3>3. PICK id \in CallIds : ledger' = SettleTool(ledger, job.view.turn, id, "cancelled")
      BY <2>6 DEF RepairCall, Unrepaired, LastDefined
    <3>. QED
      BY <1>1, <3>2, <3>3 DEF FinalResult
  <2>7. CASE Finalize(t)
    <3>1. Recovering /\ job.task = t /\ pc[t] # "queued"
      BY <2>7 DEF Finalize, Recovered
    <3>2. job.view.turn \in Turns
      BY <1>0, <3>1 DEF JobOK, Snapshots
    <3>3. Wanted(t) \in Terminal /\ "" \in Reason
      BY DEF Wanted, Ended, Terminal, Reason
    <3>4. ledger' = ledger \/ ledger' = TurnTerminal(ledger, job.view.turn, Wanted(t), "")
      BY <2>7 DEF Finalize
    <3>. QED
      BY <1>2, <3>2, <3>3, <3>4
  <2>8. CASE ~(\/ AcceptTurn(t) \/ AskInteraction(t) \/ SettleDenied(t) \/ FinishTools(t)
               \/ CommitDecision(t) \/ RepairCall(t) \/ Finalize(t))
    BY <1>5, <1>7, <2>8
    DEF Coroutine, BeginSend, RefuseSend, StartGraph, AgentReturns, WriteInterrupt, StartBatch,
        GateMismatch, BatchReturns, EndRun, RejectResume, ResumeGraph, Attach, SkipPhase,
        BeginPhase, RepairDone, UpdateState
  <2>. QED
    BY <2>1, <2>2, <2>3, <2>4, <2>5, <2>6, <2>7, <2>8
<1>8. ASSUME NEW t \in Turns, AgentThread(t) PROVE Goal
  <2>0. Started(ledger, t) \in Nat /\ NoReq \in Nat
    BY <1>0, StartedType DEF NoReq
  <2>1. CASE StartRequest(t)
    <3>1. ModelStartRow(t, Started(ledger, t) + 1) \in Rows
      BY <2>0, RowsAreRows
    <3>2. ModelStartRow(t, Started(ledger, t) + 1).type = "model_start"
      BY DEF ModelStartRow, Row
    <3>. QED
      BY <2>1, <3>1, <3>2 DEF StartRequest, Appends
  <2>2. CASE RequestFails(t)
    BY <1>3, <2>0, <2>2 DEF RequestFails
  <2>3. ASSUME NEW r \in Nat, NEW S \in SUBSET Calls, ledger' = Append(ledger, ResponseRow(t, r, S))
        PROVE  Goal
    <3>1. ResponseRow(t, r, S) \in Rows
      BY RowsAreRows
    <3>2. ResponseRow(t, r, S).type = "response"
      BY DEF ResponseRow, Row
    <3>. QED
      BY <2>3, <3>1, <3>2 DEF Appends
  <2>4. CASE GiveUp(t)
    BY <2>0, <2>3, <2>4 DEF GiveUp
  <2>5. CASE EndByAgent(t)
    BY <1>2, <2>5 DEF EndByAgent, Terminal, Reason
  <2>6. ASSUME NEW S \in SUBSET Uses[t], Respond(t, S) PROVE Goal
    <3>1. S \in SUBSET Calls
      BY BoundsAssumption
    <3>. QED
      BY <2>0, <2>3, <2>6, <3>1 DEF Respond
  <2>. QED
    BY <1>8, <2>1, <2>2, <2>4, <2>5, <2>6 DEF AgentThread
<1>9. ASSUME NEW t \in Turns, ToolThreads(t) PROVE Goal
  <2>1. PICK c \in Calls : BeginCall(t, c) \/ StartCall(t, c) \/ FinishCall(t, c) \/ LeaveCall(t, c)
    BY <1>9 DEF ToolThreads
  <2>2. \/ ledger' = ledger \/ StartCall(t, c)
        \/ \E s \in FinalResult : ledger' = SettleTool(ledger, t, <<t, c>>, s)
    BY <2>1 DEF BeginCall, FinishCall, LeaveCall, FinalResult
  <2>. QED
    BY <1>1, <2>2 DEF CallIds
<1>10. ASSUME NEW t \in Turns, FlushCheckpoint(t) \/ User(t) \/ TimesOut(t) PROVE ledger' = ledger
  BY <1>10 DEF FlushCheckpoint, User, Submit, Cancel, LeaveGraph, BeginAttach, BeginResume,
               TimesOut, GraphTimeout, BatchTimeout
<1>11. CASE UNCHANGED vars \/ Crash
  BY <1>11 DEF vars, Crash
<1>. QED
  BY <1>6, <1>7, <1>8, <1>9, <1>10, <1>11 DEF Next

\* A worker appears only when a batch starts, for a call that may run.
LEMMA WorkSteps ==
    ASSUME TypeInv, [Next]_vars, NEW t \in Turns, NEW c \in Calls,
           work[<<t, c>>] = "none", work'[<<t, c>>] # "none"
    PROVE  StartBatch(t) /\ c \in Runnable(t)
<1>0. work \in [CallIds -> WorkPC] /\ <<t, c>> \in CallIds
  BY DEF TypeInv, TypeOK, CallIds
<1>1. work' # work
  OBVIOUS
<1>2. ASSUME NEW u \in Turns, StartBatch(u) PROVE StartBatch(t) /\ c \in Runnable(t)
  <2>1. work' = [id \in CallIds |-> IF id[1] = u /\ id[2] \in Runnable(u)
                                    THEN "queued" ELSE work[id]]
    BY <1>1, <1>2 DEF StartBatch
  <2>2. work'[<<t, c>>] = IF t = u /\ c \in Runnable(u) THEN "queued" ELSE work[<<t, c>>]
    BY <1>0, <2>1
  <2>. QED
    BY <1>2, <2>2
<1>3. ASSUME NEW u \in Turns, ToolThreads(u) PROVE FALSE
  <2>1. PICK d \in Calls, from \in WorkPC \ {"none"}, to \in WorkPC : WorkStep(u, d, from, to)
    BY <1>3 DEF ToolThreads, BeginCall, StartCall, FinishCall, LeaveCall, WorkPC
  <2>2. <<u, d>> # <<t, c>>
    BY <2>1 DEF WorkStep
  <2>3. work'[<<t, c>>] = work[<<t, c>>]
    BY <1>0, <2>1, <2>2 DEF WorkStep
  <2>. QED
    BY <2>3
<1>4. CASE Crash
  BY <1>0, <1>4 DEF Crash
<1>5. CASE Recover \/ UNCHANGED vars
  BY <1>1, <1>5 DEF Recover, vars
<1>6. ASSUME NEW u \in Turns, AgentThread(u) PROVE FALSE
  BY <1>1, <1>6 DEF AgentThread, StartRequest, RequestFails, GiveUp, EndByAgent, Respond, AgentStep
<1>7. ASSUME NEW u \in Turns, FlushCheckpoint(u) \/ User(u) \/ TimesOut(u) PROVE FALSE
  BY <1>1, <1>7 DEF FlushCheckpoint, User, Submit, Cancel, LeaveGraph, BeginAttach, BeginResume,
                    TimesOut, GraphTimeout, BatchTimeout
<1>8. ASSUME NEW u \in Turns, Coroutine(u) PROVE StartBatch(u)
  BY <1>1, <1>8
  DEF Coroutine, BeginSend, RefuseSend, AcceptTurn, StartGraph, AgentReturns, AskInteraction,
      WriteInterrupt, GateMismatch, BatchReturns, SettleDenied, FinishTools, EndRun,
      CommitDecision, RejectResume, ResumeGraph, Attach, SkipPhase, BeginPhase, RepairCall,
      RepairDone, Finalize, UpdateState
<1>. QED
  BY <1>2, <1>3, <1>4, <1>5, <1>6, <1>7, <1>8 DEF Next

-----------------------------------------------------------------------------
\* Consent stays where it is when the ledger grows.
LEMMA AllowedStays ==
    ASSUME NEW L \in Seq(Rows), NEW row \in Rows, NEW t, NEW id, Allowed(L, t, id)
    PROVE  Allowed(Append(L, row), t, id)
<1>1. PICK i \in DOMAIN L : Consents(L[i], t, id)
  BY DEF Allowed
<1>2. i \in DOMAIN Append(L, row) /\ Append(L, row)[i] = L[i]
  BY Grown
<1>. QED
  BY <1>1, <1>2 DEF Allowed

LEMMA StepGateInv == TypeInv /\ GateInv /\ [Next]_vars => GateInv'
<1> SUFFICES ASSUME TypeInv, GateInv, [Next]_vars, NEW t \in Turns, NEW c \in Calls,
                    c \in Gated, work'[<<t, c>>] # "none"
             PROVE  Allowed(ledger', t, <<t, c>>)
  BY DEF GateInv
<1>0. ledger \in Seq(Rows)
  BY DEF TypeInv, TypeOK
<1>1. Allowed(ledger, t, <<t, c>>)
  <2>1. CASE work[<<t, c>>] # "none"
    BY <2>1 DEF GateInv
  <2>2. CASE work[<<t, c>>] = "none"
    <3>1. c \in Runnable(t)
      BY <2>2, WorkSteps
    <3>. QED
      BY <3>1 DEF Runnable, Denied
  <2>. QED
    BY <2>1, <2>2
<1>2. ledger' = ledger \/ \E row \in Rows : ledger' = Append(ledger, row)
  <2>1. ASSUME NEW u \in Turns, NEW d \in Calls, StartCall(u, d)
        PROVE  \E row \in Rows : ledger' = Append(ledger, row)
    <3>1. ToolStartRow(u, <<u, d>>) \in Rows
      BY RowsAreRows DEF CallIds
    <3>. QED
      BY <2>1, <3>1 DEF StartCall
  <2>. QED
    BY <2>1, LedgerSteps DEF Appends
<1>. QED
  BY <1>0, <1>1, <1>2, AllowedStays

LEMMA StepGateHolds == TypeInv /\ GateInv /\ GateHolds /\ [Next]_vars => GateHolds'
<1> SUFFICES ASSUME TypeInv, GateInv, GateHolds, [Next]_vars PROVE GateHolds'
  OBVIOUS
<1>0. ledger \in Seq(Rows)
  BY DEF TypeInv, TypeOK
<1>1. CASE ledger' = ledger
  BY <1>1 DEF GateHolds, RowsOf
<1>2. ASSUME NEW row \in Rows, ledger' = Append(ledger, row),
             row.type = "tool_start" /\ row.call[2] \in Gated =>
                 Allowed(ledger, row.turn, row.call)
      PROVE  GateHolds'
  <2> DEFINE n == Len(ledger)
  <2>1. /\ n \in Nat /\ DOMAIN ledger = 1 .. n /\ DOMAIN ledger' = 1 .. (n + 1)
        /\ \A i \in DOMAIN ledger : i \in DOMAIN ledger' /\ ledger'[i] = ledger[i]
        /\ ledger'[n + 1] = row
    BY <1>0, <1>2, Grown
  <2>. SUFFICES ASSUME NEW i \in DOMAIN ledger', ledger'[i].type = "tool_start",
                       ledger'[i].call[2] \in Gated
                PROVE  \E j \in DOMAIN ledger' :
                          /\ ledger'[j].type = "decision" /\ j < i
                          /\ Consents(ledger'[j], ledger'[i].turn, ledger'[i].call)
    BY DEF GateHolds, RowsOf
  <2>2. CASE i \in DOMAIN ledger
    <3>1. \E j \in DOMAIN ledger : /\ ledger[j].type = "decision" /\ j < i
                                   /\ Consents(ledger[j], ledger[i].turn, ledger[i].call)
      BY <2>1, <2>2 DEF GateHolds, RowsOf
    <3>. QED
      BY <2>1, <2>2, <3>1
  <2>3. CASE i = n + 1
    <3>1. PICK j \in DOMAIN ledger : Consents(ledger[j], row.turn, row.call)
      BY <1>2, <2>1, <2>3 DEF Allowed
    <3>2. ledger[j].type = "decision" /\ j < i
      BY <2>1, <2>3, <3>1 DEF Consents, IsFor, IsOf
    <3>. QED
      BY <2>1, <2>3, <3>1, <3>2
  <2>. QED
    BY <2>1, <2>2, <2>3
<1>3. ASSUME NEW t \in Turns, NEW c \in Calls, StartCall(t, c) PROVE GateHolds'
  <2> DEFINE row == ToolStartRow(t, <<t, c>>)
  <2>1. row \in Rows
    BY RowsAreRows DEF CallIds
  <2>2. row.turn = t /\ row.call = <<t, c>>
    BY DEF ToolStartRow, Row
  <2>3. work[<<t, c>>] # "none"
    BY <1>3 DEF StartCall, WorkStep
  <2>4. c \in Gated => Allowed(ledger, t, <<t, c>>)
    BY <2>3 DEF GateInv
  <2>5. ledger' = Append(ledger, row)
    BY <1>3 DEF StartCall
  <2>. HIDE DEF row
  <2>. QED
    BY <1>2, <2>1, <2>2, <2>4, <2>5
<1>. QED
  BY <1>1, <1>2, <1>3, LedgerSteps DEF Appends

\* No handler of a call that needs approval is started before the user's
\* consent to it is durable: whatever crashes, cancels, times out or is
\* attached again, for any number of turns and calls.
THEOREM GateAlwaysHolds == Spec => []GateHolds
<1>1. Init => TypeInv /\ GateInv /\ GateHolds
  <2>1. Init => GateInv
    BY DEF Init, GateInv, CallIds
  <2>2. Init => GateHolds
    BY DEF Init, GateHolds, RowsOf
  <2>. QED
    BY <2>1, <2>2, InitTypeInv
<1>2. TypeInv /\ GateInv /\ GateHolds /\ [Next]_vars => (TypeInv /\ GateInv /\ GateHolds)'
  BY StepTypeInv, StepGateInv, StepGateHolds
<1>. QED
  BY <1>1, <1>2, PTL DEF Spec
=============================================================================
