--------------------------- MODULE TurnProperties ---------------------------
(***************************************************************************)
(* What the life of a session's turns must satisfy.                        *)
(***************************************************************************)
EXTENDS TurnRuntime

RowsOf(type) == {i \in DOMAIN ledger : ledger[i].type = type}

-----------------------------------------------------------------------------
(* The promises of the session, read off the ledger.                       *)

\* What the rows of a type say about the calls of their own turn.
Said(type) ==
    {<<ledger[i].call, ledger[i].status>> :
        i \in {j \in RowsOf(type) : ledger[j].turn = ledger[j].call[1]}}
Outcomes == {<<ledger[i].turn, ledger[i].status>> : i \in RowsOf("terminal")}

Promises == INSTANCE TurnPromises WITH
    GatedIds <- Turns \X Gated,
    Outcomes <- Terminal,
    Results  <- FinalResult,
    accepted <- {ledger[i].turn : i \in RowsOf("accepted")},
    verdict  <- Said("decision"),
    begun    <- {said[1] : said \in Said("tool_start")},
    result   <- Said("tool_result"),
    outcome  <- Outcomes

\* The ledger keeps the session's promises: one answer, one result and one
\* outcome each, in order, over settle_tool, turn_terminal, the commit of a
\* decision and every thread left behind.
PromisesKept == Promises!Spec

\* The rows of which a turn, or a call of a turn, has one.
OnceTypes == {"accepted", "tool_result", "ask", "decision", "terminal"}

\* Facts are written once: no call of a turn has two results, no turn two
\* settlements, no interaction two requests or two answers.  Looking a fact
\* up is not enough when a thread left behind writes it too.
FactsWrittenOnce ==
    \A j \in {k \in DOMAIN ledger : ledger[k].type \in OnceTypes} :
        \A i \in 1..(j - 1) :
            ledger[i].type = ledger[j].type
            => \/ ledger[i].turn # ledger[j].turn
               \/ ledger[i].call # ledger[j].call

\* A tool that needs approval is never started before the user's consent to
\* that very call is durable: not by a resumed graph, not after a restart.
GateHolds ==
    \A i \in RowsOf("tool_start") :
        ledger[i].call[2] \in Gated =>
            \E j \in RowsOf("decision") :
                j < i /\ Consents(ledger[j], ledger[i].turn, ledger[i].call)

\* A turn reported as completed has accounted for every call its responses
\* defined, and none of them has an unknown outcome.
CompletedIsAccounted ==
    \A i \in RowsOf("terminal") : ledger[i].status = "completed" =>
        LET t == ledger[i].turn IN
        \A j \in RowsOf("response") : ledger[j].turn = t /\ j < i =>
            \A c \in ledger[j].calls :
                \E k \in RowsOf("tool_result") :
                    k < i /\ ledger[k].turn = t /\ ledger[k].call = <<t, c>>
                          /\ ledger[k].status # "unknown"

-----------------------------------------------------------------------------
(* The checkpoint against the ledger.                                      *)

\* The checkpoint never runs ahead of the ledger: its cursor is inside it,
\* its results are the ledger's, and when it waits its request is recorded.
\* Of two turns and a cancel the part about results is too much to ask: see
\* the README.
CheckpointFollowsLedger ==
    cp.turn # NoTurn =>
        /\ cp.seen <= Len(ledger)
        /\ \A c \in Calls : cp.calls[c] \in FinalResult =>
               /\ Resulted(ledger, cp.turn, <<cp.turn, c>>)
               /\ ResultOf(ledger, cp.turn, <<cp.turn, c>>) = cp.calls[c]
        /\ cp.status = "waiting_user" =>
               cp.pend # NoPending /\ Asked(ledger, cp.turn, <<cp.turn, cp.pend>>)

\* A row the cursor has passed is never read again, so a live checkpoint
\* already holds what it says: no settlement of the turn, no result of a call
\* of its step and no start of one is behind its back.  (The repair of a
\* cancelled turn settles calls in the ledger alone; the turn ends next.)
\* An ended one is of a settled turn.  Of two turns that both ask and one
\* cancel this last part is too much to ask: see the README.
NothingSkipped ==
    /\ cp.turn # NoTurn /\ ~Ended(cp.status) =>
        \A i \in 1 .. cp.seen : ledger[i].turn = cp.turn =>
            /\ ledger[i].type # "terminal"
            /\ \A c \in Calls : ledger[i].call = <<cp.turn, c>> /\ cp.calls[c] # "none" =>
                   /\ ledger[i].type = "tool_result" /\ ledger[i].status # "cancelled"
                          => cp.calls[c] \in FinalResult
                   /\ ledger[i].type = "tool_start"  => cp.calls[c] # "pending"
    /\ Ended(cp.status) => Settled(ledger, cp.turn)

\* A checkpoint that says its turn has ended says so ever after.
TerminalStays ==
    [][Ended(cp.status) /\ cp'.turn = cp.turn => cp'.status = cp.status]_cp

\* The checkpoint goes back to an earlier turn only by the hand of that turn,
\* resumed without the session lock; a recovered, timed-out or restarted turn
\* never overwrites a newer one.
TurnsAdvance == [][cp'.turn >= cp.turn \/ cp'.turn \in resumed]_cp

\* Once a turn is settled it asks nothing, takes no answer, and starts no
\* batch, whatever its coroutine was doing when it was settled.
SettledIsQuiet ==
    [][\A t \in Turns : Settled(ledger, t) =>
          /\ \A i \in DOMAIN ledger' \ DOMAIN ledger :
                ledger'[i].turn = t => ledger'[i].type \notin {"ask", "decision"}
          /\ runner'[t] = "open" => runner[t] = "open"]_vars

-----------------------------------------------------------------------------
(* What holds as long as the process does not die.                         *)

StartsAreSingle ==
    \A i, j \in RowsOf("tool_start") :
        ledger[i].call = ledger[j].call => i = j

\* A call is started at most once: gates, batches and repairs never run it
\* twice.
StartedOnce == faults["crash"] = 0 => StartsAreSingle

\* The event loop runs a coroutine that can go on, a thread goes on, a model
\* request is answered or fails, the batch timer and the 300 s timer of a wait
\* go off.  A tool handler need not return and a user need not act.
Fairness ==
    /\ WF_vars(Recover)
    /\ \A t \in Turns :
        /\ WF_vars(Coroutine(t)) /\ WF_vars(FlushCheckpoint(t))
        /\ WF_vars(AgentThread(t))
        /\ WF_vars(BatchTimeout(t)) /\ WF_vars(\E c \in Calls : LeaveCall(t, c))
        /\ WF_vars(BeginResume(t, "deny"))

FairSpec == Spec /\ Fairness

\* The process does not die: nothing starts a turn anew whose process died
\* before its client comes back.
ProcessLives == [](faults["crash"] = 0)

\* A turn whose graph has started is settled in the end: by its answer, an
\* unknown outcome, a time-out or a cancel, wherever they find it.
TurnsEnd ==
    ProcessLives => \A t \in Turns : pc[t] = "agent" ~> Settled(ledger, t)

\* The checkpoint learns that its turn has ended.
CheckpointCatchesUp ==
    ProcessLives => \A t \in Turns : cp.turn = t /\ Settled(ledger, t) ~> cp.turn # t \/ Ended(cp.status)

\* A coroutine comes to an end: no finalization waits for another for ever.
RunsEnd == ProcessLives => \A t \in Turns : pc[t] # "idle" ~> pc[t] = "idle"

-----------------------------------------------------------------------------
(* What the repository says and the code does not keep.                    *)

\* A session has one turn in progress: a second one is refused.
Executing(t) == pc[t] \in GraphPC \cup {"settle"}
OneTurnInProgress == \A t, u \in Turns : Executing(t) /\ Executing(u) => t = u

\* "One durable final result per call, shared by active workers and recovery":
\* two results are of two calls, whichever turn they are written under.
OneResultPerCall ==
    \A i, j \in RowsOf("tool_result") : ledger[i].call = ledger[j].call => i = j

\* A call with an unknown outcome fails its turn.
UnknownFailsTurn ==
    \A i \in RowsOf("tool_result"), j \in RowsOf("terminal") :
        ledger[i].status = "unknown" /\ ledger[i].turn = ledger[j].turn /\ i < j =>
            ledger[j].status # "completed"
=============================================================================
