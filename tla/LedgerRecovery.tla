--------------------------- MODULE LedgerRecovery ---------------------------
(***************************************************************************)
(* What recover_ledger_tail reads: the state that results from replaying,   *)
(* over a checkpoint, the ledger rows behind the checkpoint's cursor.       *)
(* The rows it then writes are the Recover actions of TurnRuntime.          *)
(*                                                                         *)
(* The code walks the rows once, in order; what it ends with is stated here *)
(* by the row that decides each field.                                      *)
(***************************************************************************)
EXTENDS TurnLedger

\* A snapshot of the graph state: the turn in scope, its status, the ledger
\* cursor, the calls of the current step, the call with a pending interaction
\* (0: none) and the call of a native interrupt the checkpointer keeps.
NoTurn    == 0
NoPending == 0
Snapshots == [turn   : Turns \cup {NoTurn},
              status : TurnStatus \cup {"none"},
              seen   : Nat,
              calls  : [Calls -> CallStatus],
              pend   : Calls \cup {NoPending},
              intr   : Calls \cup {NoPending}]

NoCallsYet    == [c \in Calls |-> "none"]
EmptySnapshot == [turn |-> NoTurn, status |-> "none", seen |-> 0,
                  calls |-> NoCallsYet, pend |-> NoPending, intr |-> NoPending]

\* _new_run_state: the state a new turn starts from, at its accepted row.
NewRunState(t, seq) == [EmptySnapshot EXCEPT !.turn = t, !.status = "created", !.seen = seq]

-----------------------------------------------------------------------------
\* Mutant: the replay overlooks that the turn was settled.
BehindUnsettled(L, s) ==
    {i \in DOMAIN L : i > s.seen /\ L[i].turn = s.turn /\ L[i].type # "terminal"}

Behind(L, s)            == {i \in DOMAIN L : i > s.seen /\ L[i].turn = s.turn}
BehindOf(L, s, types)   == {i \in Behind(L, s) : L[i].type \in types}
BehindCall(L, s, ty, c) == {i \in BehindOf(L, s, {ty}) : L[i].call = <<s.turn, c>>}

\* The pending interaction when row i is read: that of the latest request
\* before it, unless the turn ended since; else the snapshot's.
PendingAt(L, s, i) ==
    LET C == {j \in BehindOf(L, s, {"ask", "terminal"}) : j < i}
        Asks(j, c) == L[j].type = "ask" /\ L[j].call = <<s.turn, c>>
    IN  IF \E j \in C, c \in Calls : IsLatest(j, C) /\ Asks(j, c)
        THEN CHOOSE c \in Calls : \E j \in C : IsLatest(j, C) /\ Asks(j, c)
        ELSE IF C = {} THEN s.pend ELSE NoPending

\* A decision that answers no pending interaction fails the turn.
OrphanDecisions(L, s) ==
    {i \in BehindOf(L, s, {"decision"}) : L[i].call # <<s.turn, PendingAt(L, s, i)>>}

ReplayedStatus(L, s) ==
    LET C == BehindOf(L, s, {"ask", "terminal"}) \cup OrphanDecisions(L, s)
        Says(i, x) == x = CASE L[i].type = "terminal" -> L[i].status
                            [] L[i].type = "ask"      -> "waiting_user"
                            [] L[i].type = "decision" -> "failed"
    IN  IF \E i \in C, x \in TurnStatus : IsLatest(i, C) /\ Says(i, x)
        THEN CHOOSE x \in TurnStatus : \E i \in C : IsLatest(i, C) /\ Says(i, x)
        ELSE s.status

\* Why the replay finds the turn ended; "" if it does not.
ReplayedReason(L, s) ==
    LET C == BehindOf(L, s, {"ask", "terminal"})
    IN  IF \E i \in C : IsLatest(i, C) /\ L[i].reason = "execution_outcome_unknown"
        THEN "execution_outcome_unknown" ELSE ""

ReplayedPending(L, s) == PendingAt(L, s, Len(L) + 1)

\* A result settles a call for good; a start without a result leaves it
\* running; a definition alone leaves it pending.
ReplayedCall(L, s, c) ==
    LET R == BehindCall(L, s, "tool_result", c)
    IN  IF \E x \in FinalResult : \E i \in R : L[i].status = x
        THEN CHOOSE x \in FinalResult : \E i \in R : L[i].status = x
        ELSE IF s.calls[c] \notin FinalResult /\ BehindCall(L, s, "tool_start", c) # {}
        THEN "running"
        ELSE IF s.calls[c] = "none" /\ \E i \in BehindOf(L, s, {"response"}) : c \in L[i].calls
        THEN "pending"
        ELSE s.calls[c]

\* Model requests that were started and neither answered nor settled.
UnresolvedRequests(L, s) ==
    {r \in Requests :
        /\ \E i \in BehindOf(L, s, {"model_start"}) : L[i].req = r
        /\ \A i \in BehindOf(L, s, {"model_failed", "response"}) : L[i].req # r}

Replayed(L, s) ==
    [s EXCEPT !.status = ReplayedStatus(L, s),
              !.seen   = Len(L),
              !.calls  = [c \in Calls |-> ReplayedCall(L, s, c)],
              !.pend   = ReplayedPending(L, s)]

\* The state synthesized when rows exist but no checkpoint does is that of the
\* last accepted turn, from the start of the ledger.
IsLastAccepted(L, t) == Accepted(L, t) /\ \A u \in Turns : Accepted(L, u) => u <= t
Synthesized(t)       == NewRunState(t, 0)
=============================================================================
