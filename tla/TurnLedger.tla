----------------------------- MODULE TurnLedger -----------------------------
(***************************************************************************)
(* The durable ledger of one session (ledger.jsonl) as the runtime audit    *)
(* and the recovery read and write it: the rows that bear on the control of *)
(* a turn, the append operations that must write a fact at most once, and   *)
(* the replay of the rows behind a checkpoint.                              *)
(*                                                                         *)
(* Abstracted: message bodies, names, timestamps and window resources.      *)
(* Rows of steps, tasks, context windows and memory are left out: replay    *)
(* copies them into fields no decision of this model reads.                 *)
(***************************************************************************)
EXTENDS Naturals, Sequences, FiniteSets

CONSTANTS
    MaxTurn,      \* turns are 1 .. MaxTurn, in the order they are submitted
    MaxCall,      \* a turn's tool calls are 1 .. MaxCall, in request order
    MaxRequest,   \* bound: model requests a turn may start
    Gated         \* the calls whose policy answers "needs_approval"

ASSUME LedgerAssumption ==
    /\ MaxTurn \in Nat \ {0}
    /\ MaxCall \in Nat \ {0}
    /\ MaxRequest \in Nat \ {0}
    /\ Gated \subseteq 1 .. MaxCall

Turns    == 1 .. MaxTurn
Calls    == 1 .. MaxCall
Requests == 1 .. MaxRequest

\* A call identity is unique in the session: the turn whose model response
\* defines the call, and its position.  A row's own turn may be another one.
CallIds == Turns \X Calls
NoCall  == <<0, 0>>
NoReq   == 0

Terminal    == {"completed", "failed", "cancelled"}
TurnStatus  == {"created", "running", "waiting_user"} \cup Terminal
FinalResult == {"succeeded", "denied", "skipped", "cancelled", "unknown"}
CallStatus  == {"none", "pending", "running"} \cup FinalResult
Decision    == {"allow", "deny"}

RowType == {"accepted",      \* message.accepted: the user message of the turn
            "model_start",   \* model.request.started
            "model_failed",  \* model.request.failed / .interrupted
            "response",      \* model.response.completed, defines tool calls
            "tool_start",    \* tool.attempt.started
            "tool_result",   \* tool.attempt.settled: the one final result
            "late",          \* late_result_evidence, diagnostic only
            "ask",           \* interaction.requested
            "decision",      \* interaction.resolved
            "terminal"}      \* turn.settled

\* Why a turn ended, as far as a later decision depends on it.
Reason == {"", "execution_outcome_unknown", "model_request_outcome_unknown", "interrupted_turn"}

NoCalls == {}
RowShape == [type   : RowType,
             turn   : Turns,
             call   : CallIds \cup {NoCall},
             req    : Nat,
             calls  : SUBSET Calls,
             status : {""} \cup FinalResult \cup Terminal \cup Decision,
             reason : Reason]

\* A row of a type names the call and the status its readers rely on.
Rows == {r \in RowShape :
            /\ r.type \in {"tool_start", "tool_result", "ask", "decision"} => r.call \in CallIds
            /\ r.type = "tool_result" => r.status \in FinalResult
            /\ r.type = "decision"    => r.status \in Decision
            /\ r.type = "terminal"    => r.status \in Terminal}

Row(type, t) == [type |-> type, turn |-> t, call |-> NoCall, req |-> NoReq,
                 calls |-> NoCalls, status |-> "", reason |-> ""]

AcceptedRow(t)        == Row("accepted", t)
ModelStartRow(t, r)   == [Row("model_start", t)  EXCEPT !.req = r]
ModelFailedRow(t, r)  == [Row("model_failed", t) EXCEPT !.req = r]
ResponseRow(t, r, S)  == [Row("response", t) EXCEPT !.req = r, !.calls = S]
ToolStartRow(t, id)   == [Row("tool_start", t)   EXCEPT !.call = id]
ResultRow(t, id, s)   == [Row("tool_result", t)  EXCEPT !.call = id, !.status = s]
LateRow(t, id, s)     == [Row("late", t)         EXCEPT !.call = id, !.status = s]
AskRow(t, id)         == [Row("ask", t)          EXCEPT !.call = id]
DecisionRow(t, id, d) == [Row("decision", t)     EXCEPT !.call = id, !.status = d]
TerminalRow(t, s, y)  == [Row("terminal", t)     EXCEPT !.status = s, !.reason = y]

-----------------------------------------------------------------------------
(* Queries (message_by_id and scans of the rows).                          *)

IsOf(row, type, t)       == row.type = type /\ row.turn = t
IsFor(row, type, t, id)  == IsOf(row, type, t) /\ row.call = id
Has(L, type, t)          == \E i \in DOMAIN L : IsOf(L[i], type, t)
HasCall(L, type, t, id)  == \E i \in DOMAIN L : IsFor(L[i], type, t, id)

Accepted(L, t)        == Has(L, "accepted", t)
Settled(L, t)         == Has(L, "terminal", t)
Resulted(L, t, id)    == HasCall(L, "tool_result", t, id)
Asked(L, t, id)       == HasCall(L, "ask", t, id)
Decided(L, t, id)     == HasCall(L, "decision", t, id)
Consents(row, t, id)  == IsFor(row, "decision", t, id) /\ row.status = "allow"
Allowed(L, t, id)     == \E i \in DOMAIN L : Consents(L[i], t, id)

\* The status of the final result of a call, given that there is one.
ResultOf(L, t, id) ==
    CHOOSE s \in FinalResult :
        \E i \in DOMAIN L : IsFor(L[i], "tool_result", t, id) /\ L[i].status = s

\* Model requests a turn has started so far; request ids count up.
Started(L, t) ==
    Cardinality({i \in DOMAIN L : IsOf(L[i], "model_start", t)})

\* The calls of the latest message of the working window that carries any.
\* The window spans turns, so it may be an earlier turn's message.
IsLatest(i, S)  == i \in S /\ \A j \in S : j <= i
DefiningRows(L) == {i \in DOMAIN L : L[i].type = "response" /\ L[i].calls # NoCalls}
LastDefined(L)  ==
    {id \in CallIds : \E i \in DefiningRows(L) :
        IsLatest(i, DefiningRows(L)) /\ L[i].turn = id[1] /\ id[2] \in L[i].calls}

-----------------------------------------------------------------------------
(* Append operations.                                                      *)

\* Mutant: settle_tool without the look-up of an existing settlement.
SettleToolAgain(L, t, id, s) == Append(L, ResultRow(t, id, s))

\* settle_tool: under the settlement lock the first final row of the call
\* wins; a later report that differs becomes evidence, unless it is "unknown".
SettleTool(L, t, id, s) ==
    IF ~Resulted(L, t, id) THEN Append(L, ResultRow(t, id, s))
    ELSE IF s # "unknown" /\ s # ResultOf(L, t, id) THEN Append(L, LateRow(t, id, s))
    ELSE L

\* turn_terminal: repeated finalization reuses the settlement already there.
TurnTerminal(L, t, s, why) ==
    IF Settled(L, t) THEN L ELSE Append(L, TerminalRow(t, s, why))

\* The sequence number turn_terminal returns, given the turn is settled.
TerminalSeq(L, t) == CHOOSE i \in DOMAIN L : IsOf(L[i], "terminal", t)

\* model_failed: one settlement row per request.
ModelFailed(L, t, r) ==
    IF \E i \in DOMAIN L : IsOf(L[i], "model_failed", t) /\ L[i].req = r THEN L
    ELSE Append(L, ModelFailedRow(t, r))

\* _interaction_request: a restarted node reuses its immutable prompt row.
InteractionRequest(L, t, id) == IF Asked(L, t, id) THEN L ELSE Append(L, AskRow(t, id))
=============================================================================
