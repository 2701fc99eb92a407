-------------------------- MODULE TurnLedger_proofs --------------------------
(***************************************************************************)
(* Facts about the rows of the ledger and the operations that append them,  *)
(* for every ledger: what a row is, that an operation leaves the ledger     *)
(* alone or appends one row, and that what it promises to record is there.  *)
(***************************************************************************)
EXTENDS LedgerRecovery, SequenceTheorems, FiniteSetTheorems, WellFoundedInduction, TLAPS

\* Every constructor makes a row.
LEMMA RowsAreRows ==
    ASSUME NEW t \in Turns
    PROVE  /\ AcceptedRow(t) \in Rows
           /\ \A r \in Nat : ModelStartRow(t, r) \in Rows /\ ModelFailedRow(t, r) \in Rows
           /\ \A r \in Nat, S \in SUBSET Calls : ResponseRow(t, r, S) \in Rows
           /\ \A id \in CallIds : ToolStartRow(t, id) \in Rows /\ AskRow(t, id) \in Rows
           /\ \A id \in CallIds, s \in FinalResult :
                 ResultRow(t, id, s) \in Rows /\ LateRow(t, id, s) \in Rows
           /\ \A id \in CallIds, d \in Decision : DecisionRow(t, id, d) \in Rows
           /\ \A s \in Terminal, y \in Reason : TerminalRow(t, s, y) \in Rows
<1> USE DEF Rows, RowShape, Row, RowType, Reason, NoCall, NoReq, NoCalls
<1>1. AcceptedRow(t) \in Rows
  BY DEF AcceptedRow
<1>2. ASSUME NEW r \in Nat PROVE ModelStartRow(t, r) \in Rows /\ ModelFailedRow(t, r) \in Rows
  BY DEF ModelStartRow, ModelFailedRow
<1>3. ASSUME NEW r \in Nat, NEW S \in SUBSET Calls PROVE ResponseRow(t, r, S) \in Rows
  BY DEF ResponseRow
<1>4. ASSUME NEW id \in CallIds PROVE ToolStartRow(t, id) \in Rows /\ AskRow(t, id) \in Rows
  BY DEF ToolStartRow, AskRow
<1>5. ASSUME NEW id \in CallIds, NEW s \in FinalResult
      PROVE  ResultRow(t, id, s) \in Rows /\ LateRow(t, id, s) \in Rows
  BY DEF ResultRow, LateRow
<1>6. ASSUME NEW id \in CallIds, NEW d \in Decision PROVE DecisionRow(t, id, d) \in Rows
  BY DEF DecisionRow
<1>7. ASSUME NEW s \in Terminal, NEW y \in Reason PROVE TerminalRow(t, s, y) \in Rows
  BY DEF TerminalRow
<1>. QED
  BY <1>1, <1>2, <1>3, <1>4, <1>5, <1>6, <1>7

\* A ledger only grows: what an append leaves in place, and what it adds.
LEMMA Grown ==
    ASSUME NEW L \in Seq(Rows), NEW row \in Rows
    PROVE  /\ Append(L, row) \in Seq(Rows)
           /\ Len(L) \in Nat /\ Len(Append(L, row)) = Len(L) + 1
           /\ DOMAIN L = 1 .. Len(L) /\ DOMAIN Append(L, row) = 1 .. (Len(L) + 1)
           /\ \A i \in DOMAIN L : i \in DOMAIN Append(L, row) /\ Append(L, row)[i] = L[i]
           /\ Append(L, row)[Len(L) + 1] = row
  OBVIOUS

\* What a ledger with one row more says: what it said, and what the row says.
LEMMA GrownHas ==
    ASSUME NEW L \in Seq(Rows), NEW row \in Rows, NEW type, NEW t
    PROVE  Has(Append(L, row), type, t) <=> Has(L, type, t) \/ IsOf(row, type, t)
  BY Grown DEF Has

LEMMA GrownHasCall ==
    ASSUME NEW L \in Seq(Rows), NEW row \in Rows, NEW type, NEW t, NEW id
    PROVE  HasCall(Append(L, row), type, t, id) <=> HasCall(L, type, t, id) \/ IsFor(row, type, t, id)
  BY Grown DEF HasCall

\* The result of a call that has one is a final result.
LEMMA ResultOfType ==
    ASSUME NEW L \in Seq(Rows), NEW t, NEW id, Resulted(L, t, id)
    PROVE  ResultOf(L, t, id) \in FinalResult
<1>1. PICK i \in DOMAIN L : IsFor(L[i], "tool_result", t, id)
  BY DEF Resulted, HasCall
<1>2. L[i] \in Rows
  BY ElementOfSeq
<1>3. L[i].status \in FinalResult
  BY <1>1, <1>2 DEF Rows, IsFor, IsOf
<1>. QED
  BY <1>1, <1>3 DEF ResultOf

\* settle_tool appends at most one row, a result or evidence, and the call has
\* a result afterwards.
LEMMA SettleToolAppends ==
    ASSUME NEW L \in Seq(Rows), NEW t \in Turns, NEW id \in CallIds, NEW s \in FinalResult
    PROVE  /\ \/ SettleTool(L, t, id, s) = L
              \/ \E row \in Rows : /\ SettleTool(L, t, id, s) = Append(L, row)
                                   /\ row.type \in {"tool_result", "late"}
           /\ SettleTool(L, t, id, s) \in Seq(Rows)
           /\ Resulted(SettleTool(L, t, id, s), t, id)
<1>1. ResultRow(t, id, s) \in Rows /\ LateRow(t, id, s) \in Rows
  BY RowsAreRows
<1>2. /\ IsFor(ResultRow(t, id, s), "tool_result", t, id)
      /\ LateRow(t, id, s).type = "late"
  BY DEF ResultRow, LateRow, Row, IsFor, IsOf
<1>3. CASE ~Resulted(L, t, id)
  <2>1. SettleTool(L, t, id, s) = Append(L, ResultRow(t, id, s))
    BY <1>3 DEF SettleTool
  <2>2. Resulted(Append(L, ResultRow(t, id, s)), t, id)
    <3>1. /\ Len(L) + 1 \in DOMAIN Append(L, ResultRow(t, id, s))
          /\ Append(L, ResultRow(t, id, s))[Len(L) + 1] = ResultRow(t, id, s)
      BY <1>1, Grown
    <3>. QED
      BY <1>2, <3>1 DEF Resulted, HasCall
  <2>. QED
    BY <1>1, <1>2, <2>1, <2>2 DEF IsFor, IsOf
<1>4. CASE Resulted(L, t, id)
  <2>1. CASE SettleTool(L, t, id, s) = L
    BY <1>4, <2>1
  <2>2. CASE SettleTool(L, t, id, s) # L
    <3>1. SettleTool(L, t, id, s) = Append(L, LateRow(t, id, s))
      BY <1>4, <2>2 DEF SettleTool
    <3>2. Resulted(Append(L, LateRow(t, id, s)), t, id)
      <4>1. PICK i \in DOMAIN L : IsFor(L[i], "tool_result", t, id)
        BY <1>4 DEF Resulted, HasCall
      <4>2. i \in DOMAIN Append(L, LateRow(t, id, s)) /\ Append(L, LateRow(t, id, s))[i] = L[i]
        BY <1>1, <4>1, Grown
      <4>. QED
        BY <4>1, <4>2 DEF Resulted, HasCall
    <3>. QED
      BY <1>1, <1>2, <3>1, <3>2
  <2>. QED
    BY <2>1, <2>2
<1>. QED
  BY <1>3, <1>4

\* turn_terminal appends at most one row, and the sequence number it returns
\* is that of a settlement of the turn.
LEMMA TurnTerminalAppends ==
    ASSUME NEW L \in Seq(Rows), NEW t \in Turns, NEW s \in Terminal, NEW y \in Reason
    PROVE  /\ \/ TurnTerminal(L, t, s, y) = L
              \/ \E row \in Rows : /\ TurnTerminal(L, t, s, y) = Append(L, row)
                                   /\ row.type = "terminal"
           /\ TurnTerminal(L, t, s, y) \in Seq(Rows)
           /\ TerminalSeq(TurnTerminal(L, t, s, y), t) \in Nat
<1> DEFINE K == TurnTerminal(L, t, s, y)
<1>1. TerminalRow(t, s, y) \in Rows
  BY RowsAreRows
<1>2. IsOf(TerminalRow(t, s, y), "terminal", t)
  BY DEF TerminalRow, Row, IsOf
<1>3. K \in Seq(Rows) /\ \E i \in DOMAIN K : IsOf(K[i], "terminal", t)
  <2>1. CASE Settled(L, t)
    BY <2>1 DEF Settled, Has, TurnTerminal
  <2>2. CASE ~Settled(L, t)
    <3>1. K = Append(L, TerminalRow(t, s, y))
      BY <2>2 DEF TurnTerminal
    <3>. QED
      BY <1>1, <1>2, <3>1, Grown
  <2>. QED
    BY <2>1, <2>2
<1>4. TerminalSeq(K, t) \in DOMAIN K
  BY <1>3 DEF TerminalSeq
<1>5. DOMAIN K \subseteq Nat
  BY <1>3
<1>. QED
  BY <1>1, <1>2, <1>3, <1>4, <1>5 DEF TurnTerminal, IsOf

\* model_failed and _interaction_request append at most one row.
LEMMA ModelFailedAppends ==
    ASSUME NEW L \in Seq(Rows), NEW t \in Turns, NEW r \in Nat
    PROVE  \/ ModelFailed(L, t, r) = L
           \/ \E row \in Rows : /\ ModelFailed(L, t, r) = Append(L, row)
                                /\ row.type = "model_failed"
<1>1. ModelFailedRow(t, r) \in Rows /\ ModelFailedRow(t, r).type = "model_failed"
  BY RowsAreRows DEF ModelFailedRow, Row
<1>. QED
  BY <1>1 DEF ModelFailed

LEMMA InteractionRequestAppends ==
    ASSUME NEW L \in Seq(Rows), NEW t \in Turns, NEW id \in CallIds
    PROVE  \/ InteractionRequest(L, t, id) = L
           \/ \E row \in Rows : /\ InteractionRequest(L, t, id) = Append(L, row)
                                /\ row.type = "ask"
<1>1. AskRow(t, id) \in Rows /\ AskRow(t, id).type = "ask"
  BY RowsAreRows DEF AskRow, Row
<1>. QED
  BY <1>1 DEF InteractionRequest

\* A set of numbers has a least one, and a bounded one a latest.
LEMMA LeastNat ==
    ASSUME NEW T \in SUBSET Nat, T # {}
    PROVE  \E x \in T : \A y \in T : x <= y
<1> DEFINE R == OpToRel(<, Nat)
<1>1. IsWellFoundedOn(R, Nat)
  BY NatLessThanWellFounded
<1>2. \A x, y \in Nat : y < x => <<y, x>> \in R
  BY DEF OpToRel
<1>. HIDE DEF R
<1>3. PICK x \in T : \A y \in T : <<y, x>> \notin R
  BY <1>1, WFMin
<1>4. \A y \in T : y \in Nat /\ x \in Nat
  OBVIOUS
<1>5. \A y \in T : ~(y < x)
  BY <1>2, <1>3, <1>4, Zenon
<1>6. ASSUME NEW y \in T PROVE x <= y
  BY <1>4, <1>5
<1>. QED
  BY <1>6

LEMMA LatestExists ==
    ASSUME NEW n \in Nat, NEW S \in SUBSET (1 .. n), S # {}
    PROVE  \E i \in S : IsLatest(i, S)
<1> DEFINE T == {k \in Nat : \E i \in S : k = n - i}
<1>1. \A i \in S : i \in Nat /\ i <= n /\ n - i \in T
  OBVIOUS
<1>2. T \in SUBSET Nat /\ T # {}
  BY <1>1
<1>3. PICK k \in T : \A y \in T : k <= y
  BY <1>2, LeastNat
<1>4. PICK i \in S : k = n - i
  BY <1>3
<1>5. ASSUME NEW j \in S PROVE j <= i
  <2>1. n - j \in T /\ j \in Nat /\ i \in Nat
    BY <1>1
  <2>2. k <= n - j
    BY <1>3, <2>1
  <2>. QED
    BY <1>4, <2>1, <2>2
<1>. QED
  BY <1>5 DEF IsLatest

\* The number of requests a turn has started is a number.
LEMMA StartedType ==
    ASSUME NEW L \in Seq(Rows), NEW t
    PROVE  Started(L, t) \in Nat
<1> DEFINE S == {i \in DOMAIN L : IsOf(L[i], "model_start", t)}
<1>1. IsFiniteSet(1 .. Len(L))
  BY FS_Interval, Len(L) \in Nat
<1>2. S \subseteq 1 .. Len(L)
  OBVIOUS
<1>3. IsFiniteSet(S)
  BY <1>1, <1>2, FS_Subset
<1>. QED
  BY <1>3, FS_CardinalityType DEF Started
-----------------------------------------------------------------------------
(* The replay of the ledger over a checkpoint, for every ledger and every    *)
(* checkpoint: it makes a snapshot of the same turn, and over no turn at all *)
(* it finds nothing.                                                       *)

LEMMA EmptySnapshotType == EmptySnapshot \in Snapshots /\ EmptySnapshot.turn = NoTurn
  BY DEF EmptySnapshot, Snapshots, NoCallsYet, CallStatus, NoTurn

LEMMA NewRunStateType ==
    ASSUME NEW t \in Turns, NEW n \in Nat
    PROVE  NewRunState(t, n) \in Snapshots /\ NewRunState(t, n).turn = t
  BY DEF NewRunState, EmptySnapshot, Snapshots, NoCallsYet, CallStatus, TurnStatus

LEMMA PendingAtType ==
    ASSUME NEW L, NEW s \in Snapshots, NEW i
    PROVE  PendingAt(L, s, i) \in Calls \cup {NoPending}
<1> DEFINE C == {j \in BehindOf(L, s, {"ask", "terminal"}) : j < i}
           Asks(j, c) == L[j].type = "ask" /\ L[j].call = <<s.turn, c>>
           pending == CHOOSE c \in Calls : \E j \in C : IsLatest(j, C) /\ Asks(j, c)
<1>1. PendingAt(L, s, i) = IF \E j \in C, c \in Calls : IsLatest(j, C) /\ Asks(j, c)
                           THEN pending ELSE IF C = {} THEN s.pend ELSE NoPending
  BY DEF PendingAt
<1>2. s.pend \in Calls \cup {NoPending}
  BY DEF Snapshots
<1>. HIDE DEF C, Asks
<1>3. (\E j \in C, c \in Calls : IsLatest(j, C) /\ Asks(j, c)) => pending \in Calls
  OBVIOUS
<1>. QED
  BY <1>1, <1>2, <1>3

LEMMA ReplayedStatusType ==
    ASSUME NEW L, NEW s \in Snapshots
    PROVE  ReplayedStatus(L, s) \in TurnStatus \cup {"none"}
<1>1. s.status \in TurnStatus \cup {"none"}
  BY DEF Snapshots
<1>. QED
  BY <1>1 DEF ReplayedStatus

LEMMA ReplayedCallType ==
    ASSUME NEW L, NEW s \in Snapshots, NEW c \in Calls
    PROVE  ReplayedCall(L, s, c) \in CallStatus
<1>1. s.calls[c] \in CallStatus
  BY DEF Snapshots
<1>. QED
  BY <1>1 DEF ReplayedCall, CallStatus

LEMMA ReplayedReasonType ==
    ASSUME NEW L, NEW s PROVE ReplayedReason(L, s) \in Reason
  BY DEF ReplayedReason, Reason

LEMMA ReplayedType ==
    ASSUME NEW L \in Seq(Rows), NEW s \in Snapshots
    PROVE  Replayed(L, s) \in Snapshots /\ Replayed(L, s).turn = s.turn
<1>1. [c \in Calls |-> ReplayedCall(L, s, c)] \in [Calls -> CallStatus]
  BY ReplayedCallType
<1>2. ReplayedPending(L, s) \in Calls \cup {NoPending}
  BY PendingAtType DEF ReplayedPending
<1>3. ReplayedStatus(L, s) \in TurnStatus \cup {"none"} /\ Len(L) \in Nat
  BY ReplayedStatusType
<1>. QED
  BY <1>1, <1>2, <1>3 DEF Replayed, Snapshots

\* Without a turn in scope no row is behind the cursor: the replay finds no
\* status, no call and no request, and recovery will have nothing to write.
LEMMA ReplayOfNothing ==
    ASSUME NEW L \in Seq(Rows)
    PROVE  /\ Replayed(L, EmptySnapshot).status = "none"
           /\ \A c \in Calls : Replayed(L, EmptySnapshot).calls[c] = "none"
           /\ UnresolvedRequests(L, EmptySnapshot) = {}
<1> DEFINE s == EmptySnapshot
<1>0. /\ s \in Snapshots /\ s.turn = NoTurn /\ s.status = "none"
      /\ \A c \in Calls : s.calls[c] = "none"
  BY EmptySnapshotType DEF EmptySnapshot, NoCallsYet
<1>1. Behind(L, s) = {}
  <2>1. ASSUME NEW i \in DOMAIN L PROVE L[i].turn # NoTurn
    <3>1. L[i] \in Rows
      BY ElementOfSeq
    <3>2. L[i].turn \in Turns
      BY <3>1 DEF Rows, RowShape
    <3>. QED
      BY <3>2 DEF Turns, NoTurn
  <2>. QED
    BY <1>0, <2>1 DEF Behind
<1>2. \A T : BehindOf(L, s, T) = {}
  BY <1>1 DEF BehindOf
<1>3. OrphanDecisions(L, s) = {}
  BY <1>2 DEF OrphanDecisions
<1>4. ReplayedStatus(L, s) = "none"
  BY <1>0, <1>2, <1>3 DEF ReplayedStatus, IsLatest
<1>5. ASSUME NEW c \in Calls PROVE ReplayedCall(L, s, c) = "none"
  <2>1. \A ty : BehindCall(L, s, ty, c) = {}
    BY <1>2 DEF BehindCall
  <2>. QED
    BY <1>0, <1>2, <2>1 DEF ReplayedCall, FinalResult
<1>6. UnresolvedRequests(L, s) = {}
  BY <1>2 DEF UnresolvedRequests
<1>. QED
  BY <1>0, <1>4, <1>5, <1>6 DEF Replayed, Snapshots

-----------------------------------------------------------------------------
(* What the replay of a snapshot the ledger bears out finds.               *)

\* The result x is recorded for the call c of turn t, in a row of whatever turn.
Recorded(L, t, c, x) ==
    \E i \in DOMAIN L :
        L[i].type = "tool_result" /\ L[i].call = <<t, c>> /\ L[i].status = x

\* A snapshot that the ledger bears out: its turn has been accepted, its
\* cursor is inside, the calls with a result have one under their turn and
\* that result is recorded, and the call it waits for is a gated one that has
\* been asked for.
Sound(L, s) ==
    s.turn # NoTurn =>
        /\ Accepted(L, s.turn)
        /\ s.seen <= Len(L)
        /\ \A c \in Calls : s.calls[c] \in FinalResult =>
               Resulted(L, s.turn, <<s.turn, c>>) /\ Recorded(L, s.turn, c, s.calls[c])
        /\ s.pend # NoPending => s.pend \in Gated /\ Asked(L, s.turn, <<s.turn, s.pend>>)
        /\ s.status = "waiting_user" => s.pend # NoPending

\* Requests for approval are for gated calls of their own turn.
AsksAreGated(L) ==
    \A i \in DOMAIN L : L[i].type = "ask" => L[i].call[1] = L[i].turn /\ L[i].call[2] \in Gated

\* The pending call is the snapshot's, or the rows ask for it.
LEMMA PendingIsAsked ==
    ASSUME NEW L \in Seq(Rows), NEW s \in Snapshots, NEW i,
           PendingAt(L, s, i) # NoPending, PendingAt(L, s, i) # s.pend
    PROVE  Asked(L, s.turn, <<s.turn, PendingAt(L, s, i)>>)
<1> DEFINE C == {j \in BehindOf(L, s, {"ask", "terminal"}) : j < i}
           Asks(j, c) == L[j].type = "ask" /\ L[j].call = <<s.turn, c>>
           p == PendingAt(L, s, i)
<1>1. p = IF \E j \in C, c \in Calls : IsLatest(j, C) /\ Asks(j, c)
          THEN CHOOSE c \in Calls : \E j \in C : IsLatest(j, C) /\ Asks(j, c)
          ELSE IF C = {} THEN s.pend ELSE NoPending
  BY DEF PendingAt
<1>2. C \subseteq DOMAIN L /\ \A j \in C : L[j].turn = s.turn
  BY DEF BehindOf, Behind
<1>. HIDE DEF C, p
<1>3. \E j \in C : Asks(j, p)
  BY <1>1 DEF p
<1>. QED
  BY <1>2, <1>3 DEF Asked, HasCall, IsFor, IsOf, p

\* A replay that ends waiting has something to wait for.
LEMMA ReplayWaits ==
    ASSUME NEW L \in Seq(Rows), NEW s \in Snapshots, AsksAreGated(L),
           s.status = "waiting_user" => s.pend # NoPending,
           ReplayedStatus(L, s) = "waiting_user"
    PROVE  ReplayedPending(L, s) # NoPending
<1> DEFINE A == BehindOf(L, s, {"ask", "terminal"})
           D == OrphanDecisions(L, s)
           C == A \cup D
           Asks(j, c) == L[j].type = "ask" /\ L[j].call = <<s.turn, c>>
           Says(i, x) == x = CASE L[i].type = "terminal" -> L[i].status
                               [] L[i].type = "ask"      -> "waiting_user"
                               [] L[i].type = "decision" -> "failed"
           Pending(B) == IF \E j \in B, c \in Calls : IsLatest(j, B) /\ Asks(j, c)
                         THEN CHOOSE c \in Calls : \E j \in B : IsLatest(j, B) /\ Asks(j, c)
                         ELSE IF B = {} THEN s.pend ELSE NoPending
<1>0. Len(L) \in Nat /\ DOMAIN L = 1 .. Len(L)
  OBVIOUS
<1>1. /\ C \in SUBSET (1 .. Len(L)) /\ \A i \in C : L[i] \in Rows /\ L[i].turn = s.turn
      /\ \A i \in A : L[i].type \in {"ask", "terminal"}
      /\ \A i \in D : L[i].type = "decision"
  BY <1>0, ElementOfSeq DEF OrphanDecisions, BehindOf, Behind
<1>2. ReplayedPending(L, s) = Pending(A)
  <2>1. {j \in A : j < Len(L) + 1} = A
    BY <1>0, <1>1
  <2>2. PendingAt(L, s, Len(L) + 1) = Pending({j \in A : j < Len(L) + 1})
    BY DEF PendingAt
  <2>. HIDE DEF Pending, A
  <2>. QED
    BY <2>1, <2>2 DEF ReplayedPending
<1>3. ReplayedStatus(L, s) = IF \E i \in C, x \in TurnStatus : IsLatest(i, C) /\ Says(i, x)
                             THEN CHOOSE x \in TurnStatus : \E i \in C : IsLatest(i, C) /\ Says(i, x)
                             ELSE s.status
  BY DEF ReplayedStatus
<1>4. \A i \in A : L[i].type = "terminal" => L[i].status \in Terminal
  BY <1>1 DEF Rows
<1>5. CASE C = {}
  <2>1. s.pend # NoPending
    BY <1>3, <1>5
  <2>. QED
    BY <1>2, <1>5, <2>1
<1>6. CASE C # {}
  <2>. HIDE DEF A, D
  <2>1. PICK i \in C : IsLatest(i, C)
    BY <1>0, <1>1, <1>6, LatestExists
  <2>2. \E x \in TurnStatus : Says(i, x)
    BY <1>1, <1>4, <2>1 DEF TurnStatus, Terminal
  <2>3. PICK k \in C : IsLatest(k, C) /\ Says(k, "waiting_user")
    BY <1>3, <2>1, <2>2
  <2>4. k \in A /\ L[k].type = "ask"
    BY <1>1, <1>4, <2>3 DEF Terminal
  <2>5. IsLatest(k, A)
    BY <2>3, <2>4 DEF IsLatest
  <2>6. \E c \in Calls : Asks(k, c)
    <3>1. L[k] \in Rows /\ L[k].turn = s.turn /\ k \in DOMAIN L
      BY <1>0, <1>1, <2>3
    <3>2. L[k].call \in CallIds /\ L[k].call[1] = s.turn
      BY <2>4, <3>1 DEF Rows, AsksAreGated
    <3>. QED
      BY <2>4, <3>2 DEF CallIds
  <2>7. ReplayedPending(L, s) \in Calls
    BY <1>2, <2>4, <2>5, <2>6
  <2>. QED
    BY <2>7 DEF Calls, NoPending
<1>. QED
  BY <1>5, <1>6

\* The replay of a snapshot that the ledger bears out is one.
LEMMA ReplayIsSound ==
    ASSUME NEW L \in Seq(Rows), NEW s \in Snapshots, AsksAreGated(L), Sound(L, s)
    PROVE  Sound(L, Replayed(L, s))
<1> DEFINE r == Replayed(L, s)
<1>1. /\ r.turn = s.turn /\ r.seen = Len(L) /\ r.status = ReplayedStatus(L, s)
      /\ r.pend = ReplayedPending(L, s)
      /\ \A c \in Calls : r.calls[c] = ReplayedCall(L, s, c)
  BY DEF Replayed, Snapshots
<1>. HIDE DEF r
<1> SUFFICES ASSUME s.turn # NoTurn PROVE Sound(L, r)
  BY <1>1 DEF Sound, r
<1>2. Accepted(L, r.turn) /\ r.seen <= Len(L)
  BY <1>1 DEF Sound
<1>3. ASSUME NEW c \in Calls, r.calls[c] \in FinalResult
      PROVE  Resulted(L, r.turn, <<r.turn, c>>) /\ Recorded(L, r.turn, c, r.calls[c])
  <2> DEFINE R == BehindCall(L, s, "tool_result", c)
  <2>1. \A i \in R : i \in DOMAIN L /\ IsFor(L[i], "tool_result", s.turn, <<s.turn, c>>)
    BY DEF BehindCall, BehindOf, Behind, IsFor, IsOf
  <2>2. CASE \E x \in FinalResult : \E i \in R : L[i].status = x
    <3>1. \E i \in R : L[i].status = r.calls[c]
      BY <1>1, <2>2 DEF ReplayedCall
    <3>. QED
      BY <1>1, <2>1, <3>1 DEF Resulted, HasCall, Recorded, IsFor, IsOf
  <2>3. CASE ~\E x \in FinalResult : \E i \in R : L[i].status = x
    <3>1. r.calls[c] = s.calls[c]
      BY <1>1, <1>3, <2>3 DEF ReplayedCall, FinalResult
    <3>. QED
      BY <1>1, <1>3, <3>1 DEF Sound
  <2>. QED
    BY <2>2, <2>3
<1>4. ASSUME r.pend # NoPending PROVE r.pend \in Gated /\ Asked(L, r.turn, <<r.turn, r.pend>>)
  <2>1. CASE r.pend = s.pend
    BY <1>1, <1>4, <2>1 DEF Sound
  <2>2. CASE r.pend # s.pend
    <3>1. Asked(L, r.turn, <<r.turn, r.pend>>)
      BY <1>1, <1>4, <2>2, PendingIsAsked DEF ReplayedPending
    <3>2. r.pend \in Gated
      BY <3>1 DEF Asked, HasCall, IsFor, IsOf, AsksAreGated
    <3>. QED
      BY <3>1, <3>2
  <2>. QED
    BY <2>1, <2>2
<1>5. r.status = "waiting_user" => r.pend # NoPending
  BY <1>1, ReplayWaits DEF Sound
<1>. QED
  BY <1>2, <1>3, <1>4, <1>5 DEF Sound

\* A start behind the cursor of a call without a result leaves it running.
LEMMA ReplayFindsStarts ==
    ASSUME NEW L \in Seq(Rows), NEW s \in Snapshots, NEW c \in Calls,
           s.turn # NoTurn, Sound(L, s), ~Resulted(L, s.turn, <<s.turn, c>>),
           NEW i \in DOMAIN L, i > s.seen, IsFor(L[i], "tool_start", s.turn, <<s.turn, c>>)
    PROVE  Replayed(L, s).calls[c] = "running"
<1>1. Replayed(L, s).calls[c] = ReplayedCall(L, s, c)
  BY DEF Replayed, Snapshots
<1>2. s.calls[c] \notin FinalResult
  BY DEF Sound
<1>3. BehindCall(L, s, "tool_result", c) = {}
  BY DEF BehindCall, BehindOf, Behind, Resulted, HasCall, IsFor, IsOf
<1>4. i \in BehindCall(L, s, "tool_start", c)
  BY DEF BehindCall, BehindOf, Behind, IsFor, IsOf
<1>. QED
  BY <1>1, <1>2, <1>3, <1>4 DEF ReplayedCall
=============================================================================
