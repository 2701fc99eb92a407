------------------------------ MODULE StreamInbox ------------------------------
(***************************************************************************)
(* What a client does with the frames of one turn: StreamEventInbox puts   *)
(* them in the order of their transport sequence, waits for a while behind *)
(* a gap and drops what is stale; the page applies what comes out.         *)
(* An inbox is [last, pending, rev, terminal], a view [shown, open,        *)
(* prompt, over, snapshots]: the text shown, whether a text segment is     *)
(* open, whether the user is asked, whether the turn is shown as over, and *)
(* whether a state snapshot was ever applied.                              *)
(***************************************************************************)
EXTENDS Integers, FiniteSets, Sequences

NoRevision == -1
Outcomes == {"completed", "failed"}

Frame(kind) == [kind |-> kind, seq |-> 0, rev |-> NoRevision, status |-> "none", text |-> 0]
StateFrame(kind, rev, status) == [Frame(kind) EXCEPT !.rev = rev, !.status = status]
HasState(f) == f.rev /= NoRevision

IsTerminal(f) == f.kind \in {"done", "error"} \/ (f.kind = "state_sync" /\ f.status \in Outcomes)
Batchable(f) == f.kind = "chunk"

EmptyInbox == [last |-> 0, pending |-> <<>>, rev |-> NoRevision, terminal |-> FALSE]

-----------------------------------------------------------------------------
(* Draining: the frames that follow the last applied one are taken; behind *)
(* a gap the others wait, unless the drain is forced.                      *)

\* How many of the pending frames are taken.
Ready(inbox, force) ==
  LET pending == inbox.pending
      first == IF inbox.last = 0 THEN pending[1].seq ELSE inbox.last + 1
  IN IF force \/ \E k \in DOMAIN pending : IsTerminal(pending[k]) THEN Len(pending)
     ELSE Cardinality({k \in DOMAIN pending : pending[k].seq = first + k - 1})

\* One frame leaves the inbox.  A revision is looked at only in sequence.
Take(drained, f) ==
  LET inOrder == drained.last \in {0, f.seq - 1}
      stale == inOrder /\ HasState(f) /\ f.rev < drained.rev
      jumps == inOrder /\ HasState(f) /\ drained.rev /= NoRevision
               /\ f.rev > drained.rev + 1 /\ f.kind /= "state_sync"
  IN IF stale THEN [drained EXCEPT !.last = f.seq]
     ELSE [last |-> f.seq,
           rev |-> IF inOrder /\ HasState(f) THEN f.rev ELSE drained.rev,
           terminal |-> drained.terminal \/ IsTerminal(f),
           events |-> Append(drained.events, f),
           gap |-> drained.gap \/ ~inOrder \/ jumps]

\* The inbox after its first n pending frames were taken.
Drained(inbox, n) ==
  LET after[k \in 0..n] ==
        IF k = 0 THEN [last |-> inbox.last, rev |-> inbox.rev, gap |-> FALSE,
                       terminal |-> inbox.terminal, events |-> <<>>]
        ELSE Take(after[k - 1], inbox.pending[k])
  IN after[n]

\* Mutant: what is taken behind a gap is not removed.
DrainKeeping(inbox, force) ==
  LET pending == inbox.pending
      ready == IF pending = <<>> THEN 0 ELSE Ready(inbox, force)
      drained == Drained(inbox, ready)
  IN [inbox |-> [last |-> drained.last, rev |-> drained.rev, terminal |-> drained.terminal,
                 pending |-> IF drained.gap THEN pending
                             ELSE SubSeq(pending, ready + 1, Len(pending))],
      events |-> drained.events, gap |-> drained.gap]
Drain(inbox, force) ==
  LET pending == inbox.pending
      ready == IF pending = <<>> THEN 0 ELSE Ready(inbox, force)
      drained == Drained(inbox, ready)
  IN [inbox |-> [last |-> drained.last, rev |-> drained.rev, terminal |-> drained.terminal,
                 pending |-> SubSeq(pending, ready + 1, Len(pending))],
      events |-> drained.events, gap |-> drained.gap]

\* Pending frames are kept in the order of their sequence.
Inserted(pending, f) ==
  LET at == CHOOSE k \in 0..Len(pending) :
              /\ \A i \in 1..k : pending[i].seq < f.seq
              /\ \A i \in k + 1..Len(pending) : pending[i].seq > f.seq
  IN SubSeq(pending, 1, at) \o <<f>> \o SubSeq(pending, at + 1, Len(pending))

\* A state snapshot starts the sequence anew.
Synced(inbox, f) ==
  IF f.kind = "state_sync" THEN [inbox EXCEPT !.pending = <<>>, !.last = f.seq - 1] ELSE inbox

Refuses(inbox, f) ==
  \/ inbox.terminal
  \/ HasState(f) /\ f.rev < inbox.rev
  \/ f.seq <= Synced(inbox, f).last
  \/ \E k \in DOMAIN Synced(inbox, f).pending : inbox.pending[k].seq = f.seq

\* A frame that cannot be batched forces the drain.
Handle(inbox, f) ==
  IF Refuses(inbox, f) THEN Drain(inbox, ~Batchable(f))
  ELSE Drain([Synced(inbox, f) EXCEPT !.pending = Inserted(@, f)], ~Batchable(f))

-----------------------------------------------------------------------------
(* The page.                                                               *)

EmptyView ==
  [shown |-> <<>>, open |-> FALSE, prompt |-> FALSE, over |-> FALSE, snapshots |-> FALSE]

\* Mutant: every snapshot takes the question away.
ShowAnswered(view, f) ==
  [view EXCEPT !.over = IsTerminal(f) \/ @,
               !.snapshots = f.kind = "state_sync" \/ @,
               !.open = f.kind = "step_start" \/ @,
               !.shown = IF f.kind = "chunk" THEN Append(@, f.text) ELSE @,
               !.prompt = f.kind = "interrupt" \/ (@ /\ f.kind \notin {"state_sync", "done", "error"})]
Show(view, f) ==
  IF view.over /\ ~IsTerminal(f) /\ f.kind /= "state_sync" THEN view
  ELSE LET seen == [view EXCEPT !.over = IsTerminal(f) \/ @]
       IN CASE f.kind = "step_start" -> [seen EXCEPT !.open = TRUE]
            [] f.kind = "chunk" ->
                 [seen EXCEPT !.shown = IF view.open THEN Append(@, f.text) ELSE @]
            [] f.kind = "interrupt" -> [seen EXCEPT !.prompt = TRUE]
            [] f.kind = "state_sync" ->
                 [seen EXCEPT !.snapshots = TRUE, !.prompt = @ /\ f.status = "waiting_user"]
            [] f.kind \in {"done", "error"} -> [seen EXCEPT !.prompt = FALSE]

Applied(view, events) ==
  LET after[k \in 0..Len(events)] == IF k = 0 THEN view ELSE Show(after[k - 1], events[k])
  IN after[Len(events)]
=============================================================================
