--------------------------- MODULE ConversationFiles ---------------------------
(***************************************************************************)
(* The ledger file of one session: numbered lines, one per event, written  *)
(* by several SessionConversationFiles objects of one process.  Each       *)
(* object keeps an index of the file and reloads it when the file's        *)
(* signature has changed; a write that is cut short leaves a torn last     *)
(* line, which the next load removes.  Lines belong to branches; a branch  *)
(* sees its own lines and its parent's up to the fork.                     *)
(* A file is [lines, torn], an index [recs, sig].                          *)
(***************************************************************************)
EXTENDS Naturals, SequencesExt

CONSTANTS Branches, Main

ASSUME BranchAssumption == Main \in Branches

Origin(b) == [branch |-> b, seq |-> 0, id |-> <<"origin", 0>>]
NoCursor == [branch |-> Main, seq |-> 0, id |-> <<"none", 0>>]
Garbled == <<"garbled", 0>>

Event(type, owner, branch) ==
  [seq |-> 0, id |-> <<type, owner>>, type |-> type, turn |-> owner, branch |-> branch,
   sub |-> 0, body |-> "none", from |-> NoCursor]

\* The message id, and with it the event id, is made from the submission.
MessageEvent(turn, branch, sub, body) ==
  [Event("accepted", turn, branch) EXCEPT !.id = <<"accepted", sub>>, !.sub = sub, !.body = body]
\* Mutant: the fork is filed under a turn named like its branch.
ForkEventOwned(b, cursor) ==
  [Event("forked", b, b) EXCEPT !.id = <<"forked", b>>, !.from = cursor]
ForkEvent(b, cursor) == [Event("forked", 0, b) EXCEPT !.id = <<"forked", b>>, !.from = cursor]

CursorOf(e) == [branch |-> e.branch, seq |-> e.seq, id |-> e.id]

-----------------------------------------------------------------------------
(* The file and its indexes.                                               *)

EmptyFile == [lines |-> <<>>, torn |-> FALSE]
NoIndex == [recs |-> <<>>, sig |-> <<>>]

\* Lines are never rewritten, so size tells what size and time stamp tell.
Signature(f) == <<Len(f.lines), IF f.torn THEN 1 ELSE 0>>
Grown(f, ix) == \/ Len(f.lines) > ix.sig[1]
                \/ Len(f.lines) = ix.sig[1] /\ f.torn /\ ix.sig[2] = 0

\* Mutant: the cut for a torn line takes the last whole line with it.
RepairedTooFar(f) == [lines |-> IF f.torn THEN Front(f.lines) ELSE f.lines, torn |-> FALSE]
Repaired(f) == [f EXCEPT !.torn = FALSE]

\* Mutant: an index once loaded is taken to be current.
LoadOnce(f, ix) ==
  IF ix.sig /= <<>> THEN [file |-> f, index |-> ix]
  ELSE [file |-> Repaired(f),
        index |-> [recs |-> f.lines, sig |-> Signature(Repaired(f))]]
\* Mutant: the file has grown, and the new lines are skipped.
LoadAtEnd(f, ix) ==
  LET kept == IF ix.sig /= <<>> /\ Grown(f, ix) THEN ix.recs ELSE f.lines
  IN [file |-> Repaired(f), index |-> [recs |-> kept, sig |-> Signature(Repaired(f))]]
Load(f, ix) ==
  IF ix.sig = Signature(f) THEN [file |-> f, index |-> ix]
  ELSE LET kept == IF ix.sig /= <<>> /\ Grown(f, ix) THEN ix.recs ELSE <<>>
           whole == Repaired(f)
       IN [file |-> whole,
           index |-> [recs |-> kept \o SubSeq(whole.lines, Len(kept) + 1, Len(whole.lines)),
                      sig |-> Signature(whole)]]

Written(f, e) ==
  [lines |-> Append(f.lines, IF f.torn THEN [e EXCEPT !.id = Garbled] ELSE e), torn |-> FALSE]

Stored(recs, id) == {e \in ToSet(recs) : e.id = id}

(* append_event: the file and index after the call and what became of it.  *)
(* The write may be cut short ("torn"), or reach the file without being    *)
(* acknowledged ("unacked"); both raise and leave the index as loaded.     *)
AppendEvent(f, ix, e, write) ==
  LET ld == Load(f, ix)
      same == Stored(ld.index.recs, e.id)
      line == [e EXCEPT !.seq = Len(ld.index.recs) + 1]
      grown == Written(ld.file, line)
  IN IF same /= {}
     THEN LET old == CHOOSE x \in same : TRUE
          IN [file |-> ld.file, index |-> ld.index, seq |-> old.seq,
              result |-> IF [line EXCEPT !.seq = old.seq] = old THEN "known" ELSE "conflict"]
     ELSE CASE write = "ok" ->
                 [file |-> grown, result |-> "new", seq |-> line.seq,
                  index |-> [recs |-> Append(ld.index.recs, line), sig |-> Signature(grown)]]
            [] write = "unacked" ->
                 [file |-> grown, index |-> ld.index, seq |-> 0, result |-> "error"]
            [] write = "torn" ->
                 [file |-> [ld.file EXCEPT !.torn = TRUE], index |-> ld.index, seq |-> 0,
                  result |-> "error"]

-----------------------------------------------------------------------------
(* Submissions and branches, read from the lines an index holds.           *)

FindSubmission(recs, sub) == {e \in ToSet(recs) : e.type = "accepted" /\ e.sub = sub}

(* append: a message whose submission is stored is only accepted again as  *)
(* the very same message.                                                  *)
AppendMessage(f, ix, e, write) ==
  LET ld == Load(f, ix)
      stored == FindSubmission(ld.index.recs, e.sub)
  IN IF stored = {} THEN AppendEvent(f, ix, e, write)
     ELSE LET old == CHOOSE x \in stored : TRUE
          IN [file |-> ld.file, index |-> ld.index, seq |-> old.seq,
              result |-> IF old.body = e.body /\ old.id = e.id THEN "known" ELSE "conflict"]

Forks(recs) == {e \in ToSet(recs) : e.type = "forked"}
KnownBranches(recs) == {Main} \cup {e.branch : e \in Forks(recs)}

ForkOf(recs, b) == CHOOSE e \in Forks(recs) : e.branch = b

\* Mutant: the lineage is followed without its cuts.
LimitsUncut(recs, branch) ==
  LET limits[b \in Branches] ==
        IF b \notin {e.branch : e \in Forks(recs)}
        THEN [x \in Branches |-> IF x = b THEN Len(recs) ELSE 0]
        ELSE [limits[ForkOf(recs, b).from.branch] EXCEPT ![b] = Len(recs)]
  IN limits[branch]

(* How many lines of the file a branch sees of each branch: its own lines, *)
(* its parent's up to the fork, what the parent sees of others; else none. *)
Limits(recs, branch) ==
  LET limits[b \in Branches] ==
        IF b \notin {e.branch : e \in Forks(recs)}
        THEN [x \in Branches |-> IF x = b THEN Len(recs) ELSE 0]
        ELSE LET cut == ForkOf(recs, b).from
             IN [limits[cut.branch] EXCEPT ![cut.branch] = cut.seq, ![b] = Len(recs)]
  IN limits[branch]

\* The events a branch shows; their numbers give their order.
VisibleUpTo(recs, branch, asOf) ==
  LET limits == Limits(recs, branch)
  IN {e \in ToSet(recs) : e.seq <= limits[e.branch] /\ e.seq <= asOf}
Visible(recs, branch) == VisibleUpTo(recs, branch, Len(recs))

LatestOf(events) == CHOOSE e \in events : \A f \in events : f.seq <= e.seq

\* Mutant: the pointer takes the last line of the file, whichever branch it is on.
LedgerPointerLatest(recs, branch) ==
  IF recs = <<>> THEN Origin(branch) ELSE [CursorOf(Last(recs)) EXCEPT !.branch = branch]
LedgerPointer(recs, branch) ==
  IF Visible(recs, branch) = {} THEN Origin(branch)
  ELSE [CursorOf(LatestOf(Visible(recs, branch))) EXCEPT !.branch = branch]

TurnsWith(events, type) == {e.turn : e \in {x \in events : x.type = type}}
OpenCalls(events) == TurnsWith(events, "call") \ TurnsWith(events, "result")

(* _branch_history_state refuses unknown branches and open calls.          *)
\* Mutant: the calls open now are asked for, not those open at the cursor.
ContinuableNow(recs, branch, asOf) ==
  branch \in KnownBranches(recs) /\ OpenCalls(Visible(recs, branch)) = {}
Continuable(recs, branch, asOf) ==
  /\ branch \in KnownBranches(recs)
  /\ OpenCalls(VisibleUpTo(recs, branch, asOf)) = {}

(* fork_branch: an existing fork must have the same cursor; a new one must *)
(* start at an event its parent owns and sees, or at the parent's origin.  *)
MayFork(recs, b, cursor) ==
  IF b \in KnownBranches(recs)
  THEN \E e \in Forks(recs) : e.branch = b /\ e.from = cursor
  ELSE /\ \A e \in ToSet(recs) : e.branch /= b
       /\ cursor.branch \in KnownBranches(recs)
       /\ \/ cursor = Origin(cursor.branch)
          \/ \E e \in Visible(recs, cursor.branch) : CursorOf(e) = cursor
=============================================================================
