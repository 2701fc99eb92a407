----------------------------- MODULE FileSnapshots -----------------------------
(***************************************************************************)
(* The file tools of tools/packages/filesystem/ that change files, the     *)
(* snapshot each takes before, and undo_file_change.  The calls of a batch *)
(* run in threads of their own; neither files nor snapshots are locked.    *)
(* A change is named by a number, and so is the content it writes and its  *)
(* snapshot; content 0 is that of a file that is not there.                *)
(***************************************************************************)
EXTENDS Naturals, FiniteSets

CONSTANTS
  Paths,
  Changes,      \* 1..n
  MaxCount,     \* retention.max_count
  MaxUndos

ASSUME FilesAssumption == Changes \subseteq Nat \ {0}

VARIABLES
  files,    \* the content of each path
  change,   \* the tool calls: where each is, what it found and what it left
  snaps,    \* the snapshots on disk
  undo      \* the undo under way

fvars == <<files, change, snaps, undo>>

NoFile == 0
Original == Cardinality(Changes)       \* what a path holds at first: a content of its own
NoChange == [pc |-> "off", kind |-> "none", target |-> NoFile, dest |-> NoFile,
             pre |-> NoFile, found |-> <<>>, left |-> <<>>, alone |-> TRUE]
NoUndo == [pc |-> "idle", of |-> 0, seen |-> <<>>, alone |-> TRUE, done |-> 0]

FilesInit ==
  /\ files = [p \in Paths |-> IF p = CHOOSE q \in Paths : TRUE THEN Original + 1 ELSE NoFile]
  /\ change = [k \in Changes |-> NoChange]
  /\ snaps = [k \in {} |-> 0]
  /\ undo = NoUndo

Of(k) == IF change[k].kind = "move" THEN {change[k].target, change[k].dest} ELSE {change[k].target}

\* What a thread writes to these paths is seen by the others that work on them.
Disturb(by, paths) ==
  [k \in Changes |-> IF k # by /\ change[k].pc \in {"mutate", "finalize"} /\ Of(k) \cap paths # {}
                       THEN [change[k] EXCEPT !.alone = FALSE] ELSE change[k]]
DisturbUndo(paths) ==
  IF undo.pc = "restore" /\ Of(undo.of) \cap paths # {} THEN [undo EXCEPT !.alone = FALSE] ELSE undo

-----------------------------------------------------------------------------
(* A change *)

\* The snapshot holds the content and the fingerprint of the file before the change.
Snapshot(k, kind, p, q) ==
  /\ change[k].pc = "off"
  /\ \A j \in Changes : j < k => change[j].pc # "off"
  /\ kind = "create" <=> files[p] = NoFile
  /\ kind = "move" <=> p # q
  /\ snaps' = [j \in DOMAIN snaps \cup {k} |->
       IF j = k THEN [kind |-> kind, target |-> p, dest |-> q, pre |-> files[p], post |-> NoFile,
                      blob |-> TRUE]
       ELSE snaps[j]]
  /\ change' = [change EXCEPT ![k] = [NoChange EXCEPT
                  !.pc = "mutate", !.kind = kind, !.target = p, !.dest = q, !.pre = files[p]]]
  /\ UNCHANGED <<files, undo>>

\* What the operation makes of the files.
Mutated(k) ==
  LET c == change[k] IN
  CASE c.kind \in {"create", "write"} -> [files EXCEPT ![c.target] = k]
    [] c.kind = "delete" -> [files EXCEPT ![c.target] = NoFile]
    [] c.kind = "move" -> [files EXCEPT ![c.dest] = files[c.target], ![c.target] = NoFile]

\* A deletion or a move of a file that is gone meanwhile fails.
Mutate(k) ==
  /\ change[k].pc = "mutate"
  /\ IF change[k].kind \in {"delete", "move"} /\ files[change[k].target] = NoFile
       THEN /\ change' = [change EXCEPT ![k].pc = "failed"]
            /\ UNCHANGED <<files, undo>>
       ELSE /\ files' = Mutated(k)
            /\ change' = [Disturb(k, Of(k)) EXCEPT
                 ![k].pc = "finalize",
                 ![k].found = [p \in Of(k) |-> files[p]],
                 ![k].left = [p \in Of(k) |-> Mutated(k)[p]]]
            /\ undo' = DisturbUndo(Of(k))
  /\ UNCHANGED snaps

\* The fingerprint after the change is that of the file of the moment.  A snapshot that was
\* cleaned up meanwhile comes back without its content.
Finalize(k) ==
  LET c == change[k] IN
  /\ c.pc = "finalize"
  /\ snaps' = [j \in DOMAIN snaps \cup {k} |->
       IF j # k THEN snaps[j]
       ELSE [kind |-> c.kind, target |-> c.target, dest |-> c.dest, pre |-> c.pre,
             post |-> IF c.kind = "delete" THEN NoFile ELSE files[c.dest],
             blob |-> k \in DOMAIN snaps]]
  /\ change' = [change EXCEPT ![k].pc = "cleanup"]
  /\ UNCHANGED <<files, undo>>

\* The oldest snapshots beyond the limit are removed; the call answers with its snapshot.
Cleanup(k) ==
  /\ change[k].pc = "cleanup"
  /\ LET kept == {j \in DOMAIN snaps : Cardinality({i \in DOMAIN snaps : i > j}) < MaxCount}
     IN snaps' = [j \in kept |-> snaps[j]]
  /\ change' = [change EXCEPT ![k].pc = "done"]
  /\ UNCHANGED <<files, undo>>

-----------------------------------------------------------------------------
(* undo_file_change *)

\* Mutant: the fingerprint of the file is not compared.
ConflictsByPresence(s) ==
  CASE s.kind \in {"write", "create"} -> files[s.target] = NoFile
    [] s.kind = "delete" -> files[s.target] # NoFile
    [] s.kind = "move" -> files[s.dest] = NoFile \/ files[s.target] # NoFile

\* The current content is not the one the change has left.
Conflicts(s) ==
  CASE s.kind \in {"write", "create"} ->
         IF files[s.target] = NoFile THEN s.kind # "create" /\ s.post # NoFile
         ELSE s.post # NoFile /\ files[s.target] # s.post
    [] s.kind = "delete" -> files[s.target] # NoFile
    [] s.kind = "move" ->
         \/ files[s.dest] = NoFile
         \/ s.post # NoFile /\ files[s.dest] # s.post
         \/ files[s.target] # NoFile

Restored(s) ==
  CASE s.kind \in {"write", "create", "delete"} -> [files EXCEPT ![s.target] = s.pre]
    [] s.kind = "move" -> [files EXCEPT ![s.target] = files[s.dest], ![s.dest] = NoFile]

\* The model asks to undo a change whose snapshot it was told.
UndoCheck(k) ==
  /\ undo.pc \in {"idle", "end"}
  /\ undo.done < MaxUndos
  /\ change[k].pc = "done"
  /\ k \in DOMAIN snaps
  /\ undo' = [pc |-> IF Conflicts(snaps[k]) THEN "end" ELSE "restore", of |-> k,
              seen |-> files, alone |-> TRUE, done |-> undo.done + 1]
  /\ UNCHANGED <<files, change, snaps>>

\* The snapshot may be gone by now, or its content.
UndoRestore ==
  LET k == undo.of IN
  /\ undo.pc = "restore"
  /\ undo' = [undo EXCEPT !.pc = "end"]
  /\ IF k \in DOMAIN snaps /\ (snaps[k].blob \/ snaps[k].kind \in {"create", "move"})
       THEN files' = Restored(snaps[k]) /\ change' = Disturb(0, Of(k))
       ELSE UNCHANGED <<files, change>>
  /\ UNCHANGED snaps

FilesNext ==
  \/ \E k \in Changes :
       \/ \E kind \in {"create", "write", "delete", "move"}, p, q \in Paths : Snapshot(k, kind, p, q)
       \/ Mutate(k) \/ Finalize(k) \/ Cleanup(k) \/ UndoCheck(k)
  \/ UndoRestore

FilesSpec == FilesInit /\ [][FilesNext]_fvars

-----------------------------------------------------------------------------
(* Properties *)

\* What an undo does: where it finds what its change has left it brings back what the change
\* found there, and else it leaves the files as they are.  That is asked of an undo and a change
\* during which no other thread worked on their files.
UndoKeeps(k) ==
  LET exact == \A p \in Of(k) : undo.seen[p] = change[k].left[p] /\ files'[p] = change[k].found[p]
  IN undo.alone /\ change[k].alone => exact \/ files' = files

Overwrote(k) == change[k].kind = "move" /\ change[k].found[change[k].dest] # NoFile

\* So it is for all changes but a move onto a file that is there, whatever was changed, undone
\* and cleaned up in between (undo_file_change, restore_snapshot).
UndoIsExact == UndoRestore /\ ~Overwrote(undo.of) => UndoKeeps(undo.of)
UndoIsExactElsewhere == [][UndoIsExact]_fvars
=============================================================================
