------------------------ MODULE SessionBranches_proofs ------------------------
(***************************************************************************)
(* The ledger file and its branches, for any number of sends, objects,     *)
(* branches and faults: Readable, AckedStays, SubmittedOnce, and           *)
(* BranchesAreIsolated, CursorsHold, ForksAreSettled and the types.        *)
(*                                                                         *)
(* What carries the first three is what an object may believe of the file: *)
(* its index holds a prefix of the lines, and its signature is the size of *)
(* that prefix (IndexOK).  So a load always ends with the whole file       *)
(* (LoadAll), a write numbers its line from there (AppendEventAdds), and   *)
(* whoever looks a submission up sees every line there is (LinesStep).     *)
(*                                                                         *)
(* The others rest on the order of the lines: a branch has no line before  *)
(* its fork, and a fork starts at an earlier line of an earlier branch, or *)
(* at the origin of one (LineageOK).  So the limits of a branch are well   *)
(* defined (LimitsAreDefined), lie before its fork but for its own         *)
(* (LimitsShape), and a line more leaves them alone (LimitsStay).          *)
(*                                                                         *)
(* The types come last: every event a call writes is one its send owns, so *)
(* the lines stay lines of sends (OwnedLines, EventsAreOwned), and a fault *)
(* is used up only where there was one (OnlyFaultsRaise).                  *)
(***************************************************************************)
EXTENDS SessionBranches, SequenceTheorems, WellFoundedInduction, TLAPS

\* A file whose line n carries sequence n, and no event id twice.
FileOK(f) ==
  /\ f = [lines |-> f.lines, torn |-> f.torn]
  /\ f.torn \in BOOLEAN
  /\ \E S : f.lines \in Seq(S)
  /\ \A k \in 1..Len(f.lines) :
       /\ f.lines[k].seq = k
       /\ f.lines[k].id # Garbled
       /\ \A j \in 1..(k - 1) : f.lines[j].id # f.lines[k].id

\* What an object knows of the file: nothing, or a prefix of its lines.
IndexOK(ix, f) ==
  /\ ix = [recs |-> ix.recs, sig |-> ix.sig]
  /\ \E S : ix.recs \in Seq(S)
  /\ Len(ix.recs) <= Len(f.lines)
  /\ \A k \in 1..Len(ix.recs) : ix.recs[k] = f.lines[k]
  /\ \/ ix.sig = <<>> /\ ix.recs = <<>>
     \/ ix.sig = <<Len(ix.recs), 0>>

\* The file keeps its lines.
Keeps(f, g) ==
  /\ Len(f.lines) <= Len(g.lines)
  /\ \A k \in 1..Len(f.lines) : g.lines[k] = f.lines[k]

-----------------------------------------------------------------------------
\* An index of a file is one of every later state of it.
LEMMA IndexOfLater ==
  ASSUME NEW f, NEW g, NEW ix, FileOK(f), FileOK(g), Keeps(f, g), IndexOK(ix, f)
  PROVE  IndexOK(ix, g)
BY DEF FileOK, Keeps, IndexOK

\* A prefix followed by what comes after it is the whole sequence.
LEMMA PrefixAndRest ==
  ASSUME NEW S, NEW s \in Seq(S), NEW T, NEW p \in Seq(T), Len(p) <= Len(s),
         \A k \in 1..Len(p) : p[k] = s[k]
  PROVE  p \o SubSeq(s, Len(p) + 1, Len(s)) = s
<1> DEFINE rest == SubSeq(s, Len(p) + 1, Len(s))
<1>1. p \in Seq(S \cup T) /\ s \in Seq(S \cup T)
  OBVIOUS
<1>2. /\ rest \in Seq(S \cup T)
      /\ Len(rest) = Len(s) - Len(p)
      /\ \A k \in 1..Len(rest) : rest[k] = s[Len(p) + k]
  BY <1>1
<1> HIDE DEF rest
<1>3. /\ p \o rest \in Seq(S \cup T)
      /\ Len(p \o rest) = Len(p) + Len(rest)
      /\ \A k \in 1..(Len(p) + Len(rest)) :
           (p \o rest)[k] = IF k <= Len(p) THEN p[k] ELSE rest[k - Len(p)]
  BY <1>1, <1>2, ConcatProperties
<1>4. Len(p \o rest) = Len(s)
  BY <1>2, <1>3
<1>5. ASSUME NEW k \in 1..Len(s)
      PROVE  (p \o rest)[k] = s[k]
  <2>1. Len(p) \in Nat /\ Len(rest) \in Nat /\ Len(s) = Len(p) + Len(rest)
    BY <1>1, <1>2
  <2>2. (p \o rest)[k] = IF k <= Len(p) THEN p[k] ELSE rest[k - Len(p)]
    BY <1>3, <2>1
  <2>3. CASE k <= Len(p)
    BY <2>1, <2>2, <2>3
  <2>4. CASE ~(k <= Len(p))
    <3>1. k - Len(p) \in 1..Len(rest) /\ Len(p) + (k - Len(p)) = k
      BY <2>1, <2>4
    <3>. QED
      BY <1>2, <2>2, <2>4, <3>1
  <2>. QED
    BY <2>3, <2>4
<1>6. p \o rest = s
  BY <1>1, <1>3, <1>4, <1>5, SeqEqual
<1>. QED
  BY <1>6 DEF rest

\* The cut of a torn line leaves the whole lines.
LEMMA RepairedFile ==
  ASSUME NEW f, FileOK(f)
  PROVE  Repaired(f) = [lines |-> f.lines, torn |-> FALSE]
<1>1. \A a, b, c : [[lines |-> a, torn |-> b] EXCEPT !.torn = c] = [lines |-> a, torn |-> c]
  OBVIOUS
<1>2. f = [lines |-> f.lines, torn |-> f.torn]
  BY DEF FileOK
<1>3. PICK a, b : a = f.lines /\ b = f.torn
  OBVIOUS
<1>4. f = [lines |-> a, torn |-> b]
  BY <1>2, <1>3
<1>5. [f EXCEPT !.torn = FALSE] = [lines |-> a, torn |-> FALSE]
  BY <1>1, <1>4
<1>. QED
  BY <1>3, <1>5 DEF Repaired

\* A load ends with the whole lines of the file, whatever the object knew, and removes a torn line.
LEMMA LoadAll ==
  ASSUME NEW f, NEW ix, FileOK(f), IndexOK(ix, f)
  PROVE  /\ Load(f, ix).file = [lines |-> f.lines, torn |-> FALSE]
         /\ Load(f, ix).index = [recs |-> f.lines, sig |-> <<Len(f.lines), 0>>]
<1>0. PICK S : f.lines \in Seq(S)
  BY DEF FileOK
<1>1. Repaired(f) = [lines |-> f.lines, torn |-> FALSE]
  BY RepairedFile
<1>2. Signature(f) = <<Len(f.lines), IF f.torn THEN 1 ELSE 0>>
  BY DEF Signature
<1>3. CASE ix.sig = Signature(f)
  <2>1. ix.sig # <<>>
    BY <1>2, <1>3
  <2>2. ix.sig = <<Len(ix.recs), 0>>
    BY <2>1 DEF IndexOK
  <2>3. Len(ix.recs) = Len(f.lines) /\ ~f.torn
    BY <1>2, <1>3, <2>2 DEF FileOK
  <2>4. ix.recs = f.lines
    <3>1. PICK T : ix.recs \in Seq(T)
      BY DEF IndexOK
    <3>. QED
      BY <1>0, <2>3, <3>1, SeqEqual DEF IndexOK
  <2>. QED
    BY <1>3, <2>2, <2>3, <2>4 DEF Load, FileOK, IndexOK
<1>4. CASE ix.sig # Signature(f)
  <2> DEFINE kept == IF ix.sig # <<>> /\ Grown(f, ix) THEN ix.recs ELSE <<>>
             whole == Repaired(f)
  <2>1. Load(f, ix) = [file |-> whole,
                       index |-> [recs |-> kept \o SubSeq(whole.lines, Len(kept) + 1, Len(whole.lines)),
                                  sig |-> Signature(whole)]]
    BY <1>4 DEF Load
  <2>2. PICK T : kept \in Seq(T)
    BY DEF IndexOK
  <2>3. /\ Len(kept) <= Len(f.lines)
        /\ \A k \in 1..Len(kept) : kept[k] = f.lines[k]
    BY <1>0, <2>2 DEF IndexOK
  <2> HIDE DEF kept
  <2>4. kept \o SubSeq(f.lines, Len(kept) + 1, Len(f.lines)) = f.lines
    BY <1>0, <2>2, <2>3, PrefixAndRest
  <2>5. Signature(whole) = <<Len(f.lines), 0>>
    BY <1>1 DEF Signature
  <2>6. whole = [lines |-> f.lines, torn |-> FALSE]
    BY <1>1
  <2>7. whole.lines = f.lines
    BY <2>6
  <2> HIDE DEF whole
  <2>8. kept \o SubSeq(whole.lines, Len(kept) + 1, Len(whole.lines)) = f.lines
    BY <2>4, <2>7
  <2>9. Load(f, ix) = [file |-> [lines |-> f.lines, torn |-> FALSE],
                       index |-> [recs |-> f.lines, sig |-> <<Len(f.lines), 0>>]]
    BY <2>1, <2>5, <2>6, <2>8
  <2>. QED
    BY <2>9
<1>. QED
  BY <1>3, <1>4

-----------------------------------------------------------------------------
(* A write.                                                                *)

\* An event to be written: it can be numbered, and its id is not that of a garbled line.
EventOK(e) == {"seq", "id", "type", "sub"} \subseteq DOMAIN e /\ e.id # Garbled

\* What a call on the files leaves behind: the lines it found and perhaps one
\* more, an index of them, and the line it reports.
CallOK(f, res, id) ==
  /\ FileOK(res.file)
  /\ Keeps(f, res.file)
  /\ IndexOK(res.index, res.file)
  /\ res.result \in {"new", "known"} => /\ res.seq \in 1..Len(res.file.lines)
                                        /\ res.file.lines[res.seq].id = id

\* A file after a load is one its index has all of.
LEMMA LoadedFile ==
  ASSUME NEW f, FileOK(f), NEW b \in BOOLEAN
  PROVE  /\ FileOK([lines |-> f.lines, torn |-> b])
         /\ Keeps(f, [lines |-> f.lines, torn |-> b])
         /\ IndexOK([recs |-> f.lines, sig |-> <<Len(f.lines), 0>>], [lines |-> f.lines, torn |-> b])
<1>1. PICK S : f.lines \in Seq(S)
  BY DEF FileOK
<1>2. Len(f.lines) \in Nat
  BY <1>1
<1>3. FileOK([lines |-> f.lines, torn |-> b])
  BY DEF FileOK
<1>4. Keeps(f, [lines |-> f.lines, torn |-> b])
  BY <1>2 DEF Keeps
<1>5. IndexOK([recs |-> f.lines, sig |-> <<Len(f.lines), 0>>], [lines |-> f.lines, torn |-> b])
  BY <1>1, <1>2 DEF IndexOK
<1>. QED
  BY <1>3, <1>4, <1>5

\* A line with the next number and an id no line has can be added.
LEMMA OneMoreLine ==
  ASSUME NEW f, FileOK(f), NEW line, line.seq = Len(f.lines) + 1, line.id # Garbled,
         \A k \in 1..Len(f.lines) : f.lines[k].id # line.id
  PROVE  LET g == [lines |-> Append(f.lines, line), torn |-> FALSE]
         IN /\ FileOK(g) /\ Keeps(f, g)
            /\ Len(g.lines) = Len(f.lines) + 1 /\ g.lines[Len(f.lines) + 1] = line
            /\ IndexOK([recs |-> f.lines, sig |-> <<Len(f.lines), 0>>], g)
            /\ IndexOK([recs |-> g.lines, sig |-> <<Len(g.lines), 0>>], g)
<1> DEFINE s == Append(f.lines, line)
           g == [lines |-> s, torn |-> FALSE]
<1>1. PICK S : f.lines \in Seq(S)
  BY DEF FileOK
<1>2. f.lines \in Seq(S \cup {line})
  BY <1>1
<1>3. /\ s \in Seq(S \cup {line})
      /\ Len(f.lines) \in Nat /\ Len(s) = Len(f.lines) + 1
      /\ \A k \in 1..Len(f.lines) : s[k] = f.lines[k]
      /\ s[Len(f.lines) + 1] = line
  BY <1>2
<1> HIDE DEF s
<1>4. ASSUME NEW k \in 1..Len(s)
      PROVE  /\ s[k].seq = k
             /\ s[k].id # Garbled
             /\ \A j \in 1..(k - 1) : s[j].id # s[k].id
  <2>1. CASE k \in 1..Len(f.lines)
    BY <1>3, <2>1 DEF FileOK
  <2>2. CASE k = Len(f.lines) + 1
    BY <1>3, <2>2
  <2>. QED
    BY <1>3, <2>1, <2>2
<1>5. FileOK(g)
  BY <1>3, <1>4 DEF FileOK
<1>6. Keeps(f, g)
  BY <1>3 DEF Keeps
<1>7. IndexOK([recs |-> f.lines, sig |-> <<Len(f.lines), 0>>], g)
  BY <1>1, <1>3 DEF IndexOK
<1>8. IndexOK([recs |-> s, sig |-> <<Len(s), 0>>], g)
  BY <1>3 DEF IndexOK
<1>. QED
  BY <1>3, <1>5, <1>6, <1>7, <1>8 DEF s

\* The line of an event, and a file whose last line was cut short.
Numbered(e, n) == [e EXCEPT !.seq = n]
CutShort(f) == [f EXCEPT !.torn = TRUE]

\* A file with the lines of another, and perhaps the event as one more.
AddsLine(f, g, e) ==
  g.lines = f.lines \/ g.lines = Append(f.lines, Numbered(e, Len(f.lines) + 1))

LEMMA CutFile ==
  ASSUME NEW lines, NEW b
  PROVE  CutShort([lines |-> lines, torn |-> b]) = [lines |-> lines, torn |-> TRUE]
<1>1. \A a, d, c : [[lines |-> a, torn |-> d] EXCEPT !.torn = c] = [lines |-> a, torn |-> c]
  OBVIOUS
<1>. QED
  BY <1>1 DEF CutShort

\* What append_event leaves behind when no line has the id.
NoLineYet(f, ix, e, ld, line) ==
  /\ AppendEvent(f, ix, e, "ok").file = Written(ld.file, line)
  /\ AppendEvent(f, ix, e, "ok").seq = line.seq
  /\ AppendEvent(f, ix, e, "ok").index =
       [recs |-> Append(ld.index.recs, line), sig |-> Signature(Written(ld.file, line))]
  /\ AppendEvent(f, ix, e, "unacked").file = Written(ld.file, line)
  /\ AppendEvent(f, ix, e, "unacked").index = ld.index
  /\ AppendEvent(f, ix, e, "unacked").result = "error"
  /\ AppendEvent(f, ix, e, "torn").file = CutShort(ld.file)
  /\ AppendEvent(f, ix, e, "torn").index = ld.index
  /\ AppendEvent(f, ix, e, "torn").result = "error"

LEMMA LineIsWritten ==
  ASSUME NEW f, NEW ix, NEW e, NEW ld, NEW line,
         ld = Load(f, ix),
         Stored(ld.index.recs, e.id) = {},
         line = Numbered(e, Len(ld.index.recs) + 1)
  PROVE  NoLineYet(f, ix, e, ld, line)
BY DEF NoLineYet, AppendEvent, Numbered, CutShort

\* append_event: the line takes the number after the last line of the file,
\* unless a line of the same event is there.
LEMMA AppendEventAdds ==
  ASSUME NEW f, NEW ix, FileOK(f), IndexOK(ix, f), NEW e, EventOK(e),
         NEW write \in {"ok", "torn", "unacked"}
  PROVE  /\ CallOK(f, AppendEvent(f, ix, e, write), e.id)
         /\ AddsLine(f, AppendEvent(f, ix, e, write).file, e)
         /\ AppendEvent(f, ix, e, write).result = "new" =>
              AppendEvent(f, ix, e, write).file.lines = Append(f.lines, Numbered(e, Len(f.lines) + 1))
<1> DEFINE n == Len(f.lines)
           whole == [lines |-> f.lines, torn |-> FALSE]
           all == [recs |-> f.lines, sig |-> <<n, 0>>]
           same == Stored(f.lines, e.id)
<1> SUFFICES ASSUME NEW res, res = AppendEvent(f, ix, e, write)
             PROVE  /\ CallOK(f, res, e.id) /\ AddsLine(f, res.file, e)
                    /\ res.result = "new" => res.file.lines = Append(f.lines, Numbered(e, n + 1))
  OBVIOUS
<1>a. PICK ld : ld = Load(f, ix)
  OBVIOUS
<1>0. PICK line : line = Numbered(e, n + 1)
  OBVIOUS
<1> DEFINE grown == [lines |-> Append(f.lines, line), torn |-> FALSE]
<1>1. ld.file = whole /\ ld.index = all
  BY <1>a, LoadAll
<1>2. PICK S : f.lines \in Seq(S)
  BY DEF FileOK
<1>3. n \in Nat /\ DOMAIN f.lines = 1..n
  BY <1>2
<1>4. line.seq = n + 1 /\ line.id = e.id
  BY <1>0 DEF EventOK, Numbered
<1>5. Written(ld.file, line) = grown
  BY <1>1 DEF Written
<1>6. Signature(grown) = <<Len(grown.lines), 0>>
  BY DEF Signature
<1>7. /\ FileOK(whole) /\ Keeps(f, whole) /\ IndexOK(all, whole)
      /\ FileOK([lines |-> f.lines, torn |-> TRUE]) /\ Keeps(f, [lines |-> f.lines, torn |-> TRUE])
      /\ IndexOK(all, [lines |-> f.lines, torn |-> TRUE])
  BY LoadedFile
<1>8. ld.index.recs = f.lines
  BY <1>1
<1>9. CASE same # {}
  <2> DEFINE old == CHOOSE x \in same : TRUE
  <2>1. old \in same
    BY <1>9
  <2> HIDE DEF old
  <2>2. PICK k \in 1..n : old = f.lines[k] /\ old.id = e.id
    BY <1>3, <2>1 DEF Stored, ToSet
  <2>3. old.seq = k
    BY <2>2 DEF FileOK
  <2>4. res.file = whole /\ res.index = all /\ res.seq = old.seq /\ res.result # "new"
    BY <1>a, <1>1, <1>8, <1>9 DEF AppendEvent, old
  <2>. QED
    BY <1>7, <2>2, <2>3, <2>4 DEF CallOK, AddsLine
<1>10. CASE same = {}
  <2>1. \A k \in 1..n : f.lines[k].id # line.id
    BY <1>3, <1>4, <1>10 DEF Stored, ToSet
  <2>2. line.id # Garbled
    BY <1>4 DEF EventOK
  <2>3. /\ FileOK(grown) /\ Keeps(f, grown)
        /\ Len(grown.lines) = n + 1 /\ grown.lines[n + 1] = line
        /\ IndexOK(all, grown)
        /\ IndexOK([recs |-> grown.lines, sig |-> <<Len(grown.lines), 0>>], grown)
    BY <1>4, <2>1, <2>2, OneMoreLine
  <2>4. NoLineYet(f, ix, e, ld, line)
    <3>1. Stored(ld.index.recs, e.id) = {}
      BY <1>8, <1>10
    <3>2. line = Numbered(e, Len(ld.index.recs) + 1)
      BY <1>0, <1>8
    <3>. QED
      BY <1>a, <3>1, <3>2, LineIsWritten
  <2>5. Written(ld.file, line) = grown
    BY <1>5
  <2>10. grown.lines = Append(f.lines, Numbered(e, n + 1))
    BY <1>0
  <2> HIDE DEF grown
  <2>7. grown.lines = Append(ld.index.recs, line)
    BY <1>8 DEF grown
  <2>8. CASE write = "ok"
    <3>1. /\ res.file = grown /\ res.seq = n + 1
          /\ res.index = [recs |-> grown.lines, sig |-> <<Len(grown.lines), 0>>]
      BY <1>4, <1>6, <2>4, <2>5, <2>7, <2>8 DEF NoLineYet
    <3>. QED
      BY <1>3, <1>4, <2>3, <2>10, <3>1 DEF CallOK, AddsLine
  <2>9. CASE write = "unacked"
    <3>1. res.file = grown /\ res.index = all /\ res.result = "error"
      BY <1>1, <2>4, <2>5, <2>9 DEF NoLineYet
    <3>. QED
      BY <2>3, <2>10, <3>1 DEF CallOK, AddsLine
  <2>6. CASE write = "torn"
    <3>1. /\ res.file = [lines |-> f.lines, torn |-> TRUE]
          /\ res.index = all /\ res.result = "error"
      BY <1>1, <2>4, <2>6, CutFile DEF NoLineYet
    <3>. QED
      BY <1>7, <3>1 DEF CallOK, AddsLine
  <2>. QED
    BY <2>6, <2>8, <2>9
<1>. QED
  BY <1>9, <1>10

\* append: a message whose submission is stored is the stored line, or refused.
LEMMA AppendMessageAdds ==
  ASSUME NEW f, NEW ix, FileOK(f), IndexOK(ix, f), NEW e, EventOK(e),
         NEW write \in {"ok", "torn", "unacked"}
  PROVE  /\ CallOK(f, AppendMessage(f, ix, e, write), e.id)
         /\ AddsLine(f, AppendMessage(f, ix, e, write).file, e)
         /\ FindSubmission(f.lines, e.sub) # {} => AppendMessage(f, ix, e, write).file.lines = f.lines
<1> DEFINE n == Len(f.lines)
           ld == Load(f, ix)
           whole == [lines |-> f.lines, torn |-> FALSE]
           all == [recs |-> f.lines, sig |-> <<n, 0>>]
           stored == FindSubmission(f.lines, e.sub)
<1> SUFFICES ASSUME NEW res, res = AppendMessage(f, ix, e, write)
             PROVE  /\ CallOK(f, res, e.id) /\ AddsLine(f, res.file, e)
                    /\ stored # {} => res.file.lines = f.lines
  OBVIOUS
<1>1. ld.file = whole /\ ld.index = all
  BY LoadAll
<1>2. ld.index.recs = f.lines
  BY <1>1
<1>3. PICK S : f.lines \in Seq(S)
  BY DEF FileOK
<1>4. DOMAIN f.lines = 1..n
  BY <1>3
<1>5. CASE stored = {}
  <2>1. res = AppendEvent(f, ix, e, write)
    BY <1>2, <1>5 DEF AppendMessage
  <2>. QED
    BY <1>5, <2>1, AppendEventAdds
<1>6. CASE stored # {}
  <2> DEFINE old == CHOOSE x \in stored : TRUE
  <2>1. old \in stored
    BY <1>6
  <2> HIDE DEF old
  <2>2. PICK k \in 1..n : old = f.lines[k]
    BY <1>4, <2>1 DEF FindSubmission, ToSet
  <2>3. old.seq = k
    BY <2>2 DEF FileOK
  <2>4. /\ res.file = whole /\ res.index = all /\ res.seq = old.seq
        /\ res.result \in {"new", "known"} => old.id = e.id
    BY <1>1, <1>2, <1>6 DEF AppendMessage, old
  <2>5. FileOK(whole) /\ Keeps(f, whole) /\ IndexOK(all, whole)
    BY LoadedFile
  <2>. QED
    BY <2>2, <2>3, <2>4, <2>5 DEF CallOK, AddsLine
<1>. QED
  BY <1>5, <1>6

-----------------------------------------------------------------------------
(* The specification.                                                      *)

\* Every object's index is one of the file, and what was acknowledged is in it.
FilesInv ==
  /\ index = [i \in Instances |-> index[i]]
  /\ FileOK(file)
  /\ \A i \in Instances : IndexOK(index[i], file)
  /\ \A a \in acked : a.seq \in 1..Len(file.lines) /\ file.lines[a.seq].id = a.id

\* A step leaves the lines as they are, or adds one; a message is accepted only if no line has
\* its submission.
LinesStep ==
  \/ file'.lines = file.lines
  \/ \E line :
       /\ file'.lines = Append(file.lines, line)
       /\ line.type = "accepted" => FindSubmission(file.lines, line.sub) = {}

\* The events the program writes have ids that no garbled line has.
LEMMA EventsAreOK ==
  ASSUME NEW owner, NEW branch, NEW sub, NEW body, NEW cursor
  PROVE  /\ EventOK(Event("call", owner, branch))
         /\ EventOK(Event("result", owner, branch))
         /\ Event("result", owner, branch).id = <<"result", owner>>
         /\ EventOK(ForkEvent(branch, cursor)) /\ ForkEvent(branch, cursor).id = <<"forked", branch>>
         /\ EventOK(MessageEvent(owner, branch, sub, body))
         /\ Event("call", owner, branch).type = "call" /\ Event("result", owner, branch).type = "result"
         /\ ForkEvent(branch, cursor).type = "forked"
<1>1. Garbled # <<"call", owner>> /\ Garbled # <<"result", owner>>
  BY DEF Garbled
<1>2. Garbled # <<"forked", branch>> /\ Garbled # <<"accepted", sub>>
  BY DEF Garbled
<1>3. EventOK(Event("call", owner, branch))
  BY <1>1 DEF EventOK, Event
<1>4. EventOK(Event("result", owner, branch)) /\ Event("result", owner, branch).id = <<"result", owner>>
  BY <1>1 DEF EventOK, Event
<1>5. EventOK(ForkEvent(branch, cursor)) /\ ForkEvent(branch, cursor).id = <<"forked", branch>>
  BY <1>2 DEF EventOK, ForkEvent, Event
<1>6. EventOK(MessageEvent(owner, branch, sub, body))
  BY <1>2 DEF EventOK, MessageEvent, Event
<1>7. /\ Event("call", owner, branch).type = "call" /\ Event("result", owner, branch).type = "result"
      /\ ForkEvent(branch, cursor).type = "forked"
  BY DEF ForkEvent, Event
<1>. QED
  BY <1>3, <1>4, <1>5, <1>6, <1>7

\* A call that loads, perhaps writes, and keeps its index leaves all objects with indexes of the file.
LEMMA CallKeeps ==
  ASSUME FilesInv, NEW i \in Instances, NEW res, NEW id, CallOK(file, res, id),
         file' = res.file, index' = [index EXCEPT ![i] = res.index],
         \/ acked' = acked
         \/ /\ res.result \in {"new", "known"}
            /\ acked' = acked \cup {[seq |-> res.seq, id |-> id]}
  PROVE  FilesInv'
<1>1. FileOK(file') /\ Keeps(file, file') /\ IndexOK(res.index, file')
  BY DEF CallOK
<1>2. index' = [j \in Instances |-> index'[j]] /\ index'[i] = res.index
      /\ \A j \in Instances \ {i} : index'[j] = index[j]
  BY DEF FilesInv
<1>3. ASSUME NEW j \in Instances
      PROVE  IndexOK(index'[j], file')
  <2>1. CASE j = i
    BY <1>1, <1>2, <2>1
  <2>2. CASE j # i
    <3>1. IndexOK(index[j], file) /\ FileOK(file)
      BY DEF FilesInv
    <3>2. IndexOK(index[j], file')
      BY <1>1, <3>1, IndexOfLater
    <3>. QED
      BY <1>2, <2>2, <3>2
  <2>. QED
    BY <2>1, <2>2
<1>4. ASSUME NEW a \in acked'
      PROVE  a.seq \in 1..Len(file'.lines) /\ file'.lines[a.seq].id = a.id
  <2>1. CASE a \in acked
    <3>1. PICK S : file.lines \in Seq(S)
      BY DEF FilesInv, FileOK
    <3>2. PICK T : file'.lines \in Seq(T)
      BY <1>1 DEF FileOK
    <3>3. a.seq \in 1..Len(file.lines) /\ file.lines[a.seq].id = a.id
      BY <2>1 DEF FilesInv
    <3>. QED
      BY <1>1, <3>1, <3>2, <3>3 DEF Keeps
  <2>2. CASE res.result \in {"new", "known"} /\ a = [seq |-> res.seq, id |-> id]
    BY <2>2 DEF CallOK
  <2>. QED
    BY <2>1, <2>2
<1>. QED
  BY <1>1, <1>2, <1>3, <1>4 DEF FilesInv

LEMMA WritesKeep ==
  ASSUME FilesInv, NEW i \in Instances, NEW res, NEW id, CallOK(file, res, id), Writes(i, res, id)
  PROVE  FilesInv'
<1>1. CASE res.result \in {"new", "known"}
  <2>1. acked' = acked \cup {[seq |-> res.seq, id |-> id]}
    BY <1>1 DEF Writes
  <2>. QED
    BY <1>1, <2>1, CallKeeps DEF Writes
<1>2. CASE ~(res.result \in {"new", "known"})
  <2>1. acked' = acked
    BY <1>2 DEF Writes
  <2>. QED
    BY <2>1, CallKeeps DEF Writes
<1>. QED
  BY <1>1, <1>2

LEMMA ReadsKeep ==
  ASSUME FilesInv, NEW i \in Instances, Reads(i)
  PROVE  FilesInv' /\ LinesStep
<1> DEFINE res == [file |-> Load(file, index[i]).file, index |-> Load(file, index[i]).index,
                   result |-> "read"]
<1>1. FileOK(file) /\ IndexOK(index[i], file)
  BY DEF FilesInv
<1>2. /\ Load(file, index[i]).file = [lines |-> file.lines, torn |-> FALSE]
      /\ Load(file, index[i]).index = [recs |-> file.lines, sig |-> <<Len(file.lines), 0>>]
  BY <1>1, LoadAll
<1>3. /\ FileOK([lines |-> file.lines, torn |-> FALSE])
      /\ Keeps(file, [lines |-> file.lines, torn |-> FALSE])
      /\ IndexOK([recs |-> file.lines, sig |-> <<Len(file.lines), 0>>],
                 [lines |-> file.lines, torn |-> FALSE])
  BY <1>1, LoadedFile
<1>4. res.file = Load(file, index[i]).file /\ res.index = Load(file, index[i]).index
      /\ res.result \notin {"new", "known"}
  OBVIOUS
<1> HIDE DEF res
<1>5. CallOK(file, res, 0)
  BY <1>2, <1>3, <1>4 DEF CallOK
<1>6. file' = res.file /\ index' = [index EXCEPT ![i] = res.index] /\ acked' = acked
  BY <1>4 DEF Reads
<1>7. LinesStep
  BY <1>2, <1>4, <1>6 DEF LinesStep
<1>. QED
  BY <1>5, <1>6, <1>7, CallKeeps

\* An event that is no acceptance, or is a message by way of append, is written.
LEMMA EventIsWritten ==
  ASSUME FilesInv, NEW i \in Instances, NEW e, EventOK(e), NEW write \in WriteOutcomes,
         \/ e.type # "accepted" /\ Writes(i, AppendEvent(file, index[i], e, write), e.id)
         \/ Writes(i, AppendMessage(file, index[i], e, write), e.id)
  PROVE  FilesInv' /\ LinesStep
<1>0. write \in {"ok", "torn", "unacked"}
  BY DEF WriteOutcomes
<1>1. FileOK(file) /\ IndexOK(index[i], file)
  BY DEF FilesInv
<1> DEFINE line == Numbered(e, Len(file.lines) + 1)
<1>2. line.type = e.type /\ line.sub = e.sub
  BY DEF Numbered, EventOK
<1> HIDE DEF line
<1>3. CASE e.type # "accepted" /\ Writes(i, AppendEvent(file, index[i], e, write), e.id)
  <2> DEFINE res == AppendEvent(file, index[i], e, write)
  <2>1. CallOK(file, res, e.id) /\ AddsLine(file, res.file, e)
    BY <1>0, <1>1, AppendEventAdds
  <2>2. file' = res.file
    BY <1>3 DEF Writes
  <2> HIDE DEF res
  <2>3. file'.lines = file.lines \/ file'.lines = Append(file.lines, line)
    BY <2>1, <2>2 DEF AddsLine, line
  <2>4. LinesStep
    BY <1>2, <1>3, <2>3 DEF LinesStep
  <2>. QED
    BY <1>3, <2>1, <2>4, WritesKeep DEF res
<1>4. CASE Writes(i, AppendMessage(file, index[i], e, write), e.id)
  <2> DEFINE res == AppendMessage(file, index[i], e, write)
  <2>1. /\ CallOK(file, res, e.id) /\ AddsLine(file, res.file, e)
        /\ FindSubmission(file.lines, e.sub) # {} => res.file.lines = file.lines
    BY <1>0, <1>1, AppendMessageAdds
  <2>2. file' = res.file
    BY <1>4 DEF Writes
  <2> HIDE DEF res
  <2>3. \/ file'.lines = file.lines
        \/ /\ file'.lines = Append(file.lines, line)
           /\ FindSubmission(file.lines, e.sub) = {}
    BY <2>1, <2>2 DEF AddsLine, line
  <2>4. LinesStep
    BY <1>2, <2>3 DEF LinesStep
  <2>. QED
    BY <1>4, <2>1, <2>4, WritesKeep DEF res
<1>. QED
  BY <1>3, <1>4

\* Every step of the specification.
LEMMA StepKeepsFiles == FilesInv /\ [Next]_vars => FilesInv' /\ LinesStep
<1> SUFFICES ASSUME FilesInv, [Next]_vars PROVE FilesInv' /\ LinesStep
  OBVIOUS
<1>3. ASSUME NEW r \in Sends, NEW i \in Instances, Begin(r, i)
      PROVE  FilesInv' /\ LinesStep
  BY <1>3, ReadsKeep DEF Begin
<1>4. ASSUME NEW r \in Sends, NEW i \in Instances, RefuseFork(r, i)
      PROVE  FilesInv' /\ LinesStep
  BY <1>4, ReadsKeep DEF RefuseFork
<1>5. ASSUME NEW r \in Sends, NEW i \in Instances, Fork(r, i)
      PROVE  FilesInv' /\ LinesStep
  <2>1. CASE Reads(i)
    BY <2>1, ReadsKeep
  <2>2. CASE ~Reads(i)
    <3> DEFINE e == ForkEvent(send[r].branch, send[r].from)
    <3>1. PICK write \in WriteOutcomes :
            Writes(i, AppendEvent(file, index[i], e, write), <<"forked", send[r].branch>>)
      BY <1>5, <2>2 DEF Fork
    <3>2. EventOK(e) /\ e.id = <<"forked", send[r].branch>> /\ e.type # "accepted"
      BY EventsAreOK
    <3> HIDE DEF e
    <3>. QED
      BY <3>1, <3>2, EventIsWritten
  <2>. QED
    BY <2>1, <2>2
<1>6. ASSUME NEW r \in Sends, NEW i \in Instances, Continue(r, i)
      PROVE  FilesInv' /\ LinesStep
  <2>1. CASE Reads(i)
    BY <2>1, ReadsKeep
  <2>2. CASE ~Reads(i)
    <3> DEFINE e(turn) == Event("result", turn, send[r].branch)
    <3>1. PICK turn \in OpenCalls(Visible(Loaded(i), send[r].branch)), write \in WriteOutcomes :
            Writes(i, AppendEvent(file, index[i], e(turn), write), <<"result", turn>>)
      BY <1>6, <2>2 DEF Continue
    <3>2. EventOK(e(turn)) /\ e(turn).id = <<"result", turn>> /\ e(turn).type # "accepted"
      BY EventsAreOK
    <3> HIDE DEF e
    <3>. QED
      BY <3>1, <3>2, EventIsWritten
  <2>. QED
    BY <2>1, <2>2
<1>7. ASSUME NEW r \in Sends, NEW i \in Instances, Accept(r, i)
      PROVE  FilesInv' /\ LinesStep
  <2> DEFINE e == MessageEvent(r, send[r].branch, send[r].sub, send[r].body)
  <2>1. CASE Reads(i)
    BY <2>1, ReadsKeep
  <2>2. CASE ~Reads(i)
    <3>1. PICK write \in WriteOutcomes :
            Writes(i, AppendMessage(file, index[i], e, write), e.id)
      BY <1>7, <2>2 DEF Accept
    <3>2. EventOK(e)
      BY EventsAreOK
    <3> HIDE DEF e
    <3>. QED
      BY <3>1, <3>2, EventIsWritten
  <2>. QED
    BY <2>1, <2>2
<1>8. ASSUME NEW r \in Sends, NEW i \in Instances, NEW type \in {"call", "result"}, Work(r, i, type)
      PROVE  FilesInv' /\ LinesStep
  <2> DEFINE e == Event(type, r, send[r].branch)
  <2>1. PICK write \in WriteOutcomes : Writes(i, AppendEvent(file, index[i], e, write), e.id)
    BY <1>8 DEF Work
  <2>2. EventOK(e) /\ e.type # "accepted"
    BY EventsAreOK
  <2> HIDE DEF e
  <2>. QED
    BY <2>1, <2>2, EventIsWritten
<1>9. ASSUME NEW r \in Sends, NEW i \in Instances, SaveCheckpoint(r, i) \/ Wait(r, i)
      PROVE  FilesInv' /\ LinesStep
  BY <1>9, ReadsKeep DEF SaveCheckpoint, Wait
<1>10. ASSUME UNCHANGED <<file, index, acked>>
       PROVE  FilesInv' /\ LinesStep
  BY <1>10 DEF FilesInv, LinesStep
<1>11. ASSUME NEW r \in Sends, Resume(r) \/ Finish(r)
       PROVE  FilesInv' /\ LinesStep
  BY <1>10, <1>11 DEF Resume, Finish
<1>12. CASE Crash
  <2>1. file' = file /\ acked' = acked /\ index' = [i \in Instances |-> NoIndex]
    BY <1>12 DEF Crash
  <2>2. IndexOK(NoIndex, file)
    <3>1. PICK S : file.lines \in Seq(S)
      BY DEF FilesInv, FileOK
    <3>. QED
      BY <3>1 DEF IndexOK, NoIndex
  <2>. QED
    BY <2>1, <2>2 DEF FilesInv, LinesStep
<1>13. CASE UNCHANGED vars
  BY <1>10, <1>13 DEF vars
<1>. QED
  BY <1>3, <1>4, <1>5, <1>6, <1>7, <1>8, <1>9, <1>11, <1>12, <1>13 DEF Next

LEMMA InitFiles == Init => FilesInv
<1> SUFFICES ASSUME Init PROVE FilesInv
  OBVIOUS
<1>1. file = [lines |-> <<>>, torn |-> FALSE] /\ acked = {}
  BY DEF Init, EmptyFile
<1>2. FileOK(file)
  BY <1>1 DEF FileOK
<1>3. IndexOK(NoIndex, file)
  BY <1>1 DEF IndexOK, NoIndex
<1>4. index = [i \in Instances |-> NoIndex]
  BY DEF Init
<1>. QED
  BY <1>1, <1>2, <1>3, <1>4 DEF FilesInv

LEMMA FilesInvariant == Spec => []FilesInv
<1>. QED
  BY InitFiles, StepKeepsFiles, PTL DEF Spec

(* The file stays readable, however many objects write it and wherever a   *)
(* write is cut short: SessionConversationFiles never numbers two lines    *)
(* alike, never joins a line to a torn one, and never writes an event id   *)
(* twice.                                                                  *)
THEOREM FileStaysReadable == Spec => []Readable
<1>1. FilesInv => Readable
  BY DEF FilesInv, FileOK, Readable
<1>. QED
  BY <1>1, FilesInvariant, PTL

(* An event whose write has returned is found at its sequence for good,    *)
(* through every later write, cut, fault and crash.                        *)
THEOREM AcknowledgedStays == Spec => []AckedStays
<1>1. FilesInv => AckedStays
  <2> SUFFICES ASSUME FilesInv, NEW a \in acked
               PROVE  a.seq <= Len(file.lines) /\ file.lines[a.seq].id = a.id
    BY DEF AckedStays
  <2>. QED
    BY DEF FilesInv
<1>. QED
  BY <1>1, FilesInvariant, PTL

-----------------------------------------------------------------------------
(* Submissions.                                                            *)

\* A submission has been accepted on one line at most.
SubsOK(lines) ==
  \A j, k \in 1..Len(lines) :
    lines[j].type = "accepted" /\ lines[k].type = "accepted" /\ lines[j].sub = lines[k].sub => j = k

\* Who is told of a turn is told of the one that was accepted for the submission.
ToldOf(s, lines) ==
  \E k \in 1..Len(lines) :
    lines[k].type = "accepted" /\ lines[k].sub = s.sub /\ lines[k].turn = s.reply

SendFields == {"pc", "sub", "body", "branch", "from", "reply"}
SendsShape ==
  /\ send = [r \in Sends |-> send[r]]
  /\ \A r \in Sends : SendFields \subseteq DOMAIN send[r]

SubsInv ==
  /\ SubsOK(file.lines)
  /\ \A r \in Sends : send[r].pc = "answered" => ToldOf(send[r], file.lines)

\* What a step does to the lines keeps both.
LEMMA LinesKeepSubs ==
  ASSUME FilesInv, LinesStep, SubsOK(file.lines)
  PROVE  /\ SubsOK(file'.lines)
         /\ \A s : ToldOf(s, file.lines) => ToldOf(s, file'.lines)
<1>1. PICK S : file.lines \in Seq(S)
  BY DEF FilesInv, FileOK
<1>2. CASE file'.lines = file.lines
  BY <1>2
<1>3. ASSUME NEW line, file'.lines = Append(file.lines, line),
             line.type = "accepted" => FindSubmission(file.lines, line.sub) = {}
      PROVE  /\ SubsOK(file'.lines)
             /\ \A s : ToldOf(s, file.lines) => ToldOf(s, file'.lines)
  <2> DEFINE n == Len(file.lines)
             after == Append(file.lines, line)
  <2>1. file.lines \in Seq(S \cup {line})
    BY <1>1
  <2>2. /\ n \in Nat /\ Len(after) = n + 1
        /\ \A k \in 1..n : after[k] = file.lines[k]
        /\ after[n + 1] = line
        /\ DOMAIN file.lines = 1..n
    BY <2>1
  <2>3. \A k \in 1..n : ~(/\ line.type = "accepted" /\ file.lines[k].type = "accepted"
                          /\ file.lines[k].sub = line.sub)
    BY <1>3, <2>2 DEF FindSubmission, ToSet
  <2>4. file'.lines = after
    BY <1>3
  <2> HIDE DEF after
  <2>5. ASSUME NEW j \in 1..(n + 1), NEW k \in 1..(n + 1), after[j].type = "accepted",
               after[k].type = "accepted", after[j].sub = after[k].sub
        PROVE  j = k
    <3>1. CASE j \in 1..n /\ k \in 1..n
      BY <2>2, <2>5, <3>1 DEF SubsOK
    <3>2. CASE j = n + 1 /\ k \in 1..n
      BY <2>2, <2>3, <2>5, <3>2
    <3>3. CASE k = n + 1 /\ j \in 1..n
      BY <2>2, <2>3, <2>5, <3>3
    <3>4. CASE j = n + 1 /\ k = n + 1
      BY <3>4
    <3>. QED
      BY <2>2, <3>1, <3>2, <3>3, <3>4
  <2>6. SubsOK(after)
    BY <2>2, <2>5 DEF SubsOK
  <2>7. ASSUME NEW s, ToldOf(s, file.lines)
        PROVE  ToldOf(s, after)
    BY <2>2, <2>7 DEF ToldOf
  <2>. QED
    BY <2>4, <2>6, <2>7
<1>4. CASE file'.lines # file.lines
  <2>1. PICK line : /\ file'.lines = Append(file.lines, line)
                    /\ line.type = "accepted" => FindSubmission(file.lines, line.sub) = {}
    BY <1>4 DEF LinesStep
  <2>. QED
    BY <1>3, <2>1
<1>. QED
  BY <1>2, <1>4

\* A send that moves on is not answered.
LEMMA GoesOn ==
  ASSUME SendsShape, NEW r \in Sends, NEW at, at # "answered", Goes(r, at)
  PROVE  /\ SendsShape'
         /\ \A q \in Sends : send'[q] = send[q] \/ send'[q].pc # "answered"
<1> DEFINE new == IF at \in {"refused", "failed", "done"} THEN [NewSend EXCEPT !.pc = at]
                  ELSE [send[r] EXCEPT !.pc = at]
<1>1. send' = [send EXCEPT ![r] = new]
  BY DEF Goes
<1>2. SendFields \subseteq DOMAIN new /\ new.pc = at
  BY DEF SendsShape, SendFields, NewSend
<1> HIDE DEF new
<1>3. send' = [q \in Sends |-> IF q = r THEN new ELSE send[q]]
  BY <1>1 DEF SendsShape
<1>. QED
  BY <1>2, <1>3 DEF SendsShape

\* _existing_submission answers with the turn of the stored message.
LEMMA BeginAnswers ==
  ASSUME FilesInv, SendsShape, NEW r \in Sends, NEW i \in Instances, Begin(r, i)
  PROVE  /\ SendsShape'
         /\ \A q \in Sends : \/ send'[q] = send[q] \/ send'[q].pc # "answered"
                             \/ ToldOf(send'[q], file.lines)
<1>1. PICK sub \in SubmissionsOf(r), body \in Bodies, branch \in Branches :
      \E from \in ForkRequests(branch) :
       LET asked == [send[r] EXCEPT !.sub = sub, !.body = body, !.branch = branch, !.from = from]
           stored == FindSubmission(Loaded(i), sub)
       IN \/ /\ stored = {}
             /\ send' = [send EXCEPT ![r] = [asked EXCEPT !.pc = "checked"]]
             /\ busy' = {r}
          \/ \E e \in stored :
               /\ send' = [send EXCEPT ![r] =
                             IF e.body /= body \/ e.branch /= branch
                             THEN [NewSend EXCEPT !.pc = "refused"]
                             ELSE [asked EXCEPT !.pc = "answered", !.reply = e.turn]]
               /\ UNCHANGED busy
  BY DEF Begin
<1>2. PICK from \in ForkRequests(branch) :
       LET asked == [send[r] EXCEPT !.sub = sub, !.body = body, !.branch = branch, !.from = from]
           stored == FindSubmission(Loaded(i), sub)
       IN \/ /\ stored = {}
             /\ send' = [send EXCEPT ![r] = [asked EXCEPT !.pc = "checked"]]
             /\ busy' = {r}
          \/ \E e \in stored :
               /\ send' = [send EXCEPT ![r] =
                             IF e.body /= body \/ e.branch /= branch
                             THEN [NewSend EXCEPT !.pc = "refused"]
                             ELSE [asked EXCEPT !.pc = "answered", !.reply = e.turn]]
               /\ UNCHANGED busy
  BY <1>1
<1> DEFINE asked == [send[r] EXCEPT !.sub = sub, !.body = body, !.branch = branch, !.from = from]
<1>3. SendFields \subseteq DOMAIN asked /\ asked.sub = sub
  BY DEF SendsShape, SendFields
<1>4. Loaded(i) = file.lines
  <2>1. FileOK(file) /\ IndexOK(index[i], file)
    BY DEF FilesInv
  <2>2. Load(file, index[i]).index = [recs |-> file.lines, sig |-> <<Len(file.lines), 0>>]
    BY <2>1, LoadAll
  <2>. QED
    BY <2>2 DEF Loaded
<1>5. PICK S : file.lines \in Seq(S)
  BY DEF FilesInv, FileOK
<1> HIDE DEF asked
<1>6. ASSUME NEW new, send' = [send EXCEPT ![r] = new], SendFields \subseteq DOMAIN new,
             new.pc # "answered" \/ ToldOf(new, file.lines)
      PROVE  /\ SendsShape'
             /\ \A q \in Sends : \/ send'[q] = send[q] \/ send'[q].pc # "answered"
                                 \/ ToldOf(send'[q], file.lines)
  <2>1. send' = [q \in Sends |-> IF q = r THEN new ELSE send[q]]
    BY <1>6 DEF SendsShape
  <2>. QED
    BY <1>6, <2>1 DEF SendsShape
<1>7. CASE send' = [send EXCEPT ![r] = [asked EXCEPT !.pc = "checked"]]
  <2> DEFINE new == [asked EXCEPT !.pc = "checked"]
  <2>1. SendFields \subseteq DOMAIN new /\ new.pc # "answered"
    BY <1>3 DEF SendFields
  <2> HIDE DEF new
  <2>. QED
    BY <1>6, <1>7, <2>1 DEF new
<1>8. CASE send' = [send EXCEPT ![r] = [NewSend EXCEPT !.pc = "refused"]]
  <2> DEFINE new == [NewSend EXCEPT !.pc = "refused"]
  <2>1. SendFields \subseteq DOMAIN new /\ new.pc # "answered"
    BY DEF SendFields, NewSend
  <2> HIDE DEF new
  <2>. QED
    BY <1>6, <1>8, <2>1 DEF new
<1>9. ASSUME NEW e \in FindSubmission(file.lines, sub),
             send' = [send EXCEPT ![r] = [asked EXCEPT !.pc = "answered", !.reply = e.turn]]
      PROVE  /\ SendsShape'
             /\ \A q \in Sends : \/ send'[q] = send[q] \/ send'[q].pc # "answered"
                                 \/ ToldOf(send'[q], file.lines)
  <2> DEFINE new == [asked EXCEPT !.pc = "answered", !.reply = e.turn]
  <2>1. SendFields \subseteq DOMAIN new /\ new.sub = sub /\ new.reply = e.turn
    BY <1>3 DEF SendFields
  <2> HIDE DEF new
  <2>2. PICK k \in 1..Len(file.lines) : e = file.lines[k] /\ e.type = "accepted" /\ e.sub = sub
    BY <1>5 DEF FindSubmission, ToSet
  <2>3. ToldOf(new, file.lines)
    BY <2>1, <2>2 DEF ToldOf
  <2>. QED
    BY <1>6, <1>9, <2>1, <2>3 DEF new
<1>. QED
  BY <1>2, <1>4, <1>7, <1>8, <1>9 DEF asked

\* Every step leaves a send as it is, or unanswered, or answered with the accepted turn.
LEMMA StepOfSends ==
  ASSUME FilesInv, SendsShape, [Next]_vars
  PROVE  /\ SendsShape'
         /\ \A q \in Sends : \/ send'[q] = send[q] \/ send'[q].pc # "answered"
                             \/ ToldOf(send'[q], file.lines)
<1>1. ASSUME NEW r \in Sends, NEW i \in Instances, Begin(r, i)
      PROVE  /\ SendsShape'
             /\ \A q \in Sends : \/ send'[q] = send[q] \/ send'[q].pc # "answered"
                                 \/ ToldOf(send'[q], file.lines)
  BY <1>1, BeginAnswers
<1>2. ASSUME NEW r \in Sends,
             \E at \in {"ready", "refused", "failed", "checked", "running", "waiting", "done"} : Goes(r, at)
      PROVE  /\ SendsShape'
             /\ \A q \in Sends : \/ send'[q] = send[q] \/ send'[q].pc # "answered"
                                 \/ ToldOf(send'[q], file.lines)
  BY <1>2, GoesOn
<1>3. ASSUME UNCHANGED send
      PROVE  /\ SendsShape'
             /\ \A q \in Sends : send'[q] = send[q]
  BY <1>3 DEF SendsShape
<1>4. ASSUME NEW r \in Sends, NEW i \in Instances,
             RefuseFork(r, i) \/ Fork(r, i) \/ Continue(r, i) \/ Accept(r, i)
      PROVE  \E at \in {"ready", "refused", "failed", "checked", "running", "waiting", "done"} : Goes(r, at)
  <2>1. CASE RefuseFork(r, i)
    BY <2>1 DEF RefuseFork
  <2>2. CASE Fork(r, i)
    BY <2>2, Zenon DEF Fork
  <2>3. CASE Continue(r, i)
    BY <2>3, Zenon DEF Continue
  <2>4. CASE Accept(r, i)
    BY <2>4, Zenon DEF Accept
  <2>. QED
    BY <1>4, <2>1, <2>2, <2>3, <2>4
<1>5. ASSUME NEW r \in Sends, NEW i \in Instances,
             Work(r, i, "call") \/ Work(r, i, "result") \/ Wait(r, i)
      PROVE  \E at \in {"ready", "refused", "failed", "checked", "running", "waiting", "done"} : Goes(r, at)
  <2>1. ASSUME NEW type, Work(r, i, type)
        PROVE  \E at \in {"running", "failed"} : Goes(r, at)
    BY <2>1, Zenon DEF Work
  <2>2. CASE Wait(r, i)
    BY <2>2 DEF Wait
  <2>. QED
    BY <1>5, <2>1, <2>2
<1>6. ASSUME NEW r \in Sends, Resume(r) \/ Finish(r)
      PROVE  \E at \in {"ready", "refused", "failed", "checked", "running", "waiting", "done"} : Goes(r, at)
  BY <1>6 DEF Resume, Finish
<1>7. CASE Crash
  <2> DEFINE dead == [NewSend EXCEPT !.pc = "failed"]
  <2>1. SendFields \subseteq DOMAIN dead /\ dead.pc # "answered"
    BY DEF SendFields, NewSend
  <2>2. send' = [r \in Sends |-> IF send[r].pc \in {"checked", "ready", "running"} THEN dead ELSE send[r]]
    BY <1>7 DEF Crash
  <2> HIDE DEF dead
  <2>. QED
    BY <2>1, <2>2 DEF SendsShape
<1>8. CASE UNCHANGED vars
  BY <1>3, <1>8 DEF vars
<1>9. ASSUME NEW r \in Sends, NEW i \in Instances, SaveCheckpoint(r, i)
      PROVE  UNCHANGED send
  BY <1>9 DEF SaveCheckpoint
<1>10. CASE Next
  BY <1>1, <1>2, <1>3, <1>4, <1>5, <1>6, <1>7, <1>9, <1>10 DEF Next
<1>. QED
  BY <1>8, <1>10

LEMMA InitSends == Init => SendsShape /\ SubsInv
<1> SUFFICES ASSUME Init PROVE SendsShape /\ SubsInv
  OBVIOUS
<1>1. send = [r \in Sends |-> NewSend] /\ file.lines = <<>>
  BY DEF Init, EmptyFile
<1>2. SendFields \subseteq DOMAIN NewSend /\ NewSend.pc # "answered"
  BY DEF SendFields, NewSend
<1>. QED
  BY <1>1, <1>2 DEF SendsShape, SubsInv, SubsOK

(* A submission starts one turn at most, and a client that sends it again, *)
(* through any object and after any fault, is told of that turn            *)
(* (_existing_submission, append).                                         *)
THEOREM OneTurnPerSubmission == Spec => []SubmittedOnce
<1>1. Init => SendsShape /\ SubsInv
  BY InitSends
<1>2. FilesInv /\ SendsShape /\ SubsInv /\ [Next]_vars => SendsShape' /\ SubsInv'
  <2> SUFFICES ASSUME FilesInv, SendsShape, SubsInv, [Next]_vars
               PROVE  SendsShape' /\ SubsInv'
    OBVIOUS
  <2>1. LinesStep
    BY StepKeepsFiles
  <2>2. SubsOK(file'.lines) /\ \A s : ToldOf(s, file.lines) => ToldOf(s, file'.lines)
    BY <2>1, LinesKeepSubs DEF SubsInv
  <2>3. /\ SendsShape'
        /\ \A q \in Sends : \/ send'[q] = send[q] \/ send'[q].pc # "answered"
                            \/ ToldOf(send'[q], file.lines)
    BY StepOfSends
  <2>4. ASSUME NEW q \in Sends, send'[q].pc = "answered"
        PROVE  ToldOf(send'[q], file'.lines)
    <3>1. ToldOf(send'[q], file.lines)
      BY <2>3, <2>4 DEF SubsInv
    <3>. QED
      BY <2>2, <3>1
  <2>. QED
    BY <2>2, <2>3, <2>4 DEF SubsInv
<1>3. FilesInv /\ SubsInv => SubmittedOnce
  <2> SUFFICES ASSUME FilesInv, SubsInv PROVE SubmittedOnce
    OBVIOUS
  <2>1. PICK S : file.lines \in Seq(S)
    BY DEF FilesInv, FileOK
  <2>2. ASSUME NEW e \in ToSet(file.lines)
        PROVE  \E k \in 1..Len(file.lines) : e = file.lines[k]
    BY <2>1 DEF ToSet
  <2>3. ASSUME NEW e \in ToSet(file.lines), NEW f \in ToSet(file.lines),
               e.type = "accepted", f.type = "accepted", e.sub = f.sub
        PROVE  e = f
    BY <2>2, <2>3 DEF SubsInv, SubsOK
  <2>4. ASSUME NEW r \in Sends, NEW e \in ToSet(file.lines),
               e.type = "accepted", send[r].pc = "answered", e.sub = send[r].sub
        PROVE  e.turn = send[r].reply
    <3>1. PICK k \in 1..Len(file.lines) :
            /\ file.lines[k].type = "accepted" /\ file.lines[k].sub = send[r].sub
            /\ file.lines[k].turn = send[r].reply
      BY <2>4 DEF SubsInv, ToldOf
    <3>2. PICK j \in 1..Len(file.lines) : e = file.lines[j]
      BY <2>2
    <3>. QED
      BY <2>4, <3>1, <3>2 DEF SubsInv, SubsOK
  <2>. QED
    BY <2>3, <2>4 DEF SubmittedOnce
<1>. QED
  BY <1>1, <1>2, <1>3, FilesInvariant, PTL DEF Spec

-----------------------------------------------------------------------------
(* The lineage of the branches.                                            *)

\* Counting up: what holds of zero and goes on from each number to the next.
LEMMA CountUp ==
  ASSUME NEW n \in Nat, NEW T, 0 \in T, \A k \in 1..n : k - 1 \in T => k \in T
  PROVE  \A k \in 0..n : k \in T
<1> DEFINE Out == {k \in 0..n : k \notin T}
           R == OpToRel(<, Nat)
<1>1. CASE Out = {}
  BY <1>1
<1>2. CASE Out # {}
  <2>1. IsWellFoundedOn(R, Nat)
    BY NatLessThanWellFounded
  <2>2. \A x, y \in Nat : y < x => <<y, x>> \in R
    BY DEF OpToRel
  <2>7. /\ Out \in SUBSET Nat
        /\ \A k : k \in Out <=> k \in 0..n /\ k \notin T
    OBVIOUS
  <2>. HIDE DEF R, Out
  <2>3. PICK x \in Out : \A y \in Out : <<y, x>> \notin R
    BY <1>2, <2>1, <2>7, WFMin
  <2>4. x \in 0..n /\ x \notin T
    BY <2>7
  <2>5. x \in 1..n /\ x - 1 \in 0..n /\ x - 1 < x /\ x - 1 \in Nat /\ x \in Nat
    BY <2>4
  <2>6. x - 1 \in Out
    BY <2>4, <2>5, <2>7
  <2>. QED
    BY <2>2, <2>3, <2>5, <2>6
<1>. QED
  BY <1>1, <1>2

\* A branch is known at a line of the file from its fork on.
IsForkOf(l, b) == l.type = "forked" /\ l.branch = b
KnownAt(lines, b, k) == b = Main \/ \E j \in 1..k : IsForkOf(lines[j], b)

\* Every line is on a branch that is known, and a fork starts at an
\* earlier line of an earlier branch, or at the origin of one.
LineOK(lines, k) ==
  /\ lines[k].seq = k
  /\ lines[k].branch \in Branches
  /\ KnownAt(lines, lines[k].branch, k)
  /\ lines[k].type = "forked" =>
       /\ ~KnownAt(lines, lines[k].branch, k - 1)
       /\ KnownAt(lines, lines[k].from.branch, k - 1)
       /\ lines[k].from.seq \in 0..(k - 1)
       /\ lines[k].from.seq > 0 => lines[lines[k].from.seq].branch = lines[k].from.branch

LineageOK(lines) ==
  /\ \E S : lines \in Seq(S)
  /\ \A k \in 1..Len(lines) : LineOK(lines, k)

LEMMA KnownIsKnown ==
  ASSUME NEW lines, LineageOK(lines)
  PROVE  /\ KnownBranches(lines) = {b \in Branches : KnownAt(lines, b, Len(lines))}
         /\ \A b, k : KnownAt(lines, b, k) => \A n \in Nat : k \in Nat /\ k <= n => KnownAt(lines, b, n)
         /\ Main \in KnownBranches(lines)
<1>1. PICK S : lines \in Seq(S)
  BY DEF LineageOK
<1>2. DOMAIN lines = 1..Len(lines) /\ Len(lines) \in Nat
  BY <1>1
<1>3. ASSUME NEW b \in KnownBranches(lines)
      PROVE  b \in Branches /\ KnownAt(lines, b, Len(lines))
  <2>1. CASE b = Main
    BY <2>1, BranchAssumption DEF KnownAt
  <2>2. CASE b # Main
    <3>1. PICK e \in Forks(lines) : b = e.branch
      BY <1>3, <2>2 DEF KnownBranches
    <3>2. PICK j \in 1..Len(lines) : e = lines[j] /\ e.type = "forked"
      BY <1>2, <3>1 DEF Forks, ToSet
    <3>. QED
      BY <3>1, <3>2 DEF KnownAt, IsForkOf, LineageOK, LineOK
  <2>. QED
    BY <2>1, <2>2
<1>4. ASSUME NEW b \in Branches, KnownAt(lines, b, Len(lines))
      PROVE  b \in KnownBranches(lines)
  BY <1>2, <1>4 DEF KnownAt, IsForkOf, KnownBranches, Forks, ToSet
<1>. QED
  BY <1>3, <1>4, BranchAssumption DEF KnownAt

\* The fork of a branch is the one line that forks it.
LEMMA OneFork ==
  ASSUME NEW lines, LineageOK(lines), NEW k \in 1..Len(lines), lines[k].type = "forked"
  PROVE  /\ ForkOf(lines, lines[k].branch) = lines[k]
         /\ lines[k].branch \in {e.branch : e \in Forks(lines)}
         /\ lines[k].branch # Main
<1>1. PICK S : lines \in Seq(S)
  BY DEF LineageOK
<1>2. DOMAIN lines = 1..Len(lines) /\ Len(lines) \in Nat
  BY <1>1
<1>3. lines[k] \in Forks(lines)
  BY <1>2 DEF Forks, ToSet
<1>4. ASSUME NEW e \in Forks(lines), e.branch = lines[k].branch
      PROVE  e = lines[k]
  <2>1. PICK j \in 1..Len(lines) : e = lines[j] /\ e.type = "forked"
    BY <1>2 DEF Forks, ToSet
  <2>2. ~(j < k)
    <3>1. ASSUME j < k PROVE FALSE
      <4>1. j \in 1..(k - 1)
        BY <3>1
      <4>2. IsForkOf(lines[j], lines[k].branch)
        BY <1>4, <2>1 DEF IsForkOf
      <4>. QED
        BY <4>1, <4>2 DEF LineageOK, LineOK, KnownAt
    <3>. QED
      BY <3>1
  <2>3. ~(k < j)
    <3>1. ASSUME k < j PROVE FALSE
      <4>1. k \in 1..(j - 1)
        BY <3>1
      <4>2. IsForkOf(lines[k], lines[j].branch)
        BY <1>4, <2>1 DEF IsForkOf
      <4>. QED
        BY <2>1, <4>1, <4>2 DEF LineageOK, LineOK, KnownAt
    <3>. QED
      BY <3>1
  <2>. QED
    BY <2>1, <2>2, <2>3
<1>5. lines[k].branch # Main
  BY DEF LineageOK, LineOK, KnownAt
<1>. QED
  BY <1>3, <1>4, <1>5 DEF ForkOf
\* What the limits of a branch are made of, and a solution of that equation.
Cut(lines, b, g) ==
  LET cut == ForkOf(lines, b).from
  IN [g EXCEPT ![cut.branch] = cut.seq, ![b] = Len(lines)]
Step(lines, f, b) ==
  IF b \notin {e.branch : e \in Forks(lines)}
  THEN [x \in Branches |-> IF x = b THEN Len(lines) ELSE 0]
  ELSE Cut(lines, b, f[ForkOf(lines, b).from.branch])
Solves(lines, f) == f = [b \in Branches |-> Step(lines, f, b)]

\* A solution as far as the forks of the first lines go.
SolvesTo(lines, f, k) ==
  /\ f = [b \in Branches |-> f[b]]
  /\ \A b \in Branches :
       b \notin {e.branch : e \in Forks(lines)} \/ KnownAt(lines, b, k) => f[b] = Step(lines, f, b)

\* The branch a fork starts from is not the one it makes.
LEMMA OtherBranch ==
  ASSUME NEW lines, LineageOK(lines), NEW k \in 1..Len(lines), NEW b \in Branches,
         b \in {e.branch : e \in Forks(lines)}, KnownAt(lines, b, k - 1)
  PROVE  /\ b # lines[k].branch \/ lines[k].type # "forked"
         /\ ForkOf(lines, b).from.branch \in Branches
         /\ lines[k].type = "forked" => ForkOf(lines, b).from.branch # lines[k].branch
<1>1. PICK S : lines \in Seq(S)
  BY DEF LineageOK
<1>2. DOMAIN lines = 1..Len(lines) /\ Len(lines) \in Nat
  BY <1>1
<1>3. b # Main
  <2>1. PICK e \in Forks(lines) : e.branch = b
    OBVIOUS
  <2>2. PICK i \in 1..Len(lines) : e = lines[i] /\ e.type = "forked"
    BY <1>2 DEF Forks, ToSet
  <2>. QED
    BY <2>1, <2>2, OneFork
<1>4. PICK j \in 1..(k - 1) : IsForkOf(lines[j], b)
  BY <1>3 DEF KnownAt
<1>5. j \in 1..Len(lines) /\ j < k
  BY <1>2
<1>6. ForkOf(lines, b) = lines[j]
  BY <1>4, <1>5, OneFork DEF IsForkOf
<1>7. KnownAt(lines, lines[j].from.branch, j - 1) /\ LineOK(lines, j) /\ LineOK(lines, k)
  BY <1>4, <1>5 DEF LineageOK, LineOK, IsForkOf
<1>8. KnownAt(lines, lines[j].from.branch, k - 1) /\ KnownAt(lines, lines[j].from.branch, Len(lines))
  BY <1>2, <1>5, <1>7 DEF KnownAt
<1>9. lines[j].from.branch \in Branches
  BY <1>8, KnownIsKnown, BranchAssumption DEF KnownAt, LineageOK, LineOK, IsForkOf
<1>. QED
  BY <1>4, <1>6, <1>7, <1>8, <1>9 DEF LineOK

LEMMA LimitsAreDefined ==
  ASSUME NEW lines, LineageOK(lines)
  PROVE  \E f : Solves(lines, f)
<1> DEFINE T == {k \in 0..Len(lines) : \E f : SolvesTo(lines, f, k)}
<1>1. PICK S : lines \in Seq(S)
  BY DEF LineageOK
<1>2. DOMAIN lines = 1..Len(lines) /\ Len(lines) \in Nat
  BY <1>1
<1>3. 0 \in T
  <2> DEFINE f == [b \in Branches |-> [x \in Branches |-> IF x = b THEN Len(lines) ELSE 0]]
  <2>1. ASSUME NEW b \in Branches,
               b \notin {e.branch : e \in Forks(lines)} \/ KnownAt(lines, b, 0)
        PROVE  f[b] = Step(lines, f, b)
    <3>1. b \notin {e.branch : e \in Forks(lines)}
      <4>1. ASSUME NEW e \in Forks(lines) PROVE e.branch # Main
        <5>1. PICK i \in 1..Len(lines) : e = lines[i] /\ e.type = "forked"
          BY <1>2 DEF Forks, ToSet
        <5>. QED
          BY <5>1, OneFork
      <4>. QED
        BY <2>1, <4>1 DEF KnownAt
    <3>. QED
      BY <3>1 DEF Step
  <2>2. f = [b \in Branches |-> f[b]]
    OBVIOUS
  <2> HIDE DEF f
  <2>. QED
    BY <1>2, <2>1, <2>2 DEF SolvesTo
<1>4. ASSUME NEW k \in 1..Len(lines), k - 1 \in T
      PROVE  k \in T
  <2>1. PICK f : SolvesTo(lines, f, k - 1)
    BY <1>4
  <2>2. CASE lines[k].type # "forked"
    <3>1. \A b : KnownAt(lines, b, k) => KnownAt(lines, b, k - 1)
      BY <2>2 DEF KnownAt, IsForkOf
    <3>. QED
      BY <2>1, <3>1 DEF SolvesTo
  <2>3. CASE lines[k].type = "forked"
    <3> DEFINE c == lines[k].branch
               new == Step(lines, f, c)
    <3>1. PICK g : g = [b \in Branches |-> IF b = c THEN new ELSE f[b]]
      OBVIOUS
    <3>2. c \in Branches /\ c \in {e.branch : e \in Forks(lines)}
      BY <2>3, OneFork DEF LineageOK, LineOK
    <3>3. ForkOf(lines, c) = lines[k]
      BY <2>3, OneFork
    <3>4. lines[k].from.branch \in Branches /\ lines[k].from.branch # c
      <4>1. KnownAt(lines, lines[k].from.branch, k - 1) /\ ~KnownAt(lines, c, k - 1)
        BY <2>3 DEF LineageOK, LineOK
      <4>2. KnownAt(lines, lines[k].from.branch, Len(lines))
        BY <1>2, <4>1 DEF KnownAt
      <4>. QED
        BY <4>1, <4>2, KnownIsKnown, BranchAssumption DEF KnownAt, LineageOK, LineOK, IsForkOf
    <3>5. new = Cut(lines, c, f[lines[k].from.branch])
      BY <3>2, <3>3 DEF Step
    <3>6. Step(lines, g, c) = Cut(lines, c, g[lines[k].from.branch])
      BY <3>2, <3>3 DEF Step
    <3> HIDE DEF new
    <3>7. g[c] = new /\ \A b \in Branches \ {c} : g[b] = f[b]
      BY <3>1, <3>2
    <3>8. g[c] = Step(lines, g, c)
      BY <3>4, <3>5, <3>6, <3>7
    <3>9. ASSUME NEW b \in Branches \ {c},
                 b \notin {e.branch : e \in Forks(lines)} \/ KnownAt(lines, b, k)
          PROVE  g[b] = Step(lines, g, b)
      <4>1. CASE b \notin {e.branch : e \in Forks(lines)}
        BY <2>1, <3>7, <4>1 DEF Step, SolvesTo
      <4>2. CASE b \in {e.branch : e \in Forks(lines)}
        <5>1. KnownAt(lines, b, k - 1)
          BY <3>9, <4>2 DEF KnownAt, IsForkOf
        <5>2. /\ ForkOf(lines, b).from.branch \in Branches
              /\ ForkOf(lines, b).from.branch # c
          BY <2>3, <4>2, <5>1, OtherBranch
        <5>3. g[ForkOf(lines, b).from.branch] = f[ForkOf(lines, b).from.branch]
          BY <3>7, <5>2
        <5>4. Step(lines, g, b) = Step(lines, f, b)
          BY <4>2, <5>3 DEF Step
        <5>. QED
          BY <2>1, <3>7, <5>1, <5>4 DEF SolvesTo
      <4>. QED
        BY <4>1, <4>2
    <3>10. g = [b \in Branches |-> g[b]]
      BY <3>1
    <3>11. SolvesTo(lines, g, k)
      BY <3>8, <3>9, <3>10 DEF SolvesTo
    <3>. QED
      BY <3>11
  <2>. QED
    BY <2>2, <2>3
<1> HIDE DEF T
<1>5. Len(lines) \in T
  <2>1. PICK n \in Nat : n = Len(lines)
    BY <1>2
  <2>2. \A k \in 1..n : k - 1 \in T => k \in T
    BY <1>4, <2>1
  <2>3. \A k \in 0..n : k \in T
    BY <1>3, <2>2, CountUp
  <2>. QED
    BY <2>1, <2>3
<1>6. PICK f : SolvesTo(lines, f, Len(lines))
  BY <1>5 DEF T
<1>7. ASSUME NEW b \in Branches
      PROVE  f[b] = Step(lines, f, b)
  <2>1. CASE b \in {e.branch : e \in Forks(lines)}
    <3>1. PICK e \in Forks(lines) : e.branch = b
      BY <2>1
    <3>2. PICK i \in 1..Len(lines) : e = lines[i] /\ e.type = "forked"
      BY <1>2, <3>1 DEF Forks, ToSet
    <3>3. KnownAt(lines, b, Len(lines))
      BY <3>1, <3>2 DEF KnownAt, IsForkOf
    <3>. QED
      BY <1>6, <3>3 DEF SolvesTo
  <2>2. CASE b \notin {e.branch : e \in Forks(lines)}
    BY <1>6, <2>2 DEF SolvesTo
  <2>. QED
    BY <2>1, <2>2
<1>. QED
  BY <1>6, <1>7 DEF SolvesTo, Solves

\* The limits of a branch, one fork at a time.
LEMMA LimitsStep ==
  ASSUME NEW lines, LineageOK(lines), NEW b \in Branches
  PROVE  IF b \notin {e.branch : e \in Forks(lines)}
         THEN Limits(lines, b) = [x \in Branches |-> IF x = b THEN Len(lines) ELSE 0]
         ELSE ForkOf(lines, b).from.branch \in Branches =>
              Limits(lines, b) = Cut(lines, b, Limits(lines, ForkOf(lines, b).from.branch))
<1>1. PICK f : f = CHOOSE g : Solves(lines, g)
  OBVIOUS
<1>2. Solves(lines, f)
  BY <1>1, LimitsAreDefined
<1>3. ASSUME NEW c \in Branches PROVE Limits(lines, c) = f[c]
  BY <1>1 DEF Limits, Solves, Step, Cut
<1>4. f[b] = Step(lines, f, b)
  BY <1>2 DEF Solves
<1>. QED
  BY <1>3, <1>4 DEF Step

LEMMA CutAt ==
  ASSUME NEW n \in Nat, NEW g \in [Branches -> 0..n], NEW a \in Branches, NEW b \in Branches,
         NEW s \in 0..n
  PROVE  LET cut == [g EXCEPT ![a] = s, ![b] = n]
         IN /\ cut \in [Branches -> 0..n]
            /\ \A x \in Branches : cut[x] = IF x = b THEN n ELSE IF x = a THEN s ELSE g[x]
<1>1. PICK h : h = [g EXCEPT ![a] = s]
  OBVIOUS
<1>2. h \in [Branches -> 0..n] /\ \A x \in Branches : h[x] = IF x = a THEN s ELSE g[x]
  BY <1>1
<1>3. PICK cut : cut = [h EXCEPT ![b] = n]
  OBVIOUS
<1>4. cut \in [Branches -> 0..n] /\ \A x \in Branches : cut[x] = IF x = b THEN n ELSE h[x]
  BY <1>2, <1>3
<1>5. cut = [g EXCEPT ![a] = s, ![b] = n]
  BY <1>1, <1>3, Zenon
<1>. QED
  BY <1>2, <1>4, <1>5

\* A branch sees all its own lines, and of others only lines before the one it is known at.
LimitsBelow(lines, b, k) ==
  /\ Limits(lines, b) \in [Branches -> 0..Len(lines)]
  /\ Limits(lines, b)[b] = Len(lines)
  /\ \A x \in Branches \ {b} : Limits(lines, b)[x] = 0 \/ Limits(lines, b)[x] < k

\* The limits of the main branch, and of one that a line forks off.
LEMMA LimitsOfMain ==
  ASSUME NEW lines, LineageOK(lines)
  PROVE  Limits(lines, Main) = [x \in Branches |-> IF x = Main THEN Len(lines) ELSE 0]
<1>1. PICK S : lines \in Seq(S)
  BY DEF LineageOK
<1>2. ASSUME NEW e \in Forks(lines) PROVE e.branch # Main
  <2>1. PICK i \in 1..Len(lines) : e = lines[i] /\ e.type = "forked"
    BY <1>1 DEF Forks, ToSet
  <2>. QED
    BY <2>1, OneFork
<1>. QED
  BY <1>2, LimitsStep, BranchAssumption

LEMMA LimitsOfFork ==
  ASSUME NEW lines, LineageOK(lines), NEW k \in 1..Len(lines), lines[k].type = "forked"
  PROVE  LET b == lines[k].branch
             cut == lines[k].from
         IN /\ b \in Branches /\ cut.branch \in Branches
            /\ KnownAt(lines, cut.branch, k - 1) /\ cut.seq \in 0..(k - 1)
            /\ b # cut.branch
            /\ Limits(lines, b) = [Limits(lines, cut.branch) EXCEPT ![cut.branch] = cut.seq, ![b] = Len(lines)]
<1> DEFINE b == lines[k].branch
           cut == lines[k].from
<1>1. LineOK(lines, k) /\ Len(lines) \in Nat
  BY DEF LineageOK
<1>2. ForkOf(lines, b) = lines[k] /\ b \in {e.branch : e \in Forks(lines)}
  BY OneFork
<1>3. KnownAt(lines, cut.branch, k - 1) /\ ~KnownAt(lines, b, k - 1) /\ b \in Branches
      /\ cut.seq \in 0..(k - 1)
  BY <1>1 DEF LineOK
<1>4. cut.branch \in Branches
  BY <1>1, <1>3, BranchAssumption DEF KnownAt, IsForkOf, LineageOK, LineOK
<1>5. Limits(lines, b) = Cut(lines, b, Limits(lines, cut.branch))
  BY <1>2, <1>3, <1>4, LimitsStep
<1>6. Cut(lines, b, Limits(lines, cut.branch))
        = [Limits(lines, cut.branch) EXCEPT ![cut.branch] = cut.seq, ![b] = Len(lines)]
  BY <1>2 DEF Cut
<1>. QED
  BY <1>3, <1>4, <1>5, <1>6

LEMMA LimitsShape ==
  ASSUME NEW lines, LineageOK(lines), NEW b \in Branches, NEW n \in 0..Len(lines),
         KnownAt(lines, b, n)
  PROVE  LimitsBelow(lines, b, n)
<1> DEFINE T == {k \in 0..Len(lines) :
                   \A c \in Branches : KnownAt(lines, c, k) => LimitsBelow(lines, c, k)}
<1>1. PICK len \in Nat : len = Len(lines)
  BY DEF LineageOK
<1>2. 0 \in T
  <2>1. ASSUME NEW c \in Branches, KnownAt(lines, c, 0) PROVE LimitsBelow(lines, c, 0)
    <3>1. c = Main
      BY <2>1 DEF KnownAt
    <3>2. Limits(lines, c) = [x \in Branches |-> IF x = c THEN len ELSE 0]
      BY <1>1, <3>1, LimitsOfMain
    <3>. QED
      BY <1>1, <3>2 DEF LimitsBelow
  <2>. QED
    BY <1>1, <2>1
<1>3. ASSUME NEW k \in 1..len, k - 1 \in T PROVE k \in T
  <2>1. ASSUME NEW c \in Branches, KnownAt(lines, c, k) PROVE LimitsBelow(lines, c, k)
    <3>1. CASE KnownAt(lines, c, k - 1)
      <4>1. LimitsBelow(lines, c, k - 1)
        BY <1>3, <3>1
      <4>. QED
        BY <1>1, <4>1 DEF LimitsBelow
    <3>2. CASE ~KnownAt(lines, c, k - 1)
      <4> DEFINE cut == lines[k].from
      <4>1. lines[k].type = "forked" /\ lines[k].branch = c
        BY <2>1, <3>2 DEF KnownAt, IsForkOf
      <4>2. /\ cut.branch \in Branches /\ KnownAt(lines, cut.branch, k - 1) /\ cut.seq \in 0..(k - 1)
            /\ Limits(lines, c) = [Limits(lines, cut.branch) EXCEPT ![cut.branch] = cut.seq, ![c] = len]
            /\ c # cut.branch
        BY <1>1, <4>1, LimitsOfFork
      <4>3. LimitsBelow(lines, cut.branch, k - 1)
        BY <1>3, <4>2
      <4>4. PICK g : g = Limits(lines, cut.branch)
        OBVIOUS
      <4>5. PICK h : h = Limits(lines, c)
        OBVIOUS
      <4>6. g \in [Branches -> 0..len] /\ cut.seq \in 0..len
        BY <1>1, <4>2, <4>3, <4>4 DEF LimitsBelow
      <4>7. /\ h \in [Branches -> 0..len]
            /\ \A x \in Branches : h[x] = IF x = c THEN len ELSE IF x = cut.branch THEN cut.seq ELSE g[x]
        <5>1. PICK a \in Branches, s \in 0..len : a = cut.branch /\ s = cut.seq
          BY <4>2, <4>6
        <5>2. h = [g EXCEPT ![a] = s, ![c] = len]
          BY <4>2, <4>4, <4>5, <5>1
        <5>3. /\ h \in [Branches -> 0..len]
              /\ \A x \in Branches : h[x] = IF x = c THEN len ELSE IF x = a THEN s ELSE g[x]
          BY <4>6, <5>2, CutAt
        <5>. QED
          BY <5>1, <5>3
      <4>8. \A x \in Branches \ {cut.branch} : g[x] = 0 \/ g[x] < k - 1
        BY <4>3, <4>4 DEF LimitsBelow
      <4>9. \A x \in Branches \ {c} : h[x] = 0 \/ h[x] < k
        <5>1. ASSUME NEW x \in Branches \ {c} PROVE h[x] = 0 \/ h[x] < k
          <6>1. CASE x = cut.branch
            BY <4>2, <4>7, <6>1
          <6>2. CASE x # cut.branch
            <7>1. h[x] = g[x] /\ g[x] \in 0..len
              BY <4>6, <4>7, <6>2
            <7>. QED
              BY <4>8, <6>2, <7>1
          <6>. QED
            BY <6>1, <6>2
        <5>. QED
          BY <5>1
      <4>. QED
        BY <1>1, <4>5, <4>7, <4>9 DEF LimitsBelow
    <3>. QED
      BY <3>1, <3>2
  <2>. QED
    BY <1>1, <2>1
<1> HIDE DEF T
<1>4. \A k \in 0..len : k \in T
  BY <1>2, <1>3, CountUp
<1>5. n \in T
  BY <1>1, <1>4
<1>. QED
  BY <1>5 DEF T

Grows(lines, line, more) == more = Append(lines, line)

\* A line more leaves what a known branch sees of the others as it is.
LEMMA LimitsStay ==
  ASSUME NEW lines, NEW line, NEW more, Grows(lines, line, more),
         LineageOK(lines), LineageOK(more), NEW b \in Branches, NEW n \in 0..Len(lines),
         KnownAt(lines, b, n)
  PROVE  \A x \in Branches \ {b} : Limits(more, b)[x] = Limits(lines, b)[x]
<1> DEFINE Same(c) == \A x \in Branches \ {c} : Limits(more, c)[x] = Limits(lines, c)[x]
           T == {k \in 0..Len(lines) : \A c \in Branches : KnownAt(lines, c, k) => Same(c)}
<1>1. PICK len \in Nat : len = Len(lines)
  BY DEF LineageOK
<1>2. PICK S : lines \in Seq(S)
  BY DEF LineageOK
<1>3. Len(more) = len + 1 /\ \A k \in 1..len : more[k] = lines[k]
  <2>1. lines \in Seq(S \cup {line})
    BY <1>2
  <2>. QED
    BY <1>1, <2>1 DEF Grows
<1>4. 0 \in T
  <2>1. ASSUME NEW c \in Branches, KnownAt(lines, c, 0) PROVE Same(c)
    <3>1. c = Main
      BY <2>1 DEF KnownAt
    <3>. QED
      BY <1>1, <3>1, LimitsOfMain
  <2>. QED
    BY <1>1, <2>1
<1>5. ASSUME NEW k \in 1..len, k - 1 \in T PROVE k \in T
  <2>1. ASSUME NEW c \in Branches, KnownAt(lines, c, k) PROVE Same(c)
    <3>1. CASE KnownAt(lines, c, k - 1)
      BY <1>5, <3>1
    <3>2. CASE ~KnownAt(lines, c, k - 1)
      <4> DEFINE cut == lines[k].from
      <4>1. lines[k].type = "forked" /\ lines[k].branch = c /\ more[k] = lines[k]
        BY <1>3, <2>1, <3>2 DEF KnownAt, IsForkOf
      <4>2. /\ cut.branch \in Branches /\ KnownAt(lines, cut.branch, k - 1) /\ cut.seq \in 0..(k - 1)
            /\ Limits(lines, c) = [Limits(lines, cut.branch) EXCEPT ![cut.branch] = cut.seq, ![c] = len]
        BY <1>1, <4>1, LimitsOfFork
      <4>3. Limits(more, c) = [Limits(more, cut.branch) EXCEPT ![cut.branch] = cut.seq, ![c] = len + 1]
        <5>1. k \in 1..Len(more)
          BY <1>1, <1>3
        <5>. QED
          <6>1. PICK l : l = more[k]
            OBVIOUS
          <6>2. l.type = "forked" /\ l.branch = c /\ l.from = cut
            BY <4>1, <6>1
          <6>3. Limits(more, l.branch) =
                  [Limits(more, l.from.branch) EXCEPT ![l.from.branch] = l.from.seq, ![l.branch] = Len(more)]
            BY <5>1, <6>1, <6>2, LimitsOfFork
          <6>. QED
            BY <1>3, <6>2, <6>3
      <4>4. Same(cut.branch)
        BY <1>5, <4>2
      <4>5. PICK g, h : g = Limits(lines, cut.branch) /\ h = Limits(more, cut.branch)
        OBVIOUS
      <4>6. g \in [Branches -> 0..len]
        <5>1. k - 1 \in 0..Len(lines)
          BY <1>1
        <5>. QED
          BY <1>1, <4>2, <4>5, <5>1, LimitsShape DEF LimitsBelow
      <4>7. h \in [Branches -> 0..(len + 1)]
        <5>1. k - 1 \in 0..Len(more)
          BY <1>1, <1>3
        <5>2. KnownAt(more, cut.branch, k - 1)
          BY <1>3, <4>2 DEF KnownAt, IsForkOf
        <5>. QED
          BY <1>3, <4>2, <4>5, <5>1, <5>2, LimitsShape DEF LimitsBelow
      <4>8. cut.seq \in 0..len /\ cut.seq \in 0..(len + 1) /\ len + 1 \in Nat
        BY <4>2
      <4>9. \A x \in Branches :
              Limits(lines, c)[x] = IF x = c THEN len ELSE IF x = cut.branch THEN cut.seq ELSE g[x]
        BY <4>2, <4>5, <4>6, <4>8, CutAt
      <4>10. \A x \in Branches :
              Limits(more, c)[x] = IF x = c THEN len + 1 ELSE IF x = cut.branch THEN cut.seq ELSE h[x]
        BY <4>2, <4>3, <4>5, <4>7, <4>8, CutAt
      <4>. QED
        BY <4>4, <4>5, <4>9, <4>10
    <3>. QED
      BY <3>1, <3>2
  <2>. QED
    BY <1>1, <2>1
<1> HIDE DEF T
<1>6. \A k \in 0..len : k \in T
  BY <1>4, <1>5, CountUp
<1>7. n \in T
  BY <1>1, <1>6
<1>. QED
  BY <1>7 DEF T

-----------------------------------------------------------------------------
(* What a branch sees.                                                     *)

\* An event is seen at its line.
LEMMA SeenLines ==
  ASSUME NEW lines, LineageOK(lines), NEW b, NEW asOf
  PROVE  \A e : e \in VisibleUpTo(lines, b, asOf) <=>
           \E k \in 1..Len(lines) : /\ e = lines[k] /\ e.seq = k
                                    /\ k <= Limits(lines, b)[e.branch] /\ k <= asOf
<1>1. PICK S : lines \in Seq(S)
  BY DEF LineageOK
<1>2. \A e : e \in ToSet(lines) <=> \E k \in 1..Len(lines) : e = lines[k]
  BY <1>1 DEF ToSet
<1>3. \A k \in 1..Len(lines) : lines[k].seq = k
  BY DEF LineageOK, LineOK
<1>. QED
  BY <1>2, <1>3 DEF VisibleUpTo

\* A line more changes nothing of what a branch saw, and shows if it is the branch's own.
LEMMA VisibleGrows ==
  ASSUME NEW lines, NEW line, NEW more, Grows(lines, line, more),
         LineageOK(lines), LineageOK(more), NEW b \in KnownBranches(lines)
  PROVE  /\ \A asOf \in 0..Len(lines) : VisibleUpTo(more, b, asOf) = VisibleUpTo(lines, b, asOf)
         /\ Visible(more, b) = Visible(lines, b) \cup (IF line.branch = b THEN {line} ELSE {})
<1>1. PICK n \in Nat : n = Len(lines)
  BY DEF LineageOK
<1>2. PICK S : lines \in Seq(S)
  BY DEF LineageOK
<1>3. Len(more) = n + 1 /\ more[n + 1] = line /\ \A k \in 1..n : more[k] = lines[k]
  <2>1. lines \in Seq(S \cup {line})
    BY <1>2
  <2>. QED
    BY <1>1, <2>1 DEF Grows
<1>4. b \in Branches /\ KnownAt(lines, b, n) /\ KnownAt(more, b, n)
  <2>1. b \in Branches /\ KnownAt(lines, b, n)
    BY <1>1, KnownIsKnown
  <2>. QED
    BY <1>3, <2>1 DEF KnownAt, IsForkOf
<1>5. PICK l, m : l = Limits(lines, b) /\ m = Limits(more, b)
  OBVIOUS
<1>6. /\ l[b] = n
      /\ l \in [Branches -> 0..n]
      /\ \A x \in Branches \ {b} : l[x] = 0 \/ l[x] < n
  <2>1. n \in 0..Len(lines)
    BY <1>1
  <2>. QED
    BY <1>1, <1>4, <1>5, <2>1, LimitsShape DEF LimitsBelow
<1>7. m[b] = n + 1
  <2>1. n \in 0..Len(more)
    BY <1>3
  <2>. QED
    BY <1>3, <1>4, <1>5, <2>1, LimitsShape DEF LimitsBelow
<1>8. \A x \in Branches \ {b} : m[x] = l[x]
  <2>1. n \in 0..Len(lines)
    BY <1>1
  <2>2. \A x \in Branches \ {b} : Limits(more, b)[x] = Limits(lines, b)[x]
    BY <1>4, <2>1, LimitsStay
  <2>. QED
    BY <1>5, <2>2
<1>9. \A k \in 1..n : /\ more[k].branch \in Branches /\ lines[k].seq = k
                      /\ k <= m[more[k].branch] <=> k <= l[lines[k].branch]
  <2>1. ASSUME NEW k \in 1..n
        PROVE  /\ more[k].branch \in Branches /\ lines[k].seq = k
               /\ k <= m[more[k].branch] <=> k <= l[lines[k].branch]
    <3>1. LineOK(lines, k) /\ more[k] = lines[k]
      BY <1>1, <1>3 DEF LineageOK
    <3>2. CASE lines[k].branch = b
      BY <1>4, <1>6, <1>7, <3>1, <3>2 DEF LineOK
    <3>3. CASE lines[k].branch # b
      BY <1>8, <3>1, <3>3 DEF LineOK
    <3>. QED
      BY <3>2, <3>3
  <2>. QED
    BY <2>1
<1>10. ASSUME NEW asOf \in 0..n
       PROVE  VisibleUpTo(more, b, asOf) = VisibleUpTo(lines, b, asOf)
  <2>1. \A e : e \in VisibleUpTo(more, b, asOf) <=>
           \E k \in 1..(n + 1) : e = more[k] /\ e.seq = k /\ k <= m[e.branch] /\ k <= asOf
    <3>1. \A e : e \in VisibleUpTo(more, b, asOf) <=>
            \E k \in 1..Len(more) : /\ e = more[k] /\ e.seq = k
                                    /\ k <= Limits(more, b)[e.branch] /\ k <= asOf
      BY SeenLines
    <3>. QED
      BY <1>3, <1>5, <3>1
  <2>2. \A e : e \in VisibleUpTo(lines, b, asOf) <=>
           \E k \in 1..n : e = lines[k] /\ e.seq = k /\ k <= l[e.branch] /\ k <= asOf
    BY <1>1, <1>5, SeenLines
  <2>3. \A e : e \in VisibleUpTo(more, b, asOf) <=> e \in VisibleUpTo(lines, b, asOf)
    <3>1. ASSUME NEW e, e \in VisibleUpTo(more, b, asOf) PROVE e \in VisibleUpTo(lines, b, asOf)
      <4>1. PICK k \in 1..(n + 1) : e = more[k] /\ e.seq = k /\ k <= m[e.branch] /\ k <= asOf
        BY <2>1, <3>1
      <4>2. k \in 1..n
        BY <4>1
      <4>. QED
        BY <1>3, <1>9, <2>2, <4>1, <4>2
    <3>2. ASSUME NEW e, e \in VisibleUpTo(lines, b, asOf) PROVE e \in VisibleUpTo(more, b, asOf)
      <4>1. PICK k \in 1..n : e = lines[k] /\ e.seq = k /\ k <= l[e.branch] /\ k <= asOf
        BY <2>2, <3>2
      <4>2. k \in 1..(n + 1) /\ e = more[k] /\ k <= m[e.branch]
        BY <1>3, <1>9, <4>1
      <4>. QED
        BY <2>1, <4>1, <4>2
    <3>. QED
      BY <3>1, <3>2
  <2>. QED
    BY <2>3, Zenon DEF VisibleUpTo
<1>11. Visible(more, b) = Visible(lines, b) \cup (IF line.branch = b THEN {line} ELSE {})
  <2>1. \A e : e \in Visible(more, b) <=>
           \E k \in 1..(n + 1) : e = more[k] /\ e.seq = k /\ k <= m[e.branch]
    <3>1. \A e : e \in Visible(more, b) <=>
            \E k \in 1..Len(more) : /\ e = more[k] /\ e.seq = k
                                    /\ k <= Limits(more, b)[e.branch] /\ k <= Len(more)
      BY SeenLines DEF Visible
    <3>. QED
      BY <1>3, <1>5, <3>1
  <2>2. \A e : e \in Visible(lines, b) <=>
           \E k \in 1..n : e = lines[k] /\ e.seq = k /\ k <= l[e.branch]
    BY <1>1, <1>5, SeenLines DEF Visible
  <2>3. line.branch \in Branches /\ line.seq = n + 1
    BY <1>3 DEF LineageOK, LineOK
  <2>4. ASSUME NEW e, e \in Visible(more, b)
        PROVE  e \in Visible(lines, b) \/ (line.branch = b /\ e = line)
    <3>1. PICK k \in 1..(n + 1) : e = more[k] /\ e.seq = k /\ k <= m[e.branch]
      BY <2>1, <2>4
    <3>2. CASE k \in 1..n
      BY <1>3, <1>9, <2>2, <3>1, <3>2
    <3>3. CASE k = n + 1
      <4>1. e = line
        BY <1>3, <3>1, <3>3
      <4>2. CASE line.branch # b
        <5>1. line.branch \in Branches \ {b}
          BY <2>3, <4>2
        <5>2. PICK z \in 0..n : z = m[line.branch]
          BY <1>6, <1>8, <5>1
        <5>3. n + 1 <= z
          BY <3>1, <3>3, <4>1, <5>2
        <5>. QED
          BY <5>3
      <4>. QED
        BY <4>1, <4>2
    <3>. QED
      BY <3>2, <3>3
  <2>5. ASSUME NEW e, e \in Visible(lines, b) PROVE e \in Visible(more, b)
    <3>1. PICK k \in 1..n : e = lines[k] /\ e.seq = k /\ k <= l[e.branch]
      BY <2>2, <2>5
    <3>2. k \in 1..(n + 1) /\ e = more[k] /\ k <= m[e.branch]
      BY <1>3, <1>9, <3>1
    <3>. QED
      BY <2>1, <3>1, <3>2
  <2>6. line.branch = b => line \in Visible(more, b)
    <3>1. n + 1 \in 1..(n + 1)
      OBVIOUS
    <3>. QED
      BY <1>3, <1>7, <2>1, <2>3, <3>1
  <2>. QED
    BY <2>4, <2>5, <2>6
<1>. QED
  BY <1>1, <1>10, <1>11

\* Which calls are open depends on calls and results only.
LEMMA OpenCallsOf ==
  ASSUME NEW A, NEW B, \A e : e.type \in {"call", "result"} => (e \in A <=> e \in B)
  PROVE  OpenCalls(A) = OpenCalls(B)
<1>1. TurnsWith(A, "call") = TurnsWith(B, "call") /\ TurnsWith(A, "result") = TurnsWith(B, "result")
  BY DEF TurnsWith
<1>. QED
  BY <1>1 DEF OpenCalls

-----------------------------------------------------------------------------
(* One line more.                                                          *)

\* A line to be added: on a known branch, or the fork of a new one that its
\* guards allow.
NewFork(lines, line) ==
  /\ line.type = "forked" /\ line.branch \notin KnownBranches(lines)
  /\ MayFork(lines, line.branch, line.from)
  /\ Continuable(lines, line.from.branch, line.from.seq)
NewLine(lines, line) ==
  /\ line.seq = Len(lines) + 1 /\ line.branch \in Branches
  /\ \/ line.type # "forked" /\ line.branch \in KnownBranches(lines)
     \/ NewFork(lines, line)

\* The cursor of an allowed fork is the origin of a known branch or one of its lines.
LEMMA ForkCursor ==
  ASSUME NEW lines, LineageOK(lines), NEW line, NewFork(lines, line)
  PROVE  /\ line.from.branch \in KnownBranches(lines)
         /\ \A k \in 1..Len(lines) : lines[k].branch # line.branch
         /\ \/ line.from.seq = 0
            \/ \E k \in 1..Len(lines) : line.from.seq = k /\ lines[k].branch = line.from.branch
<1> DEFINE c == line.from
<1>1. PICK S : lines \in Seq(S)
  BY DEF LineageOK
<1>2. \A e : e \in ToSet(lines) <=> \E k \in 1..Len(lines) : e = lines[k]
  BY <1>1 DEF ToSet
<1>3. /\ \A e \in ToSet(lines) : e.branch # line.branch
      /\ c.branch \in KnownBranches(lines)
      /\ \/ c = Origin(c.branch)
         \/ \E e \in Visible(lines, c.branch) : CursorOf(e) = c
  BY DEF NewFork, MayFork
<1>4. CASE c = Origin(c.branch)
  BY <1>2, <1>3, <1>4 DEF Origin
<1>5. ASSUME NEW e \in Visible(lines, c.branch), CursorOf(e) = c
      PROVE  \E k \in 1..Len(lines) : c.seq = k /\ lines[k].branch = c.branch
  <2>1. PICK k \in 1..Len(lines) : e = lines[k] /\ e.seq = k
    BY <1>5, SeenLines DEF Visible
  <2>2. c.seq = e.seq /\ c.branch = e.branch
    <3>1. CursorOf(e).seq = e.seq /\ CursorOf(e).branch = e.branch
      BY DEF CursorOf
    <3>. QED
      BY <1>5, <3>1
  <2>. QED
    BY <2>1, <2>2
<1>. QED
  BY <1>2, <1>3, <1>4, <1>5

LEMMA NewLineKeepsLineage ==
  ASSUME NEW lines, NEW line, NEW more, Grows(lines, line, more), LineageOK(lines), NewLine(lines, line)
  PROVE  /\ LineageOK(more)
         /\ KnownBranches(lines) \subseteq KnownBranches(more)
         /\ line.branch \in KnownBranches(more)
<1>1. PICK n \in Nat : n = Len(lines)
  BY DEF LineageOK
<1>2. PICK S : lines \in Seq(S)
  BY DEF LineageOK
<1>3. /\ Len(more) = n + 1 /\ more[n + 1] = line /\ \A k \in 1..n : more[k] = lines[k]
      /\ more \in Seq(S \cup {line})
  <2>1. lines \in Seq(S \cup {line})
    BY <1>2
  <2>. QED
    BY <1>1, <2>1 DEF Grows
<1>4. \A b : \A k \in 0..n : KnownAt(more, b, k) <=> KnownAt(lines, b, k)
  BY <1>3 DEF KnownAt, IsForkOf
<1>5. ASSUME NEW k \in 1..n PROVE LineOK(more, k)
  <2>1. LineOK(lines, k) /\ more[k] = lines[k] /\ k \in 0..n /\ k - 1 \in 0..n
    BY <1>1, <1>3, <1>5 DEF LineageOK
  <2>2. lines[k].type = "forked" /\ lines[k].from.seq > 0 =>
          more[lines[k].from.seq] = lines[lines[k].from.seq]
    <3>1. ASSUME lines[k].type = "forked", lines[k].from.seq > 0
          PROVE  more[lines[k].from.seq] = lines[lines[k].from.seq]
      <4>1. lines[k].from.seq \in 1..n
        BY <2>1, <3>1 DEF LineOK
      <4>. QED
        BY <1>3, <4>1
    <3>. QED
      BY <3>1
  <2>. QED
    BY <1>4, <2>1, <2>2 DEF LineOK
<1>6. LineOK(more, n + 1)
  <2>1. CASE line.type # "forked" /\ line.branch \in KnownBranches(lines)
    <3>1. KnownAt(lines, line.branch, n)
      BY <1>1, <2>1, KnownIsKnown
    <3>2. KnownAt(more, line.branch, n + 1)
      BY <1>1, <1>3, <3>1 DEF KnownAt, IsForkOf
    <3>. QED
      BY <1>1, <1>3, <2>1, <3>2 DEF LineOK, NewLine
  <2>2. CASE NewFork(lines, line)
    <3>1. /\ line.from.branch \in KnownBranches(lines) /\ line.branch \notin KnownBranches(lines)
          /\ line.type = "forked"
          /\ \/ line.from.seq = 0
             \/ \E k \in 1..Len(lines) : line.from.seq = k /\ lines[k].branch = line.from.branch
      BY <2>2, ForkCursor DEF NewFork
    <3>2. KnownAt(lines, line.from.branch, n) /\ ~KnownAt(lines, line.branch, n)
      BY <1>1, <3>1, KnownIsKnown DEF NewLine
    <3>3. KnownAt(more, line.from.branch, n) /\ ~KnownAt(more, line.branch, n)
      BY <1>4, <3>2
    <3>4. /\ line.from.seq \in 0..n
          /\ line.from.seq > 0 => more[line.from.seq].branch = line.from.branch
      BY <1>1, <1>3, <3>1
    <3>5. KnownAt(more, line.branch, n + 1)
      BY <1>3, <3>1 DEF KnownAt, IsForkOf
    <3>6. n + 1 - 1 = n
      OBVIOUS
    <3>. QED
      BY <1>1, <1>3, <3>1, <3>3, <3>4, <3>5, <3>6 DEF LineOK, NewLine
  <2>. QED
    BY <2>1, <2>2 DEF NewLine
<1>7. \A k \in 1..(n + 1) : LineOK(more, k)
  <2>1. \A k \in 1..(n + 1) : k \in 1..n \/ k = n + 1
    OBVIOUS
  <2>. QED
    BY <1>5, <1>6, <2>1
<1>8. LineageOK(more)
  BY <1>3, <1>7 DEF LineageOK
<1>9. ASSUME NEW b \in KnownBranches(lines) PROVE b \in KnownBranches(more)
  <2>1. b \in Branches /\ KnownAt(lines, b, n)
    BY <1>1, KnownIsKnown
  <2>2. KnownAt(more, b, n + 1)
    BY <1>3, <2>1 DEF KnownAt, IsForkOf
  <2>. QED
    BY <1>3, <1>8, <2>1, <2>2, KnownIsKnown
<1>10. line.branch \in KnownBranches(more)
  <2>1. LineOK(more, n + 1)
    BY <1>6
  <2>2. KnownAt(more, line.branch, n + 1) /\ line.branch \in Branches
    BY <1>3, <2>1 DEF LineOK
  <2>. QED
    BY <1>3, <1>8, <2>2, KnownIsKnown
<1>. QED
  BY <1>8, <1>9, <1>10

\* No branch is forked in the middle of a call.
SettledFork(lines, e) == OpenCalls(VisibleUpTo(lines, e.branch, e.seq)) = {}

\* A new fork inherits no open call: what it sees at its start is what its
\* parent saw at the cursor, or, from the parent's origin, at the parent's fork.
LEMMA NewForkIsSettled ==
  ASSUME NEW lines, NEW line, NEW more, Grows(lines, line, more), LineageOK(lines), LineageOK(more),
         line.seq = Len(lines) + 1, NewFork(lines, line),
         \A e \in Forks(lines) : SettledFork(lines, e)
  PROVE  SettledFork(more, line)
<1> DEFINE b == line.branch
           p == line.from.branch
           c == line.from.seq
<1>1. PICK n \in Nat : n = Len(lines)
  BY DEF LineageOK
<1>2. PICK S : lines \in Seq(S)
  BY DEF LineageOK
<1>3. Len(more) = n + 1 /\ more[n + 1] = line /\ \A k \in 1..n : more[k] = lines[k]
  <2>1. lines \in Seq(S \cup {line})
    BY <1>2
  <2>. QED
    BY <1>1, <2>1 DEF Grows
<1>4. /\ p \in KnownBranches(lines) /\ b \notin KnownBranches(lines) /\ line.type = "forked"
      /\ \A k \in 1..n : lines[k].branch # b
      /\ c = 0 \/ (c \in 1..n /\ lines[c].branch = p)
      /\ OpenCalls(VisibleUpTo(lines, p, c)) = {}
  <2>1. /\ p \in KnownBranches(lines)
        /\ \A k \in 1..n : lines[k].branch # b
        /\ c = 0 \/ (c \in 1..n /\ lines[c].branch = p)
    BY <1>1, ForkCursor
  <2>. QED
    BY <2>1 DEF NewFork, Continuable
<1>5. p \in Branches /\ p # b /\ KnownAt(lines, p, n)
  BY <1>1, <1>4, KnownIsKnown
<1>6. PICK l : l = Limits(lines, p)
  OBVIOUS
<1>7. /\ l \in [Branches -> 0..n] /\ l[p] = n
      /\ \A k \in 0..n : KnownAt(lines, p, k) => \A x \in Branches \ {p} : l[x] = 0 \/ l[x] < k
  <2>1. \A k \in 0..Len(lines) : KnownAt(lines, p, k) => LimitsBelow(lines, p, k)
    BY <1>5, LimitsShape
  <2>2. n \in 0..n
    OBVIOUS
  <2>. QED
    BY <1>1, <1>5, <1>6, <2>1, <2>2 DEF LimitsBelow
<1>8. PICK m : m = Limits(more, b)
  OBVIOUS
<1>9. b \in Branches /\ \A x \in Branches : m[x] = IF x = b THEN n + 1 ELSE IF x = p THEN c ELSE l[x]
  <2>1. n + 1 \in 1..Len(more)
    BY <1>3
  <2>2. /\ more[n + 1].branch \in Branches /\ more[n + 1].from.branch \in Branches
        /\ Limits(more, more[n + 1].branch)
             = [Limits(more, more[n + 1].from.branch) EXCEPT ![more[n + 1].from.branch] = more[n + 1].from.seq,
                                                           ![more[n + 1].branch] = Len(more)]
    BY <1>3, <1>4, <2>1, LimitsOfFork
  <2>3. PICK h : h = Limits(more, p)
    OBVIOUS
  <2>4. b \in Branches /\ m = [h EXCEPT ![p] = c, ![b] = n + 1]
    BY <1>3, <1>8, <2>2, <2>3
  <2>5. h \in [Branches -> 0..(n + 1)]
    <3>1. n \in 0..Len(more) /\ KnownAt(more, p, n)
      BY <1>3, <1>5 DEF KnownAt, IsForkOf
    <3>2. LimitsBelow(more, p, n)
      BY <1>5, <3>1, LimitsShape
    <3>. QED
      BY <1>3, <2>3, <3>2 DEF LimitsBelow
  <2>6. \A x \in Branches \ {p} : h[x] = l[x]
    <3>1. n \in 0..Len(lines)
      BY <1>1
    <3>2. \A x \in Branches \ {p} : Limits(more, p)[x] = Limits(lines, p)[x]
      BY <1>5, <3>1, LimitsStay
    <3>. QED
      BY <1>6, <2>3, <3>2
  <2>7. PICK a \in 0..(n + 1), q \in Branches, d \in Branches : a = c /\ q = p /\ d = b
    BY <1>4, <1>5, <2>4
  <2>8. \A x \in Branches : m[x] = IF x = d THEN n + 1 ELSE IF x = q THEN a ELSE h[x]
    <3>1. m = [h EXCEPT ![q] = a, ![d] = n + 1] /\ n + 1 \in Nat
      BY <2>4, <2>7
    <3>. QED
      BY <2>5, <3>1, CutAt
  <2>. QED
    BY <2>4, <2>6, <2>7, <2>8
<1> HIDE DEF b, p, c
<1>10. \A e : e.type \in {"call", "result"} =>
         (e \in VisibleUpTo(more, b, n + 1) <=>
          \E k \in 1..n : /\ e = lines[k] /\ e.seq = k
                          /\ IF e.branch = p THEN k <= c ELSE k <= l[e.branch])
  <2>1. \A e : e \in VisibleUpTo(more, b, n + 1) <=>
          \E k \in 1..Len(more) : e = more[k] /\ e.seq = k /\ k <= Limits(more, b)[e.branch] /\ k <= n + 1
    BY SeenLines
  <2>2. \A k \in 1..n : lines[k].branch \in Branches /\ lines[k].branch # b
    BY <1>1, <1>4 DEF LineageOK, LineOK
  <2>3. \A k \in 1..n : m[lines[k].branch] = IF lines[k].branch = p THEN c ELSE l[lines[k].branch]
    BY <1>9, <2>2
  <2>4. ASSUME NEW e, e.type \in {"call", "result"}, e \in VisibleUpTo(more, b, n + 1)
        PROVE  \E k \in 1..n : /\ e = lines[k] /\ e.seq = k
                               /\ IF e.branch = p THEN k <= c ELSE k <= l[e.branch]
    <3>1. PICK k \in 1..(n + 1) : e = more[k] /\ e.seq = k /\ k <= m[e.branch]
      BY <1>3, <1>8, <2>1, <2>4
    <3>2. k # n + 1
      BY <1>3, <1>4, <2>4, <3>1
    <3>. QED
      BY <1>3, <2>3, <3>1, <3>2
  <2>5. ASSUME NEW e, NEW k \in 1..n, e = lines[k], e.seq = k,
               IF e.branch = p THEN k <= c ELSE k <= l[e.branch]
        PROVE  e \in VisibleUpTo(more, b, n + 1)
    <3>1. k \in 1..Len(more) /\ e = more[k] /\ k <= m[e.branch] /\ k <= n + 1
      BY <1>3, <2>3, <2>5
    <3>. QED
      BY <1>8, <2>1, <2>5, <3>1
  <2>. QED
    BY <2>4, <2>5
<1>11. CASE c \in 1..n
  <2>1. \A e : e \in VisibleUpTo(lines, p, c) <=>
          \E k \in 1..n : e = lines[k] /\ e.seq = k /\ k <= l[e.branch] /\ k <= c
    BY <1>1, <1>6, SeenLines
  <2>2. KnownAt(lines, p, c)
    BY <1>1, <1>4, <1>11 DEF LineageOK, LineOK, p, c
  <2>3. \A x \in Branches \ {p} : l[x] = 0 \/ l[x] < c
    BY <1>7, <1>11, <2>2
  <2>4. \A k \in 1..n : (IF lines[k].branch = p THEN k <= c ELSE k <= l[lines[k].branch])
                        <=> (k <= l[lines[k].branch] /\ k <= c)
    <3>1. ASSUME NEW k \in 1..n
          PROVE  (IF lines[k].branch = p THEN k <= c ELSE k <= l[lines[k].branch])
                 <=> (k <= l[lines[k].branch] /\ k <= c)
      <4>1. PICK x \in Branches : x = lines[k].branch
        BY <1>1 DEF LineageOK, LineOK
      <4>2. PICK z \in 0..n : z = l[x]
        BY <1>7
      <4>3. CASE x = p
        BY <1>7, <4>1, <4>2, <4>3
      <4>4. CASE x # p
        <5>1. z = 0 \/ z < c
          BY <2>3, <4>2, <4>4
        <5>2. k <= z <=> k <= z /\ k <= c
          BY <1>11, <5>1
        <5>. QED
          BY <4>1, <4>2, <4>4, <5>2
      <4>. QED
        BY <4>3, <4>4
    <3>. QED
      BY <3>1
  <2>5. \A e : e.type \in {"call", "result"} =>
          (e \in VisibleUpTo(more, b, n + 1) <=> e \in VisibleUpTo(lines, p, c))
    BY <1>10, <2>1, <2>4
  <2>6. OpenCalls(VisibleUpTo(more, b, n + 1)) = OpenCalls(VisibleUpTo(lines, p, c))
    BY <2>5, OpenCallsOf
  <2>. QED
    BY <1>1, <1>4, <2>6 DEF SettledFork, b, p, c
<1>12. CASE c = 0 /\ p = Main
  <2>1. KnownAt(lines, p, 0)
    BY <1>12 DEF KnownAt
  <2>2. \A x \in Branches \ {p} : l[x] = 0
    BY <1>7, <2>1
  <2>3. \A k \in 1..n : ~(IF lines[k].branch = p THEN k <= c ELSE k <= l[lines[k].branch])
    BY <1>1, <1>12, <2>2 DEF LineageOK, LineOK
  <2>4. \A e : e.type \in {"call", "result"} => (e \in VisibleUpTo(more, b, n + 1) <=> e \in {})
    BY <1>10, <2>3
  <2>5. OpenCalls(VisibleUpTo(more, b, n + 1)) = OpenCalls({})
    BY <2>4, OpenCallsOf
  <2>6. OpenCalls({}) = {}
    BY DEF OpenCalls, TurnsWith
  <2>. QED
    BY <1>1, <2>5, <2>6 DEF SettledFork, b
<1>13. CASE c = 0 /\ p # Main
  <2>1. PICK i \in 1..n : lines[i].type = "forked" /\ lines[i].branch = p
    BY <1>5, <1>13 DEF KnownAt, IsForkOf, p
  <2>2. LineOK(lines, i)
    BY <1>1, <2>1 DEF LineageOK
  <2>3. KnownAt(lines, p, i) /\ ~KnownAt(lines, p, i - 1)
    BY <2>1, <2>2 DEF LineOK
  <2>4. \A x \in Branches \ {p} : l[x] = 0 \/ l[x] < i
    BY <1>7, <2>3
  <2>5. \A e : e \in VisibleUpTo(lines, p, i) <=>
          \E k \in 1..n : e = lines[k] /\ e.seq = k /\ k <= l[e.branch] /\ k <= i
    BY <1>1, <1>6, SeenLines
  <2>6. \A k \in 1..n : lines[k].type # "forked" =>
          ((IF lines[k].branch = p THEN k <= c ELSE k <= l[lines[k].branch])
           <=> (k <= l[lines[k].branch] /\ k <= i))
    <3>1. ASSUME NEW k \in 1..n, lines[k].type # "forked"
          PROVE  (IF lines[k].branch = p THEN k <= c ELSE k <= l[lines[k].branch])
                 <=> (k <= l[lines[k].branch] /\ k <= i)
      <4>1. PICK x \in Branches : x = lines[k].branch
        BY <1>1 DEF LineageOK, LineOK
      <4>2. PICK z \in 0..n : z = l[x]
        BY <1>7
      <4>3. CASE x = p
        <5>1. LineOK(lines, k)
          BY <1>1 DEF LineageOK
        <5>2. KnownAt(lines, p, k)
          BY <4>1, <4>3, <5>1 DEF LineOK
        <5>3. PICK j \in 1..k : lines[j].type = "forked" /\ lines[j].branch = p
          BY <1>13, <5>2 DEF KnownAt, IsForkOf
        <5>4. ~(j \in 1..(i - 1))
          BY <2>3, <5>3 DEF KnownAt, IsForkOf
        <5>5. j # k
          BY <3>1, <5>3
        <5>6. ~(k <= i)
          BY <5>3, <5>4, <5>5
        <5>7. ~(k <= c)
          BY <1>13
        <5>. QED
          BY <4>1, <4>3, <5>6, <5>7
      <4>4. CASE x # p
        <5>1. z = 0 \/ z < i
          BY <2>4, <4>2, <4>4
        <5>2. k <= z <=> k <= z /\ k <= i
          BY <5>1
        <5>. QED
          BY <4>1, <4>2, <4>4, <5>2
      <4>. QED
        BY <4>3, <4>4
    <3>. QED
      BY <3>1
  <2>7. \A e : e.type \in {"call", "result"} =>
          (e \in VisibleUpTo(more, b, n + 1) <=> e \in VisibleUpTo(lines, p, i))
    BY <1>10, <2>5, <2>6
  <2>8. OpenCalls(VisibleUpTo(more, b, n + 1)) = OpenCalls(VisibleUpTo(lines, p, i))
    BY <2>7, OpenCallsOf
  <2>9. lines[i] \in Forks(lines) /\ lines[i].seq = i
    BY <1>1, <1>2, <2>1, <2>2 DEF Forks, ToSet, LineOK
  <2>10. OpenCalls(VisibleUpTo(lines, p, i)) = {}
    BY <2>1, <2>9 DEF SettledFork
  <2>. QED
    BY <1>1, <2>8, <2>10 DEF SettledFork, b
<1>. QED
  BY <1>4, <1>11, <1>12, <1>13 DEF c, p

-----------------------------------------------------------------------------
(* The end of a branch.                                                    *)

CursorHolds(lines, b, c) ==
  c = Origin(b) \/ \E e \in Visible(lines, b) : e.seq = c.seq /\ e.id = c.id

\* The pointer of a branch is its origin or the last event it sees.
LEMMA PointerHolds ==
  ASSUME NEW lines, LineageOK(lines), NEW b
  PROVE  CursorHolds(lines, b, LedgerPointer(lines, b))
<1> DEFINE V == Visible(lines, b)
<1>1. CASE V = {}
  BY <1>1 DEF LedgerPointer, CursorHolds
<1>2. CASE V # {}
  <2> DEFINE IsLatest(e, k) == e \in V /\ e.seq <= k /\ \A f \in V : f.seq <= k => f.seq <= e.seq
             T == {k \in 0..Len(lines) : (\A e \in V : ~(e.seq <= k)) \/ \E e : IsLatest(e, k)}
  <2>1. PICK n \in Nat : n = Len(lines)
    BY DEF LineageOK
  <2>2. \A e \in V : e.seq \in 1..n
    BY <2>1, SeenLines DEF Visible
  <2> HIDE DEF V
  <2>3. 0 \in T
    BY <2>1, <2>2
  <2>4. ASSUME NEW k \in 1..n, k - 1 \in T PROVE k \in T
    <3>1. CASE \E e \in V : e.seq = k
      <4>1. PICK e \in V : e.seq = k
        BY <3>1
      <4>2. IsLatest(e, k)
        BY <2>2, <4>1
      <4>. QED
        BY <2>1, <4>2
    <3>2. CASE ~\E e \in V : e.seq = k
      <4>1. \A e \in V : e.seq <= k <=> e.seq <= k - 1
        BY <2>2, <3>2
      <4>2. CASE \A e \in V : ~(e.seq <= k - 1)
        BY <2>1, <4>1, <4>2
      <4>3. ASSUME NEW e, IsLatest(e, k - 1) PROVE k \in T
        <5>1. IsLatest(e, k)
          BY <4>1, <4>3
        <5>. QED
          BY <2>1, <5>1
      <4>. QED
        BY <2>4, <4>2, <4>3
    <3>. QED
      BY <3>1, <3>2
  <2>5. n \in T
    <3> HIDE DEF T
    <3>1. \A k \in 0..n : k \in T
      BY <2>3, <2>4, CountUp
    <3>. QED
      BY <3>1
  <2>6. PICK e : IsLatest(e, n)
    BY <1>2, <2>2, <2>5
  <2>7. e \in V /\ \A f \in V : f.seq <= e.seq
    BY <2>2, <2>6
  <2>8. PICK l : l = LatestOf(V)
    OBVIOUS
  <2>9. l \in V
    BY <2>7, <2>8 DEF LatestOf
  <2>10. LedgerPointer(lines, b) = [CursorOf(l) EXCEPT !.branch = b]
    BY <1>2, <2>8 DEF LedgerPointer, V
  <2>11. [CursorOf(l) EXCEPT !.branch = b] = [branch |-> b, seq |-> l.seq, id |-> l.id]
    BY DEF CursorOf
  <2>. QED
    BY <2>9, <2>10, <2>11 DEF CursorHolds, V
<1>. QED
  BY <1>1, <1>2

LEMMA CursorStays ==
  ASSUME NEW lines, NEW line, NEW more, Grows(lines, line, more),
         LineageOK(lines), LineageOK(more), NEW b \in KnownBranches(lines), NEW c,
         CursorHolds(lines, b, c)
  PROVE  CursorHolds(more, b, c)
<1>1. Visible(lines, b) \subseteq Visible(more, b)
  BY VisibleGrows
<1>. QED
  BY <1>1 DEF CursorHolds

-----------------------------------------------------------------------------
(* The branches of the specification.                                      *)

\* Whoever is past the guards of a send is on a known branch.
SendsKnown ==
  \A r \in Sends :
    /\ send[r].branch \in Branches
    /\ send[r].pc \in {"ready", "running", "waiting"} => send[r].branch \in KnownBranches(file.lines)

LineageInv ==
  /\ LineageOK(file.lines)
  /\ SendsKnown
  /\ ckpt = [b \in Branches |-> ckpt[b]]
  /\ \A b \in Branches :
       ckpt[b] # NoCursor => b \in KnownBranches(file.lines) /\ CursorHolds(file.lines, b, ckpt[b])
  /\ \A e \in Forks(file.lines) : SettledFork(file.lines, e)

\* What a step does to the lines, and to the checkpoints.
BranchStep ==
  \/ file'.lines = file.lines
  \/ \E line : NewLine(file.lines, line) /\ Grows(file.lines, line, file'.lines)
CkptStep ==
  \/ UNCHANGED ckpt
  \/ /\ file'.lines = file.lines
     /\ \E b \in KnownBranches(file.lines) : ckpt' = [ckpt EXCEPT ![b] = LedgerPointer(file.lines, b)]

\* The lines keep what the invariant says of them.
LEMMA StepOfLines ==
  ASSUME LineageInv, BranchStep
  PROVE  /\ LineageOK(file'.lines)
         /\ KnownBranches(file.lines) \subseteq KnownBranches(file'.lines)
         /\ \A e \in Forks(file'.lines) : SettledFork(file'.lines, e)
         /\ \A b \in KnownBranches(file.lines) : \A c :
              CursorHolds(file.lines, b, c) => CursorHolds(file'.lines, b, c)
<1>1. CASE file'.lines = file.lines
  BY <1>1 DEF LineageInv
<1>2. ASSUME NEW line, NewLine(file.lines, line), Grows(file.lines, line, file'.lines)
      PROVE  /\ LineageOK(file'.lines)
             /\ KnownBranches(file.lines) \subseteq KnownBranches(file'.lines)
             /\ \A e \in Forks(file'.lines) : SettledFork(file'.lines, e)
             /\ \A b \in KnownBranches(file.lines) : \A c :
                  CursorHolds(file.lines, b, c) => CursorHolds(file'.lines, b, c)
  <2>1. PICK lines, more : lines = file.lines /\ more = file'.lines
    OBVIOUS
  <2>2. LineageOK(lines) /\ NewLine(lines, line) /\ Grows(lines, line, more)
    BY <1>2, <2>1 DEF LineageInv
  <2>3. LineageOK(more) /\ KnownBranches(lines) \subseteq KnownBranches(more)
    BY <2>2, NewLineKeepsLineage
  <2>4. \A b \in KnownBranches(lines) : \A c : CursorHolds(lines, b, c) => CursorHolds(more, b, c)
    BY <2>2, <2>3, CursorStays
  <2>5. ASSUME NEW e \in Forks(more) PROVE SettledFork(more, e)
    <3>1. \A f \in Forks(lines) : SettledFork(lines, f)
      BY <2>1 DEF LineageInv
    <3>2. PICK S : lines \in Seq(S)
      BY <2>2 DEF LineageOK
    <3>3. /\ Len(lines) \in Nat /\ Len(more) = Len(lines) + 1 /\ more[Len(lines) + 1] = line
          /\ \A k \in 1..Len(lines) : more[k] = lines[k]
          /\ DOMAIN more = 1..(Len(lines) + 1) /\ DOMAIN lines = 1..Len(lines)
      <4>1. lines \in Seq(S \cup {line})
        BY <3>2
      <4>. QED
        BY <2>2, <4>1 DEF Grows
    <3>4. PICK k \in 1..(Len(lines) + 1) : e = more[k] /\ e.type = "forked"
      BY <3>3 DEF Forks, ToSet
    <3>5. CASE k = Len(lines) + 1
      <4>1. e = line /\ NewFork(lines, line) /\ line.seq = Len(lines) + 1
        BY <2>2, <3>3, <3>4, <3>5 DEF NewLine
      <4>. QED
        BY <2>2, <2>3, <3>1, <4>1, NewForkIsSettled
    <3>6. CASE k \in 1..Len(lines)
      <4>1. e = lines[k] /\ e \in Forks(lines) /\ e.seq = k
        BY <2>2, <3>3, <3>4, <3>6 DEF Forks, ToSet, LineageOK, LineOK
      <4>2. e.branch \in KnownBranches(lines) /\ e.seq \in 0..Len(lines)
        BY <3>6, <4>1 DEF KnownBranches
      <4>3. VisibleUpTo(more, e.branch, e.seq) = VisibleUpTo(lines, e.branch, e.seq)
        BY <2>2, <2>3, <4>2, VisibleGrows
      <4>. QED
        BY <3>1, <4>1, <4>3 DEF SettledFork
    <3>. QED
      BY <3>3, <3>4, <3>5, <3>6
  <2>. QED
    BY <2>1, <2>3, <2>4, <2>5
<1>. QED
  BY <1>1, <1>2 DEF BranchStep

\* A send that moves on.
LEMMA GoesTo ==
  ASSUME SendsShape, NEW r \in Sends, NEW at, Goes(r, at)
  PROVE  \A q \in Sends :
           IF q = r THEN /\ send'[q].pc = at
                         /\ send'[q].branch = send[q].branch \/ send'[q].branch = Main
                         /\ at \notin {"refused", "failed", "done"} => send'[q].branch = send[q].branch
           ELSE send'[q] = send[q]
<1> DEFINE new == IF at \in {"refused", "failed", "done"} THEN [NewSend EXCEPT !.pc = at]
                  ELSE [send[r] EXCEPT !.pc = at]
<1>1. send' = [send EXCEPT ![r] = new]
  BY DEF Goes
<1>2. /\ new.pc = at
      /\ new.branch = send[r].branch \/ new.branch = Main
      /\ at \notin {"refused", "failed", "done"} => new.branch = send[r].branch
  BY DEF SendsShape, SendFields, NewSend
<1> HIDE DEF new
<1>3. send' = [q \in Sends |-> IF q = r THEN new ELSE send[q]]
  BY <1>1 DEF SendsShape
<1>. QED
  BY <1>2, <1>3

LEMMA GoesKnown ==
  ASSUME LineageInv, SendsShape, KnownBranches(file.lines) \subseteq KnownBranches(file'.lines),
         NEW r \in Sends, NEW at, Goes(r, at),
         at \in {"ready", "running", "waiting"} => send[r].branch \in KnownBranches(file'.lines)
  PROVE  SendsKnown'
<1>1. ASSUME NEW q \in Sends
      PROVE  /\ send'[q].branch \in Branches
             /\ send'[q].pc \in {"ready", "running", "waiting"} => send'[q].branch \in KnownBranches(file'.lines)
  <2>1. /\ send[q].branch \in Branches
        /\ send[q].pc \in {"ready", "running", "waiting"} => send[q].branch \in KnownBranches(file.lines)
    BY DEF LineageInv, SendsKnown
  <2>2. CASE q = r
    BY <2>1, <2>2, GoesTo, BranchAssumption
  <2>3. CASE q # r
    BY <2>1, <2>3, GoesTo
  <2>. QED
    BY <2>2, <2>3
<1>. QED
  BY <1>1 DEF SendsKnown

\* An object's index, once loaded, holds the whole file.
LEMMA LoadedIsFile ==
  ASSUME FilesInv, NEW i \in Instances
  PROVE  /\ Loaded(i) = file.lines
         /\ Reads(i) => file'.lines = file.lines
<1>1. FileOK(file) /\ IndexOK(index[i], file)
  BY DEF FilesInv
<1>2. /\ Load(file, index[i]).file = [lines |-> file.lines, torn |-> FALSE]
      /\ Load(file, index[i]).index = [recs |-> file.lines, sig |-> <<Len(file.lines), 0>>]
  BY <1>1, LoadAll
<1>. QED
  BY <1>2 DEF Loaded, Reads

\* A write adds the event as the next line, or nothing.
LEMMA WriteAdds ==
  ASSUME FilesInv, NEW i \in Instances, NEW e, EventOK(e), NEW write \in WriteOutcomes, NEW res, NEW id,
         \/ res = AppendEvent(file, index[i], e, write)
         \/ res = AppendMessage(file, index[i], e, write),
         Writes(i, res, id)
  PROVE  /\ \/ file'.lines = file.lines
            \/ Grows(file.lines, Numbered(e, Len(file.lines) + 1), file'.lines)
         /\ res = AppendEvent(file, index[i], e, write) /\ res.result = "new" =>
              Grows(file.lines, Numbered(e, Len(file.lines) + 1), file'.lines)
<1>1. FileOK(file) /\ IndexOK(index[i], file) /\ write \in {"ok", "torn", "unacked"}
  BY DEF FilesInv, WriteOutcomes
<1>2. AddsLine(file, res.file, e)
  BY <1>1, AppendEventAdds, AppendMessageAdds
<1>3. file' = res.file
  BY DEF Writes
<1>4. res = AppendEvent(file, index[i], e, write) /\ res.result = "new" =>
        res.file.lines = Append(file.lines, Numbered(e, Len(file.lines) + 1))
  BY <1>1, AppendEventAdds
<1>. QED
  BY <1>2, <1>3, <1>4 DEF AddsLine, Grows

\* The lines the program writes.
LEMMA WrittenLines ==
  ASSUME NEW owner, NEW branch, NEW sub, NEW body, NEW cursor, NEW n
  PROVE  /\ LET l == Numbered(Event("call", owner, branch), n)
            IN l.seq = n /\ l.branch = branch /\ l.type = "call"
         /\ LET l == Numbered(Event("result", owner, branch), n)
            IN l.seq = n /\ l.branch = branch /\ l.type = "result"
         /\ LET l == Numbered(MessageEvent(owner, branch, sub, body), n)
            IN l.seq = n /\ l.branch = branch /\ l.type = "accepted"
         /\ LET l == Numbered(ForkEvent(branch, cursor), n)
            IN l.seq = n /\ l.branch = branch /\ l.type = "forked" /\ l.from = cursor
<1>1. LET l == Numbered(Event("call", owner, branch), n)
      IN l.seq = n /\ l.branch = branch /\ l.type = "call"
  BY DEF Numbered, Event
<1>2. LET l == Numbered(Event("result", owner, branch), n)
      IN l.seq = n /\ l.branch = branch /\ l.type = "result"
  BY DEF Numbered, Event
<1>3. LET l == Numbered(MessageEvent(owner, branch, sub, body), n)
      IN l.seq = n /\ l.branch = branch /\ l.type = "accepted"
  BY DEF Numbered, MessageEvent, Event
<1>4. LET l == Numbered(ForkEvent(branch, cursor), n)
      IN l.seq = n /\ l.branch = branch /\ l.type = "forked" /\ l.from = cursor
  BY DEF Numbered, ForkEvent, Event
<1>. QED
  BY <1>1, <1>2, <1>3, <1>4

\* What a step keeps: the lines of the branches, the sends and the checkpoints.
Lineages == BranchStep /\ SendsKnown' /\ CkptStep

\* A step that reads, and lets the send go where its branch is known.
LEMMA ReadStep ==
  ASSUME LineageInv, FilesInv, SendsShape, NEW r \in Sends, NEW at, Goes(r, at),
         file'.lines = file.lines, CkptStep,
         at \in {"ready", "running", "waiting"} => send[r].branch \in KnownBranches(file.lines)
  PROVE  Lineages
BY GoesKnown DEF Lineages, BranchStep

\* A step that writes an event of the send's own, known branch.
LEMMA OwnStep ==
  ASSUME LineageInv, FilesInv, SendsShape, NEW r \in Sends, NEW at, Goes(r, at), NEW e,
         send[r].branch \in KnownBranches(file.lines),
         LET l == Numbered(e, Len(file.lines) + 1)
         IN l.seq = Len(file.lines) + 1 /\ l.branch = send[r].branch /\ l.type # "forked",
         \/ file'.lines = file.lines
         \/ Grows(file.lines, Numbered(e, Len(file.lines) + 1), file'.lines),
         UNCHANGED ckpt
  PROVE  Lineages
<1>1. send[r].branch \in Branches
  BY DEF LineageInv, SendsKnown
<1>2. NewLine(file.lines, Numbered(e, Len(file.lines) + 1))
  BY <1>1 DEF NewLine
<1>3. BranchStep
  BY <1>2 DEF BranchStep
<1>4. KnownBranches(file.lines) \subseteq KnownBranches(file'.lines)
  BY <1>3, StepOfLines
<1>. QED
  BY <1>3, <1>4, GoesKnown DEF Lineages, CkptStep

LEMMA ForkStep ==
  ASSUME LineageInv, FilesInv, SendsShape, NEW r \in Sends, NEW i \in Instances, Fork(r, i)
  PROVE  Lineages
<1> DEFINE b == send[r].branch
           from == send[r].from
           e == ForkEvent(b, from)
           line == Numbered(e, Len(file.lines) + 1)
<1>0. Loaded(i) = file.lines /\ (Reads(i) => file'.lines = file.lines)
  BY LoadedIsFile
<1>1. /\ MayFork(file.lines, b, from) /\ Continuable(file.lines, from.branch, from.seq)
      /\ UNCHANGED ckpt
  BY <1>0 DEF Fork
<1>2. CASE b \in KnownBranches(file.lines) /\ Reads(i)
  <2>1. PICK at : Goes(r, at)
    BY <1>0, <1>2 DEF Fork
  <2>. QED
    BY <1>0, <1>1, <1>2, <2>1, ReadStep DEF CkptStep
<1>3. CASE b \notin KnownBranches(file.lines)
  <2>1. PICK write \in WriteOutcomes :
          LET res == AppendEvent(file, index[i], e, write)
          IN /\ Writes(i, res, <<"forked", b>>)
             /\ Goes(r, IF res.result = "new" THEN "ready" ELSE "failed")
    BY <1>0, <1>3 DEF Fork
  <2>2. PICK res : res = AppendEvent(file, index[i], e, write)
    OBVIOUS
  <2>3. /\ Writes(i, res, <<"forked", b>>)
        /\ Goes(r, IF res.result = "new" THEN "ready" ELSE "failed")
    BY <2>1, <2>2
  <2>4. EventOK(e)
    BY EventsAreOK
  <2>5. line.seq = Len(file.lines) + 1 /\ line.branch = b /\ line.type = "forked" /\ line.from = from
    BY WrittenLines
  <2> HIDE DEF e, line
  <2>6. /\ file'.lines = file.lines \/ Grows(file.lines, line, file'.lines)
        /\ res.result = "new" => Grows(file.lines, line, file'.lines)
    BY <2>2, <2>3, <2>4, WriteAdds DEF line
  <2>7. b \in Branches
    BY DEF LineageInv, SendsKnown
  <2>8. NewLine(file.lines, line)
    BY <1>1, <1>3, <2>5, <2>7 DEF NewLine, NewFork
  <2>9. BranchStep
    BY <2>6, <2>8 DEF BranchStep
  <2>10. KnownBranches(file.lines) \subseteq KnownBranches(file'.lines)
    BY <2>9, StepOfLines
  <2>11. res.result = "new" => b \in KnownBranches(file'.lines)
    <3>1. ASSUME res.result = "new" PROVE b \in KnownBranches(file'.lines)
      BY <2>5, <2>6, <2>8, <3>1, NewLineKeepsLineage DEF LineageInv
    <3>. QED
      BY <3>1
  <2>12. PICK at : Goes(r, at) /\ (at = "failed" \/ (at = "ready" /\ res.result = "new"))
    BY <2>3
  <2>13. at \in {"ready", "running", "waiting"} => b \in KnownBranches(file'.lines)
    BY <2>11, <2>12
  <2>14. SendsKnown'
    BY <2>10, <2>12, <2>13, GoesKnown
  <2>. QED
    BY <1>1, <2>9, <2>14 DEF Lineages, CkptStep
<1>. QED
  BY <1>0, <1>2, <1>3 DEF Fork

LEMMA ContinueStep ==
  ASSUME LineageInv, FilesInv, SendsShape, NEW r \in Sends, NEW i \in Instances, Continue(r, i)
  PROVE  Lineages
<1> DEFINE b == send[r].branch
           open == OpenCalls(Visible(file.lines, b))
           fresh == ckpt[b] = NoCursor /\ b # Main
<1>0. Loaded(i) = file.lines /\ (Reads(i) => file'.lines = file.lines)
  BY LoadedIsFile
<1>1. b \in Branches /\ (~fresh => b \in KnownBranches(file.lines))
  <2>1. b \in Branches
    BY DEF LineageInv, SendsKnown
  <2>2. Main \in KnownBranches(file.lines)
    BY DEF KnownBranches
  <2>. QED
    BY <2>1, <2>2 DEF LineageInv
<1>2. UNCHANGED ckpt
  BY DEF Continue
<1>3. CASE Reads(i) /\ Goes(r, IF (fresh /\ ~Continuable(file.lines, b, Len(file.lines))) \/ (~fresh /\ Waiting(b))
                              THEN "refused" ELSE "ready")
  <2>1. PICK at : Goes(r, at) /\ (at = "refused" \/ (at = "ready" /\ (fresh => Continuable(file.lines, b, Len(file.lines)))))
    BY <1>3
  <2>2. at \in {"ready", "running", "waiting"} => b \in KnownBranches(file.lines)
    BY <1>1, <2>1 DEF Continuable
  <2>. QED
    BY <1>0, <1>2, <1>3, <2>1, <2>2, ReadStep DEF CkptStep
<1>4. ASSUME ~fresh, NEW turn, NEW write \in WriteOutcomes, NEW res,
             res = AppendEvent(file, index[i], Event("result", turn, b), write),
             Writes(i, res, <<"result", turn>>),
             Goes(r, IF res.result = "new" THEN "checked" ELSE "failed")
      PROVE  Lineages
  <2> DEFINE e == Event("result", turn, b)
  <2>1. EventOK(e)
    BY EventsAreOK
  <2>2. LET l == Numbered(e, Len(file.lines) + 1)
        IN l.seq = Len(file.lines) + 1 /\ l.branch = b /\ l.type # "forked"
    BY WrittenLines
  <2> HIDE DEF e
  <2>3. \/ file'.lines = file.lines
        \/ Grows(file.lines, Numbered(e, Len(file.lines) + 1), file'.lines)
    BY <1>4, <2>1, WriteAdds DEF e
  <2>4. PICK at : Goes(r, at)
    BY <1>4
  <2>. QED
    BY <1>1, <1>2, <1>4, <2>2, <2>3, <2>4, OwnStep
<1>5. CASE /\ open # {} /\ ~fresh /\ ~Waiting(b)
           /\ \E turn \in open, write \in WriteOutcomes :
                LET res == AppendEvent(file, index[i], Event("result", turn, b), write)
                IN /\ Writes(i, res, <<"result", turn>>)
                   /\ Goes(r, IF res.result = "new" THEN "checked" ELSE "failed")
  BY <1>4, <1>5
<1>. QED
  BY <1>0, <1>3, <1>5 DEF Continue

LEMMA AcceptStep ==
  ASSUME LineageInv, FilesInv, SendsShape, NEW r \in Sends, NEW i \in Instances, Accept(r, i)
  PROVE  Lineages
<1> DEFINE e == MessageEvent(r, send[r].branch, send[r].sub, send[r].body)
<1>0. Reads(i) => file'.lines = file.lines
  BY LoadedIsFile
<1>1. send[r].branch \in KnownBranches(file.lines) /\ UNCHANGED ckpt
  BY DEF Accept, LineageInv, SendsKnown
<1>2. CASE Goes(r, "refused") /\ Reads(i)
  BY <1>0, <1>1, <1>2, ReadStep DEF CkptStep
<1>3. ASSUME NEW write \in WriteOutcomes, NEW res, res = AppendMessage(file, index[i], e, write),
             Writes(i, res, e.id), Goes(r, IF res.result = "new" THEN "running" ELSE "failed")
      PROVE  Lineages
  <2>1. EventOK(e)
    BY EventsAreOK
  <2>2. LET l == Numbered(e, Len(file.lines) + 1)
        IN l.seq = Len(file.lines) + 1 /\ l.branch = send[r].branch /\ l.type # "forked"
    BY WrittenLines
  <2>3. PICK id, m : id = e.id /\ m = e
    OBVIOUS
  <2> HIDE DEF e
  <2>4. \/ file'.lines = file.lines
        \/ Grows(file.lines, Numbered(e, Len(file.lines) + 1), file'.lines)
    BY <1>3, <2>1, WriteAdds
  <2>5. PICK at : Goes(r, at)
    BY <1>3
  <2>. QED
    BY <1>1, <2>2, <2>4, <2>5, OwnStep
<1>. QED
  BY <1>2, <1>3 DEF Accept

LEMMA WorkStep ==
  ASSUME LineageInv, FilesInv, SendsShape, NEW r \in Sends, NEW i \in Instances,
         NEW type \in {"call", "result"}, Work(r, i, type)
  PROVE  Lineages
<1> DEFINE e == Event(type, r, send[r].branch)
<1>1. send[r].branch \in KnownBranches(file.lines) /\ UNCHANGED ckpt
  BY DEF Work, LineageInv, SendsKnown
<1>2. PICK write \in WriteOutcomes :
        LET res == AppendEvent(file, index[i], e, write)
        IN /\ Writes(i, res, e.id)
           /\ Goes(r, IF res.result = "new" THEN "running" ELSE "failed")
  BY DEF Work
<1>3. EventOK(e)
  BY EventsAreOK
<1>4. LET l == Numbered(e, Len(file.lines) + 1)
      IN l.seq = Len(file.lines) + 1 /\ l.branch = send[r].branch /\ l.type # "forked"
  BY WrittenLines
<1> HIDE DEF e
<1>5. PICK res : res = AppendEvent(file, index[i], e, write)
  OBVIOUS
<1>6. Writes(i, res, e.id) /\ Goes(r, IF res.result = "new" THEN "running" ELSE "failed")
  BY <1>2, <1>5
<1>7. \/ file'.lines = file.lines
      \/ Grows(file.lines, Numbered(e, Len(file.lines) + 1), file'.lines)
  BY <1>3, <1>5, <1>6, WriteAdds
<1>8. PICK at : Goes(r, at)
  BY <1>6
<1>. QED
  BY <1>1, <1>4, <1>7, <1>8, OwnStep

\* A step leaves the lines of the file alone and moves no send to a branch.
LEMMA QuietStep ==
  ASSUME LineageInv, file'.lines = file.lines, CkptStep,
         \A q \in Sends : \/ send'[q] = send[q]
                          \/ send'[q].branch \in Branches /\ send'[q].pc \notin {"ready", "running", "waiting"}
  PROVE  Lineages
<1>1. SendsKnown'
  BY DEF LineageInv, SendsKnown
<1>. QED
  BY <1>1 DEF Lineages, BranchStep

LEMMA BeginStep ==
  ASSUME LineageInv, FilesInv, SendsShape, NEW r \in Sends, NEW i \in Instances, Begin(r, i)
  PROVE  Lineages
<1>1. file'.lines = file.lines /\ UNCHANGED ckpt
  BY LoadedIsFile DEF Begin
<1>2. PICK sub \in SubmissionsOf(r), body \in Bodies, branch \in Branches :
      \E from \in ForkRequests(branch) :
       LET asked == [send[r] EXCEPT !.sub = sub, !.body = body, !.branch = branch, !.from = from]
           stored == FindSubmission(Loaded(i), sub)
       IN \/ /\ stored = {}
             /\ send' = [send EXCEPT ![r] = [asked EXCEPT !.pc = "checked"]]
             /\ busy' = {r}
          \/ \E e \in stored :
               /\ send' = [send EXCEPT ![r] =
                             IF e.body /= body \/ e.branch /= branch
                             THEN [NewSend EXCEPT !.pc = "refused"]
                             ELSE [asked EXCEPT !.pc = "answered", !.reply = e.turn]]
               /\ UNCHANGED busy
  BY DEF Begin
<1>3. PICK from \in ForkRequests(branch) :
       LET asked == [send[r] EXCEPT !.sub = sub, !.body = body, !.branch = branch, !.from = from]
           stored == FindSubmission(Loaded(i), sub)
       IN \/ /\ stored = {}
             /\ send' = [send EXCEPT ![r] = [asked EXCEPT !.pc = "checked"]]
             /\ busy' = {r}
          \/ \E e \in stored :
               /\ send' = [send EXCEPT ![r] =
                             IF e.body /= body \/ e.branch /= branch
                             THEN [NewSend EXCEPT !.pc = "refused"]
                             ELSE [asked EXCEPT !.pc = "answered", !.reply = e.turn]]
               /\ UNCHANGED busy
  BY <1>2
<1> DEFINE asked == [send[r] EXCEPT !.sub = sub, !.body = body, !.branch = branch, !.from = from]
<1>4. SendFields \subseteq DOMAIN asked /\ asked.branch = branch
  BY DEF SendsShape, SendFields
<1> HIDE DEF asked
<1>5. ASSUME NEW new, send' = [send EXCEPT ![r] = new], new.branch \in Branches,
             new.pc \notin {"ready", "running", "waiting"}
      PROVE  Lineages
  <2>1. send' = [q \in Sends |-> IF q = r THEN new ELSE send[q]]
    BY <1>5 DEF SendsShape
  <2>2. \A q \in Sends : \/ send'[q] = send[q]
                         \/ send'[q].branch \in Branches /\ send'[q].pc \notin {"ready", "running", "waiting"}
    BY <1>5, <2>1
  <2>. QED
    BY <1>1, <2>2, QuietStep DEF CkptStep
<1>6. CASE send' = [send EXCEPT ![r] = [asked EXCEPT !.pc = "checked"]]
  <2> DEFINE new == [asked EXCEPT !.pc = "checked"]
  <2>1. new.branch \in Branches /\ new.pc = "checked"
    BY <1>4 DEF SendFields
  <2> HIDE DEF new
  <2>. QED
    BY <1>5, <1>6, <2>1 DEF new
<1>7. CASE send' = [send EXCEPT ![r] = [NewSend EXCEPT !.pc = "refused"]]
  <2> DEFINE new == [NewSend EXCEPT !.pc = "refused"]
  <2>1. new.branch \in Branches /\ new.pc = "refused"
    BY BranchAssumption DEF NewSend
  <2> HIDE DEF new
  <2>. QED
    BY <1>5, <1>7, <2>1 DEF new
<1>8. ASSUME NEW turn, send' = [send EXCEPT ![r] = [asked EXCEPT !.pc = "answered", !.reply = turn]]
      PROVE  Lineages
  <2> DEFINE new == [asked EXCEPT !.pc = "answered", !.reply = turn]
  <2>1. new.branch \in Branches /\ new.pc = "answered"
    BY <1>4 DEF SendFields
  <2> HIDE DEF new
  <2>. QED
    BY <1>5, <1>8, <2>1 DEF new
<1>. QED
  BY <1>3, <1>6, <1>7, <1>8 DEF asked

\* Every step of the specification.
LEMMA StepOfLineages ==
  ASSUME LineageInv, FilesInv, SendsShape, [Next]_vars
  PROVE  Lineages
<1>1. ASSUME NEW r \in Sends, NEW i \in Instances, RefuseFork(r, i)
      PROVE  Lineages
  <2>1. file'.lines = file.lines
    BY <1>1, LoadedIsFile DEF RefuseFork
  <2>. QED
    BY <1>1, <2>1, ReadStep DEF RefuseFork, CkptStep
<1>2. ASSUME NEW r \in Sends, NEW i \in Instances, SaveCheckpoint(r, i) \/ Wait(r, i)
      PROVE  CkptStep /\ file'.lines = file.lines /\ send[r].branch \in KnownBranches(file.lines)
  <2>1. send[r].pc = "running"
    BY <1>2 DEF SaveCheckpoint, Wait
  <2>2. send[r].branch \in KnownBranches(file.lines)
    BY <2>1 DEF LineageInv, SendsKnown
  <2>3. ckpt' = [ckpt EXCEPT ![send[r].branch] = LedgerPointer(file.lines, send[r].branch)]
    BY <1>2, LoadedIsFile DEF SaveCheckpoint, Wait
  <2>4. file'.lines = file.lines
    BY <1>2, LoadedIsFile DEF SaveCheckpoint, Wait
  <2>. QED
    BY <2>2, <2>3, <2>4 DEF CkptStep
<1>3. ASSUME NEW r \in Sends, NEW i \in Instances, SaveCheckpoint(r, i)
      PROVE  Lineages
  BY <1>2, <1>3, QuietStep DEF SaveCheckpoint
<1>4. ASSUME NEW r \in Sends, NEW i \in Instances, Wait(r, i)
      PROVE  Lineages
  BY <1>2, <1>4, ReadStep DEF Wait
<1>5. ASSUME NEW r \in Sends, Resume(r) \/ Finish(r)
      PROVE  Lineages
  <2>1. send[r].branch \in KnownBranches(file.lines)
    BY <1>5 DEF Resume, Finish, LineageInv, SendsKnown
  <2>2. PICK at : Goes(r, at)
    BY <1>5 DEF Resume, Finish
  <2>3. file'.lines = file.lines /\ UNCHANGED ckpt
    BY <1>5 DEF Resume, Finish
  <2>. QED
    BY <2>1, <2>2, <2>3, ReadStep DEF CkptStep
<1>6. CASE Crash
  <2> DEFINE dead == [NewSend EXCEPT !.pc = "failed"]
  <2>1. dead.branch \in Branches /\ dead.pc = "failed"
    BY BranchAssumption DEF NewSend
  <2>2. send' = [r \in Sends |-> IF send[r].pc \in {"checked", "ready", "running"} THEN dead ELSE send[r]]
    BY <1>6 DEF Crash
  <2>3. file'.lines = file.lines /\ UNCHANGED ckpt
    BY <1>6 DEF Crash
  <2> HIDE DEF dead
  <2>4. \A q \in Sends : \/ send'[q] = send[q]
                         \/ send'[q].branch \in Branches /\ send'[q].pc \notin {"ready", "running", "waiting"}
    BY <2>1, <2>2
  <2>. QED
    BY <2>3, <2>4, QuietStep DEF CkptStep
<1>7. CASE UNCHANGED vars
  BY <1>7, QuietStep DEF vars, CkptStep
<1>8. CASE Next
  BY <1>1, <1>3, <1>4, <1>5, <1>6, <1>8, BeginStep, ForkStep, ContinueStep, AcceptStep, WorkStep DEF Next
<1>. QED
  BY <1>7, <1>8

LEMMA LineageKept ==
  ASSUME LineageInv, Lineages
  PROVE  LineageInv'
<1>1. BranchStep /\ SendsKnown' /\ CkptStep
  BY DEF Lineages
<1>2. /\ LineageOK(file'.lines)
      /\ KnownBranches(file.lines) \subseteq KnownBranches(file'.lines)
      /\ \A e \in Forks(file'.lines) : SettledFork(file'.lines, e)
      /\ \A b \in KnownBranches(file.lines) : \A c :
           CursorHolds(file.lines, b, c) => CursorHolds(file'.lines, b, c)
  BY <1>1, StepOfLines
<1>3. CASE UNCHANGED ckpt
  BY <1>1, <1>2, <1>3 DEF LineageInv
<1>4. ASSUME file'.lines = file.lines, NEW b \in KnownBranches(file.lines),
             ckpt' = [ckpt EXCEPT ![b] = LedgerPointer(file.lines, b)]
      PROVE  LineageInv'
  <2>1. PICK c : c = LedgerPointer(file.lines, b)
    OBVIOUS
  <2>2. CursorHolds(file.lines, b, c)
    BY <2>1, PointerHolds DEF LineageInv
  <2>3. ckpt' = [x \in Branches |-> IF x = b THEN c ELSE ckpt[x]]
    BY <1>4, <2>1 DEF LineageInv
  <2>4. /\ ckpt' = [x \in Branches |-> ckpt'[x]]
        /\ \A x \in Branches :
             ckpt'[x] # NoCursor =>
               x \in KnownBranches(file'.lines) /\ CursorHolds(file'.lines, x, ckpt'[x])
    BY <1>4, <2>2, <2>3 DEF LineageInv
  <2>. QED
    BY <1>1, <1>2, <2>4 DEF LineageInv
<1>. QED
  BY <1>1, <1>3, <1>4 DEF CkptStep

LEMMA InitLineage == Init => LineageInv
<1> SUFFICES ASSUME Init PROVE LineageInv
  OBVIOUS
<1>1. file.lines = <<>> /\ send = [r \in Sends |-> NewSend] /\ ckpt = [b \in Branches |-> NoCursor]
  BY DEF Init, EmptyFile
<1>2. LineageOK(file.lines)
  BY <1>1 DEF LineageOK
<1>3. SendsKnown
  BY <1>1, BranchAssumption DEF SendsKnown, NewSend
<1>4. Forks(file.lines) = {}
  BY <1>1 DEF Forks, ToSet
<1>. QED
  BY <1>1, <1>2, <1>3, <1>4 DEF LineageInv

LEMMA LineageInvariant == Spec => [](FilesInv /\ SendsShape /\ LineageInv)
<1>1. Init => FilesInv /\ SendsShape /\ LineageInv
  BY InitFiles, InitSends, InitLineage
<1>2. FilesInv /\ SendsShape /\ LineageInv /\ [Next]_vars => (FilesInv /\ SendsShape /\ LineageInv)'
  BY StepKeepsFiles, StepOfSends, StepOfLineages, LineageKept
<1>. QED
  BY <1>1, <1>2, PTL DEF Spec

(* What a branch shows never changes and grows by its own lines only: a    *)
(* fork sees nothing of what its parent or a sibling writes afterwards,    *)
(* for a fork of a fork and a fork at an origin as well                    *)
(* (_branch_visibility, project_events).                                   *)
THEOREM BranchesStayApart == Spec => BranchesAreIsolated
<1>1. FilesInv /\ SendsShape /\ LineageInv /\ [Next]_vars
        => [file'.lines /= file.lines => BranchesGrowAlone]_vars
  <2> SUFFICES ASSUME FilesInv, SendsShape, LineageInv, [Next]_vars, file'.lines # file.lines
               PROVE  BranchesGrowAlone
    OBVIOUS
  <2>1. BranchStep
    BY StepOfLineages DEF Lineages
  <2>2. PICK line : NewLine(file.lines, line) /\ Grows(file.lines, line, file'.lines)
    BY <2>1 DEF BranchStep
  <2>3. LineageOK(file.lines) /\ LineageOK(file'.lines)
    BY <2>1, StepOfLines DEF LineageInv
  <2>4. ASSUME NEW b \in KnownBranches(file.lines)
        PROVE  /\ Visible(file.lines, b) \subseteq Visible(file'.lines, b)
               /\ \A e \in Visible(file'.lines, b) \ Visible(file.lines, b) :
                    e.branch = b /\ \A f \in Visible(file.lines, b) : f.seq < e.seq
    <3>1. Visible(file'.lines, b) = Visible(file.lines, b) \cup (IF line.branch = b THEN {line} ELSE {})
      BY <2>2, <2>3, VisibleGrows
    <3>2. line.seq = Len(file.lines) + 1 /\ Len(file.lines) \in Nat
      BY <2>2, <2>3 DEF NewLine, LineageOK
    <3>3. \A f \in Visible(file.lines, b) : f.seq \in 1..Len(file.lines)
      BY <2>3, SeenLines DEF Visible
    <3>. QED
      BY <3>1, <3>2, <3>3
  <2>. QED
    BY <2>4 DEF BranchesGrowAlone
<1>. QED
  BY <1>1, LineageInvariant, PTL DEF Spec, BranchesAreIsolated

(* The cursor of a checkpoint names the origin of its branch or an event   *)
(* the branch sees, whoever writes in between: recovery never rejects a    *)
(* checkpoint the program has written (ledger_pointer, finish_node).       *)
THEOREM CheckpointsAreInside == Spec => []CursorsHold
<1>1. LineageInv => CursorsHold
  BY DEF LineageInv, CursorsHold, CursorHolds
<1>. QED
  BY <1>1, LineageInvariant, PTL

(* What a child branch inherits never holds a call without its result      *)
(* (_previous_for_branch, fork_branch).                                    *)
THEOREM ForksInheritNoCall == Spec => []ForksAreSettled
<1>1. LineageInv => ForksAreSettled
  BY DEF LineageInv, ForksAreSettled, SettledFork
<1>. QED
  BY <1>1, LineageInvariant, PTL
-----------------------------------------------------------------------------
(* The types.  Two of them are more than shapes: a line names a send that  *)
(* exists, which recovery takes over from an open call, and a write raises *)
(* only when a fault is left.                                              *)

Owned(line) == line.turn \in Sends \cup {0}
LinesOwned(lines) == \A k \in 1..Len(lines) : Owned(lines[k])
SendPcs == {"new", "checked", "ready", "running", "waiting", "answered", "refused", "failed", "done"}
FaultsBounded == faults \in 0..MaxFaults

TypesInv ==
  /\ LinesOwned(file.lines)
  /\ \A b \in Branches : ckpt[b].branch \in Branches /\ ckpt[b].seq \in Nat
  /\ \A r \in Sends : send[r].pc \in SendPcs
  /\ busy \subseteq Sends
  /\ FaultsBounded

\* A call on the files: the lines it adds are owned, its faults were left.
FilesTyped == LinesOwned(file'.lines) /\ FaultsBounded'
\* The send it is for goes on.
SendsTyped == (\A r \in Sends : send'[r].pc \in SendPcs) /\ busy' \subseteq Sends

\* A write that is not cut short does not raise.
LEMMA OnlyFaultsRaise ==
  ASSUME NEW f, NEW ix, NEW e
  PROVE  /\ AppendEvent(f, ix, e, "ok").result # "error"
         /\ AppendMessage(f, ix, e, "ok").result # "error"
<1>1. AppendEvent(f, ix, e, "ok").result # "error"
  <2>1. PICK ld : ld = Load(f, ix)
    OBVIOUS
  <2>2. CASE Stored(ld.index.recs, e.id) # {}
    BY <2>1, <2>2 DEF AppendEvent
  <2>3. CASE Stored(ld.index.recs, e.id) = {}
    BY <2>1, <2>3 DEF AppendEvent
  <2>. QED
    BY <2>2, <2>3
<1>2. AppendMessage(f, ix, e, "ok").result # "error"
  <2>1. PICK ld : ld = Load(f, ix)
    OBVIOUS
  <2>2. CASE FindSubmission(ld.index.recs, e.sub) = {}
    <3>1. AppendMessage(f, ix, e, "ok") = AppendEvent(f, ix, e, "ok")
      BY <2>1, <2>2 DEF AppendMessage
    <3>. QED
      BY <1>1, <3>1
  <2>3. CASE FindSubmission(ld.index.recs, e.sub) # {}
    BY <2>1, <2>3 DEF AppendMessage
  <2>. QED
    BY <2>2, <2>3
<1>. QED
  BY <1>1, <1>2

LEMMA OwnedLines ==
  ASSUME NEW lines, LinesOwned(lines), LineageOK(lines), NEW line, Owned(line), NEW more,
         Grows(lines, line, more)
  PROVE  LinesOwned(more)
<1>1. PICK S : lines \in Seq(S)
  BY DEF LineageOK
<1>2. lines \in Seq(S \cup {line})
  BY <1>1
<1>3. /\ Len(lines) \in Nat /\ Len(more) = Len(lines) + 1 /\ more[Len(lines) + 1] = line
      /\ \A k \in 1..Len(lines) : more[k] = lines[k]
  BY <1>2 DEF Grows
<1>4. ASSUME NEW k \in 1..Len(more) PROVE Owned(more[k])
  <2>1. CASE k \in 1..Len(lines)
    BY <1>3, <2>1 DEF LinesOwned
  <2>2. CASE k = Len(lines) + 1
    BY <1>3, <2>2
  <2>. QED
    BY <1>3, <2>1, <2>2
<1>. QED
  BY <1>4 DEF LinesOwned

LEMMA WritesTyped ==
  ASSUME FilesInv, LineageInv, TypesInv, NEW i \in Instances, NEW e, EventOK(e),
         Owned(Numbered(e, Len(file.lines) + 1)), NEW write \in WriteOutcomes, NEW res, NEW id,
         \/ res = AppendEvent(file, index[i], e, write)
         \/ res = AppendMessage(file, index[i], e, write),
         Writes(i, res, id)
  PROVE  FilesTyped
<1>1. \/ file'.lines = file.lines
      \/ Grows(file.lines, Numbered(e, Len(file.lines) + 1), file'.lines)
  BY WriteAdds
<1>2. LinesOwned(file.lines) /\ LineageOK(file.lines)
  BY DEF TypesInv, LineageInv
<1>3. LinesOwned(file'.lines)
  BY <1>1, <1>2, OwnedLines
<1>4. faults \in 0..MaxFaults /\ MaxFaults \in Nat
  BY SendAssumption DEF TypesInv, FaultsBounded
<1>5. CASE res.result = "error"
  <2>1. write # "ok"
    BY <1>5, OnlyFaultsRaise
  <2>2. faults < MaxFaults
    BY <2>1 DEF WriteOutcomes
  <2>3. faults' = faults + 1
    BY <1>5 DEF Writes
  <2>. QED
    BY <1>3, <1>4, <2>2, <2>3 DEF FilesTyped, FaultsBounded
<1>6. CASE res.result # "error"
  <2>1. faults' = faults
    BY <1>6 DEF Writes
  <2>. QED
    BY <1>3, <1>4, <2>1 DEF FilesTyped, FaultsBounded
<1>. QED
  BY <1>5, <1>6

LEMMA ReadsTyped ==
  ASSUME FilesInv, TypesInv, NEW i \in Instances, Reads(i)
  PROVE  FilesTyped
<1>1. file'.lines = file.lines
  BY LoadedIsFile
<1>2. faults' = faults
  BY DEF Reads
<1>. QED
  BY <1>1, <1>2 DEF TypesInv, FilesTyped, FaultsBounded

LEMMA GoesTyped ==
  ASSUME SendsShape, TypesInv, NEW r \in Sends, NEW at \in SendPcs, Goes(r, at)
  PROVE  SendsTyped
<1>1. \A q \in Sends : send'[q].pc = at \/ send'[q] = send[q]
  BY GoesTo
<1>2. busy' \subseteq busy
  BY DEF Goes
<1>. QED
  BY <1>1, <1>2 DEF SendsTyped, TypesInv

\* The events the sends write are owned.
LEMMA EventsAreOwned ==
  ASSUME NEW owner \in Sends, NEW branch, NEW sub, NEW body, NEW cursor, NEW n
  PROVE  /\ Owned(Numbered(Event("call", owner, branch), n))
         /\ Owned(Numbered(Event("result", owner, branch), n))
         /\ Owned(Numbered(MessageEvent(owner, branch, sub, body), n))
         /\ Owned(Numbered(ForkEvent(branch, cursor), n))
<1>1. /\ Owned(Numbered(Event("call", owner, branch), n))
      /\ Owned(Numbered(Event("result", owner, branch), n))
  BY DEF Owned, Numbered, Event
<1>2. Owned(Numbered(MessageEvent(owner, branch, sub, body), n))
  BY DEF Owned, Numbered, MessageEvent, Event
<1>3. Owned(Numbered(ForkEvent(branch, cursor), n))
  BY DEF Owned, Numbered, ForkEvent, Event
<1>. QED
  BY <1>1, <1>2, <1>3

StepTyped == FilesTyped /\ SendsTyped

LEMMA BeginTyped ==
  ASSUME FilesInv, SendsShape, TypesInv, NEW r \in Sends, NEW i \in Instances, Begin(r, i)
  PROVE  StepTyped
<1>1. FilesTyped
  BY ReadsTyped DEF Begin
<1>2. PICK sub \in SubmissionsOf(r), body \in Bodies, branch \in Branches :
      \E from \in ForkRequests(branch) :
       LET asked == [send[r] EXCEPT !.sub = sub, !.body = body, !.branch = branch, !.from = from]
           stored == FindSubmission(Loaded(i), sub)
       IN \/ /\ stored = {}
             /\ send' = [send EXCEPT ![r] = [asked EXCEPT !.pc = "checked"]]
             /\ busy' = {r}
          \/ \E e \in stored :
               /\ send' = [send EXCEPT ![r] =
                             IF e.body /= body \/ e.branch /= branch
                             THEN [NewSend EXCEPT !.pc = "refused"]
                             ELSE [asked EXCEPT !.pc = "answered", !.reply = e.turn]]
               /\ UNCHANGED busy
  BY DEF Begin
<1>3. PICK from \in ForkRequests(branch) :
       LET asked == [send[r] EXCEPT !.sub = sub, !.body = body, !.branch = branch, !.from = from]
           stored == FindSubmission(Loaded(i), sub)
       IN \/ /\ stored = {}
             /\ send' = [send EXCEPT ![r] = [asked EXCEPT !.pc = "checked"]]
             /\ busy' = {r}
          \/ \E e \in stored :
               /\ send' = [send EXCEPT ![r] =
                             IF e.body /= body \/ e.branch /= branch
                             THEN [NewSend EXCEPT !.pc = "refused"]
                             ELSE [asked EXCEPT !.pc = "answered", !.reply = e.turn]]
               /\ UNCHANGED busy
  BY <1>2
<1> DEFINE asked == [send[r] EXCEPT !.sub = sub, !.body = body, !.branch = branch, !.from = from]
<1>4. SendFields \subseteq DOMAIN asked
  BY DEF SendsShape, SendFields
<1> HIDE DEF asked
<1>5. ASSUME NEW new, send' = [send EXCEPT ![r] = new], new.pc \in SendPcs
      PROVE  \A q \in Sends : send'[q].pc \in SendPcs
  <2>1. send' = [q \in Sends |-> IF q = r THEN new ELSE send[q]]
    BY <1>5 DEF SendsShape
  <2>. QED
    BY <1>5, <2>1 DEF TypesInv
<1>6. busy' = {r} \/ busy' = busy
  BY <1>3
<1>7. CASE send' = [send EXCEPT ![r] = [asked EXCEPT !.pc = "checked"]]
  <2> DEFINE new == [asked EXCEPT !.pc = "checked"]
  <2>1. new.pc \in SendPcs
    BY <1>4 DEF SendFields, SendPcs
  <2> HIDE DEF new
  <2>2. \A q \in Sends : send'[q].pc \in SendPcs
    BY <1>5, <1>7, <2>1 DEF new
  <2>. QED
    BY <1>1, <1>6, <2>2 DEF StepTyped, SendsTyped, TypesInv
<1>8. CASE send' = [send EXCEPT ![r] = [NewSend EXCEPT !.pc = "refused"]]
  <2> DEFINE new == [NewSend EXCEPT !.pc = "refused"]
  <2>1. new.pc \in SendPcs
    BY DEF NewSend, SendPcs
  <2> HIDE DEF new
  <2>2. \A q \in Sends : send'[q].pc \in SendPcs
    BY <1>5, <1>8, <2>1 DEF new
  <2>. QED
    BY <1>1, <1>6, <2>2 DEF StepTyped, SendsTyped, TypesInv
<1>9. ASSUME NEW turn, send' = [send EXCEPT ![r] = [asked EXCEPT !.pc = "answered", !.reply = turn]]
      PROVE  StepTyped
  <2> DEFINE new == [asked EXCEPT !.pc = "answered", !.reply = turn]
  <2>1. new.pc \in SendPcs
    BY <1>4 DEF SendFields, SendPcs
  <2> HIDE DEF new
  <2>2. \A q \in Sends : send'[q].pc \in SendPcs
    BY <1>5, <1>9, <2>1 DEF new
  <2>. QED
    BY <1>1, <1>6, <2>2 DEF StepTyped, SendsTyped, TypesInv
<1>. QED
  BY <1>3, <1>7, <1>8, <1>9 DEF asked

\* A send that writes an event, and goes where the outcome lets it.
LEMMA EventTyped ==
  ASSUME FilesInv, SendsShape, LineageInv, TypesInv, NEW r \in Sends, NEW i \in Instances,
         NEW e, EventOK(e), Owned(Numbered(e, Len(file.lines) + 1)), NEW write \in WriteOutcomes,
         NEW res, NEW id, NEW at \in SendPcs \ {"failed"},
         \/ res = AppendEvent(file, index[i], e, write)
         \/ res = AppendMessage(file, index[i], e, write),
         Writes(i, res, id), Goes(r, IF res.result = "new" THEN at ELSE "failed")
  PROVE  StepTyped
<1>1. FilesTyped
  BY WritesTyped
<1>2. PICK to : to = IF res.result = "new" THEN at ELSE "failed"
  OBVIOUS
<1>3. to \in SendPcs /\ Goes(r, to)
  BY <1>2 DEF SendPcs
<1>. QED
  BY <1>1, <1>3, GoesTyped DEF StepTyped

\* A send that reads, and goes on.
LEMMA ReadTyped ==
  ASSUME FilesInv, SendsShape, TypesInv, NEW r \in Sends, NEW i \in Instances,
         Reads(i), NEW at \in SendPcs, Goes(r, at)
  PROVE  StepTyped
BY ReadsTyped, GoesTyped DEF StepTyped

LEMMA ForkTyped ==
  ASSUME FilesInv, SendsShape, LineageInv, TypesInv, NEW r \in Sends, NEW i \in Instances, Fork(r, i)
  PROVE  StepTyped
<1> DEFINE b == send[r].branch
           from == send[r].from
           e == ForkEvent(b, from)
<1>1. CASE \E at \in {"ready", "refused"} : Goes(r, at) /\ Reads(i)
  BY <1>1, ReadTyped DEF SendPcs
<1>2. ASSUME NEW write \in WriteOutcomes, NEW res, res = AppendEvent(file, index[i], e, write),
             Writes(i, res, <<"forked", b>>), Goes(r, IF res.result = "new" THEN "ready" ELSE "failed")
      PROVE  StepTyped
  <2>1. EventOK(e) /\ Owned(Numbered(e, Len(file.lines) + 1))
    BY EventsAreOK, EventsAreOwned
  <2>2. "ready" \in SendPcs \ {"failed"}
    BY DEF SendPcs
  <2> HIDE DEF e
  <2>. QED
    BY <1>2, <2>1, <2>2, EventTyped
<1>3. \/ \E at \in {"ready", "refused"} : Goes(r, at) /\ Reads(i)
      \/ \E write \in WriteOutcomes :
           LET res == AppendEvent(file, index[i], e, write)
           IN /\ Writes(i, res, <<"forked", b>>)
              /\ Goes(r, IF res.result = "new" THEN "ready" ELSE "failed")
  BY Zenon DEF Fork
<1>. QED
  BY <1>1, <1>2, <1>3

\* A call recovery settles is one of a line, and so is its turn.
LEMMA OpenIsOwned ==
  ASSUME LineageInv, TypesInv, NEW b \in Branches, NEW turn \in OpenCalls(Visible(file.lines, b)), NEW n
  PROVE  Owned(Numbered(Event("result", turn, b), n))
<1>1. PICK e \in Visible(file.lines, b) : e.turn = turn
  BY DEF OpenCalls, TurnsWith
<1>2. PICK S : file.lines \in Seq(S)
  BY DEF LineageInv, LineageOK
<1>3. PICK k \in 1..Len(file.lines) : e = file.lines[k]
  BY <1>1, <1>2 DEF Visible, VisibleUpTo, ToSet
<1>4. turn \in Sends \cup {0}
  BY <1>1, <1>3 DEF TypesInv, LinesOwned, Owned
<1>5. Numbered(Event("result", turn, b), n).turn = turn
  BY DEF Numbered, Event
<1>. QED
  BY <1>4, <1>5 DEF Owned

LEMMA ContinueTyped ==
  ASSUME FilesInv, SendsShape, LineageInv, TypesInv, NEW r \in Sends, NEW i \in Instances, Continue(r, i)
  PROVE  StepTyped
<1> DEFINE b == send[r].branch
<1>1. CASE \E at \in {"ready", "refused"} : Goes(r, at) /\ Reads(i)
  BY <1>1, ReadTyped DEF SendPcs
<1>2. ASSUME NEW turn \in OpenCalls(Visible(Loaded(i), b)), NEW write \in WriteOutcomes, NEW res,
             res = AppendEvent(file, index[i], Event("result", turn, b), write),
             Writes(i, res, <<"result", turn>>),
             Goes(r, IF res.result = "new" THEN "checked" ELSE "failed")
      PROVE  StepTyped
  <2> DEFINE e == Event("result", turn, b)
  <2>1. EventOK(e)
    BY EventsAreOK
  <2>2. Owned(Numbered(e, Len(file.lines) + 1))
    <3>1. b \in Branches /\ turn \in OpenCalls(Visible(file.lines, b))
      BY <1>2, LoadedIsFile DEF LineageInv, SendsKnown
    <3>. QED
      BY <3>1, OpenIsOwned
  <2>3. "checked" \in SendPcs \ {"failed"}
    BY DEF SendPcs
  <2> HIDE DEF e
  <2>4. res = AppendEvent(file, index[i], e, write)
    BY <1>2 DEF e
  <2>. QED
    BY <1>2, <2>1, <2>2, <2>3, <2>4, EventTyped
<1>3. \/ \E at \in {"ready", "refused"} : Goes(r, at) /\ Reads(i)
      \/ \E turn \in OpenCalls(Visible(Loaded(i), b)), write \in WriteOutcomes :
           LET res == AppendEvent(file, index[i], Event("result", turn, b), write)
           IN /\ Writes(i, res, <<"result", turn>>)
              /\ Goes(r, IF res.result = "new" THEN "checked" ELSE "failed")
  BY Zenon DEF Continue
<1>. QED
  BY <1>1, <1>2, <1>3

LEMMA AcceptTyped ==
  ASSUME FilesInv, SendsShape, LineageInv, TypesInv, NEW r \in Sends, NEW i \in Instances, Accept(r, i)
  PROVE  StepTyped
<1> DEFINE e == MessageEvent(r, send[r].branch, send[r].sub, send[r].body)
<1>1. CASE Goes(r, "refused") /\ Reads(i)
  BY <1>1, ReadTyped DEF SendPcs
<1>2. ASSUME NEW write \in WriteOutcomes, NEW res, res = AppendMessage(file, index[i], e, write),
             Writes(i, res, e.id), Goes(r, IF res.result = "new" THEN "running" ELSE "failed")
      PROVE  StepTyped
  <2>1. EventOK(e) /\ Owned(Numbered(e, Len(file.lines) + 1))
    BY EventsAreOK, EventsAreOwned
  <2>2. "running" \in SendPcs \ {"failed"}
    BY DEF SendPcs
  <2>3. PICK id : id = e.id
    OBVIOUS
  <2>4. Writes(i, res, id)
    BY <1>2, <2>3
  <2> HIDE DEF e
  <2>. QED
    BY <1>2, <2>1, <2>2, <2>4, EventTyped
<1>3. \/ Goes(r, "refused") /\ Reads(i)
      \/ \E write \in WriteOutcomes :
           LET res == AppendMessage(file, index[i], e, write)
           IN /\ Writes(i, res, e.id)
              /\ Goes(r, IF res.result = "new" THEN "running" ELSE "failed")
  BY Zenon DEF Accept
<1>. QED
  BY <1>1, <1>2, <1>3

LEMMA WorkTyped ==
  ASSUME FilesInv, SendsShape, LineageInv, TypesInv, NEW r \in Sends, NEW i \in Instances,
         NEW type \in {"call", "result"}, Work(r, i, type)
  PROVE  StepTyped
<1> DEFINE e == Event(type, r, send[r].branch)
<1>1. PICK write \in WriteOutcomes :
        LET res == AppendEvent(file, index[i], e, write)
        IN /\ Writes(i, res, e.id)
           /\ Goes(r, IF res.result = "new" THEN "running" ELSE "failed")
  BY DEF Work
<1>2. EventOK(e) /\ Owned(Numbered(e, Len(file.lines) + 1))
  BY EventsAreOK, EventsAreOwned
<1>3. "running" \in SendPcs \ {"failed"}
  BY DEF SendPcs
<1> HIDE DEF e
<1>4. PICK res : res = AppendEvent(file, index[i], e, write)
  OBVIOUS
<1>5. Writes(i, res, e.id) /\ Goes(r, IF res.result = "new" THEN "running" ELSE "failed")
  BY <1>1, <1>4
<1>. QED
  BY <1>2, <1>3, <1>4, <1>5, EventTyped

\* Every step of the specification keeps the lines, the sends and the faults in their types.
LEMMA StepOfTypes ==
  ASSUME FilesInv, SendsShape, LineageInv, TypesInv, [Next]_vars
  PROVE  StepTyped
<1>1. ASSUME NEW r \in Sends, NEW i \in Instances, RefuseFork(r, i) \/ Wait(r, i)
      PROVE  StepTyped
  <2>1. PICK at \in {"refused", "waiting"} : Goes(r, at) /\ Reads(i)
    BY <1>1 DEF RefuseFork, Wait
  <2>. QED
    BY <2>1, ReadTyped DEF SendPcs
<1>2. ASSUME NEW r \in Sends, NEW i \in Instances, SaveCheckpoint(r, i)
      PROVE  StepTyped
  BY <1>2, ReadsTyped DEF SaveCheckpoint, StepTyped, SendsTyped, TypesInv
<1>3. ASSUME file'.lines = file.lines, UNCHANGED faults
      PROVE  FilesTyped
  BY <1>3 DEF FilesTyped, TypesInv, FaultsBounded
<1>4. ASSUME NEW r \in Sends, Resume(r) \/ Finish(r)
      PROVE  StepTyped
  <2>1. PICK at \in {"running", "done"} : Goes(r, at) /\ UNCHANGED <<file, faults>>
    BY <1>4 DEF Resume, Finish
  <2>. QED
    BY <1>3, <2>1, GoesTyped DEF SendPcs, StepTyped
<1>5. CASE Crash
  <2> DEFINE dead == [NewSend EXCEPT !.pc = "failed"]
  <2>1. dead.pc \in SendPcs
    BY DEF NewSend, SendPcs
  <2>2. send' = [r \in Sends |-> IF send[r].pc \in {"checked", "ready", "running"} THEN dead ELSE send[r]]
    BY <1>5 DEF Crash
  <2> HIDE DEF dead
  <2>3. SendsTyped
    BY <1>5, <2>1, <2>2 DEF SendsTyped, TypesInv, Crash
  <2>4. faults < MaxFaults /\ faults' = faults + 1 /\ file' = file
    BY <1>5 DEF Crash
  <2>5. FilesTyped
    BY <2>4, SendAssumption DEF FilesTyped, TypesInv, FaultsBounded
  <2>. QED
    BY <2>3, <2>5 DEF StepTyped
<1>6. CASE UNCHANGED vars
  BY <1>3, <1>6 DEF vars, StepTyped, SendsTyped, TypesInv
<1>7. CASE Next
  BY <1>1, <1>2, <1>4, <1>5, <1>7, BeginTyped, ForkTyped, ContinueTyped, AcceptTyped, WorkTyped DEF Next
<1>. QED
  BY <1>6, <1>7

\* The pointer of a branch is one of that branch.
LEMMA PointerTyped ==
  ASSUME NEW lines, LineageOK(lines), NEW b \in Branches
  PROVE  LedgerPointer(lines, b).branch = b /\ LedgerPointer(lines, b).seq \in Nat
<1>1. LedgerPointer(lines, b).branch = b
  BY DEF LedgerPointer, Origin, CursorOf
<1>2. CursorHolds(lines, b, LedgerPointer(lines, b))
  BY PointerHolds
<1>3. \A e \in Visible(lines, b) : e.seq \in Nat
  BY SeenLines DEF Visible
<1>4. Origin(b).seq = 0
  BY DEF Origin
<1>. QED
  BY <1>1, <1>2, <1>3, <1>4 DEF CursorHolds

LEMMA TypesKept ==
  ASSUME LineageInv, TypesInv, Lineages, StepTyped
  PROVE  TypesInv'
<1>1. ASSUME NEW x \in Branches PROVE ckpt'[x].branch \in Branches /\ ckpt'[x].seq \in Nat
  <2>1. ckpt[x].branch \in Branches /\ ckpt[x].seq \in Nat
    BY DEF TypesInv
  <2>2. CASE UNCHANGED ckpt
    BY <2>1, <2>2
  <2>3. ASSUME NEW b, NEW c, ckpt' = [ckpt EXCEPT ![b] = c], c = LedgerPointer(file.lines, b)
        PROVE  ckpt'[x].branch \in Branches /\ ckpt'[x].seq \in Nat
    <3>1. ckpt' = [y \in Branches |-> IF y = b THEN c ELSE ckpt[y]]
      BY <2>3 DEF LineageInv
    <3>2. CASE x = b
      BY <2>3, <3>1, <3>2, PointerTyped DEF LineageInv
    <3>3. CASE x # b
      BY <2>1, <3>1, <3>3
    <3>. QED
      BY <3>2, <3>3
  <2>. QED
    BY <2>2, <2>3 DEF Lineages, CkptStep
<1>. QED
  BY <1>1 DEF TypesInv, StepTyped, FilesTyped, SendsTyped

LEMMA InitTypes == Init => TypesInv
<1> SUFFICES ASSUME Init PROVE TypesInv
  OBVIOUS
<1>1. /\ file.lines = <<>> /\ send = [r \in Sends |-> NewSend] /\ ckpt = [b \in Branches |-> NoCursor]
      /\ busy = {} /\ faults = 0
  BY DEF Init, EmptyFile
<1>2. \A b \in Branches : ckpt[b].branch \in Branches /\ ckpt[b].seq \in Nat
  BY <1>1, BranchAssumption DEF NoCursor
<1>3. \A r \in Sends : send[r].pc \in SendPcs
  BY <1>1 DEF NewSend, SendPcs
<1>4. LinesOwned(file.lines)
  BY <1>1 DEF LinesOwned
<1>. QED
  BY <1>1, <1>2, <1>3, <1>4, SendAssumption DEF TypesInv, FaultsBounded

(* Every variable of the sends and branches keeps its type: a line is of a *)
(* known branch and of a send that exists, also when recovery settles a    *)
(* call of another turn (_previous_for_branch), and a checkpoint's cursor  *)
(* is one of its branch.                                                   *)
THEOREM BranchTypes == Spec => []TypeOK
<1>1. Init => FilesInv /\ SendsShape /\ LineageInv /\ TypesInv
  BY InitFiles, InitSends, InitLineage, InitTypes
<1>2. FilesInv /\ SendsShape /\ LineageInv /\ TypesInv /\ [Next]_vars
        => (FilesInv /\ SendsShape /\ LineageInv /\ TypesInv)'
  BY StepKeepsFiles, StepOfSends, StepOfLineages, LineageKept, StepOfTypes, TypesKept
<1>3. FilesInv /\ SendsShape /\ LineageInv /\ TypesInv => TypeOK
  <2> SUFFICES ASSUME FilesInv, LineageInv, TypesInv PROVE TypeOK
    OBVIOUS
  <2>1. file.torn \in BOOLEAN /\ DOMAIN index = Instances
    BY DEF FilesInv, FileOK
  <2>2. \A k \in 1..Len(file.lines) : /\ file.lines[k].branch \in Branches
                                      /\ file.lines[k].turn \in Sends \cup {0}
    BY DEF LineageInv, LineageOK, LineOK, TypesInv, LinesOwned, Owned
  <2>. QED
    BY <2>1, <2>2 DEF TypeOK, TypesInv, SendPcs, FaultsBounded
<1>. QED
  BY <1>1, <1>2, <1>3, PTL DEF Spec
=============================================================================
