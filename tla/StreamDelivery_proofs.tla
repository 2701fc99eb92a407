------------------------- MODULE StreamDelivery_proofs -------------------------
(***************************************************************************)
(* The text a client shows is the turn's, in order and never twice.        *)
(* The argument: the text under way is in order stage by stage, from the   *)
(* page back through the inbox, the connection and the dispatcher's queue  *)
(* to the put that waits (OrderInv); only chunks wait in the inbox, since  *)
(* any other frame forces the drain (ClientInv); and what waits there      *)
(* across a lost connection is taken by the first frame of the new one     *)
(* (GapInv).                                                               *)
(* While the connection holds, no text is lost and no question stays       *)
(* unseen.  The argument, on top of the first: every frame under way is    *)
(* numbered above all the client has taken (SeqInv) and tells nothing      *)
(* later than the turn itself (FitInv), so that the inbox refuses neither  *)
(* text nor the current question; the start of a text segment comes ahead  *)
(* of all text (Coming) and the end behind it (EndInv), so that all text   *)
(* is on the page or comes after it (TextInv); and a question that waits   *)
(* has no snapshot of anything else behind it (WaitInv).                   *)
(***************************************************************************)
EXTENDS StreamDelivery, SequenceTheorems, FiniteSetTheorems, NaturalsInduction, WellFoundedInduction, TLAPS

\* Counting up: what holds of zero and goes on from each number to the next.
LEMMA CountUp ==
  ASSUME NEW n \in Nat, NEW T, 0 \in T, \A k \in 1..n : k - 1 \in T => k \in T
  PROVE  \A k \in 0..n : k \in T
<1> DEFINE Out == {k \in 0..n : k \notin T}
           R == OpToRel(<, Nat)
<1>1. CASE Out = {}
  BY <1>1
<1>2. CASE Out # {}
  <2>1. IsWellFoundedOn(R, Nat)
    BY NatLessThanWellFounded
  <2>2. \A x, y \in Nat : y < x => <<y, x>> \in R
    BY DEF OpToRel
  <2>7. /\ Out \in SUBSET Nat
        /\ \A k : k \in Out <=> k \in 0..n /\ k \notin T
    OBVIOUS
  <2>. HIDE DEF R, Out
  <2>3. PICK x \in Out : \A y \in Out : <<y, x>> \notin R
    BY <1>2, <2>1, <2>7, WFMin
  <2>4. x \in 0..n /\ x \notin T
    BY <2>7
  <2>5. x \in 1..n /\ x - 1 \in 0..n /\ x - 1 < x /\ x - 1 \in Nat /\ x \in Nat
    BY <2>4
  <2>6. x - 1 \in Out
    BY <2>4, <2>5, <2>7
  <2>. QED
    BY <2>2, <2>3, <2>5, <2>6
<1>. QED
  BY <1>1, <1>2

-----------------------------------------------------------------------------
(* The inductive invariant. *)
Kinds == {"step_start", "chunk", "timeline_event", "interrupt", "done", "error", "state_sync"}
Statuses == {"none", "running", "waiting_user", "completed", "failed"}
Frames == [kind : Kinds, seq : Nat, rev : Int, status : Statuses, text : Nat]

IsChunk(f) == f.kind = "chunk"

\* Text chunks stand in their order in a sequence of frames.
Ordered(s) == \A i, j \in DOMAIN s : i < j /\ IsChunk(s[i]) /\ IsChunk(s[j]) => s[i].text < s[j].text
SeqsRise(s) == \A i, j \in DOMAIN s : i < j => s[i].seq < s[j].seq
Rising(shown) == \A i, j \in DOMAIN shown : i < j => shown[i] < shown[j]

\* The text in a sequence of frames, and the text shown.
Text(s) == {s[i].text : i \in {j \in DOMAIN s : IsChunk(s[j])}}
Seen(view) == {view.shown[i] : i \in DOMAIN view.shown}
Below(S, T) == \A m \in S, n \in T : m < n

RunInv ==
  /\ turn.status \in {"running", "waiting_user"} \cup Outcomes
  /\ turn.rev \in Nat /\ turn.text \in 0..MaxText /\ turn.steps \in 0..MaxSteps
  /\ turn = [status |-> turn.status, rev |-> turn.rev, text |-> turn.text, steps |-> turn.steps,
             marks |-> turn.marks, asks |-> turn.asks]

OutInv ==
  /\ out = [queue |-> out.queue, putting |-> out.putting, latest |-> out.latest,
            snapshot |-> out.snapshot, sent |-> out.sent, phase |-> out.phase]
  /\ out.queue \in Seq(Frames) /\ Len(out.queue) <= QueueLimit
  /\ out.putting \in Frames \cup {None}
  /\ out.latest \in Frames \cup {None}
  /\ out.phase \in {"open", "closed", "gone"}
  /\ out.phase /= "open" => turn.status \in Outcomes /\ out.putting = None

LinkInv ==
  /\ link = [up |-> link.up, conn |-> link.conn, seq |-> link.seq, bound |-> link.bound]
  /\ link.up \in BOOLEAN /\ link.conn \in Nat /\ link.seq \in Nat
  /\ link.bound \in 1..link.conn
  /\ losses \in 0..MaxLosses
  /\ link.conn = IF link.up THEN losses + 1 ELSE losses
  /\ net \in Seq(Frames)
  /\ ~link.up => net = <<>>
  /\ \A k \in DOMAIN net : net[k].seq \in 1..link.seq
  /\ SeqsRise(net)

ClientInv ==
  /\ client = [inbox |-> client.inbox, view |-> client.view, deferred |-> client.deferred,
               asked |-> client.asked, settled |-> client.settled]
  /\ client.asked \in BOOLEAN /\ client.settled \in BOOLEAN
  /\ client.inbox = [last |-> client.inbox.last, pending |-> client.inbox.pending,
                     rev |-> client.inbox.rev, terminal |-> client.inbox.terminal]
  /\ client.inbox.pending \in Seq(Frames)
  /\ client.settled => client.inbox.pending = <<>>
  /\ \A k \in DOMAIN client.inbox.pending : IsChunk(client.inbox.pending[k])
  /\ SeqsRise(client.inbox.pending)
  /\ client.view = [shown |-> client.view.shown, open |-> client.view.open,
                    prompt |-> client.view.prompt, over |-> client.view.over,
                    snapshots |-> client.view.snapshots]
  /\ client.view.shown \in Seq(Nat)
  /\ client.deferred \in Frames \cup {None}
  /\ client.deferred.kind \in {"done", "none"}

\* The text under way, from the page back to the run: every stage has its text in order, and
\* all of it comes before the text of the stages behind.
InOrder(view, pending, flying, queue, putting, n) ==
  LET behind == Text(flying) \cup Text(queue) \cup Text(<<putting>>)
  IN /\ Rising(view.shown) /\ Ordered(pending) /\ Ordered(flying) /\ Ordered(queue)
     /\ Seen(view) \cup Text(pending) \cup behind \subseteq 1..n
     /\ Below(Seen(view), Text(pending) \cup behind)
     /\ Below(Text(pending), behind)
     /\ Below(Text(flying), Text(queue) \cup Text(<<putting>>))
     /\ Below(Text(queue), Text(<<putting>>))
OrderInv == InOrder(client.view, client.inbox.pending, net, out.queue, out.putting, turn.text)

\* What waits behind a gap is of this connection, or of an earlier one: then the first frame of
\* this one that the client sees takes all that waits with it.
GapInv ==
  client.inbox.pending /= <<>> =>
    \/ /\ \A i \in DOMAIN client.inbox.pending : client.inbox.pending[i].seq <= link.seq
       /\ \A i \in DOMAIN client.inbox.pending, j \in DOMAIN net : client.inbox.pending[i].seq < net[j].seq
    \/ net = <<>> /\ (link.up => link.bound # link.conn)
    \/ net /= <<>> /\ ~IsChunk(net[1]) /\ net[1].kind \in {"interrupt", "state_sync"}

SDInv == RunInv /\ OutInv /\ LinkInv /\ ClientInv /\ OrderInv /\ GapInv

-----------------------------------------------------------------------------
(* The inbox: what is put in and what comes out.                           *)

\* A frame goes between the frames of smaller and of greater number.
Split(pending, f, at) ==
  /\ \A i \in 1..at : pending[i].seq < f.seq
  /\ \A i \in at + 1..Len(pending) : pending[i].seq > f.seq

LEMMA SplitExists ==
  ASSUME NEW pending \in Seq(Frames), NEW f \in Frames, SeqsRise(pending),
         \A k \in DOMAIN pending : pending[k].seq # f.seq
  PROVE  \E at \in 0..Len(pending) : Split(pending, f, at)
<1> DEFINE T == {k \in 0..Len(pending) : \A i \in 1..k : pending[i].seq < f.seq}
<1>a. Len(pending) \in Nat /\ DOMAIN pending = 1..Len(pending)
  OBVIOUS
<1>b. \A g \in Frames : g.seq \in Nat
  BY DEF Frames
<1>c. \A k \in 1..Len(pending) : pending[k] \in Frames
  BY <1>a
<1>0. /\ Len(pending) \in Nat /\ DOMAIN pending = 1..Len(pending) /\ f.seq \in Nat
      /\ \A k \in 1..Len(pending) : pending[k].seq \in Nat
  BY <1>a, <1>b, <1>c
<1>1. SUFFICES ASSUME \A at \in 0..Len(pending) : ~Split(pending, f, at) PROVE FALSE
  OBVIOUS
<1>2. 0 \in T
  BY <1>0
<1>3. ASSUME NEW k \in 1..Len(pending), k - 1 \in T PROVE k \in T
  <2>1. CASE pending[k].seq < f.seq
    BY <1>0, <1>3, <2>1
  <2>2. CASE pending[k].seq > f.seq
    <3>1. \A i \in k..Len(pending) : pending[i].seq > f.seq
      BY <1>0, <2>2 DEF SeqsRise
    <3>2. k - 1 \in 0..Len(pending) /\ (k - 1) + 1 = k
      BY <1>0
    <3>3. Split(pending, f, k - 1)
      BY <1>3, <3>1, <3>2 DEF Split
    <3>. QED
      BY <1>1, <3>2, <3>3
  <2>. QED
    BY <1>0, <2>1, <2>2
<1>6. \A k \in 1..Len(pending) : k - 1 \in T => k \in T
  BY <1>3
<1>. HIDE DEF T
<1>4. Len(pending) \in T
  <2>1. PICK n : n = Len(pending)
    OBVIOUS
  <2>2. n \in Nat /\ n \in 0..n /\ 0 \in T /\ \A k \in 1..n : k - 1 \in T => k \in T
    BY <1>0, <1>2, <1>6, <2>1
  <2>3. \A k \in 0..n : k \in T
    BY <2>2, CountUp
  <2>. QED
    BY <2>1, <2>2, <2>3
<1>5. Split(pending, f, Len(pending))
  BY <1>0, <1>4 DEF T, Split
<1>. QED
  BY <1>0, <1>1, <1>5

LEMMA Joined ==
  ASSUME NEW S, NEW r \in Seq(S), NEW s \in Seq(S)
  PROVE  /\ r \o s \in Seq(S)
         /\ Len(r \o s) = Len(r) + Len(s)
         /\ \A i \in 1..Len(r) + Len(s) : (r \o s)[i] = IF i <= Len(r) THEN r[i] ELSE s[i - Len(r)]
OBVIOUS

\* What an insertion makes of the pending frames.
LEMMA InsertedIs ==
  ASSUME NEW pending \in Seq(Frames), NEW f \in Frames, SeqsRise(pending),
         \A k \in DOMAIN pending : pending[k].seq # f.seq
  PROVE  \E at \in 0..Len(pending) :
           /\ Split(pending, f, at)
           /\ Inserted(pending, f) \in Seq(Frames)
           /\ Len(Inserted(pending, f)) = Len(pending) + 1
           /\ \A i \in 1..Len(pending) + 1 :
                Inserted(pending, f)[i] = IF i <= at THEN pending[i]
                                          ELSE IF i = at + 1 THEN f ELSE pending[i - 1]
<1>1. PICK at : at = CHOOSE k \in 0..Len(pending) :
                       /\ \A i \in 1..k : pending[i].seq < f.seq
                       /\ \A i \in k + 1..Len(pending) : pending[i].seq > f.seq
  OBVIOUS
<1>2. at \in 0..Len(pending) /\ Split(pending, f, at)
  BY <1>1, SplitExists DEF Split
<1> DEFINE a == SubSeq(pending, 1, at)
           b == SubSeq(pending, at + 1, Len(pending))
<1>3. Inserted(pending, f) = a \o <<f>> \o b
  BY <1>1 DEF Inserted
<1>4. /\ a \in Seq(Frames) /\ Len(a) = at /\ \A i \in 1..at : a[i] = pending[i]
      /\ b \in Seq(Frames) /\ Len(b) = Len(pending) - at
      /\ \A i \in 1..Len(pending) - at : b[i] = pending[at + i]
      /\ Len(pending) \in Nat
  BY <1>2
<1>. HIDE DEF a, b
<1>5. /\ a \o <<f>> \in Seq(Frames) /\ Len(a \o <<f>>) = at + 1
      /\ \A i \in 1..at + 1 : (a \o <<f>>)[i] = IF i <= at THEN pending[i] ELSE f
  BY <1>2, <1>4
<1>6. PICK c : c = a \o <<f>>
  OBVIOUS
<1>7. /\ c \o b \in Seq(Frames) /\ Len(c \o b) = Len(pending) + 1
      /\ \A i \in 1..Len(pending) + 1 :
           (c \o b)[i] = IF i <= at + 1 THEN c[i] ELSE b[i - (at + 1)]
  <2>1. c \in Seq(Frames) /\ Len(c) = at + 1
    BY <1>5, <1>6
  <2>2. PICK l : l = Len(b)
    OBVIOUS
  <2>3. /\ c \o b \in Seq(Frames) /\ Len(c \o b) = (at + 1) + l
        /\ \A i \in 1..(at + 1) + l : (c \o b)[i] = IF i <= at + 1 THEN c[i] ELSE b[i - (at + 1)]
    <3>1. b \in Seq(Frames)
      BY <1>4
    <3>2. /\ c \o b \in Seq(Frames) /\ Len(c \o b) = Len(c) + Len(b)
          /\ \A i \in 1..Len(c) + Len(b) : (c \o b)[i] = IF i <= Len(c) THEN c[i] ELSE b[i - Len(c)]
      BY <2>1, <3>1, Joined
    <3>. QED
      BY <2>1, <2>2, <3>2
  <2>4. (at + 1) + l = Len(pending) + 1
    BY <1>2, <1>4, <2>2
  <2>. QED
    BY <2>3, <2>4
<1>8. \A i \in 1..Len(pending) + 1 :
         (c \o b)[i] = IF i <= at THEN pending[i] ELSE IF i = at + 1 THEN f ELSE pending[i - 1]
  <2>1. ASSUME NEW i \in 1..Len(pending) + 1, i > at + 1 PROVE b[i - (at + 1)] = pending[i - 1]
    <3>1. i - (at + 1) \in 1..Len(pending) - at /\ at + (i - (at + 1)) = i - 1
      BY <1>2, <1>4, <2>1
    <3>. QED
      BY <1>4, <3>1
  <2>. QED
    BY <1>2, <1>4, <1>5, <1>6, <1>7, <2>1
<1>. QED
  BY <1>2, <1>3, <1>6, <1>7, <1>8

\* A forced drain takes everything, any other at most that.
LEMMA ReadyIs ==
  ASSUME NEW inbox, NEW S, inbox.pending \in Seq(S), NEW force \in BOOLEAN
  PROVE  /\ Ready(inbox, force) \in 0..Len(inbox.pending)
         /\ force => Ready(inbox, force) = Len(inbox.pending)
<1> DEFINE pending == inbox.pending
           first == IF inbox.last = 0 THEN pending[1].seq ELSE inbox.last + 1
           In == {k \in DOMAIN pending : pending[k].seq = first + k - 1}
<1>1. Len(pending) \in Nat /\ DOMAIN pending = 1..Len(pending)
  OBVIOUS
<1>2. IsFiniteSet(1..Len(pending)) /\ Cardinality(1..Len(pending)) = Len(pending)
  BY <1>1, FS_Interval
<1>3. IsFiniteSet(In) /\ Cardinality(In) \in 0..Len(pending)
  <2>1. In \subseteq 1..Len(pending)
    BY <1>1
  <2>. HIDE DEF In
  <2>2. IsFiniteSet(In) /\ Cardinality(In) <= Cardinality(1..Len(pending))
    BY <1>2, <2>1, FS_Subset
  <2>3. Cardinality(In) \in Nat
    BY <2>2, FS_CardinalityType
  <2>. QED
    BY <1>1, <1>2, <2>2, <2>3
<1>4. Ready(inbox, force) = Len(pending) \/ (~force /\ Ready(inbox, force) = Cardinality(In))
  BY DEF Ready
<1>. QED
  BY <1>1, <1>3, <1>4

-----------------------------------------------------------------------------
(* Taking frames out of the inbox, one after the other.                    *)

TakeStart(inbox) == [last |-> inbox.last, rev |-> inbox.rev, gap |-> FALSE,
                     terminal |-> inbox.terminal, events |-> <<>>]
TakenTo(inbox, f, k) == IF k = 0 THEN TakeStart(inbox) ELSE Take(f[k - 1], inbox.pending[k])
Takes1(inbox, n, f) == f = [k \in 0..n |-> TakenTo(inbox, f, k)]

\* There is a function that goes on from each frame to the next.
LEMMA TakingExists ==
  ASSUME NEW inbox, NEW m \in Nat
  PROVE  \E f : Takes1(inbox, m, f)
<1> DEFINE T == {n \in 0..m : \E f : Takes1(inbox, n, f)}
<1>1. 0 \in T
  <2> DEFINE g == [i \in 0..0 |-> TakeStart(inbox)]
  <2>1. Takes1(inbox, 0, g)
    BY DEF TakenTo, Takes1
  <2>. HIDE DEF g
  <2>. QED
    BY <2>1
<1>2. ASSUME NEW k \in 1..m, k - 1 \in T PROVE k \in T
  <2>1. PICK f : Takes1(inbox, k - 1, f)
    BY <1>2
  <2> DEFINE g == [i \in 0..k |-> IF i = k THEN Take(f[k - 1], inbox.pending[k]) ELSE f[i]]
  <2>2. \A i \in 0..k - 1 : g[i] = f[i]
    OBVIOUS
  <2>3. ASSUME NEW i \in 0..k PROVE g[i] = TakenTo(inbox, g, i)
    <3>1. CASE i = k
      BY <2>2, <3>1 DEF TakenTo
    <3>2. CASE i # k
      <4>1. i \in 0..k - 1 /\ (i # 0 => i - 1 \in 0..k - 1)
        BY <3>2
      <4>2. g[i] = TakenTo(inbox, f, i)
        BY <2>1, <2>2, <4>1 DEF Takes1
      <4>. HIDE DEF g
      <4>. QED
        BY <2>2, <4>1, <4>2 DEF TakenTo
    <3>. QED
      BY <3>1, <3>2
  <2>4. g = [i \in 0..k |-> g[i]]
    OBVIOUS
  <2>. HIDE DEF g
  <2>5. Takes1(inbox, k, g)
    BY <2>3, <2>4 DEF Takes1
  <2>. QED
    BY <2>5
<1>3. \A k \in 1..m : k - 1 \in T => k \in T
  BY <1>2
<1>. HIDE DEF T
<1>4. m \in T
  BY <1>1, <1>3, CountUp
<1>. QED
  BY <1>4 DEF T

LEMMA TakingSteps ==
  ASSUME NEW inbox, NEW n \in Nat
  PROVE  \E f : /\ f[0] = TakeStart(inbox)
                /\ \A k \in 1..n : f[k] = Take(f[k - 1], inbox.pending[k])
                /\ Drained(inbox, n) = f[n]
<1>1. PICK f : f = CHOOSE g : Takes1(inbox, n, g)
  OBVIOUS
<1>2. Takes1(inbox, n, f)
  BY <1>1, TakingExists
<1>3. Drained(inbox, n) = f[n]
  BY <1>1 DEF Drained, Takes1, TakenTo, TakeStart
<1>4. \A k \in 0..n : f[k] = TakenTo(inbox, f, k)
  BY <1>2 DEF Takes1
<1>5. 0 \in 0..n /\ \A k \in 1..n : k \in 0..n /\ k # 0
  OBVIOUS
<1>6. f[0] = TakeStart(inbox) /\ \A k \in 1..n : f[k] = Take(f[k - 1], inbox.pending[k])
  BY <1>4, <1>5 DEF TakenTo
<1>. QED
  BY <1>3, <1>6

\* One frame leaves the inbox, or is dropped as stale.
LEMMA TakeEvents ==
  ASSUME NEW d, NEW f
  PROVE  Take(d, f).events = d.events \/ Take(d, f).events = Append(d.events, f)
<1>1. PICK e : e = [d EXCEPT !.last = f.seq]
  OBVIOUS
<1>2. e.events = d.events
  BY <1>1
<1>3. Take(d, f) = e \/ Take(d, f).events = Append(d.events, f)
  BY <1>1 DEF Take
<1>. QED
  BY <1>2, <1>3

\* What comes out are frames that were pending, in their order.
OutOf(events, pending, n) ==
  /\ events \in Seq(Frames)
  /\ \A i \in DOMAIN events : \E j \in 1..n : events[i] = pending[j]
  /\ Ordered(events)

LEMMA AppendTaken ==
  ASSUME NEW pending \in Seq(Frames), Ordered(pending), NEW k \in 1..Len(pending),
         NEW events, OutOf(events, pending, k - 1)
  PROVE  OutOf(Append(events, pending[k]), pending, k)
<1> DEFINE new == Append(events, pending[k])
<1>1. pending[k] \in Frames /\ Len(pending) \in Nat /\ DOMAIN pending = 1..Len(pending)
  OBVIOUS
<1>2. /\ new \in Seq(Frames) /\ Len(new) = Len(events) + 1 /\ Len(events) \in Nat
      /\ DOMAIN new = 1..Len(events) + 1 /\ DOMAIN events = 1..Len(events)
      /\ \A i \in 1..Len(events) : new[i] = events[i]
      /\ new[Len(events) + 1] = pending[k]
  BY <1>1 DEF OutOf
<1>. HIDE DEF new
<1>3. \A i \in DOMAIN new : \E j \in 1..k : new[i] = pending[j]
  BY <1>2 DEF OutOf
<1>4. ASSUME NEW i \in DOMAIN new, NEW j \in DOMAIN new, i < j, IsChunk(new[i]), IsChunk(new[j])
      PROVE  new[i].text < new[j].text
  <2>1. CASE j \in DOMAIN events
    <3>1. i \in DOMAIN events /\ new[i] = events[i] /\ new[j] = events[j]
      BY <1>2, <1>4, <2>1
    <3>. QED
      BY <1>4, <2>1, <3>1 DEF OutOf, Ordered
  <2>2. CASE j \notin DOMAIN events
    <3>1. i \in DOMAIN events /\ new[i] = events[i] /\ new[j] = pending[k]
      BY <1>2, <1>4, <2>2
    <3>2. PICK h \in 1..k - 1 : events[i] = pending[h]
      BY <3>1 DEF OutOf
    <3>3. h \in DOMAIN pending /\ k \in DOMAIN pending /\ h < k
      BY <1>1, <3>2
    <3>. QED
      BY <1>4, <3>1, <3>2, <3>3 DEF Ordered
  <2>. QED
    BY <2>1, <2>2
<1>. QED
  BY <1>2, <1>3, <1>4 DEF OutOf, Ordered, new

LEMMA TakenInOrder ==
  ASSUME NEW inbox, inbox.pending \in Seq(Frames), Ordered(inbox.pending),
         NEW n \in 0..Len(inbox.pending)
  PROVE  OutOf(Drained(inbox, n).events, inbox.pending, n)
<1>1. n \in Nat /\ n <= Len(inbox.pending) /\ Len(inbox.pending) \in Nat
  OBVIOUS
<1>2. PICK f : /\ f[0] = TakeStart(inbox)
               /\ \A k \in 1..n : f[k] = Take(f[k - 1], inbox.pending[k])
               /\ Drained(inbox, n) = f[n]
  BY <1>1, TakingSteps
<1> DEFINE T == {k \in 0..n : OutOf(f[k].events, inbox.pending, k)}
<1>3. 0 \in T
  <2>1. f[0].events = <<>>
    BY <1>2 DEF TakeStart
  <2>2. OutOf(<<>>, inbox.pending, 0)
    BY DEF OutOf, Ordered
  <2>. QED
    BY <1>1, <2>1, <2>2
<1>4. ASSUME NEW k \in 1..n, k - 1 \in T PROVE k \in T
  <2>1. OutOf(f[k - 1].events, inbox.pending, k - 1)
    BY <1>4
  <2>2. PICK old : old = f[k - 1].events
    OBVIOUS
  <2>3. k \in 1..Len(inbox.pending) /\ k \in 0..n
    BY <1>1
  <2>4. CASE f[k].events = old
    <3>1. OutOf(old, inbox.pending, k)
      BY <2>1, <2>2 DEF OutOf
    <3>. QED
      BY <2>3, <2>4, <3>1
  <2>5. CASE f[k].events = Append(old, inbox.pending[k])
    <3>1. OutOf(Append(old, inbox.pending[k]), inbox.pending, k)
      BY <2>1, <2>2, <2>3, AppendTaken
    <3>. QED
      BY <2>3, <2>5, <3>1
  <2>. QED
    BY <1>2, <2>2, <2>4, <2>5, TakeEvents
<1>5. \A k \in 1..n : k - 1 \in T => k \in T
  BY <1>4
<1>. HIDE DEF T
<1>6. n \in T
  <2>1. \A k \in 0..n : k \in T
    BY <1>1, <1>3, <1>5, CountUp
  <2>. QED
    BY <1>1, <2>1
<1>. QED
  BY <1>2, <1>6 DEF T

-----------------------------------------------------------------------------
(* The page.                                                               *)

Shows == Kinds \ {"timeline_event"}
IsView(v) ==
  /\ v = [shown |-> v.shown, open |-> v.open, prompt |-> v.prompt, over |-> v.over,
          snapshots |-> v.snapshots]
  /\ v.shown \in Seq(Nat)

\* A frame shows its text, if it is one that has some, or no text.
LEMMA ShowIs ==
  ASSUME NEW v, IsView(v), NEW e \in Frames, e.kind \in Shows
  PROVE  /\ IsView(Show(v, e))
         /\ \/ Show(v, e).shown = v.shown
            \/ IsChunk(e) /\ Show(v, e).shown = Append(v.shown, e.text)
<1> DEFINE V(s, o, p, over, n) == [shown |-> s, open |-> o, prompt |-> p, over |-> over, snapshots |-> n]
<1>0. e.text \in Nat /\ e.kind \in {"step_start", "chunk", "interrupt", "done", "error", "state_sync"}
  BY DEF Frames, Shows, Kinds
<1>1. PICK s, o, p, n, q : v = V(s, o, p, q, n)
  BY DEF IsView
<1>2. s \in Seq(Nat) /\ Append(s, e.text) \in Seq(Nat) /\ v.shown = s
  BY <1>0, <1>1 DEF IsView
<1>3. PICK seen : seen = [v EXCEPT !.over = IsTerminal(e) \/ @]
  OBVIOUS
<1>4. seen = V(s, o, p, IsTerminal(e) \/ q, n)
  BY <1>1, <1>3
<1>5. \/ Show(v, e) = v
      \/ e.kind = "step_start" /\ Show(v, e) = [seen EXCEPT !.open = TRUE]
      \/ e.kind = "chunk" /\ Show(v, e) = [seen EXCEPT !.shown = IF v.open THEN Append(@, e.text) ELSE @]
      \/ e.kind = "interrupt" /\ Show(v, e) = [seen EXCEPT !.prompt = TRUE]
      \/ /\ e.kind = "state_sync"
         /\ Show(v, e) = [seen EXCEPT !.snapshots = TRUE, !.prompt = @ /\ e.status = "waiting_user"]
      \/ e.kind \in {"done", "error"} /\ Show(v, e) = [seen EXCEPT !.prompt = FALSE]
  BY <1>0, <1>3, Zenon DEF Show
<1>6. \E t, a, b, c, d : /\ Show(v, e) = V(t, a, b, c, d)
                         /\ t = s \/ (IsChunk(e) /\ t = Append(s, e.text))
  <2>1. CASE Show(v, e) = v
    BY <1>1, <2>1
  <2>2. CASE e.kind = "step_start" /\ Show(v, e) = [seen EXCEPT !.open = TRUE]
    <3>1. Show(v, e) = V(s, TRUE, p, IsTerminal(e) \/ q, n)
      BY <1>4, <2>2
    <3>. QED
      BY <3>1
  <2>3. CASE e.kind = "chunk" /\ Show(v, e) = [seen EXCEPT !.shown = IF v.open THEN Append(@, e.text) ELSE @]
    <3>1. PICK t : t = IF v.open THEN Append(s, e.text) ELSE s
      OBVIOUS
    <3>2. Show(v, e) = V(t, o, p, IsTerminal(e) \/ q, n)
      BY <1>4, <2>3, <3>1
    <3>3. t = s \/ (IsChunk(e) /\ t = Append(s, e.text))
      BY <2>3, <3>1 DEF IsChunk
    <3>. QED
      BY <3>2, <3>3
  <2>4. CASE e.kind = "interrupt" /\ Show(v, e) = [seen EXCEPT !.prompt = TRUE]
    <3>1. Show(v, e) = V(s, o, TRUE, IsTerminal(e) \/ q, n)
      BY <1>4, <2>4
    <3>. QED
      BY <3>1
  <2>5. CASE /\ e.kind = "state_sync"
             /\ Show(v, e) = [seen EXCEPT !.snapshots = TRUE, !.prompt = @ /\ e.status = "waiting_user"]
    <3>1. Show(v, e) = V(s, o, p /\ e.status = "waiting_user", IsTerminal(e) \/ q, TRUE)
      BY <1>4, <2>5
    <3>. QED
      BY <3>1
  <2>6. CASE e.kind \in {"done", "error"} /\ Show(v, e) = [seen EXCEPT !.prompt = FALSE]
    <3>1. Show(v, e) = V(s, o, FALSE, IsTerminal(e) \/ q, n)
      BY <1>4, <2>6
    <3>. QED
      BY <3>1
  <2>. QED
    BY <1>5, <2>1, <2>2, <2>3, <2>4, <2>5, <2>6
<1>7. PICK t, a, b, c, d : /\ Show(v, e) = V(t, a, b, c, d)
                           /\ t = s \/ (IsChunk(e) /\ t = Append(s, e.text))
  BY <1>6
<1>8. PICK w : w = Show(v, e)
  OBVIOUS
<1>9. IsView(w) /\ w.shown = t
  BY <1>2, <1>7, <1>8 DEF IsView
<1>. QED
  BY <1>2, <1>7, <1>8, <1>9

ShowTo(view, events, f, k) == IF k = 0 THEN view ELSE Show(f[k - 1], events[k])
Shows1(view, events, n, f) == f = [k \in 0..n |-> ShowTo(view, events, f, k)]

LEMMA ShowingExists ==
  ASSUME NEW view, NEW events, NEW m \in Nat
  PROVE  \E f : Shows1(view, events, m, f)
<1> DEFINE T == {n \in 0..m : \E f : Shows1(view, events, n, f)}
<1>1. 0 \in T
  <2> DEFINE g == [i \in 0..0 |-> view]
  <2>1. Shows1(view, events, 0, g)
    BY DEF ShowTo, Shows1
  <2>. HIDE DEF g
  <2>. QED
    BY <2>1
<1>2. ASSUME NEW k \in 1..m, k - 1 \in T PROVE k \in T
  <2>1. PICK f : Shows1(view, events, k - 1, f)
    BY <1>2
  <2> DEFINE g == [i \in 0..k |-> IF i = k THEN Show(f[k - 1], events[k]) ELSE f[i]]
  <2>2. \A i \in 0..k - 1 : g[i] = f[i]
    OBVIOUS
  <2>3. ASSUME NEW i \in 0..k PROVE g[i] = ShowTo(view, events, g, i)
    <3>1. CASE i = k
      BY <2>2, <3>1 DEF ShowTo
    <3>2. CASE i # k
      <4>1. i \in 0..k - 1 /\ (i # 0 => i - 1 \in 0..k - 1)
        BY <3>2
      <4>2. g[i] = ShowTo(view, events, f, i)
        BY <2>1, <2>2, <4>1 DEF Shows1
      <4>. HIDE DEF g
      <4>. QED
        BY <2>2, <4>1, <4>2 DEF ShowTo
    <3>. QED
      BY <3>1, <3>2
  <2>4. g = [i \in 0..k |-> g[i]]
    OBVIOUS
  <2>. HIDE DEF g
  <2>5. Shows1(view, events, k, g)
    BY <2>3, <2>4 DEF Shows1
  <2>. QED
    BY <2>5
<1>3. \A k \in 1..m : k - 1 \in T => k \in T
  BY <1>2
<1>. HIDE DEF T
<1>4. m \in T
  BY <1>1, <1>3, CountUp
<1>. QED
  BY <1>4 DEF T

LEMMA ShowingSteps ==
  ASSUME NEW view, NEW events, Len(events) \in Nat
  PROVE  \E f : /\ f[0] = view
                /\ \A k \in 1..Len(events) : f[k] = Show(f[k - 1], events[k])
                /\ Applied(view, events) = f[Len(events)]
<1>1. PICK f : f = CHOOSE g : Shows1(view, events, Len(events), g)
  OBVIOUS
<1>2. Shows1(view, events, Len(events), f)
  BY <1>1, ShowingExists
<1>3. Applied(view, events) = f[Len(events)]
  BY <1>1 DEF Applied, Shows1, ShowTo
<1>4. \A k \in 0..Len(events) : f[k] = ShowTo(view, events, f, k)
  BY <1>2 DEF Shows1
<1>5. 0 \in 0..Len(events) /\ \A k \in 1..Len(events) : k \in 0..Len(events) /\ k # 0
  OBVIOUS
<1>6. f[0] = view /\ \A k \in 1..Len(events) : f[k] = Show(f[k - 1], events[k])
  BY <1>4, <1>5 DEF ShowTo
<1>. QED
  BY <1>3, <1>6

\* Where the text of a page comes from.
ShownOf(new, old, events, k) ==
  /\ IsView(new)
  /\ Rising(new.shown)
  /\ \A i \in DOMAIN new.shown :
       \/ \E h \in DOMAIN old.shown : new.shown[i] = old.shown[h]
       \/ \E j \in 1..k : IsChunk(events[j]) /\ new.shown[i] = events[j].text

LEMMA ShowKeeps ==
  ASSUME NEW view, IsView(view), NEW events \in Seq(Frames), Ordered(events),
         Below(Seen(view), Text(events)), NEW k \in 1..Len(events),
         NEW v, ShownOf(v, view, events, k - 1), events[k].kind \in Shows
  PROVE  ShownOf(Show(v, events[k]), view, events, k)
<1>0. events[k] \in Frames /\ DOMAIN events = 1..Len(events) /\ Len(events) \in Nat
  OBVIOUS
<1>1. /\ events[k] \in Frames /\ DOMAIN events = 1..Len(events) /\ Len(events) \in Nat
      /\ events[k].text \in Nat
  BY <1>0 DEF Frames
<1>2. PICK w : w = Show(v, events[k])
  OBVIOUS
<1>3. IsView(w) /\ (w.shown = v.shown \/ (IsChunk(events[k]) /\ w.shown = Append(v.shown, events[k].text)))
  BY <1>1, <1>2, ShowIs DEF ShownOf
<1>4. CASE w.shown = v.shown
  BY <1>2, <1>3, <1>4 DEF ShownOf
<1>5. CASE IsChunk(events[k]) /\ w.shown = Append(v.shown, events[k].text)
  <2>1. PICK s : s = v.shown
    OBVIOUS
  <2>2. PICK t : t = w.shown
    OBVIOUS
  <2>3. s \in Seq(Nat) /\ Len(s) \in Nat /\ DOMAIN s = 1..Len(s)
    BY <2>1 DEF ShownOf, IsView
  <2>4. /\ DOMAIN t = 1..Len(s) + 1 /\ t[Len(s) + 1] = events[k].text
        /\ \A i \in 1..Len(s) : t[i] = s[i]
    BY <1>1, <1>5, <2>1, <2>2, <2>3
  <2>5. \A i \in DOMAIN s : s[i] < events[k].text
    <3>1. SUFFICES ASSUME NEW i \in DOMAIN s PROVE s[i] < events[k].text
      OBVIOUS
    <3>2. CASE \E h \in DOMAIN view.shown : s[i] = view.shown[h]
      BY <1>1, <1>5, <3>2 DEF Below, Seen, Text
    <3>3. CASE \E j \in 1..k - 1 : IsChunk(events[j]) /\ s[i] = events[j].text
      <4>1. PICK j \in 1..k - 1 : IsChunk(events[j]) /\ s[i] = events[j].text
        BY <3>3
      <4>2. j \in DOMAIN events /\ k \in DOMAIN events /\ j < k
        BY <1>1
      <4>. QED
        BY <1>5, <4>1, <4>2 DEF Ordered
    <3>. QED
      BY <2>1, <3>2, <3>3 DEF ShownOf
  <2>6. \A i, j \in DOMAIN t : i < j => t[i] < t[j]
    <3>1. \A i, j \in DOMAIN s : i < j => s[i] < s[j]
      BY <2>1 DEF ShownOf, Rising
    <3>. QED
      BY <2>3, <2>4, <2>5, <3>1
  <2>7. ASSUME NEW i \in DOMAIN t
        PROVE  \/ \E h \in DOMAIN view.shown : t[i] = view.shown[h]
               \/ \E j \in 1..k : IsChunk(events[j]) /\ t[i] = events[j].text
    <3>1. CASE i \in DOMAIN s
      <4>1. t[i] = s[i]
        BY <2>3, <2>4, <3>1
      <4>2. \/ \E h \in DOMAIN view.shown : s[i] = view.shown[h]
            \/ \E j \in 1..k - 1 : IsChunk(events[j]) /\ s[i] = events[j].text
        BY <2>1, <3>1 DEF ShownOf
      <4>3. \A j \in 1..k - 1 : j \in 1..k
        OBVIOUS
      <4>. QED
        BY <4>1, <4>2, <4>3
    <3>2. CASE i \notin DOMAIN s
      <4>1. i = Len(s) + 1 /\ k \in 1..k
        BY <2>3, <2>4, <3>2
      <4>. QED
        BY <1>5, <2>4, <4>1
    <3>. QED
      BY <3>1, <3>2
  <2>. QED
    BY <1>2, <1>3, <2>2, <2>6, <2>7 DEF ShownOf, Rising
<1>. QED
  BY <1>3, <1>4, <1>5

LEMMA AppliedInOrder ==
  ASSUME NEW view, IsView(view), Rising(view.shown), NEW events \in Seq(Frames), Ordered(events),
         Below(Seen(view), Text(events)), \A k \in DOMAIN events : events[k].kind \in Shows
  PROVE  ShownOf(Applied(view, events), view, events, Len(events))
<1>1. Len(events) \in Nat /\ DOMAIN events = 1..Len(events)
  OBVIOUS
<1>2. PICK f : /\ f[0] = view
               /\ \A k \in 1..Len(events) : f[k] = Show(f[k - 1], events[k])
               /\ Applied(view, events) = f[Len(events)]
  BY <1>1, ShowingSteps
<1> DEFINE T == {k \in 0..Len(events) : ShownOf(f[k], view, events, k)}
<1>3. 0 \in T
  <2>1. ShownOf(view, view, events, 0)
    BY DEF ShownOf
  <2>. QED
    BY <1>1, <1>2, <2>1
<1>4. ASSUME NEW k \in 1..Len(events), k - 1 \in T PROVE k \in T
  <2>1. PICK v : v = f[k - 1]
    OBVIOUS
  <2>2. ShownOf(v, view, events, k - 1)
    BY <1>4, <2>1
  <2>3. ShownOf(Show(v, events[k]), view, events, k)
    BY <1>1, <2>2, ShowKeeps
  <2>. QED
    BY <1>1, <1>2, <2>1, <2>3
<1>5. \A k \in 1..Len(events) : k - 1 \in T => k \in T
  BY <1>4
<1>. HIDE DEF T
<1>6. PICK n : n = Len(events)
  OBVIOUS
<1>7. \A k \in 0..n : k \in T
  BY <1>1, <1>3, <1>5, <1>6, CountUp
<1>8. Len(events) \in T
  BY <1>1, <1>6, <1>7
<1>. QED
  BY <1>2, <1>8 DEF T

-----------------------------------------------------------------------------
(* The text in sequences of frames.                                        *)

LEMMA TextOfNothing == Text(<<>>) = {} /\ Text(<<None>>) = {}
<1>1. ~IsChunk(None)
  BY DEF IsChunk, None, Frame
<1>. QED
  BY <1>1 DEF Text

LEMMA TextOfPart ==
  ASSUME NEW r, NEW s, \A i \in DOMAIN r : \E j \in DOMAIN s : r[i] = s[j]
  PROVE  Text(r) \subseteq Text(s)
BY DEF Text

LEMMA TextOfOne ==
  ASSUME NEW f
  PROVE  Text(<<f>>) = IF IsChunk(f) THEN {f.text} ELSE {}
<1>1. DOMAIN <<f>> = {1} /\ <<f>>[1] = f
  OBVIOUS
<1>. QED
  BY <1>1 DEF Text

LEMMA TextAppended ==
  ASSUME NEW s \in Seq(Frames), NEW f \in Frames
  PROVE  /\ Append(s, f) \in Seq(Frames)
         /\ Text(Append(s, f)) = Text(s) \cup Text(<<f>>)
         /\ Ordered(s) /\ Below(Text(s), Text(<<f>>)) => Ordered(Append(s, f))
         /\ SeqsRise(s) /\ (\A i \in DOMAIN s : s[i].seq < f.seq) => SeqsRise(Append(s, f))
<1>1. PICK t : t = Append(s, f)
  OBVIOUS
<1>2. /\ t \in Seq(Frames) /\ DOMAIN t = 1..Len(s) + 1 /\ DOMAIN s = 1..Len(s) /\ Len(s) \in Nat
      /\ t[Len(s) + 1] = f /\ \A i \in 1..Len(s) : t[i] = s[i]
  BY <1>1
<1>3. \A i \in DOMAIN t : i \in DOMAIN s \/ i = Len(s) + 1
  BY <1>2
<1>4. Text(t) = Text(s) \cup Text(<<f>>)
  <2>1. \A m \in Text(t) : m \in Text(s) \/ (IsChunk(f) /\ m = f.text)
    BY <1>2, <1>3 DEF Text
  <2>2. \A m \in Text(s) : m \in Text(t)
    BY <1>2 DEF Text
  <2>3. IsChunk(f) => f.text \in Text(t)
    BY <1>2 DEF Text
  <2>. QED
    BY <2>1, <2>2, <2>3, TextOfOne
<1>5. ASSUME Ordered(s), Below(Text(s), Text(<<f>>)) PROVE Ordered(t)
  <2>1. SUFFICES ASSUME NEW i \in DOMAIN t, NEW j \in DOMAIN t, i < j, IsChunk(t[i]), IsChunk(t[j])
                 PROVE  t[i].text < t[j].text
    BY DEF Ordered
  <2>2. i \in DOMAIN s /\ t[i] = s[i] /\ s[i].text \in Text(s)
    BY <1>2, <2>1 DEF Text
  <2>3. CASE j \in DOMAIN s
    BY <1>2, <1>5, <2>1, <2>2, <2>3 DEF Ordered
  <2>4. CASE j = Len(s) + 1
    BY <1>2, <1>5, <2>1, <2>2, <2>4, TextOfOne DEF Below
  <2>. QED
    BY <1>3, <2>3, <2>4
<1>6. ASSUME SeqsRise(s), \A i \in DOMAIN s : s[i].seq < f.seq PROVE SeqsRise(t)
  BY <1>2, <1>3, <1>6 DEF SeqsRise
<1>. QED
  BY <1>1, <1>2, <1>4, <1>5, <1>6

LEMMA TextOfTail ==
  ASSUME NEW s \in Seq(Frames), s # <<>>
  PROVE  /\ Tail(s) \in Seq(Frames) /\ Head(s) \in Frames /\ Head(s) = s[1] /\ 1 \in DOMAIN s
         /\ \A i \in DOMAIN Tail(s) : i + 1 \in DOMAIN s /\ i \in Nat /\ Tail(s)[i] = s[i + 1]
         /\ Text(Tail(s)) \subseteq Text(s) /\ Text(<<Head(s)>>) \subseteq Text(s)
         /\ Text(s) \subseteq Text(Tail(s)) \cup Text(<<Head(s)>>)
         /\ Ordered(s) => Ordered(Tail(s)) /\ Below(Text(<<Head(s)>>), Text(Tail(s)))
         /\ SeqsRise(s) => SeqsRise(Tail(s)) /\ \A i \in DOMAIN Tail(s) : Head(s).seq < Tail(s)[i].seq
         /\ Len(Tail(s)) < Len(s)
<1>1. PICK t : t = Tail(s)
  OBVIOUS
<1>2. PICK h : h = Head(s)
  OBVIOUS
<1>3. /\ t \in Seq(Frames) /\ h \in Frames /\ h = s[1] /\ 1 \in DOMAIN s
      /\ DOMAIN s = 1..Len(s) /\ Len(s) \in Nat /\ DOMAIN t = 1..Len(s) - 1 /\ Len(t) = Len(s) - 1
      /\ \A i \in 1..Len(s) - 1 : t[i] = s[i + 1]
  BY <1>1, <1>2
<1>4. \A i \in DOMAIN t : i + 1 \in DOMAIN s /\ i \in Nat /\ t[i] = s[i + 1]
  BY <1>3
<1>5. \A i \in DOMAIN s : i = 1 \/ (i - 1 \in DOMAIN t /\ s[i] = t[i - 1])
  <2>1. SUFFICES ASSUME NEW i \in DOMAIN s, i # 1 PROVE i - 1 \in DOMAIN t /\ s[i] = t[i - 1]
    OBVIOUS
  <2>2. i - 1 \in 1..Len(s) - 1 /\ (i - 1) + 1 = i
    BY <1>3, <2>1
  <2>. QED
    BY <1>3, <2>2
<1>6. Text(t) \subseteq Text(s)
  BY <1>4 DEF Text
<1>7. Text(<<h>>) \subseteq Text(s)
  BY <1>3, TextOfOne DEF Text
<1>8. Text(s) \subseteq Text(t) \cup Text(<<h>>)
  BY <1>3, <1>5, TextOfOne DEF Text
<1>9. ASSUME Ordered(s) PROVE Ordered(t) /\ Below(Text(<<h>>), Text(t))
  <2>1. Ordered(t)
    BY <1>4, <1>9 DEF Ordered
  <2>2. ASSUME NEW i \in DOMAIN t, IsChunk(t[i]), IsChunk(h) PROVE h.text < t[i].text
    BY <1>3, <1>4, <1>9, <2>2 DEF Ordered
  <2>. QED
    BY <2>1, <2>2, TextOfOne DEF Below, Text
<1>10. ASSUME SeqsRise(s) PROVE SeqsRise(t) /\ \A i \in DOMAIN t : h.seq < t[i].seq
  <2>1. \A i, j \in DOMAIN t : i < j => i + 1 < j + 1
    BY <1>3
  <2>2. SeqsRise(t)
    BY <1>4, <1>10, <2>1 DEF SeqsRise
  <2>3. \A i \in DOMAIN t : 1 < i + 1
    BY <1>3
  <2>4. ASSUME NEW i \in DOMAIN t PROVE h.seq < t[i].seq
    <3>1. i + 1 \in DOMAIN s /\ t[i] = s[i + 1] /\ 1 < i + 1
      BY <1>4, <2>3
    <3>. QED
      BY <1>3, <1>10, <3>1 DEF SeqsRise
  <2>. QED
    BY <2>2, <2>4
<1>. QED
  BY <1>1, <1>2, <1>3, <1>4, <1>6, <1>7, <1>8, <1>9, <1>10

\* What is pending after an insertion.
LEMMA InsertedKeeps ==
  ASSUME NEW pending \in Seq(Frames), NEW f \in Frames, SeqsRise(pending), Ordered(pending),
         \A k \in DOMAIN pending : pending[k].seq # f.seq,
         IsChunk(f) => /\ \A k \in DOMAIN pending : pending[k].seq < f.seq
                       /\ Below(Text(pending), Text(<<f>>))
  PROVE  /\ Inserted(pending, f) \in Seq(Frames)
         /\ SeqsRise(Inserted(pending, f)) /\ Ordered(Inserted(pending, f))
         /\ \A i \in DOMAIN Inserted(pending, f) :
              Inserted(pending, f)[i] = f \/ \E j \in DOMAIN pending : Inserted(pending, f)[i] = pending[j]
         /\ Text(Inserted(pending, f)) \subseteq Text(pending) \cup Text(<<f>>)
<1>1. PICK p : p = Inserted(pending, f)
  OBVIOUS
<1>2. PICK at \in 0..Len(pending) :
        /\ Split(pending, f, at)
        /\ p \in Seq(Frames)
        /\ Len(p) = Len(pending) + 1
        /\ \A i \in 1..Len(pending) + 1 :
             p[i] = IF i <= at THEN pending[i] ELSE IF i = at + 1 THEN f ELSE pending[i - 1]
  BY <1>1, InsertedIs
<1>3. Len(pending) \in Nat /\ DOMAIN pending = 1..Len(pending) /\ DOMAIN p = 1..Len(pending) + 1
  BY <1>2
<1> DEFINE from(i) == IF i <= at THEN i ELSE i - 1
<1>4. \A i \in DOMAIN p : i # at + 1 => from(i) \in DOMAIN pending /\ p[i] = pending[from(i)]
  BY <1>2, <1>3
<1>5. p[at + 1] = f /\ at + 1 \in DOMAIN p
  BY <1>2, <1>3
<1>6. \A i \in DOMAIN p : p[i] = f \/ \E j \in DOMAIN pending : p[i] = pending[j]
  BY <1>4, <1>5
<1>7. \A i, j \in DOMAIN p : i < j /\ i # at + 1 /\ j # at + 1 => from(i) < from(j)
  BY <1>2, <1>3
<1>8. \A i \in DOMAIN p : /\ i < at + 1 => from(i) \in 1..at
                          /\ i > at + 1 => from(i) \in at + 1..Len(pending)
  BY <1>2, <1>3
<1>. HIDE DEF from
<1>9. SeqsRise(p)
  <2>1. SUFFICES ASSUME NEW i \in DOMAIN p, NEW j \in DOMAIN p, i < j PROVE p[i].seq < p[j].seq
    BY DEF SeqsRise
  <2>2. CASE i # at + 1 /\ j # at + 1
    BY <1>4, <1>7, <2>1, <2>2 DEF SeqsRise
  <2>3. CASE i = at + 1
    <3>1. j > at + 1
      BY <2>1, <2>3
    <3>2. from(j) \in at + 1..Len(pending) /\ p[j] = pending[from(j)]
      BY <1>2, <1>3, <1>4, <1>8, <3>1
    <3>3. pending[from(j)].seq > f.seq
      BY <1>2, <3>2 DEF Split
    <3>. QED
      BY <1>5, <2>3, <3>2, <3>3
  <2>4. CASE j = at + 1
    <3>1. i < at + 1
      BY <2>1, <2>4
    <3>2. from(i) \in 1..at /\ p[i] = pending[from(i)]
      BY <1>2, <1>3, <1>4, <1>8, <3>1
    <3>3. pending[from(i)].seq < f.seq
      BY <1>2, <3>2 DEF Split
    <3>. QED
      BY <1>5, <2>4, <3>2, <3>3
  <2>. QED
    BY <2>2, <2>3, <2>4
<1>10. Ordered(p)
  <2>1. SUFFICES ASSUME NEW i \in DOMAIN p, NEW j \in DOMAIN p, i < j, IsChunk(p[i]), IsChunk(p[j])
                 PROVE  p[i].text < p[j].text
    BY DEF Ordered
  <2>2. CASE i # at + 1 /\ j # at + 1
    BY <1>4, <1>7, <2>1, <2>2 DEF Ordered
  <2>3. CASE i = at + 1
    <3>1. j > at + 1 /\ IsChunk(f)
      BY <1>5, <2>1, <2>3
    <3>2. from(j) \in at + 1..Len(pending) /\ from(j) \in DOMAIN pending
      BY <1>2, <1>3, <1>4, <1>8, <3>1
    <3>3. pending[from(j)].seq > f.seq /\ pending[from(j)].seq < f.seq
      BY <1>2, <3>1, <3>2 DEF Split
    <3>4. pending[from(j)] \in Frames
      BY <3>2
    <3>5. \A g \in Frames : g.seq \in Nat
      BY DEF Frames
    <3>. QED
      BY <3>3, <3>4, <3>5
  <2>4. CASE j = at + 1
    <3>1. i < at + 1 /\ IsChunk(f)
      BY <1>5, <2>1, <2>4
    <3>2. from(i) \in DOMAIN pending /\ p[i] = pending[from(i)]
      BY <1>4, <3>1
    <3>3. p[i].text \in Text(pending) /\ f.text \in Text(<<f>>)
      BY <2>1, <3>1, <3>2, TextOfOne DEF Text
    <3>. QED
      BY <1>5, <2>4, <3>1, <3>3 DEF Below
  <2>. QED
    BY <2>2, <2>3, <2>4
<1>11. Text(p) \subseteq Text(pending) \cup Text(<<f>>)
  BY <1>6, TextOfOne DEF Text
<1>. QED
  BY <1>1, <1>2, <1>6, <1>9, <1>10, <1>11

-----------------------------------------------------------------------------
(* What the client does with a drained inbox.                              *)

LEMMA DrainIs ==
  ASSUME NEW inbox, inbox.pending \in Seq(Frames), NEW force \in BOOLEAN
  PROVE  \E r \in 0..Len(inbox.pending) :
           /\ force => r = Len(inbox.pending)
           /\ Drain(inbox, force).inbox =
                [last |-> Drained(inbox, r).last, rev |-> Drained(inbox, r).rev,
                 terminal |-> Drained(inbox, r).terminal,
                 pending |-> SubSeq(inbox.pending, r + 1, Len(inbox.pending))]
           /\ Drain(inbox, force).events = Drained(inbox, r).events
<1>1. PICK r : r = IF inbox.pending = <<>> THEN 0 ELSE Ready(inbox, force)
  OBVIOUS
<1>2. Len(inbox.pending) \in Nat /\ (inbox.pending = <<>> => Len(inbox.pending) = 0)
  OBVIOUS
<1>3. Ready(inbox, force) \in 0..Len(inbox.pending) /\ (force => Ready(inbox, force) = Len(inbox.pending))
  BY ReadyIs
<1>4. r \in 0..Len(inbox.pending) /\ (force => r = Len(inbox.pending))
  BY <1>1, <1>2, <1>3
<1>5. Drain(inbox, force) =
        [inbox |-> [last |-> Drained(inbox, r).last, rev |-> Drained(inbox, r).rev,
                    terminal |-> Drained(inbox, r).terminal,
                    pending |-> SubSeq(inbox.pending, r + 1, Len(inbox.pending))],
         events |-> Drained(inbox, r).events, gap |-> Drained(inbox, r).gap]
  BY <1>1, Zenon DEF Drain
<1>6. PICK b : b = [last |-> Drained(inbox, r).last, rev |-> Drained(inbox, r).rev,
                    terminal |-> Drained(inbox, r).terminal,
                    pending |-> SubSeq(inbox.pending, r + 1, Len(inbox.pending))]
  OBVIOUS
<1>7. PICK e, g : e = Drained(inbox, r).events /\ g = Drained(inbox, r).gap
  OBVIOUS
<1>8. Drain(inbox, force) = [inbox |-> b, events |-> e, gap |-> g]
  BY <1>5, <1>6, <1>7, Zenon
<1>9. Drain(inbox, force).inbox = b /\ Drain(inbox, force).events = e
  BY <1>8
<1>. QED
  BY <1>4, <1>6, <1>7, <1>9, Zenon

\* The client's parts as the invariant wants them.
IsInbox(b) ==
  /\ b = [last |-> b.last, pending |-> b.pending, rev |-> b.rev, terminal |-> b.terminal]
  /\ b.pending \in Seq(Frames)
  /\ \A k \in DOMAIN b.pending : IsChunk(b.pending[k])
  /\ SeqsRise(b.pending)

\* What a page and an inbox were before a drain, and what they are after it.
Moved(view, pending, force, v, left) ==
  /\ IsView(v) /\ Rising(v.shown) /\ IsInbox(left) /\ Ordered(left.pending)
  /\ Seen(v) \subseteq Seen(view) \cup Text(pending)
  /\ Text(left.pending) \subseteq Text(pending)
  /\ Below(Seen(v), Text(left.pending))
  /\ \A k \in DOMAIN left.pending : \E j \in DOMAIN pending : left.pending[k] = pending[j]
  /\ force => left.pending = <<>>

\* A drain moves text from the inbox to the page, in order, and leaves in the inbox what it had.
LEMMA DrainMoves ==
  ASSUME NEW view, IsView(view), Rising(view.shown),
         NEW inbox, inbox.pending \in Seq(Frames), Ordered(inbox.pending), SeqsRise(inbox.pending),
         \A k \in DOMAIN inbox.pending : inbox.pending[k].kind \in Shows,
         Below(Seen(view), Text(inbox.pending)),
         NEW force \in BOOLEAN,
         force \/ \A k \in DOMAIN inbox.pending : IsChunk(inbox.pending[k]),
         NEW d, d = Drain(inbox, force), NEW v, v = Applied(view, d.events)
  PROVE  Moved(view, inbox.pending, force, v, d.inbox)
<1>1. PICK p : p = inbox.pending
  OBVIOUS
<1>2. PICK r \in 0..Len(p) :
           /\ force => r = Len(p)
           /\ d.inbox = [last |-> Drained(inbox, r).last, rev |-> Drained(inbox, r).rev,
                         terminal |-> Drained(inbox, r).terminal, pending |-> SubSeq(p, r + 1, Len(p))]
           /\ d.events = Drained(inbox, r).events
  BY <1>1, DrainIs
<1>3. PICK q : q = SubSeq(p, r + 1, Len(p))
  OBVIOUS
<1>4. /\ p \in Seq(Frames) /\ Len(p) \in Nat /\ DOMAIN p = 1..Len(p) /\ r \in Nat /\ r <= Len(p)
      /\ Ordered(p) /\ SeqsRise(p)
  BY <1>1
<1>5. /\ q \in Seq(Frames) /\ DOMAIN q = 1..Len(p) - r /\ (r = Len(p) => q = <<>>)
      /\ \A i \in 1..Len(p) - r : q[i] = p[r + i]
  <2>1. r + 1 \in 1..Len(p) + 1 /\ Len(p) \in Nat
    BY <1>4
  <2>2. q \in Seq(Frames)
    BY <1>3, <1>4
  <2>6. Len(q) = IF r + 1 <= Len(p) THEN Len(p) - (r + 1) + 1 ELSE 0
    BY <1>3, <1>4, <2>1, SubSeqProperties
  <2>3. Len(q) = Len(p) - r /\ DOMAIN q = 1..Len(q)
    BY <1>4, <2>2, <2>6
  <2>4. \A i \in 1..Len(p) - r : q[i] = p[r + i]
    BY <1>3, <1>4
  <2>5. r = Len(p) => q = <<>>
    BY <1>4, <2>2, <2>3
  <2>. QED
    BY <2>2, <2>3, <2>4, <2>5
<1>6. \A i \in DOMAIN q : i \in Nat /\ r + i \in DOMAIN p /\ r + i > r /\ q[i] = p[r + i]
  <2>1. \A i \in 1..Len(p) - r : i \in Nat /\ r + i \in 1..Len(p) /\ r + i > r
    BY <1>4
  <2>. QED
    BY <1>4, <1>5, <2>1
<1>7. PICK e : e = d.events
  OBVIOUS
<1>8. OutOf(e, p, r)
  BY <1>1, <1>2, <1>4, <1>7, TakenInOrder
<1>9. /\ e \in Seq(Frames) /\ Ordered(e)
      /\ \A i \in DOMAIN e : \E j \in 1..r : j \in DOMAIN p /\ e[i] = p[j]
  BY <1>4, <1>8 DEF OutOf
<1>10. Text(e) \subseteq Text(p)
  <2>1. \A i \in DOMAIN e : \E j \in DOMAIN p : e[i] = p[j]
    BY <1>9
  <2>. QED
    BY <2>1, TextOfPart
<1>11. Below(Seen(view), Text(e)) /\ \A k \in DOMAIN e : e[k].kind \in Shows
  BY <1>1, <1>9, <1>10 DEF Below
<1>12. ShownOf(v, view, e, Len(e))
  BY <1>7, <1>9, <1>11, AppliedInOrder
<1>13. IsView(v) /\ Rising(v.shown)
  BY <1>12 DEF ShownOf
<1>14. \A m \in Seen(v) : m \in Seen(view) \/ \E j \in 1..r : j \in DOMAIN p /\ IsChunk(p[j]) /\ m = p[j].text
  <2>1. SUFFICES ASSUME NEW i \in DOMAIN v.shown
                 PROVE  \/ v.shown[i] \in Seen(view)
                        \/ \E j \in 1..r : j \in DOMAIN p /\ IsChunk(p[j]) /\ v.shown[i] = p[j].text
    BY DEF Seen
  <2>2. \/ \E h \in DOMAIN view.shown : v.shown[i] = view.shown[h]
        \/ \E j \in 1..Len(e) : IsChunk(e[j]) /\ v.shown[i] = e[j].text
    BY <1>12 DEF ShownOf
  <2>3. DOMAIN e = 1..Len(e)
    BY <1>9
  <2>4. ASSUME NEW j \in 1..Len(e), IsChunk(e[j]), v.shown[i] = e[j].text
        PROVE  \E h \in 1..r : h \in DOMAIN p /\ IsChunk(p[h]) /\ v.shown[i] = p[h].text
    <3>1. PICK h \in 1..r : h \in DOMAIN p /\ e[j] = p[h]
      BY <1>9, <2>3
    <3>. QED
      BY <2>4, <3>1
  <2>. QED
    BY <2>2, <2>4 DEF Seen
<1>15. Seen(v) \subseteq Seen(view) \cup Text(p)
  BY <1>14 DEF Text
<1>16. Text(q) \subseteq Text(p)
  <2>1. \A i \in DOMAIN q : \E j \in DOMAIN p : q[i] = p[j]
    BY <1>6
  <2>. QED
    BY <2>1, TextOfPart
<1>17. Below(Seen(v), Text(q))
  <2>1. SUFFICES ASSUME NEW m \in Seen(v), NEW i \in DOMAIN q, IsChunk(q[i]) PROVE m < q[i].text
    BY DEF Below, Text
  <2>2. CASE m \in Seen(view)
    <3>1. q[i].text \in Text(p)
      BY <1>6, <2>1 DEF Text
    <3>. QED
      BY <1>1, <2>2, <3>1 DEF Below
  <2>3. CASE \E j \in 1..r : j \in DOMAIN p /\ IsChunk(p[j]) /\ m = p[j].text
    <3>1. PICK j \in 1..r : j \in DOMAIN p /\ IsChunk(p[j]) /\ m = p[j].text
      BY <2>3
    <3>2. j < r + i /\ r + i \in DOMAIN p /\ q[i] = p[r + i]
      BY <1>4, <1>6, <2>1, <3>1
    <3>. QED
      BY <1>4, <2>1, <3>1, <3>2 DEF Ordered
  <2>. QED
    BY <1>14, <2>2, <2>3
<1>18. SeqsRise(q) /\ Ordered(q)
  <2>1. \A i, j \in DOMAIN q : i < j => r + i < r + j
    BY <1>4, <1>6
  <2>. QED
    BY <1>4, <1>6, <2>1 DEF SeqsRise, Ordered
<1>19. \A k \in DOMAIN q : IsChunk(q[k])
  BY <1>1, <1>2, <1>5, <1>6
<1>20. d.inbox.pending = q /\ IsInbox(d.inbox)
  BY <1>2, <1>3, <1>5, <1>18, <1>19 DEF IsInbox
<1>21. \A k \in DOMAIN q : \E j \in DOMAIN p : q[k] = p[j]
  BY <1>6
<1>. QED
  BY <1>1, <1>2, <1>5, <1>13, <1>15, <1>16, <1>17, <1>18, <1>20, <1>21 DEF Moved

-----------------------------------------------------------------------------
(* A frame handled by the inbox: what is drained then.                     *)

LEMMA HandledIs ==
  ASSUME NEW inbox, IsInbox(inbox), Ordered(inbox.pending), NEW f \in Frames, f.kind \in Shows,
         IsChunk(f) => /\ \A k \in DOMAIN inbox.pending : inbox.pending[k].seq < f.seq
                       /\ Below(Text(inbox.pending), Text(<<f>>))
  PROVE  \E b : /\ Handle(inbox, f) = Drain(b, ~IsChunk(f))
                /\ b.pending \in Seq(Frames) /\ Ordered(b.pending) /\ SeqsRise(b.pending)
                /\ Text(b.pending) \subseteq Text(inbox.pending) \cup Text(<<f>>)
                /\ \A k \in DOMAIN b.pending :
                     b.pending[k] = f \/ \E j \in DOMAIN inbox.pending : b.pending[k] = inbox.pending[j]
<1>0. Batchable(f) <=> IsChunk(f)
  BY DEF Batchable, IsChunk
<1>1. CASE Refuses(inbox, f)
  <2>1. Handle(inbox, f) = Drain(inbox, ~IsChunk(f))
    BY <1>0, <1>1 DEF Handle
  <2>. QED
    BY <2>1 DEF IsInbox
<1>2. CASE ~Refuses(inbox, f)
  <2>1. PICK s : s = Synced(inbox, f)
    OBVIOUS
  <2>2. PICK l, p, v, t : inbox = [last |-> l, pending |-> p, rev |-> v, terminal |-> t]
    BY DEF IsInbox
  <2>3. inbox.pending = p
    BY <2>2
  <2>4. \/ s = inbox
        \/ s = [last |-> f.seq - 1, pending |-> <<>>, rev |-> v, terminal |-> t]
    BY <2>1, <2>2 DEF Synced
  <2>5. PICK m, q : s = [last |-> m, pending |-> q, rev |-> v, terminal |-> t] /\ q \in {p, <<>>}
    BY <2>2, <2>4
  <2>6. \A k \in DOMAIN q : q[k].seq # f.seq
    <3>1. s.pending = q
      BY <2>5
    <3>2. \A k \in DOMAIN q : inbox.pending[k].seq # f.seq
      BY <1>2, <2>1, <3>1 DEF Refuses
    <3>. QED
      BY <2>3, <2>5, <3>2
  <2>7. /\ q \in Seq(Frames) /\ SeqsRise(q) /\ Ordered(q) /\ Text(q) \subseteq Text(p)
        /\ IsChunk(f) => (\A k \in DOMAIN q : q[k].seq < f.seq) /\ Below(Text(q), Text(<<f>>))
        /\ \A k \in DOMAIN q : \E j \in DOMAIN p : q[k] = p[j]
    <3>1. CASE q = p
      BY <2>3, <3>1 DEF IsInbox
    <3>2. CASE q = <<>>
      BY <3>2, TextOfNothing DEF SeqsRise, Ordered, Below
    <3>. QED
      BY <2>5, <3>1, <3>2
  <2>8. PICK b : b = [s EXCEPT !.pending = Inserted(@, f)]
    OBVIOUS
  <2>9. b.pending = Inserted(q, f)
    BY <2>5, <2>8
  <2>10. Handle(inbox, f) = Drain(b, ~IsChunk(f))
    BY <1>0, <1>2, <2>1, <2>8 DEF Handle
  <2>11. PICK i : i = Inserted(q, f)
    OBVIOUS
  <2>12. /\ i \in Seq(Frames) /\ SeqsRise(i) /\ Ordered(i)
         /\ \A k \in DOMAIN i : i[k] = f \/ \E j \in DOMAIN q : i[k] = q[j]
         /\ Text(i) \subseteq Text(q) \cup Text(<<f>>)
    BY <2>6, <2>7, <2>11, InsertedKeeps
  <2>13. \A k \in DOMAIN i : i[k] = f \/ \E j \in DOMAIN p : i[k] = p[j]
    BY <2>7, <2>12
  <2>14. b.pending = i
    BY <2>9, <2>11
  <2>. QED
    BY <2>3, <2>7, <2>10, <2>12, <2>13, <2>14
<1>. QED
  BY <1>1, <1>2

LEMMA TakenIs ==
  ASSUME NEW d, NEW deferred, NEW settled, ClientTakes(d, deferred, settled)
  PROVE  \E asked \in BOOLEAN :
           client' = [inbox |-> IF settled THEN EmptyInbox ELSE d.inbox,
                      view |-> Applied(client.view, d.events), asked |-> asked,
                      deferred |-> deferred, settled |-> settled]
<1>1. PICK taken : /\ taken = Takes(d)
                   /\ client' = [inbox |-> IF settled THEN EmptyInbox ELSE taken.inbox, view |-> taken.view,
                                 asked |-> taken.asked /\ ~settled, deferred |-> deferred, settled |-> settled]
  BY DEF ClientTakes
<1>2. taken.inbox = d.inbox /\ taken.view = Applied(client.view, d.events)
  BY <1>1 DEF Takes
<1>3. PICK asked \in BOOLEAN : asked = (taken.asked /\ ~settled)
  OBVIOUS
<1>. QED
  BY <1>1, <1>2, <1>3, Zenon

\* The client takes a drained inbox: its part of the invariant, if what it drains is in order
\* and comes before what is still on its way.
LEMMA ClientMoves ==
  ASSUME SDInv, UNCHANGED <<turn, out>>,
         NEW b, b.pending \in Seq(Frames), Ordered(b.pending), SeqsRise(b.pending),
         \A k \in DOMAIN b.pending : b.pending[k].kind \in Shows,
         Below(Seen(client.view), Text(b.pending)),
         Text(b.pending) \subseteq 1..turn.text,
         Below(Text(b.pending), Text(net') \cup Text(out.queue) \cup Text(<<out.putting>>)),
         Text(net') \subseteq Text(net), Ordered(net'),
         NEW force \in BOOLEAN, force \/ \A k \in DOMAIN b.pending : IsChunk(b.pending[k]),
         NEW deferred \in Frames \cup {None}, deferred.kind \in {"done", "none"},
         NEW settled \in BOOLEAN,
         ClientTakes(Drain(b, force), deferred, settled)
  PROVE  /\ ClientInv' /\ OrderInv'
         /\ \A k \in DOMAIN client'.inbox.pending :
              \E j \in DOMAIN b.pending : client'.inbox.pending[k] = b.pending[j]
         /\ force => client'.inbox.pending = <<>>
<1>1. PICK d : d = Drain(b, force)
  OBVIOUS
<1>2. PICK v : v = Applied(client.view, d.events)
  OBVIOUS
<1>3. PICK old : old = client.view
  OBVIOUS
<1>4. IsView(old) /\ Rising(old.shown)
  BY <1>3 DEF SDInv, ClientInv, OrderInv, InOrder, IsView
<1>5. /\ IsView(v) /\ Rising(v.shown) /\ IsInbox(d.inbox) /\ Ordered(d.inbox.pending)
      /\ Seen(v) \subseteq Seen(old) \cup Text(b.pending)
      /\ Text(d.inbox.pending) \subseteq Text(b.pending)
      /\ Below(Seen(v), Text(d.inbox.pending))
      /\ \A k \in DOMAIN d.inbox.pending : \E j \in DOMAIN b.pending : d.inbox.pending[k] = b.pending[j]
      /\ force => d.inbox.pending = <<>>
  <2>1. v = Applied(old, d.events) /\ Below(Seen(old), Text(b.pending))
    BY <1>2, <1>3
  <2>2. Moved(old, b.pending, force, v, d.inbox)
    BY <1>1, <1>4, <2>1, DrainMoves
  <2>. QED
    BY <2>2 DEF Moved
<1>6. PICK asked \in BOOLEAN :
        client' = [inbox |-> IF settled THEN EmptyInbox ELSE d.inbox,
                   view |-> v, asked |-> asked, deferred |-> deferred, settled |-> settled]
  BY <1>1, <1>2, TakenIs
<1>7. PICK x : x = IF settled THEN EmptyInbox ELSE d.inbox
  OBVIOUS
<1>8. /\ client' = [inbox |-> x, view |-> v, asked |-> asked, deferred |-> deferred, settled |-> settled]
      /\ client'.inbox = x /\ client'.view = v /\ client'.asked = asked
      /\ client'.deferred = deferred /\ client'.settled = settled
  BY <1>6, <1>7
<1>9. EmptyInbox.pending = <<>> /\ IsInbox(EmptyInbox) /\ Ordered(EmptyInbox.pending)
  <2>1. EmptyInbox = [last |-> 0, pending |-> <<>>, rev |-> NoRevision, terminal |-> FALSE]
    BY DEF EmptyInbox
  <2>2. Ordered(<<>>) /\ SeqsRise(<<>>) /\ <<>> \in Seq(Frames) /\ DOMAIN <<>> = {}
    BY DEF Ordered, SeqsRise
  <2>3. EmptyInbox.pending = <<>> /\ EmptyInbox = [last |-> EmptyInbox.last, pending |-> EmptyInbox.pending, rev |-> EmptyInbox.rev, terminal |-> EmptyInbox.terminal]
    BY <2>1
  <2>. QED
    BY <2>2, <2>3 DEF IsInbox
<1>10. /\ IsInbox(x) /\ Ordered(x.pending) /\ Text(x.pending) \subseteq Text(b.pending)
       /\ Below(Seen(v), Text(x.pending))
       /\ \A k \in DOMAIN x.pending : \E j \in DOMAIN b.pending : x.pending[k] = b.pending[j]
       /\ force => x.pending = <<>>
       /\ settled => x.pending = <<>>
  BY <1>5, <1>7, <1>9, TextOfNothing DEF Below
<1>11. ClientInv'
  BY <1>5, <1>8, <1>10 DEF ClientInv, IsInbox, IsView
<1> DEFINE rest == Text(net') \cup Text(out.queue) \cup Text(<<out.putting>>)
<1>12. /\ Below(Seen(old), rest) /\ Seen(old) \subseteq 1..turn.text /\ rest \subseteq 1..turn.text
       /\ Below(Text(net'), Text(out.queue) \cup Text(<<out.putting>>))
       /\ Ordered(out.queue) /\ Below(Text(out.queue), Text(<<out.putting>>))
  BY <1>3 DEF SDInv, OrderInv, InOrder, Below
<1>13. Below(Seen(v), Text(x.pending) \cup rest) /\ Below(Text(x.pending), rest)
  BY <1>5, <1>10, <1>12 DEF Below
<1>14. Seen(v) \cup Text(x.pending) \cup rest \subseteq 1..turn.text
  BY <1>5, <1>10, <1>12
<1>15. OrderInv'
  <2>1. InOrder(v, x.pending, net', out.queue, out.putting, turn.text)
    BY <1>5, <1>10, <1>12, <1>13, <1>14 DEF InOrder
  <2>. QED
    BY <1>8, <2>1 DEF OrderInv
<1>. QED
  BY <1>8, <1>10, <1>11, <1>15

-----------------------------------------------------------------------------
(* The run and its dispatcher.                                             *)

LEMMA PublishedIs ==
  ASSUME OutInv, NEW f \in Frames, out' = Published(f)
  PROVE  \E q, p, l, s :
           /\ out' = [queue |-> q, putting |-> p, latest |-> l, snapshot |-> s, sent |-> out.sent,
                      phase |-> out.phase]
           /\ l \in Frames \cup {None}
           /\ \/ q = Append(out.queue, f) /\ p = out.putting /\ Len(out.queue) < QueueLimit
              \/ q = out.queue /\ p = f /\ f.kind # "state_sync"
              \/ q = out.queue /\ p = out.putting /\ f.kind = "state_sync"
<1>1. PICK q, p, l, s, z, h :
        /\ out = [queue |-> q, putting |-> p, latest |-> l, snapshot |-> s, sent |-> z, phase |-> h]
        /\ l \in Frames \cup {None} /\ out.sent = z /\ out.phase = h /\ out.queue = q /\ out.putting = p
  BY DEF OutInv
<1>7. Len(q) \in Nat /\ QueueLimit \in Nat
  BY <1>1, DeliveryAssumption DEF OutInv
<1>2. PICK full \in BOOLEAN : full <=> Len(q) >= QueueLimit
  OBVIOUS
<1>3. PICK l1, s1, p1, q1 : /\ l1 = IF HasState(f) THEN f ELSE l
                            /\ s1 = (s \/ (full /\ HasState(f)))
                            /\ p1 = IF full /\ ~MayBeDropped(f) THEN f ELSE p
                            /\ q1 = IF full THEN q ELSE Append(q, f)
  OBVIOUS
<1>4. Published(f) = [out EXCEPT !.latest = IF HasState(f) THEN f ELSE @,
                                 !.snapshot = @ \/ (full /\ HasState(f)),
                                 !.putting = IF full /\ ~MayBeDropped(f) THEN f ELSE @,
                                 !.queue = IF full THEN @ ELSE Append(@, f)]
  BY <1>1, <1>2 DEF Published
<1>5. Published(f) = [queue |-> q1, putting |-> p1, latest |-> l1, snapshot |-> s1, sent |-> z, phase |-> h]
  BY <1>1, <1>3, <1>4
<1>6. l1 \in Frames \cup {None}
  BY <1>1, <1>3
<1>8. \/ q1 = Append(q, f) /\ p1 = p /\ Len(q) < QueueLimit
      \/ q1 = q /\ p1 = f /\ f.kind # "state_sync"
      \/ q1 = q /\ p1 = p /\ f.kind = "state_sync"
  <2>1. CASE full
    BY <1>3, <2>1 DEF MayBeDropped
  <2>2. CASE ~full
    <3>1. Len(q) < QueueLimit
      BY <1>2, <1>7, <2>2
    <3>. QED
      BY <1>3, <2>2, <3>1
  <2>. QED
    BY <2>1, <2>2
<1>. QED
  BY <1>1, <1>5, <1>6, <1>8

\* Text enters at the end, and moves from stage to stage.
LEMMA NextText ==
  ASSUME NEW view, NEW pending, NEW flying, NEW queue \in Seq(Frames), NEW n \in Nat,
         InOrder(view, pending, flying, queue, None, n),
         NEW f \in Frames, IsChunk(f), f.text = n + 1
  PROVE  /\ InOrder(view, pending, flying, Append(queue, f), None, n + 1)
         /\ InOrder(view, pending, flying, queue, f, n + 1)
<1>1. Text(<<f>>) = {n + 1} /\ Text(<<None>>) = {}
  BY TextOfOne, TextOfNothing
<1>2. \A m \in 1..n : m \in 1..n + 1 /\ m < n + 1
  OBVIOUS
<1>3. n + 1 \in 1..n + 1
  OBVIOUS
<1>4. Seen(view) \cup Text(pending) \cup Text(flying) \cup Text(queue) \subseteq 1..n
  BY DEF InOrder
<1>5. Below(Text(queue), Text(<<f>>))
  BY <1>1, <1>2, <1>4 DEF Below
<1>6. Text(Append(queue, f)) = Text(queue) \cup {n + 1} /\ Ordered(Append(queue, f))
  BY <1>1, <1>5, TextAppended DEF InOrder
<1>7. InOrder(view, pending, flying, Append(queue, f), None, n + 1)
  BY <1>1, <1>2, <1>3, <1>4, <1>6 DEF InOrder, Below
<1>8. InOrder(view, pending, flying, queue, f, n + 1)
  BY <1>1, <1>2, <1>3, <1>4 DEF InOrder, Below
<1>. QED
  BY <1>7, <1>8

LEMMA NoText ==
  ASSUME NEW view, NEW pending, NEW flying, NEW queue \in Seq(Frames), NEW putting, NEW n,
         InOrder(view, pending, flying, queue, putting, n), NEW f \in Frames, ~IsChunk(f)
  PROVE  /\ InOrder(view, pending, flying, Append(queue, f), putting, n)
         /\ InOrder(view, pending, flying, queue, f, n)
<1>1. Text(<<f>>) = {} /\ Below(Text(queue), Text(<<f>>))
  BY TextOfOne DEF Below
<1>2. Text(Append(queue, f)) = Text(queue) /\ Ordered(Append(queue, f))
  BY <1>1, TextAppended DEF InOrder
<1>3. InOrder(view, pending, flying, Append(queue, f), putting, n)
  BY <1>2 DEF InOrder
<1>4. InOrder(view, pending, flying, queue, f, n)
  BY <1>1 DEF InOrder, Below
<1>. QED
  BY <1>3, <1>4

LEMMA NoTextFlies ==
  ASSUME NEW view, NEW pending, NEW flying \in Seq(Frames), NEW queue, NEW putting, NEW n,
         InOrder(view, pending, flying, queue, putting, n), NEW f \in Frames, ~IsChunk(f)
  PROVE  InOrder(view, pending, Append(flying, f), queue, putting, n)
<1>1. Text(<<f>>) = {} /\ Below(Text(flying), Text(<<f>>))
  BY TextOfOne DEF Below
<1>2. Text(Append(flying, f)) = Text(flying) /\ Ordered(Append(flying, f))
  BY <1>1, TextAppended DEF InOrder
<1>. QED
  BY <1>2 DEF InOrder

LEMMA TextIsPut ==
  ASSUME NEW view, NEW pending, NEW flying, NEW queue \in Seq(Frames), NEW f \in Frames, NEW n,
         InOrder(view, pending, flying, queue, f, n)
  PROVE  InOrder(view, pending, flying, Append(queue, f), None, n)
<1>1. Text(<<None>>) = {}
  BY TextOfNothing
<1>2. Text(Append(queue, f)) = Text(queue) \cup Text(<<f>>) /\ Ordered(Append(queue, f))
  BY TextAppended DEF InOrder
<1>. QED
  BY <1>1, <1>2 DEF InOrder, Below

LEMMA TextIsSent ==
  ASSUME NEW view, NEW pending, NEW flying \in Seq(Frames), NEW queue \in Seq(Frames), NEW putting, NEW n,
         InOrder(view, pending, flying, queue, putting, n), queue # <<>>,
         NEW f \in Frames, f.kind = Head(queue).kind, f.text = Head(queue).text
  PROVE  /\ InOrder(view, pending, Append(flying, f), Tail(queue), putting, n)
         /\ InOrder(view, pending, flying, Tail(queue), putting, n)
<1>1. /\ Text(Tail(queue)) \subseteq Text(queue) /\ Text(<<Head(queue)>>) \subseteq Text(queue)
      /\ Ordered(Tail(queue)) /\ Below(Text(<<Head(queue)>>), Text(Tail(queue)))
  BY TextOfTail DEF InOrder
<1>2. Text(<<f>>) = Text(<<Head(queue)>>)
  BY TextOfOne DEF IsChunk
<1>3. Below(Text(flying), Text(<<f>>))
  BY <1>1, <1>2 DEF InOrder, Below
<1>4. Text(Append(flying, f)) = Text(flying) \cup Text(<<f>>) /\ Ordered(Append(flying, f))
  BY <1>3, TextAppended DEF InOrder
<1>5. InOrder(view, pending, flying, Tail(queue), putting, n)
  BY <1>1 DEF InOrder, Below
<1>6. InOrder(view, pending, Append(flying, f), Tail(queue), putting, n)
  BY <1>1, <1>2, <1>4 DEF InOrder, Below
<1>. QED
  BY <1>5, <1>6

LEMMA TextIsLost ==
  ASSUME NEW view, NEW pending, NEW flying, NEW queue, NEW putting, NEW n,
         InOrder(view, pending, flying, queue, putting, n)
  PROVE  InOrder(view, pending, <<>>, queue, putting, n)
<1>1. Text(<<>>) = {} /\ Ordered(<<>>)
  BY TextOfNothing DEF Ordered
<1>. QED
  BY <1>1 DEF InOrder, Below

\* A frame is published: a chunk with the next text, or a frame without any.
LEMMA PublishKeeps ==
  ASSUME SDInv, NEW f \in Frames, out' = Published(f), out.phase = "open",
         out.putting = None \/ f.kind = "state_sync",
         UNCHANGED <<link, net, client, losses>>, RunInv',
         IF IsChunk(f) THEN f.text = turn.text + 1 /\ turn'.text = turn.text + 1
                       ELSE turn'.text = turn.text
  PROVE  SDInv'
<1>1. PICK q, p, l, s :
           /\ out' = [queue |-> q, putting |-> p, latest |-> l, snapshot |-> s, sent |-> out.sent,
                      phase |-> out.phase]
           /\ l \in Frames \cup {None}
           /\ \/ q = Append(out.queue, f) /\ p = out.putting /\ Len(out.queue) < QueueLimit
              \/ q = out.queue /\ p = f /\ f.kind # "state_sync"
              \/ q = out.queue /\ p = out.putting /\ f.kind = "state_sync"
  BY PublishedIs DEF SDInv
<1>2. /\ out.queue \in Seq(Frames) /\ Len(out.queue) \in Nat /\ Len(out.queue) <= QueueLimit
      /\ QueueLimit \in Nat /\ out.putting \in Frames \cup {None} /\ turn.text \in Nat /\ f.text \in Nat
      /\ turn.text \in 0..MaxText
  <2>1. f.text \in Nat
    BY DEF Frames
  <2>. QED
    BY <2>1, DeliveryAssumption DEF SDInv, OutInv, RunInv
<1>3. /\ out'.queue = q /\ out'.putting = p /\ out'.latest = l /\ out'.snapshot = s
      /\ out'.sent = out.sent /\ out'.phase = "open"
  BY <1>1
<1>4. q \in Seq(Frames) /\ Len(q) <= QueueLimit /\ p \in Frames \cup {None}
  BY <1>1, <1>2
<1>5. OutInv'
  BY <1>1, <1>3, <1>4 DEF OutInv
<1>6. OrderInv'
  <2>1. InOrder(client.view, client.inbox.pending, net, q, p, turn'.text)
    <3>0. InOrder(client.view, client.inbox.pending, net, out.queue, out.putting, turn.text)
      BY DEF SDInv, OrderInv
    <3>1. CASE IsChunk(f)
      <4>1. out.putting = None /\ f.kind # "state_sync"
        BY <3>1 DEF IsChunk
      <4>2. InOrder(client.view, client.inbox.pending, net, out.queue, None, turn.text)
        BY <3>0, <4>1
      <4>3. f.text = turn.text + 1 /\ turn'.text = turn.text + 1
        BY <3>1
      <4>4. /\ InOrder(client.view, client.inbox.pending, net, Append(out.queue, f), None, turn.text + 1)
            /\ InOrder(client.view, client.inbox.pending, net, out.queue, f, turn.text + 1)
        BY <1>2, <3>1, <4>2, <4>3, NextText
      <4>. QED
        BY <1>1, <4>1, <4>3, <4>4
    <3>2. CASE ~IsChunk(f)
      <4>1. /\ InOrder(client.view, client.inbox.pending, net, Append(out.queue, f), out.putting, turn.text)
            /\ InOrder(client.view, client.inbox.pending, net, out.queue, f, turn.text)
        BY <1>2, <3>0, <3>2, NoText
      <4>. QED
        BY <1>1, <3>0, <3>2, <4>1
    <3>. QED
      BY <3>1, <3>2
  <2>. QED
    BY <1>3, <2>1 DEF OrderInv
<1>7. LinkInv' /\ ClientInv' /\ GapInv'
  BY DEF SDInv, LinkInv, ClientInv, GapInv
<1>. QED
  BY <1>5, <1>6, <1>7 DEF SDInv

\* The frames the program makes.
LEMMA FramesAre ==
  /\ Frame("error") \in Frames /\ Frame("timeline_event") \in Frames
  /\ \A n \in Nat : [Frame("chunk") EXCEPT !.text = n] = [kind |-> "chunk", seq |-> 0, rev |-> NoRevision, status |-> "none", text |-> n]
  /\ \A kind, status : \A rev \in Nat :
       StateFrame(kind, rev, status) = [kind |-> kind, seq |-> 0, rev |-> rev, status |-> status, text |-> 0]
  /\ \A kind \in Kinds : \A rev \in Nat : \A status \in Statuses : StateFrame(kind, rev, status) \in Frames
  /\ \A n \in Nat : [Frame("chunk") EXCEPT !.text = n] \in Frames
  /\ \A kind : Frame(kind).kind = kind
  /\ \A f \in Frames : \A n \in Nat :
       /\ [f EXCEPT !.seq = n] \in Frames /\ [f EXCEPT !.seq = n].seq = n
       /\ [f EXCEPT !.seq = n].kind = f.kind /\ [f EXCEPT !.seq = n].text = f.text
  /\ \A f \in Frames : [f EXCEPT !.kind = "state_sync"] \in Frames /\ [f EXCEPT !.kind = "state_sync"].kind = "state_sync"
<1>1. Frame("error") \in Frames /\ Frame("timeline_event") \in Frames
  BY DEF Frame, Frames, Kinds, Statuses, NoRevision
<1>2. \A n \in Nat : [Frame("chunk") EXCEPT !.text = n] = [kind |-> "chunk", seq |-> 0, rev |-> NoRevision, status |-> "none", text |-> n]
  BY DEF Frame
<1>3. ASSUME NEW kind, NEW status, NEW rev \in Nat
      PROVE  StateFrame(kind, rev, status) = [kind |-> kind, seq |-> 0, rev |-> rev, status |-> status, text |-> 0]
  <2>1. PICK f : f = Frame(kind)
    OBVIOUS
  <2>2. f = [kind |-> kind, seq |-> 0, rev |-> NoRevision, status |-> "none", text |-> 0]
    BY <2>1 DEF Frame
  <2>3. PICK u : u = [[kind |-> kind, seq |-> 0, rev |-> NoRevision, status |-> "none", text |-> 0]
                       EXCEPT !.rev = rev, !.status = status]
    OBVIOUS
  <2>4. u = [kind |-> kind, seq |-> 0, rev |-> rev, status |-> status, text |-> 0]
    BY <2>3
  <2>. QED
    BY <2>1, <2>2, <2>3, <2>4, Zenon DEF StateFrame
<1>4. \A kind \in Kinds : \A rev \in Nat : \A status \in Statuses : StateFrame(kind, rev, status) \in Frames
  BY <1>3 DEF Frames
<1>5. ASSUME NEW n \in Nat PROVE [Frame("chunk") EXCEPT !.text = n] \in Frames
  <2>1. PICK u : u = [kind |-> "chunk", seq |-> 0, rev |-> NoRevision, status |-> "none", text |-> n]
    OBVIOUS
  <2>2. u \in Frames
    BY <2>1 DEF Frames, Kinds, Statuses, NoRevision
  <2>. QED
    BY <1>2, <2>1, <2>2, Zenon
<1>6. \A kind : Frame(kind).kind = kind
  BY DEF Frame
<1>7. ASSUME NEW f \in Frames, NEW n \in Nat
      PROVE  /\ [f EXCEPT !.seq = n] \in Frames /\ [f EXCEPT !.seq = n].seq = n
             /\ [f EXCEPT !.seq = n].kind = f.kind /\ [f EXCEPT !.seq = n].text = f.text
  BY DEF Frames
<1>8. ASSUME NEW f \in Frames
      PROVE  [f EXCEPT !.kind = "state_sync"] \in Frames /\ [f EXCEPT !.kind = "state_sync"].kind = "state_sync"
  BY DEF Frames, Kinds
<1>. QED
  BY <1>1, <1>2, <1>3, <1>4, <1>5, <1>6, <1>7, <1>8

-----------------------------------------------------------------------------
(* The steps.                                                              *)

LEMMA RunStepsKeep ==
  ASSUME SDInv, RunSteps
  PROVE  SDInv'
<1>1. PICK status, rev, text, steps, marks, asks :
        /\ turn = [status |-> status, rev |-> rev, text |-> text, steps |-> steps, marks |-> marks, asks |-> asks]
        /\ status \in {"running", "waiting_user"} \cup Outcomes /\ rev \in Nat /\ text \in 0..MaxText
        /\ steps \in 0..MaxSteps
        /\ turn.status = status /\ turn.rev = rev /\ turn.text = text /\ turn.steps = steps
        /\ turn.marks = marks /\ turn.asks = asks
  BY DEF SDInv, RunInv
<1>2. PICK q, p, l, s, z, h :
        /\ out = [queue |-> q, putting |-> p, latest |-> l, snapshot |-> s, sent |-> z, phase |-> h]
        /\ q \in Seq(Frames) /\ Len(q) <= QueueLimit /\ p \in Frames \cup {None} /\ l \in Frames \cup {None}
        /\ h \in {"open", "closed", "gone"}
        /\ h # "open" => turn.status \in Outcomes /\ p = None
        /\ out.queue = q /\ out.putting = p /\ out.latest = l /\ out.snapshot = s /\ out.sent = z /\ out.phase = h
  BY DEF SDInv, OutInv
<1>3. /\ MaxText \in Nat /\ MaxSteps \in Nat /\ QueueLimit \in Nat /\ Len(q) \in Nat
      /\ Outcomes \subseteq Statuses /\ {"running", "waiting_user"} \subseteq Statuses
      /\ {"step_start", "interrupt", "done"} \subseteq Kinds
  BY <1>2, DeliveryAssumption DEF Outcomes, Statuses, Kinds
<1>4. InOrder(client.view, client.inbox.pending, net, q, p, text)
  BY <1>1, <1>2 DEF SDInv, OrderInv
<1>5. ASSUME UNCHANGED <<link, net, client, losses>>
      PROVE  LinkInv' /\ ClientInv' /\ GapInv'
  BY <1>5 DEF SDInv, LinkInv, ClientInv, GapInv
<1>6. CASE Put
  <2>1. out' = [queue |-> Append(q, p), putting |-> None, latest |-> l, snapshot |-> s, sent |-> z, phase |-> h]
    BY <1>2, <1>6 DEF Put
  <2>2. /\ out'.queue = Append(q, p) /\ out'.putting = None /\ out'.latest = l /\ out'.snapshot = s
        /\ out'.sent = z /\ out'.phase = h
    BY <2>1
  <2>3. /\ p \in Frames /\ Len(q) < QueueLimit /\ UNCHANGED <<turn, link, net, client, losses>>
    BY <1>2, <1>6 DEF Put, RunKeeps
  <2>4. Append(q, p) \in Seq(Frames) /\ Len(Append(q, p)) <= QueueLimit
    BY <1>2, <1>3, <2>3
  <2>5. OutInv'
    BY <1>2, <2>1, <2>2, <2>3, <2>4 DEF OutInv
  <2>6. InOrder(client.view, client.inbox.pending, net, Append(q, p), None, text)
    BY <1>2, <1>4, <2>3, TextIsPut
  <2>7. OrderInv'
    BY <1>1, <2>2, <2>3, <2>6 DEF OrderInv
  <2>. QED
    BY <1>5, <2>3, <2>5, <2>7 DEF SDInv, RunInv
<1>7. ASSUME RunMoves, RunKeeps, NEW f \in Frames, out' = Published(f), RunInv',
             IF IsChunk(f) THEN f.text = turn.text + 1 /\ turn'.text = turn.text + 1
                           ELSE turn'.text = turn.text
      PROVE  SDInv'
  BY <1>7, PublishKeeps DEF RunMoves, RunKeeps
<1>8. CASE StartStep
  <2>1. PICK r \in {rev + 1} \cup IF steps = 0 THEN {} ELSE {rev + 3} :
          /\ turn' = [turn EXCEPT !.steps = @ + 1, !.rev = r]
          /\ out' = Published(StateFrame("step_start", r, "running"))
    BY <1>1, <1>8 DEF StartStep
  <2>2. turn' = [status |-> status, rev |-> r, text |-> text, steps |-> steps + 1, marks |-> marks, asks |-> asks]
    BY <1>1, <2>1
  <2>3. r \in Nat /\ steps + 1 \in 0..MaxSteps
    BY <1>1, <1>3, <1>8, <2>1 DEF StartStep
  <2>4. /\ turn'.status = status /\ turn'.rev = r /\ turn'.text = text /\ turn'.steps = steps + 1
        /\ turn'.marks = marks /\ turn'.asks = asks
    BY <2>2
  <2>5. RunInv'
    BY <1>1, <2>2, <2>3, <2>4 DEF RunInv
  <2>6. PICK f : f = StateFrame("step_start", r, "running")
    OBVIOUS
  <2>7. f \in Frames
    BY <1>3, <2>3, <2>6, FramesAre
  <2>8. f = [kind |-> "step_start", seq |-> 0, rev |-> r, status |-> "running", text |-> 0]
    BY <2>3, <2>6, FramesAre
  <2>9. ~IsChunk(f)
    BY <2>8 DEF IsChunk
  <2>. QED
    BY <1>1, <1>7, <1>8, <2>1, <2>4, <2>5, <2>6, <2>7, <2>9 DEF StartStep
<1>9. CASE StreamText
  <2>1. turn' = [status |-> status, rev |-> rev, text |-> text + 1, steps |-> steps, marks |-> marks, asks |-> asks]
    BY <1>1, <1>9 DEF StreamText
  <2>2. text + 1 \in 0..MaxText /\ text + 1 \in Nat
    BY <1>1, <1>3, <1>9 DEF StreamText
  <2>3. /\ turn'.status = status /\ turn'.rev = rev /\ turn'.text = text + 1 /\ turn'.steps = steps
        /\ turn'.marks = marks /\ turn'.asks = asks
    BY <2>1
  <2>4. RunInv'
    BY <1>1, <2>1, <2>2, <2>3 DEF RunInv
  <2>5. PICK f : f = [Frame("chunk") EXCEPT !.text = text + 1]
    OBVIOUS
  <2>6. f \in Frames /\ f = [kind |-> "chunk", seq |-> 0, rev |-> NoRevision, status |-> "none", text |-> text + 1]
    BY <2>2, <2>5, FramesAre
  <2>7. IsChunk(f) /\ f.text = text + 1
    BY <2>6 DEF IsChunk
  <2>8. out' = Published(f) /\ RunMoves /\ RunKeeps
    BY <1>1, <1>9, <2>5 DEF StreamText
  <2>. QED
    BY <1>1, <1>7, <2>3, <2>4, <2>6, <2>7, <2>8
<1>10. CASE PublishTimeline
  <2>1. turn' = [status |-> status, rev |-> rev, text |-> text, steps |-> steps, marks |-> marks + 1, asks |-> asks]
    BY <1>1, <1>10 DEF PublishTimeline
  <2>2. /\ turn'.status = status /\ turn'.rev = rev /\ turn'.text = text /\ turn'.steps = steps
        /\ turn'.marks = marks + 1 /\ turn'.asks = asks
    BY <2>1
  <2>3. RunInv'
    BY <1>1, <2>1, <2>2 DEF RunInv
  <2>4. PICK f : f = Frame("timeline_event")
    OBVIOUS
  <2>5. f \in Frames /\ ~IsChunk(f)
    BY <2>4, FramesAre DEF IsChunk
  <2>6. out' = Published(f) /\ RunMoves /\ RunKeeps
    BY <1>10, <2>4 DEF PublishTimeline
  <2>. QED
    BY <1>1, <1>7, <2>2, <2>3, <2>5, <2>6
<1>11. CASE AskUser
  <2>0. PICK t : t = [[status |-> status, rev |-> rev, text |-> text, steps |-> steps, marks |-> marks, asks |-> asks]
                      EXCEPT !.status = "waiting_user", !.asks = @ + 1, !.rev = @ + 1]
    OBVIOUS
  <2>1. t = [status |-> "waiting_user", rev |-> rev + 1, text |-> text, steps |-> steps,
             marks |-> marks, asks |-> asks + 1]
    BY <2>0
  <2>2. turn' = t
    BY <1>1, <1>11, <2>0 DEF AskUser
  <2>3. /\ turn'.status = "waiting_user" /\ turn'.rev = rev + 1 /\ turn'.text = text /\ turn'.steps = steps
        /\ turn'.marks = marks /\ turn'.asks = asks + 1
    BY <2>1, <2>2
  <2>11. turn' = [status |-> "waiting_user", rev |-> rev + 1, text |-> text, steps |-> steps,
                  marks |-> marks, asks |-> asks + 1]
    BY <2>1, <2>2, Zenon
  <2>4. RunInv'
    BY <1>1, <2>3, <2>11 DEF RunInv
  <2>5. PICK f : f = StateFrame("interrupt", rev + 1, "waiting_user")
    OBVIOUS
  <2>6. rev + 1 \in Nat
    BY <1>1
  <2>7. f \in Frames
    BY <1>3, <2>5, <2>6, FramesAre
  <2>8. f = [kind |-> "interrupt", seq |-> 0, rev |-> rev + 1, status |-> "waiting_user", text |-> 0]
    BY <2>5, <2>6, FramesAre
  <2>9. ~IsChunk(f)
    BY <2>8 DEF IsChunk
  <2>10. out' = Published(f) /\ RunMoves /\ RunKeeps
    BY <1>1, <1>11, <2>5 DEF AskUser
  <2>. QED
    BY <1>1, <1>7, <2>3, <2>4, <2>7, <2>9, <2>10
<1>12. CASE Resume
  <2>1. turn' = [status |-> "running", rev |-> rev, text |-> text, steps |-> steps, marks |-> marks, asks |-> asks]
    BY <1>1, <1>12 DEF Resume
  <2>2. /\ turn'.status = "running" /\ turn'.rev = rev /\ turn'.text = text /\ turn'.steps = steps
        /\ turn'.marks = marks /\ turn'.asks = asks
    BY <2>1
  <2>3. RunInv'
    BY <1>1, <2>1, <2>2 DEF RunInv
  <2>4. UNCHANGED <<out, link, net, client, losses>> /\ out.phase = "open"
    BY <1>12 DEF Resume, RunKeeps, RunMoves
  <2>5. OutInv'
    BY <2>4 DEF SDInv, OutInv
  <2>6. OrderInv'
    BY <1>1, <1>2, <1>4, <2>2, <2>4 DEF OrderInv
  <2>. QED
    BY <1>5, <2>3, <2>4, <2>5, <2>6 DEF SDInv
<1>13. CASE EndTurn
  <2>1. PICK end \in Outcomes : turn' = [turn EXCEPT !.status = end, !.rev = @ + 1]
    BY <1>13 DEF EndTurn, Outcomes
  <2>2. turn' = [status |-> end, rev |-> rev + 1, text |-> text, steps |-> steps, marks |-> marks, asks |-> asks]
    BY <1>1, <2>1
  <2>3. /\ turn'.status = end /\ turn'.rev = rev + 1 /\ turn'.text = text /\ turn'.steps = steps
        /\ turn'.marks = marks /\ turn'.asks = asks
    BY <2>2
  <2>14. rev + 1 \in Nat /\ text \in 0..MaxText /\ steps \in 0..MaxSteps
    BY <1>1
  <2>4. RunInv'
    BY <2>2, <2>3, <2>14 DEF RunInv
  <2>5. PICK f : f = StateFrame("done", rev + 1, "completed")
    OBVIOUS
  <2>6. rev + 1 \in Nat /\ "completed" \in Statuses
    BY <1>1 DEF Statuses
  <2>7. f \in Frames
    BY <1>3, <2>5, <2>6, FramesAre
  <2>8. f = [kind |-> "done", seq |-> 0, rev |-> rev + 1, status |-> "completed", text |-> 0]
    BY <2>5, <2>6, FramesAre
  <2>9. PICK g : g = Frame("error")
    OBVIOUS
  <2>10. g \in Frames /\ ~IsChunk(g) /\ ~IsChunk(f)
    BY <2>8, <2>9, FramesAre DEF IsChunk
  <2>11. (out' = Published(f) \/ out' = Published(g)) /\ RunMoves /\ RunKeeps
    BY <1>1, <1>13, <2>5, <2>9 DEF EndTurn
  <2>12. CASE out' = Published(f)
    BY <1>1, <1>7, <2>3, <2>4, <2>7, <2>10, <2>11, <2>12
  <2>13. CASE out' = Published(g)
    BY <1>1, <1>7, <2>3, <2>4, <2>10, <2>11, <2>13
  <2>. QED
    BY <2>11, <2>12, <2>13
<1>14. CASE Close \/ Forget
  <2>1. PICK l1, s1, h1 :
          /\ out' = [queue |-> q, putting |-> p, latest |-> l1, snapshot |-> s1, sent |-> z, phase |-> h1]
          /\ l1 \in Frames \cup {None} /\ h1 \in {"closed", "gone"}
    <3>1. CASE Close
      <4>1. out' = [queue |-> q, putting |-> p, latest |-> l, snapshot |-> s, sent |-> z, phase |-> "closed"]
        BY <1>2, <3>1 DEF Close
      <4>. QED
        BY <1>2, <4>1
    <3>2. CASE Forget
      <4>0. PICK o : o = [[queue |-> q, putting |-> p, latest |-> l, snapshot |-> s, sent |-> z, phase |-> h]
                          EXCEPT !.phase = "gone", !.latest = None, !.snapshot = FALSE]
        OBVIOUS
      <4>1. o = [queue |-> q, putting |-> p, latest |-> None, snapshot |-> FALSE, sent |-> z, phase |-> "gone"]
        BY <4>0
      <4>2. out' = o
        BY <1>2, <3>2, <4>0 DEF Forget
      <4>. QED
        BY <4>1, <4>2
    <3>. QED
      BY <1>14, <3>1, <3>2
  <2>2. UNCHANGED <<turn, link, net, client, losses>> /\ turn.status \in Outcomes /\ p = None
    BY <1>2, <1>14 DEF Close, Forget, RunKeeps, RunMoves
  <2>3. /\ out'.queue = q /\ out'.putting = p /\ out'.latest = l1 /\ out'.snapshot = s1
        /\ out'.sent = z /\ out'.phase = h1
    BY <2>1
  <2>4. OutInv'
    BY <1>2, <2>1, <2>2, <2>3 DEF OutInv
  <2>5. OrderInv'
    BY <1>1, <1>4, <2>2, <2>3 DEF OrderInv
  <2>. QED
    BY <1>5, <2>2, <2>4, <2>5 DEF SDInv, RunInv
<1>. QED
  BY <1>6, <1>8, <1>9, <1>10, <1>11, <1>12, <1>13, <1>14 DEF RunSteps

\* A frame is sent on the client's connection.
LEMMA SentKeeps ==
  ASSUME SDInv, NEW g \in Frames, g.seq = link.seq + 1, link.up, net' = Append(net, g),
         NEW b \in {link.bound, link.conn},
         link' = [up |-> TRUE, conn |-> link.conn, seq |-> link.seq + 1, bound |-> b],
         UNCHANGED <<client, losses>>,
         link.bound = link.conn \/ (~IsChunk(g) /\ g.kind \in {"interrupt", "state_sync"})
  PROVE  LinkInv' /\ GapInv'
<1>1. /\ net \in Seq(Frames) /\ SeqsRise(net) /\ link.seq \in Nat /\ link.conn \in Nat /\ link.bound \in 1..link.conn
      /\ \A k \in DOMAIN net : net[k].seq \in 1..link.seq
      /\ losses \in 0..MaxLosses /\ link.conn = losses + 1 /\ link.up = TRUE
  BY DEF SDInv, LinkInv
<1>2. \A k \in DOMAIN net : net[k].seq < g.seq
  BY <1>1
<1>3. net' \in Seq(Frames) /\ SeqsRise(net')
  BY <1>1, <1>2, TextAppended
<1>4. /\ DOMAIN net' = 1..Len(net) + 1 /\ DOMAIN net = 1..Len(net) /\ Len(net) \in Nat
      /\ \A k \in 1..Len(net) : net'[k] = net[k]
      /\ net'[Len(net) + 1] = g
  BY <1>1
<1>5. /\ link'.up = TRUE /\ link'.conn = link.conn /\ link'.seq = link.seq + 1 /\ link'.bound = b
      /\ link' = [up |-> link'.up, conn |-> link'.conn, seq |-> link'.seq, bound |-> link'.bound]
  OBVIOUS
<1>6. \A k \in DOMAIN net' : net'[k].seq \in 1..link'.seq
  <2>1. SUFFICES ASSUME NEW k \in DOMAIN net' PROVE net'[k].seq \in 1..link'.seq
    OBVIOUS
  <2>2. k \in DOMAIN net \/ k = Len(net) + 1
    BY <1>4
  <2>. QED
    BY <1>1, <1>4, <1>5, <2>2
<1>7. LinkInv'
  <2>1. link'.up \in BOOLEAN /\ link'.conn \in Nat /\ link'.seq \in Nat /\ link'.bound \in 1..link'.conn
    BY <1>1, <1>5
  <2>2. losses' = losses /\ link'.conn = IF link'.up THEN losses' + 1 ELSE losses'
    BY <1>1, <1>5
  <2>. QED
    BY <1>1, <1>3, <1>5, <1>6, <2>1, <2>2 DEF LinkInv
<1>8. GapInv'
  <2>1. SUFFICES ASSUME client.inbox.pending # <<>> PROVE GapInv'
    BY DEF GapInv
  <2>2. CASE /\ \A i \in DOMAIN client.inbox.pending : client.inbox.pending[i].seq <= link.seq
             /\ \A i \in DOMAIN client.inbox.pending, j \in DOMAIN net : client.inbox.pending[i].seq < net[j].seq
    <3>1. \A i \in DOMAIN client.inbox.pending : client.inbox.pending[i].seq \in Nat
      <4>1. client.inbox.pending \in Seq(Frames)
        BY DEF SDInv, ClientInv
      <4>2. \A i \in DOMAIN client.inbox.pending : client.inbox.pending[i] \in Frames
        BY <4>1
      <4>. QED
        BY <4>2 DEF Frames
    <3>2. \A i \in DOMAIN client.inbox.pending : /\ client.inbox.pending[i].seq <= link'.seq
                                                 /\ client.inbox.pending[i].seq < g.seq
      BY <1>1, <1>5, <2>2, <3>1
    <3>3. ASSUME NEW i \in DOMAIN client.inbox.pending, NEW j \in DOMAIN net'
          PROVE  client.inbox.pending[i].seq < net'[j].seq
      <4>1. j \in DOMAIN net \/ j = Len(net) + 1
        BY <1>4
      <4>. QED
        BY <1>4, <2>2, <3>2, <4>1
    <3>. QED
      BY <3>2, <3>3 DEF GapInv
  <2>3. CASE net = <<>> /\ link.bound # link.conn
    <3>1. net' # <<>> /\ net'[1] = g
      BY <1>4, <2>3
    <3>. QED
      BY <2>3, <3>1 DEF GapInv
  <2>4. CASE net # <<>> /\ ~IsChunk(net[1]) /\ net[1].kind \in {"interrupt", "state_sync"}
    <3>1. net' # <<>> /\ net'[1] = net[1]
      BY <1>1, <1>4, <2>4
    <3>. QED
      BY <2>4, <3>1 DEF GapInv
  <2>. QED
    BY <1>1, <2>1, <2>2, <2>3, <2>4 DEF SDInv, GapInv
<1>. QED
  BY <1>7, <1>8

\* What send_event does: a numbered frame on the client's connection, or nothing.
LEMMA TransmitIs ==
  ASSUME SDInv, NEW conn, NEW f \in Frames, Transmit(conn, f)
  PROVE  \/ UNCHANGED <<link, net>>
         \/ /\ link.up /\ conn = link.conn
            /\ link' = [up |-> TRUE, conn |-> link.conn, seq |-> link.seq + 1, bound |-> link.bound]
            /\ \E g \in Frames : /\ net' = Append(net, g) /\ g.seq = link.seq + 1
                                 /\ g.kind = f.kind /\ g.text = f.text
<1>1. CASE ~(link.up /\ conn = link.conn)
  BY <1>1 DEF Transmit
<1>2. CASE link.up /\ conn = link.conn
  <2>1. PICK u, c, s, b : /\ link = [up |-> u, conn |-> c, seq |-> s, bound |-> b]
                          /\ link.up = u /\ link.conn = c /\ link.seq = s /\ link.bound = b
                          /\ s \in Nat /\ u \in BOOLEAN
    BY DEF SDInv, LinkInv
  <2>2. link' = [up |-> TRUE, conn |-> c, seq |-> s + 1, bound |-> b]
    BY <1>2, <2>1 DEF Transmit
  <2>3. PICK g : g = [f EXCEPT !.seq = s + 1]
    OBVIOUS
  <2>4. g \in Frames /\ g.seq = s + 1 /\ g.kind = f.kind /\ g.text = f.text
    BY <2>1, <2>3, FramesAre
  <2>5. net' = Append(net, g)
    BY <1>2, <2>1, <2>3 DEF Transmit
  <2>. QED
    BY <1>2, <2>1, <2>2, <2>4, <2>5
<1>. QED
  BY <1>1, <1>2

LEMMA DispatchKeeps ==
  ASSUME SDInv, Dispatch
  PROVE  SDInv'
<1>1. PICK q, p, l, s, z, h :
        /\ out = [queue |-> q, putting |-> p, latest |-> l, snapshot |-> s, sent |-> z, phase |-> h]
        /\ q \in Seq(Frames) /\ Len(q) <= QueueLimit /\ p \in Frames \cup {None} /\ l \in Frames \cup {None}
        /\ h \in {"open", "closed", "gone"}
        /\ h # "open" => turn.status \in Outcomes /\ p = None
        /\ out.queue = q /\ out.putting = p
  BY DEF SDInv, OutInv
<1>2. q # <<>> /\ UNCHANGED <<turn, client, losses>> /\ Transmit(link.bound, Head(q))
  BY <1>1 DEF Dispatch, DispatcherKeeps
<1>3. out' = [queue |-> Tail(q), putting |-> p, latest |-> l, snapshot |-> s, sent |-> TRUE, phase |-> h]
  <2>1. PICK o : o = [[queue |-> q, putting |-> p, latest |-> l, snapshot |-> s, sent |-> z, phase |-> h]
                      EXCEPT !.queue = Tail(@), !.sent = TRUE]
    OBVIOUS
  <2>2. o = [queue |-> Tail(q), putting |-> p, latest |-> l, snapshot |-> s, sent |-> TRUE, phase |-> h]
    BY <2>1
  <2>3. out' = o
    BY <1>1, <2>1 DEF Dispatch
  <2>. QED
    BY <2>2, <2>3, Zenon
<1>4. /\ out'.queue = Tail(q) /\ out'.putting = p /\ out'.latest = l /\ out'.snapshot = s
      /\ out'.sent = TRUE /\ out'.phase = h
  BY <1>3
<1>5. Head(q) \in Frames /\ Tail(q) \in Seq(Frames) /\ Len(Tail(q)) < Len(q)
  BY <1>1, <1>2, TextOfTail
<1>6. OutInv'
  <2>1. Len(Tail(q)) <= QueueLimit
    BY <1>1, <1>5, DeliveryAssumption
  <2>. QED
    BY <1>1, <1>2, <1>3, <1>4, <1>5, <2>1 DEF OutInv
<1>7. /\ InOrder(client.view, client.inbox.pending, net, q, p, turn.text) /\ net \in Seq(Frames)
      /\ turn.text \in Nat
  BY <1>1 DEF SDInv, OrderInv, LinkInv, RunInv
<1>8. InOrder(client.view, client.inbox.pending, net, Tail(q), p, turn.text)
  BY <1>1, <1>2, <1>5, <1>7, TextIsSent
<1>9. RunInv' /\ ClientInv'
  BY <1>2 DEF SDInv, RunInv, ClientInv
<1>10. CASE UNCHANGED <<link, net>>
  <2>1. LinkInv' /\ GapInv'
    BY <1>2, <1>10 DEF SDInv, LinkInv, GapInv
  <2>2. OrderInv'
    BY <1>2, <1>4, <1>8, <1>10 DEF OrderInv
  <2>. QED
    BY <1>6, <1>9, <2>1, <2>2 DEF SDInv
<1>11. CASE /\ link.up /\ link.bound = link.conn
            /\ link' = [up |-> TRUE, conn |-> link.conn, seq |-> link.seq + 1, bound |-> link.bound]
            /\ \E g \in Frames : /\ net' = Append(net, g) /\ g.seq = link.seq + 1
                                 /\ g.kind = Head(q).kind /\ g.text = Head(q).text
  <2>1. PICK g \in Frames : /\ net' = Append(net, g) /\ g.seq = link.seq + 1
                            /\ g.kind = Head(q).kind /\ g.text = Head(q).text
    BY <1>11
  <2>2. PICK b \in {link.bound, link.conn} : b = link.bound
    OBVIOUS
  <2>3. LinkInv' /\ GapInv'
    BY <1>2, <1>11, <2>1, <2>2, SentKeeps
  <2>4. InOrder(client.view, client.inbox.pending, Append(net, g), Tail(q), p, turn.text)
    BY <1>1, <1>2, <1>5, <1>7, <2>1, TextIsSent
  <2>5. OrderInv'
    BY <1>2, <1>4, <2>1, <2>4 DEF OrderInv
  <2>. QED
    BY <1>6, <1>9, <2>3, <2>5 DEF SDInv
<1>12. \/ UNCHANGED <<link, net>>
       \/ /\ link.up /\ link.bound = link.conn
          /\ link' = [up |-> TRUE, conn |-> link.conn, seq |-> link.seq + 1, bound |-> link.bound]
          /\ \E g \in Frames : /\ net' = Append(net, g) /\ g.seq = link.seq + 1
                               /\ g.kind = Head(q).kind /\ g.text = Head(q).text
  BY <1>2, <1>5, TransmitIs
<1>. QED
  BY <1>10, <1>11, <1>12

\* A frame without text is sent.
LEMMA NoTextIsSent ==
  ASSUME SDInv, NEW f \in Frames, f.kind \in {"interrupt", "state_sync"}, NEW conn, Transmit(conn, f),
         UNCHANGED <<turn, client, losses>>, out'.queue = out.queue, out'.putting = out.putting
  PROVE  LinkInv' /\ GapInv' /\ OrderInv'
<1>1. /\ InOrder(client.view, client.inbox.pending, net, out.queue, out.putting, turn.text)
      /\ net \in Seq(Frames) /\ turn.text \in Nat
  BY DEF SDInv, OrderInv, LinkInv, RunInv
<1>2. CASE UNCHANGED <<link, net>>
  <2>1. LinkInv' /\ GapInv'
    BY <1>2 DEF SDInv, LinkInv, GapInv
  <2>2. OrderInv'
    BY <1>1, <1>2 DEF OrderInv
  <2>. QED
    BY <2>1, <2>2
<1>3. CASE /\ link.up /\ conn = link.conn
           /\ link' = [up |-> TRUE, conn |-> link.conn, seq |-> link.seq + 1, bound |-> link.bound]
           /\ \E g \in Frames : /\ net' = Append(net, g) /\ g.seq = link.seq + 1
                                /\ g.kind = f.kind /\ g.text = f.text
  <2>1. PICK g \in Frames : /\ net' = Append(net, g) /\ g.seq = link.seq + 1
                            /\ g.kind = f.kind /\ g.text = f.text
    BY <1>3
  <2>2. PICK b \in {link.bound, link.conn} : b = link.bound
    OBVIOUS
  <2>3. ~IsChunk(g) /\ g.kind \in {"interrupt", "state_sync"}
    BY <2>1 DEF IsChunk
  <2>4. LinkInv' /\ GapInv'
    BY <1>3, <2>1, <2>2, <2>3, SentKeeps
  <2>5. InOrder(client.view, client.inbox.pending, Append(net, g), out.queue, out.putting, turn.text)
    BY <1>1, <2>1, <2>3, NoTextFlies
  <2>6. OrderInv'
    BY <2>1, <2>5 DEF OrderInv
  <2>. QED
    BY <2>4, <2>6
<1>. QED
  BY <1>2, <1>3, TransmitIs

LEMMA AfterSendKeeps ==
  ASSUME SDInv, AfterSend
  PROVE  SDInv'
<1>1. PICK q, p, l, s, z, h :
        /\ out = [queue |-> q, putting |-> p, latest |-> l, snapshot |-> s, sent |-> z, phase |-> h]
        /\ q \in Seq(Frames) /\ Len(q) <= QueueLimit /\ p \in Frames \cup {None} /\ l \in Frames \cup {None}
        /\ h \in {"open", "closed", "gone"}
        /\ h # "open" => turn.status \in Outcomes /\ p = None
        /\ out.queue = q /\ out.putting = p /\ out.latest = l
  BY DEF SDInv, OutInv
<1>2. UNCHANGED <<turn, client, losses>>
  BY DEF AfterSend, DispatcherKeeps
<1>3. RunInv' /\ ClientInv'
  BY <1>2 DEF SDInv, RunInv, ClientInv
<1>4. ASSUME NEW l1 \in Frames \cup {None}, NEW s1, 
             out' = [queue |-> q, putting |-> p, latest |-> l1, snapshot |-> s1, sent |-> FALSE, phase |-> h]
      PROVE  OutInv' /\ out'.queue = q /\ out'.putting = p
  <2>1. /\ out'.queue = q /\ out'.putting = p /\ out'.latest = l1 /\ out'.snapshot = s1
        /\ out'.sent = FALSE /\ out'.phase = h
    BY <1>4
  <2>. QED
    BY <1>1, <1>2, <1>4, <2>1 DEF OutInv
<1>5. CASE out.snapshot /\ out.latest # None
  <2>1. PICK f : f = [l EXCEPT !.kind = "state_sync"]
    OBVIOUS
  <2>2. f \in Frames /\ f.kind = "state_sync"
    BY <1>1, <1>5, <2>1, FramesAre
  <2>3. Transmit(link.bound, f)
    BY <1>1, <1>5, <2>1 DEF AfterSend
  <2>4. PICK o : o = [[queue |-> q, putting |-> p, latest |-> l, snapshot |-> s, sent |-> z, phase |-> h]
                      EXCEPT !.sent = FALSE, !.snapshot = FALSE, !.latest = None]
    OBVIOUS
  <2>5. o = [queue |-> q, putting |-> p, latest |-> None, snapshot |-> FALSE, sent |-> FALSE, phase |-> h]
    BY <2>4
  <2>6. out' = o
    BY <1>1, <1>5, <2>4 DEF AfterSend
  <2>7. out' = [queue |-> q, putting |-> p, latest |-> None, snapshot |-> FALSE, sent |-> FALSE, phase |-> h]
    BY <2>5, <2>6, Zenon
  <2>8. OutInv' /\ out'.queue = q /\ out'.putting = p
    BY <1>4, <2>7
  <2>9. LinkInv' /\ GapInv' /\ OrderInv'
    BY <1>1, <1>2, <2>2, <2>3, <2>8, NoTextIsSent
  <2>. QED
    BY <1>3, <2>8, <2>9 DEF SDInv
<1>6. CASE ~(out.snapshot /\ out.latest # None)
  <2>1. out' = [queue |-> q, putting |-> p, latest |-> l, snapshot |-> s, sent |-> FALSE, phase |-> h]
    BY <1>1, <1>6 DEF AfterSend
  <2>2. OutInv' /\ out'.queue = q /\ out'.putting = p
    BY <1>1, <1>4, <2>1
  <2>3. UNCHANGED <<link, net>>
    BY <1>6 DEF AfterSend
  <2>4. LinkInv' /\ GapInv' /\ OrderInv'
    BY <1>1, <1>2, <2>2, <2>3 DEF SDInv, LinkInv, GapInv, OrderInv
  <2>. QED
    BY <1>3, <2>2, <2>4 DEF SDInv
<1>. QED
  BY <1>5, <1>6

LEMMA HandleOperationKeeps ==
  ASSUME SDInv, HandleOperation
  PROVE  SDInv'
<1>1. UNCHANGED <<turn, client, losses>> /\ link.up /\ (Subscribe \/ Sync)
  BY DEF HandleOperation
<1>2. RunInv' /\ ClientInv'
  BY <1>1 DEF SDInv, RunInv, ClientInv
<1>3. /\ turn.rev \in Nat /\ turn.status \in Statuses /\ {"interrupt", "state_sync"} \subseteq Kinds
  BY DEF SDInv, RunInv, Outcomes, Statuses, Kinds
<1>4. CASE Subscribe
  <2>0. UNCHANGED out
    BY <1>4 DEF Subscribe
  <2>1. OutInv'
    BY <1>1, <2>0 DEF SDInv, OutInv
  <2>2. CASE turn.status = "waiting_user"
    <3>1. PICK u, c, s, b : /\ link = [up |-> u, conn |-> c, seq |-> s, bound |-> b]
                            /\ link.up = u /\ link.conn = c /\ link.seq = s /\ link.bound = b
                            /\ s \in Nat /\ u \in BOOLEAN
      BY DEF SDInv, LinkInv
    <3>2. PICK k : k = [[up |-> u, conn |-> c, seq |-> s, bound |-> b] EXCEPT !.bound = c, !.seq = @ + 1]
      OBVIOUS
    <3>3. k = [up |-> u, conn |-> c, seq |-> s + 1, bound |-> c]
      BY <3>2
    <3>4. link' = k
      BY <1>4, <2>2, <3>1, <3>2 DEF Subscribe
    <3>5. link' = [up |-> TRUE, conn |-> c, seq |-> s + 1, bound |-> c]
      BY <1>1, <3>1, <3>3, <3>4
    <3>6. PICK f : f = StateFrame("interrupt", turn.rev, turn.status)
      OBVIOUS
    <3>7. f \in Frames
      BY <1>3, <3>6, FramesAre
    <3>8. f = [kind |-> "interrupt", seq |-> 0, rev |-> turn.rev, status |-> turn.status, text |-> 0]
      BY <1>3, <3>6, FramesAre
    <3>9. f.kind = "interrupt"
      BY <3>8
    <3>10. PICK g : g = [f EXCEPT !.seq = s + 1]
      OBVIOUS
    <3>11. g \in Frames /\ g.seq = s + 1 /\ g.kind = "interrupt"
      BY <3>1, <3>7, <3>9, <3>10, FramesAre
    <3>12. ~IsChunk(g)
      BY <3>11 DEF IsChunk
    <3>13. net' = Append(net, g)
      BY <1>4, <2>2, <3>1, <3>6, <3>10 DEF Subscribe
    <3>14. PICK d \in {link.bound, link.conn} : d = link.conn
      OBVIOUS
    <3>15. LinkInv' /\ GapInv'
      BY <1>1, <3>1, <3>5, <3>11, <3>12, <3>13, <3>14, SentKeeps
    <3>16. InOrder(client.view, client.inbox.pending, Append(net, g), out.queue, out.putting, turn.text)
      BY <3>11, <3>12, NoTextFlies DEF SDInv, OrderInv, LinkInv
    <3>17. OrderInv'
      BY <1>1, <2>0, <3>13, <3>16 DEF OrderInv
    <3>. QED
      BY <1>2, <2>1, <3>15, <3>17 DEF SDInv
  <2>3. CASE turn.status # "waiting_user"
    <3>1. UNCHANGED <<link, net>>
      BY <1>4, <2>3 DEF Subscribe
    <3>2. LinkInv' /\ GapInv' /\ OrderInv'
      BY <1>1, <2>0, <3>1 DEF SDInv, LinkInv, GapInv, OrderInv
    <3>. QED
      BY <1>2, <2>1, <3>2 DEF SDInv
  <2>. QED
    BY <2>2, <2>3
<1>5. CASE Sync
  <2>1. PICK f : f = StateFrame("state_sync", turn.rev, turn.status)
    OBVIOUS
  <2>2. f \in Frames
    BY <1>3, <2>1, FramesAre
  <2>3. f = [kind |-> "state_sync", seq |-> 0, rev |-> turn.rev, status |-> turn.status, text |-> 0]
    BY <1>3, <2>1, FramesAre
  <2>4. f.kind = "state_sync" /\ ~IsChunk(f)
    BY <2>3 DEF IsChunk
  <2>5. CASE out.phase = "gone"
    <3>1. Transmit(link.conn, f) /\ UNCHANGED out
      BY <1>5, <2>1, <2>5 DEF Sync
    <3>2. LinkInv' /\ GapInv' /\ OrderInv'
      BY <1>1, <2>2, <2>4, <3>1, NoTextIsSent
    <3>3. OutInv'
      BY <1>1, <3>1 DEF SDInv, OutInv
    <3>. QED
      BY <1>2, <3>2, <3>3 DEF SDInv
  <2>6. CASE out.phase = "open"
    <3>1. out' = Published(f) /\ UNCHANGED <<link, net>>
      BY <1>5, <2>1, <2>6 DEF Sync
    <3>. QED
      BY <1>1, <1>2, <2>2, <2>4, <2>6, <3>1, PublishKeeps
  <2>7. CASE out.phase \notin {"open", "gone"}
    <3>1. UNCHANGED <<out, link, net>>
      BY <1>5, <2>7 DEF Sync
    <3>2. LinkInv' /\ GapInv' /\ OrderInv' /\ OutInv'
      BY <1>1, <3>1 DEF SDInv, LinkInv, GapInv, OrderInv, OutInv
    <3>. QED
      BY <1>2, <3>2 DEF SDInv
  <2>. QED
    BY <2>5, <2>6, <2>7
<1>. QED
  BY <1>1, <1>4, <1>5


-----------------------------------------------------------------------------
(* The client's steps.                                                     *)

\* What waits after a frame was handled: nothing, or after a chunk some of what waited and the chunk.
WaitsAfter(f, was, now) ==
  /\ ~IsChunk(f) => now = <<>>
  /\ \A k \in DOMAIN now : now[k] = f \/ \E j \in DOMAIN was : now[k] = was[j]

\* The client handles a frame whose text, if it has any, follows what waits in the inbox and
\* comes before what is still on its way.
LEMMA HandledKeeps ==
  ASSUME SDInv, UNCHANGED <<turn, out>>, NEW f \in Frames, f.kind \in Shows,
         IsChunk(f) => /\ \A k \in DOMAIN client.inbox.pending : client.inbox.pending[k].seq < f.seq
                       /\ Below(Text(client.inbox.pending), Text(<<f>>)),
         Below(Seen(client.view), Text(<<f>>)), Text(<<f>>) \subseteq 1..turn.text,
         Below(Text(<<f>>), Text(net') \cup Text(out.queue) \cup Text(<<out.putting>>)),
         Text(net') \subseteq Text(net), Ordered(net'),
         NEW deferred \in Frames \cup {None}, deferred.kind \in {"done", "none"},
         NEW settled \in BOOLEAN,
         ClientTakes(Handle(client.inbox, f), deferred, settled)
  PROVE  ClientInv' /\ OrderInv' /\ WaitsAfter(f, client.inbox.pending, client'.inbox.pending)
<1>1. PICK x : x = client.inbox
  OBVIOUS
<1>2. IsInbox(x) /\ Ordered(x.pending)
  BY <1>1 DEF SDInv, ClientInv, OrderInv, InOrder, IsInbox
<1>3. PICK b : /\ Handle(x, f) = Drain(b, ~IsChunk(f))
               /\ b.pending \in Seq(Frames) /\ Ordered(b.pending) /\ SeqsRise(b.pending)
               /\ Text(b.pending) \subseteq Text(x.pending) \cup Text(<<f>>)
               /\ \A k \in DOMAIN b.pending :
                    b.pending[k] = f \/ \E j \in DOMAIN x.pending : b.pending[k] = x.pending[j]
  <2>1. IsChunk(f) => /\ \A k \in DOMAIN x.pending : x.pending[k].seq < f.seq
                      /\ Below(Text(x.pending), Text(<<f>>))
    BY <1>1
  <2>. QED
    BY <1>2, <2>1, HandledIs
<1>4. PICK force \in BOOLEAN : force <=> ~IsChunk(f)
  OBVIOUS
<1>5. ClientTakes(Drain(b, force), deferred, settled)
  <2>1. CASE IsChunk(f)
    <3>1. force = FALSE /\ (~IsChunk(f)) = FALSE
      BY <1>4, <2>1
    <3>. QED
      BY <1>1, <1>3, <3>1
  <2>2. CASE ~IsChunk(f)
    <3>1. force = TRUE /\ (~IsChunk(f)) = TRUE
      BY <1>4, <2>2
    <3>. QED
      BY <1>1, <1>3, <3>1
  <2>. QED
    BY <2>1, <2>2
<1>6. \A k \in DOMAIN x.pending : IsChunk(x.pending[k])
  BY <1>2 DEF IsInbox
<1>7. \A k \in DOMAIN b.pending : b.pending[k].kind \in Shows
  BY <1>3, <1>6 DEF IsChunk, Shows, Kinds
<1>8. force \/ \A k \in DOMAIN b.pending : IsChunk(b.pending[k])
  BY <1>3, <1>4, <1>6
<1> DEFINE behind == Text(net') \cup Text(out.queue) \cup Text(<<out.putting>>)
<1>9. /\ Below(Seen(client.view), Text(x.pending)) /\ Text(x.pending) \subseteq 1..turn.text
      /\ Below(Text(x.pending), behind)
  BY <1>1 DEF SDInv, OrderInv, InOrder, Below
<1>10. /\ Below(Seen(client.view), Text(b.pending)) /\ Text(b.pending) \subseteq 1..turn.text
       /\ Below(Text(b.pending), behind)
  BY <1>3, <1>9 DEF Below
<1>11. /\ ClientInv' /\ OrderInv'
       /\ \A k \in DOMAIN client'.inbox.pending :
            \E j \in DOMAIN b.pending : client'.inbox.pending[k] = b.pending[j]
       /\ force => client'.inbox.pending = <<>>
  BY <1>3, <1>5, <1>7, <1>8, <1>10, ClientMoves
<1>. QED
  BY <1>1, <1>3, <1>4, <1>11 DEF WaitsAfter

LEMMA ReceiveKeeps ==
  ASSUME SDInv, Receive
  PROVE  SDInv'
<1>1. /\ link.up /\ net # <<>> /\ net' = Tail(net) /\ UNCHANGED <<turn, out, link, losses>>
      /\ net \in Seq(Frames) /\ SeqsRise(net) /\ \A k \in DOMAIN net : net[k].seq \in 1..link.seq
  BY DEF Receive, SDInv, LinkInv
<1>2. PICK f : f = Head(net)
  OBVIOUS
<1>3. /\ net' \in Seq(Frames) /\ f \in Frames /\ f = net[1] /\ 1 \in DOMAIN net
      /\ \A i \in DOMAIN net' : i + 1 \in DOMAIN net /\ i \in Nat /\ net'[i] = net[i + 1]
      /\ Text(net') \subseteq Text(net) /\ Text(<<f>>) \subseteq Text(net)
      /\ Ordered(net) => Ordered(net') /\ Below(Text(<<f>>), Text(net'))
      /\ SeqsRise(net') /\ \A i \in DOMAIN net' : f.seq < net'[i].seq
  BY <1>1, <1>2, TextOfTail
<1>4. RunInv' /\ OutInv'
  BY <1>1 DEF SDInv, RunInv, OutInv
<1>5. LinkInv'
  <2>1. \A i \in DOMAIN net' : net'[i].seq \in 1..link.seq
    BY <1>1, <1>3
  <2>. QED
    BY <1>1, <1>3, <2>1 DEF SDInv, LinkInv
<1>6. /\ Ordered(net') /\ Below(Text(<<f>>), Text(net') \cup Text(out.queue) \cup Text(<<out.putting>>))
      /\ Below(Seen(client.view), Text(<<f>>)) /\ Below(Text(client.inbox.pending), Text(<<f>>))
      /\ Text(<<f>>) \subseteq 1..turn.text
  BY <1>3 DEF SDInv, OrderInv, InOrder, Below
<1>7. client.inbox.pending # <<>> /\ f.kind \notin {"interrupt", "state_sync"} =>
        /\ \A i \in DOMAIN client.inbox.pending : client.inbox.pending[i].seq <= link.seq
        /\ \A i \in DOMAIN client.inbox.pending, j \in DOMAIN net : client.inbox.pending[i].seq < net[j].seq
  BY <1>1, <1>3 DEF SDInv, GapInv
<1>8. \A i \in DOMAIN net' : \E j \in DOMAIN net : net'[i] = net[j]
  BY <1>3
<1>9. ASSUME client'.inbox.pending = client.inbox.pending,
             client.inbox.pending = <<>> \/ f.kind \notin {"interrupt", "state_sync"}
      PROVE  GapInv'
  BY <1>1, <1>7, <1>8, <1>9 DEF GapInv
<1>10. ASSUME client' = [client EXCEPT !.deferred = f] \/ UNCHANGED client,
              client.settled \/ f.kind \notin {"interrupt", "state_sync"},
              UNCHANGED client \/ f.kind = "done"
       PROVE  SDInv'
  <2>1. PICK x, v, e, a, s :
          /\ client = [inbox |-> x, view |-> v, deferred |-> e, asked |-> a, settled |-> s]
          /\ client.inbox = x /\ client.view = v /\ client.settled = s /\ client.asked = a /\ client.deferred = e
    BY DEF SDInv, ClientInv
  <2>2. PICK g : /\ client' = [inbox |-> x, view |-> v, deferred |-> g, asked |-> a, settled |-> s]
                 /\ g = e \/ (g = f /\ f.kind = "done")
    BY <1>10, <2>1
  <2>3. /\ client'.inbox = x /\ client'.view = v /\ client'.settled = s /\ client'.asked = a
        /\ client'.deferred = g
    BY <2>2
  <2>4. e \in Frames \cup {None} /\ e.kind \in {"done", "none"}
    BY <2>1 DEF SDInv, ClientInv
  <2>5. g \in Frames \cup {None} /\ g.kind \in {"done", "none"}
    BY <1>3, <2>2, <2>4
  <2>6. ClientInv'
    BY <2>1, <2>2, <2>3, <2>5 DEF SDInv, ClientInv
  <2>7. OrderInv'
    <3>1. InOrder(v, x.pending, net', out.queue, out.putting, turn.text)
      BY <1>3, <1>6, <2>1 DEF SDInv, OrderInv, InOrder, Below
    <3>. QED
      BY <1>1, <2>3, <3>1 DEF OrderInv
  <2>8. client.settled => client.inbox.pending = <<>>
    BY DEF SDInv, ClientInv
  <2>9. GapInv'
    BY <1>9, <1>10, <2>1, <2>3, <2>8
  <2>. QED
    BY <1>4, <1>5, <2>6, <2>7, <2>9 DEF SDInv
<1>11. ASSUME f.kind \in Shows,
              NEW deferred \in Frames \cup {None}, deferred.kind \in {"done", "none"},
              NEW settled \in BOOLEAN,
              ClientTakes(Handle(client.inbox, f), deferred, settled)
       PROVE  SDInv'
  <2>1. IsChunk(f) => f.kind \notin {"interrupt", "state_sync"}
    BY DEF IsChunk
  <2>2. IsChunk(f) => /\ \A k \in DOMAIN client.inbox.pending : client.inbox.pending[k].seq < f.seq
                      /\ Below(Text(client.inbox.pending), Text(<<f>>))
    BY <1>3, <1>6, <1>7, <2>1
  <2>5. ClientInv' /\ OrderInv' /\ WaitsAfter(f, client.inbox.pending, client'.inbox.pending)
    BY <1>1, <1>3, <1>6, <1>11, <2>2, HandledKeeps
  <2>3. /\ ClientInv' /\ OrderInv'
        /\ ~IsChunk(f) => client'.inbox.pending = <<>>
        /\ \A k \in DOMAIN client'.inbox.pending :
             \/ client'.inbox.pending[k] = f
             \/ \E j \in DOMAIN client.inbox.pending : client'.inbox.pending[k] = client.inbox.pending[j]
    BY <2>5 DEF WaitsAfter
  <2>4. GapInv'
    <3>1. SUFFICES ASSUME IsChunk(f)
                   PROVE  \A k \in DOMAIN client'.inbox.pending :
                            /\ client'.inbox.pending[k].seq <= link.seq
                            /\ \A j \in DOMAIN net' : client'.inbox.pending[k].seq < net'[j].seq
      BY <1>1, <2>3 DEF GapInv
    <3>2. TAKE k \in DOMAIN client'.inbox.pending
    <3>3. CASE client'.inbox.pending[k] = f
      <4>1. link.seq \in Nat /\ f.seq \in 1..link.seq
        BY <1>1, <1>3 DEF SDInv, LinkInv
      <4>2. f.seq <= link.seq
        BY <4>1
      <4>. QED
        BY <1>3, <3>3, <4>2
    <3>4. CASE \E j \in DOMAIN client.inbox.pending : client'.inbox.pending[k] = client.inbox.pending[j]
      <4>1. PICK j \in DOMAIN client.inbox.pending : client'.inbox.pending[k] = client.inbox.pending[j]
        BY <3>4
      <4>2. client.inbox.pending # <<>>
        BY <4>1
      <4>. QED
        BY <1>7, <1>8, <2>1, <3>1, <4>1, <4>2
    <3>. QED
      BY <2>3, <3>3, <3>4
  <2>. QED
    BY <1>4, <1>5, <2>3, <2>4 DEF SDInv
<1>12. client.deferred \in Frames \cup {None} /\ client.deferred.kind \in {"done", "none"}
  BY DEF SDInv, ClientInv
<1>13. None \in Frames \cup {None} /\ None.kind \in {"done", "none"}
  BY DEF None, Frame
<1>14. f.kind \in Kinds
  BY <1>3 DEF Frames
<1>15. CASE client.settled \/ f.kind = "timeline_event"
  <2>1. UNCHANGED client
    BY <1>2, <1>15 DEF Receive
  <2>. QED
    BY <1>10, <1>15, <2>1
<1>16. CASE ~client.settled /\ f.kind = "done"
  <2>1. client' = [client EXCEPT !.deferred = f]
    BY <1>2, <1>16 DEF Receive
  <2>. QED
    BY <1>10, <1>16, <2>1
<1>17. CASE ~client.settled /\ f.kind = "interrupt"
  <2>1. ClientTakes(Handle(client.inbox, f), None, FALSE)
    BY <1>2, <1>17 DEF Receive
  <2>. QED
    BY <1>11, <1>13, <1>17, <2>1 DEF Shows, Kinds
<1>18. CASE ~client.settled /\ f.kind \in {"state_sync", "error"}
  <2>1. ClientTakes(Handle(client.inbox, f), IF IsTerminal(f) THEN None ELSE client.deferred, IsTerminal(f))
    BY <1>2, <1>18 DEF Receive
  <2>2. f.kind \in Shows
    BY <1>18 DEF Shows, Kinds
  <2>3. CASE IsTerminal(f)
    <3>1. IsTerminal(f) = TRUE
      BY <2>3 DEF IsTerminal
    <3>2. ClientTakes(Handle(client.inbox, f), None, TRUE)
      BY <2>1, <3>1
    <3>. QED
      BY <1>11, <1>13, <2>2, <3>2
  <2>4. CASE ~IsTerminal(f)
    <3>1. IsTerminal(f) = FALSE
      BY <2>4 DEF IsTerminal
    <3>2. ClientTakes(Handle(client.inbox, f), client.deferred, FALSE)
      BY <2>1, <3>1
    <3>. QED
      BY <1>11, <1>12, <2>2, <3>2
  <2>. QED
    BY <2>3, <2>4
<1>19. CASE ~client.settled /\ f.kind \in {"step_start", "chunk"}
  <2>1. ClientTakes(Handle(client.inbox, f), client.deferred, FALSE)
    BY <1>2, <1>19 DEF Receive
  <2>. QED
    BY <1>11, <1>12, <1>19, <2>1 DEF Shows, Kinds
<1>. QED
  BY <1>14, <1>15, <1>16, <1>17, <1>18, <1>19 DEF Kinds

\* Of a client's own steps: the connection and what is on its way stay, and what waits afterwards
\* is a part of what waited.
LEMMA WaitsLess ==
  ASSUME SDInv, UNCHANGED <<turn, out, link, net, losses>>, ClientInv', OrderInv',
         client'.inbox.pending = <<>>
  PROVE  SDInv'
<1>1. RunInv' /\ OutInv' /\ LinkInv'
  BY DEF SDInv, RunInv, OutInv, LinkInv
<1>2. GapInv'
  BY DEF GapInv
<1>. QED
  BY <1>1, <1>2 DEF SDInv

LEMMA DoneTimerKeeps ==
  ASSUME SDInv, DoneTimer
  PROVE  SDInv'
<1>1. PICK f : f = client.deferred
  OBVIOUS
<1>2. UNCHANGED <<turn, out, link, net, losses>> /\ ClientTakes(Handle(client.inbox, f), None, TRUE)
  BY <1>1 DEF DoneTimer
<1>3. f \in Frames /\ f.kind = "done" /\ f.kind \in Shows /\ ~IsChunk(f)
  <2>1. f \in Frames /\ f.kind \in {"done", "none"}
    BY <1>1 DEF DoneTimer, SDInv, ClientInv
  <2>2. f.kind \in Kinds
    BY <2>1 DEF Frames
  <2>. QED
    BY <2>1, <2>2 DEF Kinds, Shows, IsChunk
<1>4. Text(<<f>>) = {}
  BY <1>3, TextOfOne
<1>5. Ordered(net)
  BY DEF SDInv, OrderInv, InOrder
<1>6. /\ Below(Seen(client.view), Text(<<f>>)) /\ Text(<<f>>) \subseteq 1..turn.text
      /\ Below(Text(<<f>>), Text(net') \cup Text(out.queue) \cup Text(<<out.putting>>))
      /\ Text(net') \subseteq Text(net) /\ Ordered(net')
  BY <1>2, <1>4, <1>5 DEF Below
<1>7. None \in Frames \cup {None} /\ None.kind \in {"done", "none"}
  BY DEF None, Frame
<1>8. IsChunk(f) => /\ \A k \in DOMAIN client.inbox.pending : client.inbox.pending[k].seq < f.seq
                    /\ Below(Text(client.inbox.pending), Text(<<f>>))
  BY <1>3
<1>9. ClientInv' /\ OrderInv' /\ WaitsAfter(f, client.inbox.pending, client'.inbox.pending)
  BY <1>2, <1>3, <1>6, <1>7, <1>8, HandledKeeps
<1>10. client'.inbox.pending = <<>>
  BY <1>3, <1>9 DEF WaitsAfter
<1>. QED
  BY <1>2, <1>9, <1>10, WaitsLess

LEMMA GapTimerKeeps ==
  ASSUME SDInv, GapTimer
  PROVE  SDInv'
<1>1. PICK b : b = client.inbox
  OBVIOUS
<1>2. /\ UNCHANGED <<turn, out, link, net, losses>>
      /\ ClientTakes(Drain(b, TRUE), client.deferred, client.settled)
  BY <1>1 DEF GapTimer
<1>3. /\ b.pending \in Seq(Frames) /\ Ordered(b.pending) /\ SeqsRise(b.pending)
      /\ \A k \in DOMAIN b.pending : IsChunk(b.pending[k])
      /\ client.deferred \in Frames \cup {None} /\ client.deferred.kind \in {"done", "none"}
      /\ client.settled \in BOOLEAN
  BY <1>1 DEF SDInv, ClientInv, OrderInv, InOrder
<1>4. \A k \in DOMAIN b.pending : b.pending[k].kind \in Shows
  BY <1>3 DEF IsChunk, Shows, Kinds
<1>5. /\ Below(Seen(client.view), Text(b.pending)) /\ Text(b.pending) \subseteq 1..turn.text
      /\ Below(Text(b.pending), Text(net) \cup Text(out.queue) \cup Text(<<out.putting>>))
      /\ Ordered(net)
  BY <1>1 DEF SDInv, OrderInv, InOrder, Below
<1>6. PICK force \in BOOLEAN : force = TRUE
  OBVIOUS
<1>7. ClientInv' /\ OrderInv' /\ (force => client'.inbox.pending = <<>>)
  <2>1. /\ Text(net') \subseteq Text(net) /\ Ordered(net')
        /\ Below(Text(b.pending), Text(net') \cup Text(out.queue) \cup Text(<<out.putting>>))
    BY <1>2, <1>5
  <2>2. ClientTakes(Drain(b, force), client.deferred, client.settled)
    BY <1>2, <1>6
  <2>3. force \/ \A k \in DOMAIN b.pending : IsChunk(b.pending[k])
    BY <1>6
  <2>. QED
    BY <1>2, <1>3, <1>4, <1>5, <2>1, <2>2, <2>3, ClientMoves
<1>. QED
  BY <1>2, <1>6, <1>7, WaitsLess

LEMMA ConnectionsKeep ==
  ASSUME DeliveryAssumption, SDInv, LoseConnection \/ Reconnect
  PROVE  SDInv'
<1>1. UNCHANGED <<turn, out, client>> /\ RunInv' /\ OutInv' /\ ClientInv'
  BY DEF LoseConnection, Reconnect, SDInv, RunInv, OutInv, ClientInv
<1>2. PICK u, c, s, b : /\ link = [up |-> u, conn |-> c, seq |-> s, bound |-> b]
                        /\ link.up = u /\ link.conn = c /\ link.seq = s /\ link.bound = b
                        /\ u \in BOOLEAN /\ c \in Nat /\ s \in Nat /\ b \in 1..c
                        /\ losses \in 0..MaxLosses /\ c = IF u THEN losses + 1 ELSE losses
  BY DEF SDInv, LinkInv
<1>3. DOMAIN <<>> = {} /\ <<>> \in Seq(Frames) /\ SeqsRise(<<>>)
  BY DEF SeqsRise
<1>4. InOrder(client.view, client.inbox.pending, <<>>, out.queue, out.putting, turn.text)
  BY TextIsLost DEF SDInv, OrderInv
<1>5. CASE LoseConnection
  <2>1. /\ u = TRUE /\ net' = <<>> /\ losses' = losses + 1 /\ losses < MaxLosses
        /\ link' = [up |-> FALSE, conn |-> c, seq |-> s, bound |-> b]
    BY <1>2, <1>5 DEF LoseConnection
  <2>2. link'.up = FALSE /\ link'.conn = c /\ link'.seq = s /\ link'.bound = b
    BY <2>1
  <2>3. losses' \in 0..MaxLosses /\ c = losses'
    BY <1>2, <2>1 DEF DeliveryAssumption
  <2>4. LinkInv'
    BY <1>2, <1>3, <2>1, <2>2, <2>3 DEF LinkInv
  <2>5. OrderInv' /\ GapInv'
    BY <1>1, <1>4, <2>1, <2>2 DEF OrderInv, GapInv
  <2>. QED
    BY <1>1, <2>4, <2>5 DEF SDInv
<1>6. CASE Reconnect
  <2>1. /\ u = FALSE /\ net' = net /\ losses' = losses
        /\ link' = [up |-> TRUE, conn |-> c + 1, seq |-> 0, bound |-> b]
    BY <1>2, <1>6 DEF Reconnect
  <2>2. link'.up = TRUE /\ link'.conn = c + 1 /\ link'.seq = 0 /\ link'.bound = b
    BY <2>1
  <2>3. net = <<>>
    BY <1>2, <2>1 DEF SDInv, LinkInv
  <2>4. b \in 1..c + 1 /\ b # c + 1 /\ c + 1 = losses' + 1 /\ c + 1 \in Nat
    BY <1>2, <2>1
  <2>5. LinkInv'
    BY <1>2, <1>3, <2>1, <2>2, <2>3, <2>4 DEF LinkInv
  <2>6. OrderInv' /\ GapInv'
    BY <1>1, <1>4, <2>1, <2>2, <2>3, <2>4 DEF OrderInv, GapInv
  <2>. QED
    BY <1>1, <2>5, <2>6 DEF SDInv
<1>. QED
  BY <1>5, <1>6

LEMMA InitHolds ==
  ASSUME DeliveryAssumption, Init
  PROVE  SDInv
<1>1. /\ DOMAIN <<>> = {} /\ <<>> \in Seq(Frames) /\ <<>> \in Seq(Nat) /\ SeqsRise(<<>>) /\ Ordered(<<>>)
      /\ Rising(<<>>) /\ Len(<<>>) = 0
  BY DEF SeqsRise, Ordered, Rising
<1>2. RunInv
  BY DEF Init, RunInv, DeliveryAssumption, Outcomes
<1>3. OutInv
  <2>1. out = [queue |-> <<>>, putting |-> None, latest |-> None, snapshot |-> FALSE,
               sent |-> FALSE, phase |-> "open"]
    BY DEF Init
  <2>. QED
    BY <1>1, <2>1 DEF OutInv, DeliveryAssumption
<1>4. LinkInv
  BY <1>1 DEF Init, LinkInv, DeliveryAssumption
<1>5. PICK b : b = EmptyInbox
  OBVIOUS
<1>6. b.pending = <<>> /\ b = [last |-> b.last, pending |-> b.pending, rev |-> b.rev, terminal |-> b.terminal]
  BY <1>5 DEF EmptyInbox
<1>7. PICK v : v = EmptyView
  OBVIOUS
<1>8. v.shown = <<>> /\ v = [shown |-> v.shown, open |-> v.open, prompt |-> v.prompt, over |-> v.over,
                             snapshots |-> v.snapshots]
  BY <1>7 DEF EmptyView
<1>9. /\ client = [inbox |-> b, view |-> v, deferred |-> None, asked |-> FALSE, settled |-> FALSE]
      /\ client.inbox = b /\ client.view = v /\ client.deferred = None
      /\ client.asked = FALSE /\ client.settled = FALSE
  BY <1>5, <1>7 DEF Init
<1>10. ClientInv
  <2>1. None.kind \in {"done", "none"}
    BY DEF None, Frame
  <2>. QED
    BY <1>1, <1>6, <1>8, <1>9, <2>1 DEF ClientInv
<1>11. OrderInv
  <2>1. net = <<>> /\ out.queue = <<>> /\ out.putting = None
    BY DEF Init
  <2>2. Seen(v) = {}
    BY <1>8 DEF Seen
  <2>. QED
    BY <1>1, <1>6, <1>8, <1>9, <2>1, <2>2, TextOfNothing DEF OrderInv, InOrder, Below
<1>12. GapInv
  BY <1>6, <1>9 DEF GapInv
<1>. QED
  BY <1>2, <1>3, <1>4, <1>10, <1>11, <1>12 DEF SDInv

LEMMA NextKeeps ==
  ASSUME DeliveryAssumption, SDInv, [Next]_vars
  PROVE  SDInv'
<1>1. CASE RunSteps
  BY <1>1, RunStepsKeep
<1>2. CASE Dispatch
  BY <1>2, DispatchKeeps
<1>3. CASE AfterSend
  BY <1>3, AfterSendKeeps
<1>4. CASE HandleOperation
  BY <1>4, HandleOperationKeeps
<1>5. CASE Receive
  BY <1>5, ReceiveKeeps
<1>6. CASE DoneTimer
  BY <1>6, DoneTimerKeeps
<1>7. CASE GapTimer
  BY <1>7, GapTimerKeeps
<1>8. CASE LoseConnection \/ Reconnect
  BY <1>8, ConnectionsKeep
<1>9. CASE UNCHANGED vars
  <2>1. UNCHANGED <<turn, out, link, net, client, losses>>
    BY <1>9 DEF vars
  <2>2. RunInv' /\ OutInv'
    BY <2>1 DEF SDInv, RunInv, OutInv
  <2>3. LinkInv'
    BY <2>1 DEF SDInv, LinkInv
  <2>4. ClientInv'
    BY <2>1 DEF SDInv, ClientInv
  <2>5. OrderInv' /\ GapInv'
    BY <2>1 DEF SDInv, OrderInv, GapInv
  <2>. QED
    BY <2>2, <2>3, <2>4, <2>5 DEF SDInv
<1>. QED
  BY <1>1, <1>2, <1>3, <1>4, <1>5, <1>6, <1>7, <1>8, <1>9 DEF Next, Progress

-----------------------------------------------------------------------------
LEMMA InvHolds ==
  Spec => []SDInv
<1>1. Init => SDInv
  BY DeliveryAssumption, InitHolds
<1>2. SDInv /\ [Next]_vars => SDInv'
  BY DeliveryAssumption, NextKeeps
<1>. QED
  BY <1>1, <1>2, PTL DEF Spec

\* Type correctness of the delivery, whatever the limits of the queue and the connection are: the
\* queue of the dispatcher is never longer than its limit, it is closed only after the turn's end
\* with nothing left to put, and the frames under way carry numbers the connection has given.
THEOREM DeliveryTypes ==
  Spec => []TypeOK
<1>1. SDInv => TypeOK
  <2>1. SUFFICES ASSUME SDInv PROVE TypeOK
    OBVIOUS
  <2>2. link.conn \in 1..(MaxLosses + 1)
    <3>1. MaxLosses \in Nat
      BY DeliveryAssumption DEF DeliveryAssumption
    <3>2. losses \in 0..MaxLosses /\ link.conn \in Nat
      BY <2>1 DEF SDInv, LinkInv
    <3>3. link.conn = losses + 1 \/ link.conn = losses
      BY <2>1 DEF SDInv, LinkInv
    <3>4. link.conn # 0
      BY <2>1 DEF SDInv, LinkInv
    <3>. QED
      BY <3>1, <3>2, <3>3, <3>4
  <2>3. client.settled \in BOOLEAN /\ client.asked \in BOOLEAN
    BY <2>1 DEF SDInv, ClientInv
  <2>. QED
    BY <2>1, <2>2, <2>3 DEF TypeOK, SDInv, RunInv, OutInv, LinkInv
<1>. QED
  BY <1>1, InvHolds, PTL

\* The text a client shows is text of the turn, in its order and never twice, for every limit of
\* the queue, of the connection and of the number of lost connections: through gaps, forced
\* drains, snapshots and connections that count from 1 again.
THEOREM TextStaysInOrder ==
  Spec => []TextInOrder
<1>1. SDInv => TextInOrder
  <2>1. SUFFICES ASSUME SDInv PROVE TextInOrder
    OBVIOUS
  <2>2. PICK shown : shown = client.view.shown
    OBVIOUS
  <2>3. /\ shown \in Seq(Nat) /\ Rising(shown)
        /\ \A k \in DOMAIN shown : shown[k] \in 1..turn.text
    BY <2>1, <2>2 DEF SDInv, ClientInv, OrderInv, InOrder, Seen
  <2>4. ASSUME NEW k \in DOMAIN shown, k > 1 PROVE shown[k - 1] < shown[k]
    <3>1. DOMAIN shown = 1..Len(shown) /\ Len(shown) \in Nat
      BY <2>3
    <3>2. k - 1 \in DOMAIN shown /\ k - 1 < k
      BY <2>4, <3>1
    <3>. QED
      BY <2>3, <3>2 DEF Rising
  <2>. QED
    BY <2>2, <2>3, <2>4 DEF TextInOrder
<1>. QED
  BY <1>1, InvHolds, PTL
-----------------------------------------------------------------------------
(* While the connection holds: the second invariant.                       *)

Ends(f) == f.kind \in {"done", "error"}

\* A frame tells nothing of the turn that is not so yet: neither a later revision nor its end.
Fit(t, f) ==
  /\ NoRevision <= f.rev /\ f.rev <= t.rev /\ (IsChunk(f) => ~HasState(f))
  /\ Ends(f) \/ f.status \in Outcomes => t.status \in Outcomes
AllFit(t, s) == \A k \in DOMAIN s : Fit(t, s[k])
FitInv ==
  /\ AllFit(turn, net) /\ AllFit(turn, out.queue) /\ Fit(turn, out.putting) /\ Fit(turn, out.latest)
  /\ out.putting.kind /= "state_sync"
  /\ AllFit(turn, client.inbox.pending)
  /\ client.deferred /= None \/ client.settled => turn.status \in Outcomes
  /\ client.settled => client.deferred = None

\* What the inbox has taken, what waits there and what is on its way follow each other.
Follow(last, pending, deferred, flying, seq) ==
  /\ last \in 0..seq
  /\ \A i \in DOMAIN pending : last < pending[i].seq /\ pending[i].seq <= seq
  /\ \A j \in DOMAIN flying : last < flying[j].seq
  /\ \A i \in DOMAIN pending, j \in DOMAIN flying : pending[i].seq < flying[j].seq
  /\ deferred /= None => /\ deferred.seq <= seq
                         /\ \A i \in DOMAIN pending : pending[i].seq < deferred.seq
SeqInv ==
  ~client.settled =>
    /\ ~client.view.over /\ ~client.inbox.terminal
    /\ client.inbox.rev \in Int /\ client.inbox.rev <= turn.rev
    /\ Follow(client.inbox.last, client.inbox.pending, client.deferred, net, link.seq)

\* No text follows the end of the turn.
EndsLast(s) == \A i, j \in DOMAIN s : i < j /\ Ends(s[i]) => ~IsChunk(s[j])
Ended(s) == \E k \in DOMAIN s : Ends(s[k])
EndOrder(deferred, flying, queue, putting) ==
  /\ EndsLast(flying) /\ EndsLast(queue)
  /\ Ended(flying) => Text(queue) = {} /\ Text(<<putting>>) = {}
  /\ Ended(queue) => Text(<<putting>>) = {}
  /\ deferred /= None => Text(flying) = {} /\ Text(queue) = {} /\ Text(<<putting>>) = {}
EndInv == EndOrder(client.deferred, net, out.queue, out.putting)

\* Before the page has a text segment, the start of one comes ahead of all text.
Plain(f) == f.kind \in {"timeline_event", "state_sync", "done", "error", "none"}
Still(s) == \A k \in DOMAIN s : Plain(s[k])
Opens(s) == \E k \in DOMAIN s : s[k].kind = "step_start" /\ \A j \in DOMAIN s : j < k => Plain(s[j])
Coming(flying, queue, putting, steps) ==
  \/ Opens(flying)
  \/ Still(flying) /\ Opens(queue)
  \/ Still(flying) /\ Still(queue) /\ putting.kind = "step_start"
  \/ Still(flying) /\ Still(queue) /\ Plain(putting) /\ steps = 0

\* All text is on the page or comes after it, until a snapshot is applied.
Whole(view, pending, flying, queue, putting, n) ==
  1..n \subseteq Seen(view) \cup Text(pending) \cup Text(flying) \cup Text(queue) \cup Text(<<putting>>)
TextInv ==
  ~client.view.snapshots =>
    /\ client.settled /\ client.view.over => 1..turn.text \subseteq Seen(client.view)
    /\ ~client.settled =>
         Whole(client.view, client.inbox.pending, net, out.queue, out.putting, turn.text)
    /\ ~client.settled /\ ~client.view.open =>
         /\ client.inbox.rev = NoRevision /\ client.inbox.pending = <<>>
         /\ Coming(net, out.queue, out.putting, turn.steps)

\* A turn that waits for the user has its question on the page or on its way, and no snapshot
\* of anything else behind it.
Waits(f) == f.kind = "state_sync" => f.status = "waiting_user"
AllWait(s) == \A k \in DOMAIN s : Waits(s[k])
Asks(s, rev) ==
  \E k \in DOMAIN s : /\ s[k].kind = "interrupt" /\ s[k].rev = rev
                      /\ \A j \in DOMAIN s : j > k => Waits(s[j])
Asked(prompt, flying, queue, putting, rev) ==
  \/ putting.kind = "interrupt" /\ putting.rev = rev
  \/ Asks(queue, rev)
  \/ AllWait(queue) /\ Asks(flying, rev)
  \/ AllWait(queue) /\ AllWait(flying) /\ prompt
WaitInv ==
  turn.status = "waiting_user" =>
    /\ out.latest /= None => out.latest.status = "waiting_user"
    /\ Asked(client.view.prompt, net, out.queue, out.putting, turn.rev)

Kept ==
  /\ ops \in Seq({"sync"})
  /\ FitInv /\ SeqInv /\ EndInv /\ TextInv /\ WaitInv
KeptInv == losses = 0 => Kept

-----------------------------------------------------------------------------
(* A frame more at the end of a stage, a frame less at its front.          *)

\* What a frame at the end does to a stage.
Grows(s, f, t) ==
  /\ \A turn0 : AllFit(turn0, s) /\ Fit(turn0, f) => AllFit(turn0, t)
  /\ EndsLast(s) /\ (Ended(s) => Text(<<f>>) = {}) => EndsLast(t)
  /\ Ended(t) => Ended(s) \/ Ends(f)
  /\ Still(s) /\ Plain(f) => Still(t)
  /\ Opens(s) \/ (Still(s) /\ f.kind = "step_start") => Opens(t)
  /\ AllWait(s) /\ Waits(f) => AllWait(t)
  /\ \A rev : (Asks(s, rev) /\ Waits(f)) \/ (f.kind = "interrupt" /\ f.rev = rev) => Asks(t, rev)

LEMMA AppendGrows ==
  ASSUME NEW s \in Seq(Frames), NEW f \in Frames
  PROVE  Grows(s, f, Append(s, f))
<1>1. PICK t : t = Append(s, f)
  OBVIOUS
<1>2. PICK n : n = Len(s)
  OBVIOUS
<1>3. /\ n \in Nat /\ DOMAIN t = 1..n + 1 /\ DOMAIN s = 1..n
      /\ t[n + 1] = f /\ \A i \in 1..n : t[i] = s[i]
  BY <1>1, <1>2
<1>4. /\ \A i \in DOMAIN s : i \in DOMAIN t /\ t[i] = s[i] /\ i < n + 1 /\ ~(i > n + 1)
      /\ \A i \in DOMAIN t : i \in DOMAIN s \/ i = n + 1
      /\ n + 1 \in DOMAIN t /\ t[n + 1] = f
      /\ \A i \in DOMAIN t : i < n + 1 => i \in DOMAIN s
      /\ \A i \in DOMAIN t : ~(i > n + 1) /\ ~(n + 1 < i)
  BY <1>3
<1>5. ASSUME NEW turn0, AllFit(turn0, s), Fit(turn0, f) PROVE AllFit(turn0, t)
  BY <1>4, <1>5 DEF AllFit
<1>6. ASSUME EndsLast(s), Ended(s) => Text(<<f>>) = {} PROVE EndsLast(t)
  <2>1. SUFFICES ASSUME NEW i \in DOMAIN t, NEW j \in DOMAIN t, i < j, Ends(t[i]) PROVE ~IsChunk(t[j])
    BY DEF EndsLast
  <2>2. CASE j \in DOMAIN s
    <3>1. i \in DOMAIN s
      BY <1>3, <2>1, <2>2
    <3>. QED
      BY <1>4, <1>6, <2>1, <2>2, <3>1 DEF EndsLast
  <2>3. CASE j = n + 1
    <3>1. i \in DOMAIN s
      BY <1>4, <2>1, <2>3
    <3>2. Ended(s)
      BY <1>4, <2>1, <3>1 DEF Ended
    <3>3. ~IsChunk(f)
      BY <1>6, <3>2, TextOfOne
    <3>. QED
      BY <1>4, <2>3, <3>3
  <2>. QED
    BY <1>4, <2>2, <2>3
<1>7. Ended(t) => Ended(s) \/ Ends(f)
  BY <1>4 DEF Ended
<1>8. Still(s) /\ Plain(f) => Still(t)
  BY <1>4 DEF Still
<1>9. ASSUME Opens(s) PROVE Opens(t)
  <2>1. PICK k \in DOMAIN s : s[k].kind = "step_start" /\ \A j \in DOMAIN s : j < k => Plain(s[j])
    BY <1>9 DEF Opens
  <2>2. k \in DOMAIN t /\ t[k].kind = "step_start"
    BY <1>4, <2>1
  <2>3. ASSUME NEW j \in DOMAIN t, j < k PROVE Plain(t[j])
    <3>1. j \in DOMAIN s
      BY <1>3, <2>1, <2>3
    <3>. QED
      BY <1>4, <2>1, <2>3, <3>1
  <2>. QED
    BY <2>2, <2>3 DEF Opens
<1>10. ASSUME Still(s), f.kind = "step_start" PROVE Opens(t)
  BY <1>4, <1>10 DEF Opens, Still
<1>11. AllWait(s) /\ Waits(f) => AllWait(t)
  BY <1>4 DEF AllWait
<1>12. ASSUME NEW rev, Asks(s, rev), Waits(f) PROVE Asks(t, rev)
  <2>1. PICK k \in DOMAIN s : /\ s[k].kind = "interrupt" /\ s[k].rev = rev
                              /\ \A j \in DOMAIN s : j > k => Waits(s[j])
    BY <1>12 DEF Asks
  <2>2. \A j \in DOMAIN t : j > k => Waits(t[j])
    BY <1>4, <1>12, <2>1
  <2>. QED
    BY <1>4, <2>1, <2>2 DEF Asks
<1>13. ASSUME NEW rev, f.kind = "interrupt", f.rev = rev PROVE Asks(t, rev)
  BY <1>4, <1>13 DEF Asks
<1>. QED
  BY <1>1, <1>5, <1>6, <1>7, <1>8, <1>9, <1>10, <1>11, <1>12, <1>13 DEF Grows

\* What a stage is without its first frame.
Shrinks(s, h, t) ==
  /\ \A turn0 : AllFit(turn0, s) => AllFit(turn0, t) /\ Fit(turn0, h)
  /\ EndsLast(s) => EndsLast(t) /\ (Ends(h) => Text(t) = {})
  /\ Ended(t) \/ Ends(h) => Ended(s)
  /\ Still(s) => Still(t) /\ Plain(h)
  /\ Opens(s) => h.kind = "step_start" \/ (Plain(h) /\ Opens(t))
  /\ AllWait(s) => AllWait(t) /\ Waits(h)
  /\ \A rev : Asks(s, rev) => Asks(t, rev) \/ (h.kind = "interrupt" /\ h.rev = rev /\ AllWait(t))

LEMMA TailShrinks ==
  ASSUME NEW s \in Seq(Frames), s # <<>>
  PROVE  Shrinks(s, Head(s), Tail(s))
<1>1. PICK t, h : t = Tail(s) /\ h = Head(s)
  OBVIOUS
<1>2. PICK n : n = Len(s)
  OBVIOUS
<1>3. /\ n \in Nat /\ n >= 1 /\ DOMAIN s = 1..n /\ DOMAIN t = 1..n - 1
      /\ h = s[1] /\ \A i \in 1..n - 1 : t[i] = s[i + 1]
  BY <1>1, <1>2
<1>4. /\ 1 \in DOMAIN s /\ s[1] = h
      /\ \A i \in DOMAIN t : i + 1 \in DOMAIN s /\ t[i] = s[i + 1] /\ 1 < i + 1
      /\ \A i, j \in DOMAIN t : i < j <=> i + 1 < j + 1
      /\ \A k \in DOMAIN s : k = 1 \/ (k - 1 \in DOMAIN t /\ (k - 1) + 1 = k /\ 1 < k /\ t[k - 1] = s[k])
  <2>1. \A k \in 1..n : k # 1 => k - 1 \in 1..n - 1 /\ (k - 1) + 1 = k /\ 1 < k
    BY <1>3
  <2>2. \A k \in 1..n : k # 1 => t[k - 1] = s[k]
    BY <1>3, <2>1
  <2>. QED
    BY <1>3, <2>1, <2>2
<1>5. ASSUME NEW turn0, AllFit(turn0, s) PROVE AllFit(turn0, t) /\ Fit(turn0, h)
  BY <1>4, <1>5 DEF AllFit
<1>6. ASSUME EndsLast(s) PROVE EndsLast(t) /\ (Ends(h) => Text(t) = {})
  <2>1. EndsLast(t)
    BY <1>4, <1>6 DEF EndsLast
  <2>2. ASSUME Ends(h), NEW i \in DOMAIN t PROVE ~IsChunk(t[i])
    BY <1>4, <1>6, <2>2 DEF EndsLast
  <2>. QED
    BY <2>1, <2>2 DEF Text
<1>7. Ended(t) \/ Ends(h) => Ended(s)
  BY <1>4 DEF Ended
<1>8. Still(s) => Still(t) /\ Plain(h)
  BY <1>4 DEF Still
<1>9. ASSUME Opens(s), h.kind # "step_start" PROVE Plain(h) /\ Opens(t)
  <2>1. PICK k \in DOMAIN s : s[k].kind = "step_start" /\ \A j \in DOMAIN s : j < k => Plain(s[j])
    BY <1>9 DEF Opens
  <2>2. k - 1 \in DOMAIN t /\ t[k - 1] = s[k] /\ 1 < k
    BY <1>4, <1>9, <2>1
  <2>3. ASSUME NEW j \in DOMAIN t, j < k - 1 PROVE Plain(t[j])
    <3>1. j + 1 < k /\ j + 1 \in DOMAIN s
      BY <1>3, <1>4, <2>1, <2>3
    <3>. QED
      BY <1>4, <2>1, <3>1
  <2>4. Plain(h)
    BY <1>4, <2>1, <2>2
  <2>. QED
    BY <2>1, <2>2, <2>3, <2>4 DEF Opens
<1>10. AllWait(s) => AllWait(t) /\ Waits(h)
  BY <1>4 DEF AllWait
<1>11. ASSUME NEW rev, Asks(s, rev)
       PROVE  Asks(t, rev) \/ (h.kind = "interrupt" /\ h.rev = rev /\ AllWait(t))
  <2>1. PICK k \in DOMAIN s : /\ s[k].kind = "interrupt" /\ s[k].rev = rev
                              /\ \A j \in DOMAIN s : j > k => Waits(s[j])
    BY <1>11 DEF Asks
  <2>2. CASE k = 1
    <3>1. \A j \in DOMAIN t : j + 1 > k
      BY <1>3, <2>2
    <3>. QED
      BY <1>4, <2>1, <2>2, <3>1 DEF AllWait
  <2>3. CASE k # 1
    <3>1. k - 1 \in DOMAIN t /\ t[k - 1] = s[k]
      BY <1>4, <2>1, <2>3
    <3>2. ASSUME NEW j \in DOMAIN t, j > k - 1 PROVE Waits(t[j])
      <4>1. j + 1 > k /\ j + 1 \in DOMAIN s
        BY <1>3, <1>4, <2>1, <3>2
      <4>. QED
        BY <1>4, <2>1, <4>1
    <3>. QED
      BY <2>1, <3>1, <3>2 DEF Asks
  <2>. QED
    BY <2>2, <2>3
<1>. QED
  BY <1>1, <1>5, <1>6, <1>7, <1>8, <1>9, <1>10, <1>11 DEF Shrinks

LEMMA NothingThere ==
  /\ \A t : AllFit(t, <<>>)
  /\ EndsLast(<<>>) /\ ~Ended(<<>>) /\ Still(<<>>) /\ ~Opens(<<>>) /\ AllWait(<<>>)
  /\ \A rev : ~Asks(<<>>, rev)
<1>1. DOMAIN <<>> = {}
  OBVIOUS
<1>. QED
  BY <1>1 DEF AllFit, EndsLast, Ended, Still, Opens, AllWait, Asks

-----------------------------------------------------------------------------
(* What comes out of an inbox in which only chunks wait.                   *)

Stateless(p, n) == \A i \in 1..n : p[i] \in Frames /\ IsChunk(p[i]) /\ ~HasState(p[i])

\* The first n pending frames were chunks, and all came out.
Took(inbox, n, d) ==
  /\ d.events \in Seq(Frames) /\ Len(d.events) = n
  /\ \A i \in 1..n : d.events[i] = inbox.pending[i]
  /\ d.rev = inbox.rev /\ (d.terminal <=> inbox.terminal)
  /\ d.last = IF n = 0 THEN inbox.last ELSE inbox.pending[n].seq

\* A chunk is never stale.
LEMMA TookOne ==
  ASSUME NEW inbox, NEW n \in Nat, n > 0, Stateless(inbox.pending, n),
         NEW d, Took(inbox, n - 1, d)
  PROVE  Took(inbox, n, Take(d, inbox.pending[n]))
<1>1. PICK f : f = inbox.pending[n]
  OBVIOUS
<1>2. f \in Frames /\ IsChunk(f) /\ ~HasState(f) /\ n \in 1..n
  BY <1>1 DEF Stateless
<1>3. ~IsTerminal(f)
  BY <1>2 DEF IsTerminal, IsChunk, Outcomes
<1>4. PICK w : w = Take(d, f)
  OBVIOUS
<1>5. /\ w.last = f.seq /\ w.rev = d.rev /\ w.terminal = (d.terminal \/ IsTerminal(f))
      /\ w.events = Append(d.events, f)
  BY <1>2, <1>4 DEF Take
<1>6. PICK e : e = d.events
  OBVIOUS
<1>7. PICK g : g = Append(e, f)
  OBVIOUS
<1>8. e \in Seq(Frames) /\ Len(e) = n - 1 /\ \A i \in 1..n - 1 : e[i] = inbox.pending[i]
  BY <1>6 DEF Took
<1>9. /\ g \in Seq(Frames) /\ Len(g) = n /\ g[n] = f
      /\ \A i \in 1..n - 1 : g[i] = e[i]
  BY <1>2, <1>7, <1>8
<1>10. \A i \in 1..n : i = n \/ i \in 1..n - 1
  OBVIOUS
<1>11. \A i \in 1..n : g[i] = inbox.pending[i]
  BY <1>1, <1>8, <1>9, <1>10
<1>12. w.events = g /\ w.rev = inbox.rev /\ (w.terminal <=> inbox.terminal) /\ w.last = f.seq
  BY <1>3, <1>5, <1>6, <1>7 DEF Took
<1>. QED
  BY <1>1, <1>4, <1>9, <1>11, <1>12 DEF Took

\* What a drain gives after n chunks, and after one frame more.
LEMMA TookAll ==
  ASSUME NEW inbox, NEW n \in Nat, NEW m \in Nat, m = n \/ m = n - 1, Stateless(inbox.pending, m)
  PROVE  \E d : Took(inbox, m, d) /\ Drained(inbox, n) = IF m = n THEN d ELSE Take(d, inbox.pending[n])
<1>1. PICK f : /\ f[0] = TakeStart(inbox)
               /\ \A k \in 1..n : f[k] = Take(f[k - 1], inbox.pending[k])
               /\ Drained(inbox, n) = f[n]
  BY TakingSteps
<1> DEFINE T == {k \in 0..m : Took(inbox, k, f[k])}
<1>2. 0 \in T
  <2>1. PICK d : d = f[0]
    OBVIOUS
  <2>2. d.events = <<>> /\ d.rev = inbox.rev /\ d.terminal = inbox.terminal /\ d.last = inbox.last
    BY <1>1, <2>1 DEF TakeStart
  <2>3. Took(inbox, 0, d)
    BY <2>2 DEF Took
  <2>. QED
    BY <2>1, <2>3
<1>3. ASSUME NEW k \in 1..m, k - 1 \in T PROVE k \in T
  <2>1. k \in Nat /\ k > 0 /\ k \in 1..n /\ k \in 0..m
    OBVIOUS
  <2>2. PICK d : d = f[k - 1]
    OBVIOUS
  <2>3. Took(inbox, k - 1, d)
    BY <1>3, <2>2
  <2>4. Stateless(inbox.pending, k)
    BY DEF Stateless
  <2>5. Took(inbox, k, Take(d, inbox.pending[k]))
    BY <2>1, <2>3, <2>4, TookOne
  <2>. QED
    BY <1>1, <2>1, <2>2, <2>5
<1>4. \A k \in 1..m : k - 1 \in T => k \in T
  BY <1>3
<1>. HIDE DEF T
<1>5. \A k \in 0..m : k \in T
  BY <1>2, <1>4, CountUp
<1>6. m \in 0..m
  OBVIOUS
<1>7. Took(inbox, m, f[m])
  BY <1>5, <1>6 DEF T
<1>8. CASE m = n
  BY <1>1, <1>7, <1>8
<1>9. CASE m # n
  <2>1. n \in 1..n /\ m = n - 1
    BY <1>9
  <2>2. Drained(inbox, n) = Take(f[m], inbox.pending[n])
    BY <1>1, <2>1
  <2>. QED
    BY <1>7, <1>9, <2>2
<1>. QED
  BY <1>8, <1>9

-----------------------------------------------------------------------------
(* What the page makes of it.                                              *)

\* A frame shown by a page that is not over.
ShowsAs(view, f, v) ==
  /\ IsView(v)
  /\ v.over <=> IsTerminal(f)
  /\ v.open <=> view.open \/ f.kind = "step_start"
  /\ v.snapshots <=> view.snapshots \/ f.kind = "state_sync"
  /\ f.kind = "interrupt" => v.prompt
  /\ f.kind \in {"chunk", "step_start"} => (v.prompt <=> view.prompt)
  /\ f.kind = "state_sync" => (v.prompt <=> view.prompt /\ f.status = "waiting_user")
  /\ v.shown = IF IsChunk(f) /\ view.open THEN Append(view.shown, f.text) ELSE view.shown

LEMMA ShowsIt ==
  ASSUME NEW view, IsView(view), NEW f \in Frames, f.kind \in Shows, ~view.over
  PROVE  ShowsAs(view, f, Show(view, f))
<1> DEFINE V(s, o, p, over, n) == [shown |-> s, open |-> o, prompt |-> p, over |-> over, snapshots |-> n]
<1>0. f.text \in Nat /\ f.kind \in {"step_start", "chunk", "interrupt", "done", "error", "state_sync"}
  BY DEF Frames, Shows, Kinds
<1>1. PICK s, o, p, n, q : view = V(s, o, p, q, n)
  BY DEF IsView
<1>2. /\ s \in Seq(Nat) /\ Append(s, f.text) \in Seq(Nat) /\ view.shown = s /\ ~q /\ view.over = q
      /\ view.open = o /\ view.prompt = p /\ view.snapshots = n
  BY <1>0, <1>1 DEF IsView
<1>3. PICK ends : ends = (IsTerminal(f) \/ q)
  OBVIOUS
<1>4. PICK seen : seen = [view EXCEPT !.over = IsTerminal(f) \/ @]
  OBVIOUS
<1>5. seen = V(s, o, p, ends, n) /\ (ends <=> IsTerminal(f))
  BY <1>1, <1>2, <1>3, <1>4
<1>6. PICK w : w = Show(view, f)
  OBVIOUS
<1>7. CASE f.kind = "step_start"
  <2>1. w = [seen EXCEPT !.open = TRUE]
    BY <1>2, <1>4, <1>6, <1>7, Zenon DEF Show
  <2>2. w = V(s, TRUE, p, ends, n)
    BY <1>5, <2>1
  <2>3. /\ w.shown = s /\ w.open = TRUE /\ w.prompt = p /\ w.over = ends /\ w.snapshots = n
        /\ ~IsChunk(f)
    BY <1>7, <2>2 DEF IsChunk
  <2>. QED
    BY <1>2, <1>5, <1>6, <1>7, <2>2, <2>3 DEF ShowsAs, IsView
<1>8. CASE f.kind = "chunk"
  <2>1. PICK t : t = IF o THEN Append(s, f.text) ELSE s
    OBVIOUS
  <2>2. w = [seen EXCEPT !.shown = IF view.open THEN Append(@, f.text) ELSE @]
    BY <1>2, <1>4, <1>6, <1>8, Zenon DEF Show
  <2>3. w = V(t, o, p, ends, n)
    BY <1>2, <1>5, <2>1, <2>2
  <2>4. /\ w.shown = t /\ w.open = o /\ w.prompt = p /\ w.over = ends /\ w.snapshots = n
        /\ IsChunk(f) /\ t \in Seq(Nat)
    BY <1>2, <1>8, <2>1, <2>3 DEF IsChunk
  <2>. QED
    BY <1>2, <1>5, <1>6, <1>8, <2>1, <2>3, <2>4 DEF ShowsAs, IsView
<1>9. CASE f.kind = "interrupt"
  <2>1. w = [seen EXCEPT !.prompt = TRUE]
    BY <1>2, <1>4, <1>6, <1>9, Zenon DEF Show
  <2>2. w = V(s, o, TRUE, ends, n)
    BY <1>5, <2>1
  <2>3. /\ w.shown = s /\ w.open = o /\ w.prompt = TRUE /\ w.over = ends /\ w.snapshots = n
        /\ ~IsChunk(f)
    BY <1>9, <2>2 DEF IsChunk
  <2>. QED
    BY <1>2, <1>5, <1>6, <1>9, <2>2, <2>3 DEF ShowsAs, IsView
<1>10. CASE f.kind = "state_sync"
  <2>1. w = [seen EXCEPT !.snapshots = TRUE, !.prompt = @ /\ f.status = "waiting_user"]
    BY <1>2, <1>4, <1>6, <1>10, Zenon DEF Show
  <2>2. PICK r : r = (p /\ f.status = "waiting_user")
    OBVIOUS
  <2>3. w = V(s, o, r, ends, TRUE)
    BY <1>5, <2>1, <2>2
  <2>4. /\ w.shown = s /\ w.open = o /\ w.prompt = r /\ w.over = ends /\ w.snapshots = TRUE
        /\ ~IsChunk(f) /\ (r <=> p /\ f.status = "waiting_user")
    BY <1>10, <2>2, <2>3 DEF IsChunk
  <2>. QED
    BY <1>2, <1>5, <1>6, <1>10, <2>3, <2>4 DEF ShowsAs, IsView
<1>11. CASE f.kind \in {"done", "error"}
  <2>1. w = [seen EXCEPT !.prompt = FALSE]
    BY <1>2, <1>4, <1>6, <1>11, Zenon DEF Show, IsTerminal
  <2>2. w = V(s, o, FALSE, ends, n)
    BY <1>5, <2>1
  <2>3. /\ w.shown = s /\ w.open = o /\ w.prompt = FALSE /\ w.over = ends /\ w.snapshots = n
        /\ ~IsChunk(f)
    BY <1>11, <2>2 DEF IsChunk
  <2>. QED
    BY <1>2, <1>5, <1>6, <1>11, <2>2, <2>3 DEF ShowsAs, IsView
<1>. QED
  BY <1>0, <1>7, <1>8, <1>9, <1>10, <1>11

\* A page that n chunks were applied to.
TextTo(s, n) == {s[i].text : i \in {j \in 1..n : IsChunk(s[j])}}
Flowed(view, events, n, v) ==
  /\ IsView(v) /\ ~v.over
  /\ v.open <=> view.open
  /\ v.prompt <=> view.prompt
  /\ v.snapshots <=> view.snapshots
  /\ Seen(view) \subseteq Seen(v)
  /\ view.open => TextTo(events, n) \subseteq Seen(v)

LEMMA FlowedOne ==
  ASSUME NEW view, NEW events, NEW n \in Nat, n > 0, NEW v, Flowed(view, events, n - 1, v),
         events[n] \in Frames, IsChunk(events[n])
  PROVE  Flowed(view, events, n, Show(v, events[n]))
<1>1. PICK f : f = events[n]
  OBVIOUS
<1>2. f \in Frames /\ IsChunk(f) /\ f.kind = "chunk" /\ f.kind \in Shows /\ ~IsTerminal(f)
  BY <1>1 DEF IsChunk, Shows, Kinds, IsTerminal, Outcomes
<1>3. PICK w : w = Show(v, f)
  OBVIOUS
<1>4. IsView(v) /\ ~v.over
  BY DEF Flowed
<1>5. ShowsAs(v, f, w)
  BY <1>2, <1>3, <1>4, ShowsIt
<1>6. IsView(w) /\ ~w.over /\ (w.open <=> view.open) /\ (w.prompt <=> view.prompt) /\ (w.snapshots <=> view.snapshots)
  BY <1>2, <1>5 DEF ShowsAs, Flowed
<1>7. PICK s, t : s = v.shown /\ t = w.shown
  OBVIOUS
<1>8. s \in Seq(Nat) /\ f.text \in Nat /\ t = IF view.open THEN Append(s, f.text) ELSE s
  BY <1>2, <1>4, <1>5, <1>7 DEF ShowsAs, Flowed, IsView, Frames
<1>9. Seen(v) \subseteq Seen(w) /\ (view.open => f.text \in Seen(w))
  <2>1. CASE view.open
    <3>1. /\ DOMAIN t = 1..Len(s) + 1 /\ DOMAIN s = 1..Len(s) /\ Len(s) \in Nat
          /\ t[Len(s) + 1] = f.text /\ \A i \in 1..Len(s) : t[i] = s[i]
      BY <1>8, <2>1
    <3>2. /\ \A i \in DOMAIN s : i \in DOMAIN t /\ t[i] = s[i]
          /\ Len(s) + 1 \in DOMAIN t
      BY <3>1
    <3>. QED
      BY <1>7, <3>1, <3>2 DEF Seen
  <2>2. CASE ~view.open
    BY <1>7, <1>8, <2>2 DEF Seen
  <2>. QED
    BY <2>1, <2>2
<1>10. TextTo(events, n) \subseteq TextTo(events, n - 1) \cup {f.text}
  <2>1. \A i \in 1..n : i = n \/ i \in 1..n - 1
    OBVIOUS
  <2>. QED
    BY <1>1, <2>1 DEF TextTo
<1>11. Seen(view) \subseteq Seen(v) /\ (view.open => TextTo(events, n - 1) \subseteq Seen(v))
  BY DEF Flowed
<1>. QED
  BY <1>1, <1>3, <1>6, <1>9, <1>10, <1>11 DEF Flowed

LEMMA FlowedAll ==
  ASSUME NEW view, IsView(view), ~view.over, NEW events \in Seq(Frames),
         NEW m \in Nat, m = Len(events) \/ m = Len(events) - 1, \A i \in 1..m : IsChunk(events[i])
  PROVE  \E w : /\ Flowed(view, events, m, w)
                /\ Applied(view, events) = IF m = Len(events) THEN w ELSE Show(w, events[Len(events)])
<1>1. PICK n : n = Len(events)
  OBVIOUS
<1>2. n \in Nat /\ Len(events) \in Nat /\ \A i \in 1..n : events[i] \in Frames
  BY <1>1
<1>3. PICK f : /\ f[0] = view
               /\ \A k \in 1..n : f[k] = Show(f[k - 1], events[k])
               /\ Applied(view, events) = f[n]
  BY <1>1, <1>2, ShowingSteps
<1> DEFINE T == {k \in 0..m : Flowed(view, events, k, f[k])}
<1>4. 0 \in T
  <2>1. TextTo(events, 0) = {}
    BY DEF TextTo
  <2>2. Flowed(view, events, 0, view)
    BY <2>1 DEF Flowed
  <2>. QED
    BY <1>3, <2>2
<1>5. ASSUME NEW k \in 1..m, k - 1 \in T PROVE k \in T
  <2>1. k \in Nat /\ k > 0 /\ k \in 1..n /\ k \in 0..m
    BY <1>1, <1>2
  <2>2. PICK v : v = f[k - 1]
    OBVIOUS
  <2>3. Flowed(view, events, k - 1, v)
    BY <1>5, <2>2
  <2>4. events[k] \in Frames /\ IsChunk(events[k])
    BY <1>2, <2>1
  <2>5. Flowed(view, events, k, Show(v, events[k]))
    BY <2>1, <2>3, <2>4, FlowedOne
  <2>. QED
    BY <1>3, <2>1, <2>2, <2>5
<1>6. \A k \in 1..m : k - 1 \in T => k \in T
  BY <1>5
<1>. HIDE DEF T
<1>7. \A k \in 0..m : k \in T
  BY <1>4, <1>6, CountUp
<1>8. m \in 0..m
  OBVIOUS
<1>9. Flowed(view, events, m, f[m])
  BY <1>7, <1>8 DEF T
<1>10. CASE m = n
  BY <1>1, <1>3, <1>9, <1>10
<1>11. CASE m # n
  <2>1. n \in 1..n /\ m = n - 1
    BY <1>1, <1>2, <1>11
  <2>2. Applied(view, events) = Show(f[m], events[n])
    BY <1>3, <2>1
  <2>. QED
    BY <1>1, <1>9, <1>11, <2>2
<1>. QED
  BY <1>10, <1>11

-----------------------------------------------------------------------------
(* Draining an inbox in which only chunks wait, with one frame behind them *)
(* or none.                                                                *)

\* Chunks flow from the inbox to the page, and what does not stays.
Flows(view, b, v, left) ==
  /\ ~v.over
  /\ v.open <=> view.open
  /\ v.prompt <=> view.prompt
  /\ v.snapshots <=> view.snapshots
  /\ Seen(view) \subseteq Seen(v)
  /\ view.open => Text(b.pending) \subseteq Seen(v) \cup Text(left.pending)
  /\ left.terminal <=> b.terminal
  /\ left.rev = b.rev
  /\ left.pending \in Seq(Frames)
  /\ left.last = b.last \/ \E j \in DOMAIN b.pending : left.last = b.pending[j].seq
  /\ \A i \in DOMAIN left.pending :
       left.last < left.pending[i].seq /\ \E j \in DOMAIN b.pending : left.pending[i] = b.pending[j]

LEMMA DrainChunks ==
  ASSUME NEW b, b.pending \in Seq(Frames), Stateless(b.pending, Len(b.pending)), SeqsRise(b.pending),
         \A i \in DOMAIN b.pending : b.last < b.pending[i].seq,
         NEW view, IsView(view), ~view.over, NEW force \in BOOLEAN,
         NEW d, d = Drain(b, force), NEW v, v = Applied(view, d.events)
  PROVE  Flows(view, b, v, d.inbox) /\ (force => d.inbox.pending = <<>>)
<1>1. PICK p : p = b.pending
  OBVIOUS
<1>2. PICK r \in 0..Len(p) :
           /\ force => r = Len(p)
           /\ d.inbox = [last |-> Drained(b, r).last, rev |-> Drained(b, r).rev,
                         terminal |-> Drained(b, r).terminal, pending |-> SubSeq(p, r + 1, Len(p))]
           /\ d.events = Drained(b, r).events
  BY <1>1, DrainIs
<1>3. PICK q : q = SubSeq(p, r + 1, Len(p))
  OBVIOUS
<1>4. /\ p \in Seq(Frames) /\ Len(p) \in Nat /\ DOMAIN p = 1..Len(p) /\ r \in Nat /\ r <= Len(p)
      /\ SeqsRise(p) /\ Stateless(p, r)
  <2>1. p \in Seq(Frames) /\ Len(p) \in Nat /\ DOMAIN p = 1..Len(p) /\ r \in Nat /\ r <= Len(p)
    BY <1>1
  <2>2. \A i \in 1..r : i \in 1..Len(p)
    BY <2>1
  <2>. QED
    BY <1>1, <2>1, <2>2 DEF Stateless
<1>5. /\ q \in Seq(Frames) /\ DOMAIN q = 1..Len(p) - r /\ (r = Len(p) => q = <<>>)
      /\ \A i \in 1..Len(p) - r : q[i] = p[r + i]
  <2>1. r + 1 \in 1..Len(p) + 1 /\ Len(p) \in Nat
    BY <1>4
  <2>2. q \in Seq(Frames)
    BY <1>3, <1>4
  <2>3. Len(q) = IF r + 1 <= Len(p) THEN Len(p) - (r + 1) + 1 ELSE 0
    BY <1>3, <1>4, <2>1, SubSeqProperties
  <2>7. r \in Nat /\ Len(p) \in Nat /\ r <= Len(p)
    BY <1>4
  <2>8. Len(q) = Len(p) - r
    BY <2>3, <2>7
  <2>4. Len(q) = Len(p) - r /\ DOMAIN q = 1..Len(q)
    BY <2>2, <2>8
  <2>5. \A i \in 1..Len(p) - r : q[i] = p[r + i]
    BY <1>3, <1>4
  <2>6. r = Len(p) => q = <<>>
    BY <1>4, <2>2, <2>4
  <2>. QED
    BY <2>2, <2>4, <2>5, <2>6
<1>6. \A i \in DOMAIN q : r + i \in DOMAIN p /\ r < r + i /\ q[i] = p[r + i]
  <2>2. r \in Nat /\ Len(p) \in Nat /\ r <= Len(p)
    BY <1>4
  <2>1. \A i \in 1..Len(p) - r : r + i \in 1..Len(p) /\ r < r + i
    BY <2>2
  <2>. QED
    <3>1. SUFFICES ASSUME NEW i \in DOMAIN q PROVE r + i \in DOMAIN p /\ r < r + i /\ q[i] = p[r + i]
      OBVIOUS
    <3>2. i \in 1..Len(p) - r
      BY <1>5
    <3>3. DOMAIN p = 1..Len(p)
      BY <1>4
    <3>4. q[i] = p[r + i]
      BY <1>5, <3>2
    <3>5. r + i \in 1..Len(p) /\ r < r + i
      BY <2>1, <3>2
    <3>. QED
      BY <3>3, <3>4, <3>5
<1>7. PICK d0 : Took(b, r, d0) /\ Drained(b, r) = d0
  <2>1. \E x : Took(b, r, x) /\ Drained(b, r) = IF r = r THEN x ELSE Take(x, b.pending[r])
    BY <1>1, <1>4, TookAll
  <2>. QED
    BY <2>1
<1>8. PICK e : e = d.events
  OBVIOUS
<1>9. e \in Seq(Frames) /\ Len(e) = r /\ \A i \in 1..r : e[i] = p[i]
  BY <1>1, <1>2, <1>7, <1>8 DEF Took
<1>10. \A i \in 1..r : IsChunk(e[i])
  BY <1>4, <1>9 DEF Stateless
<1>11. Flowed(view, e, r, v)
  <2>1. \E w : /\ Flowed(view, e, r, w)
               /\ Applied(view, e) = IF r = Len(e) THEN w ELSE Show(w, e[Len(e)])
    BY <1>4, <1>9, <1>10, FlowedAll
  <2>. QED
    BY <1>8, <1>9, <2>1
<1>12. Text(p) \subseteq TextTo(e, r) \cup Text(q)
  <2>1. SUFFICES ASSUME NEW i \in DOMAIN p, IsChunk(p[i]) PROVE p[i].text \in TextTo(e, r) \cup Text(q)
    BY DEF Text
  <2>2. CASE i <= r
    <3>1. i \in 1..r
      BY <1>4, <2>1, <2>2
    <3>. QED
      BY <1>9, <2>1, <3>1 DEF TextTo
  <2>3. CASE ~(i <= r)
    <3>1. i - r \in 1..Len(p) - r /\ r + (i - r) = i
      BY <1>4, <2>1, <2>3
    <3>2. i - r \in DOMAIN q /\ q[i - r] = p[i]
      BY <1>5, <3>1
    <3>. QED
      BY <2>1, <3>2 DEF Text
  <2>. QED
    BY <2>2, <2>3
<1>13. PICK left : left = d.inbox
  OBVIOUS
<1>14. /\ left.pending = q /\ left.rev = b.rev /\ (left.terminal <=> b.terminal)
       /\ left.last = IF r = 0 THEN b.last ELSE p[r].seq
  BY <1>1, <1>2, <1>3, <1>7, <1>13 DEF Took
<1>15. left.last = b.last \/ \E j \in DOMAIN p : left.last = p[j].seq
  <2>1. r # 0 => r \in DOMAIN p
    BY <1>4
  <2>. QED
    BY <1>14, <2>1
<1>16. \A i \in DOMAIN q : left.last < q[i].seq
  <2>1. SUFFICES ASSUME NEW i \in DOMAIN q PROVE left.last < q[i].seq
    OBVIOUS
  <2>2. r + i \in DOMAIN p /\ r < r + i /\ q[i] = p[r + i]
    BY <1>6
  <2>3. CASE r = 0
    BY <1>1, <1>14, <2>2, <2>3
  <2>4. CASE r # 0
    <3>1. r \in DOMAIN p
      BY <1>4, <2>4
    <3>. QED
      BY <1>4, <1>14, <2>2, <2>4, <3>1 DEF SeqsRise
  <2>. QED
    BY <2>3, <2>4
<1>17. \A i \in DOMAIN q : \E j \in DOMAIN p : q[i] = p[j]
  BY <1>6
<1>18. Flows(view, b, v, left)
  BY <1>1, <1>5, <1>11, <1>12, <1>14, <1>15, <1>16, <1>17 DEF Flows, Flowed
<1>. QED
  BY <1>2, <1>5, <1>13, <1>14, <1>18

\* A frame takes along what waits before it.
Flushed(view, b, q, f, v, left) ==
  /\ v.over <=> IsTerminal(f)
  /\ v.open <=> view.open \/ f.kind = "step_start"
  /\ v.snapshots <=> view.snapshots \/ f.kind = "state_sync"
  /\ f.kind = "interrupt" => v.prompt
  /\ f.kind = "step_start" => (v.prompt <=> view.prompt)
  /\ f.kind = "state_sync" => (v.prompt <=> view.prompt /\ f.status = "waiting_user")
  /\ Seen(view) \subseteq Seen(v)
  /\ view.open => Text(q) \subseteq Seen(v)
  /\ left.pending = <<>> /\ left.last = f.seq /\ left.rev \in {b.rev, f.rev}
  /\ left.terminal <=> b.terminal \/ IsTerminal(f)

LEMMA DrainLast ==
  ASSUME NEW q \in Seq(Frames), Stateless(q, Len(q)), NEW f \in Frames, f.kind \in Shows, ~IsChunk(f),
         NEW b, b.pending = Append(q, f), HasState(f) => ~(f.rev < b.rev),
         NEW view, IsView(view), ~view.over,
         NEW d, d = Drain(b, TRUE), NEW v, v = Applied(view, d.events)
  PROVE  Flushed(view, b, q, f, v, d.inbox)
<1>1. PICK p, m : p = Append(q, f) /\ m = Len(q)
  OBVIOUS
<1>2. /\ p \in Seq(Frames) /\ m \in Nat /\ Len(p) = m + 1 /\ DOMAIN q = 1..m /\ p[m + 1] = f
      /\ \A i \in 1..m : p[i] = q[i]
  BY <1>1
<1>3. PICK r \in 0..Len(p) :
           /\ r = Len(p)
           /\ d.inbox = [last |-> Drained(b, r).last, rev |-> Drained(b, r).rev,
                         terminal |-> Drained(b, r).terminal, pending |-> SubSeq(p, r + 1, Len(p))]
           /\ d.events = Drained(b, r).events
  <2>1. b.pending = p /\ b.pending \in Seq(Frames) /\ TRUE \in BOOLEAN
    BY <1>1, <1>2
  <2>. QED
    BY <2>1, DrainIs
<1>4. Stateless(p, m)
  BY <1>1, <1>2 DEF Stateless
<1>5. PICK d0 : Took(b, m, d0) /\ Drained(b, m + 1) = Take(d0, f)
  <2>1. m + 1 \in Nat /\ m = (m + 1) - 1 /\ m # m + 1
    BY <1>2
  <2>2. Stateless(b.pending, m) /\ b.pending[m + 1] = f
    BY <1>1, <1>2, <1>4
  <2>3. \E x : Took(b, m, x) /\ Drained(b, m + 1) = IF m = m + 1 THEN x ELSE Take(x, b.pending[m + 1])
    BY <1>2, <2>1, <2>2, TookAll
  <2>. QED
    BY <2>1, <2>2, <2>3
<1>6. PICK w : w = Take(d0, f)
  OBVIOUS
<1>7. /\ w.last = f.seq /\ w.rev \in {b.rev, f.rev} /\ (w.terminal <=> b.terminal \/ IsTerminal(f))
      /\ w.events = Append(d0.events, f)
  <2>1. d0.rev = b.rev /\ (d0.terminal <=> b.terminal)
    BY <1>5 DEF Took
  <2>2. ~(HasState(f) /\ f.rev < d0.rev)
    BY <2>1
  <2>3. /\ w.last = f.seq /\ w.rev \in {d0.rev, f.rev} /\ w.terminal = (d0.terminal \/ IsTerminal(f))
        /\ w.events = Append(d0.events, f)
    BY <1>6, <2>2 DEF Take
  <2>. QED
    BY <2>1, <2>3
<1>8. PICK left : left = d.inbox
  OBVIOUS
<1>9. /\ left.last = f.seq /\ left.rev \in {b.rev, f.rev} /\ (left.terminal <=> b.terminal \/ IsTerminal(f))
      /\ left.pending = SubSeq(p, m + 2, m + 1) /\ d.events = w.events
  <2>1. r = m + 1 /\ r + 1 = m + 2
    BY <1>2, <1>3
  <2>. QED
    <3>1. Drained(b, r) = w
      BY <1>5, <1>6, <2>1
    <3>2. left.last = w.last /\ left.rev = w.rev /\ left.terminal = w.terminal
          /\ left.pending = SubSeq(p, r + 1, Len(p))
      BY <1>3, <1>8, <3>1
    <3>3. d.events = w.events
      BY <1>3, <3>1
    <3>. QED
      BY <1>2, <1>7, <2>1, <3>2, <3>3
<1>10. left.pending = <<>>
  <2>1. SubSeq(p, m + 2, m + 1) = <<>>
    BY <1>2
  <2>. QED
    BY <1>9, <2>1
<1>11. PICK e, e0 : e = d.events /\ e0 = d0.events
  OBVIOUS
<1>12. e0 \in Seq(Frames) /\ Len(e0) = m /\ \A i \in 1..m : e0[i] = q[i]
  BY <1>1, <1>2, <1>5, <1>11 DEF Took
<1>13. /\ e \in Seq(Frames) /\ Len(e) = m + 1 /\ e[m + 1] = f
       /\ \A i \in 1..m : e[i] = q[i]
  <2>1. e = Append(e0, f)
    BY <1>7, <1>9, <1>11
  <2>2. e \in Seq(Frames) /\ Len(e) = m + 1 /\ e[m + 1] = f /\ \A i \in 1..m : e[i] = e0[i]
    BY <1>2, <1>12, <2>1
  <2>. QED
    BY <1>12, <2>2
<1>14. PICK u : Flowed(view, e, m, u) /\ v = Show(u, f)
  <2>1. m = Len(e) - 1 /\ m # Len(e)
    BY <1>2, <1>13
  <2>2. \A i \in 1..m : IsChunk(e[i])
    BY <1>1, <1>13 DEF Stateless
  <2>3. \E x : /\ Flowed(view, e, m, x)
               /\ Applied(view, e) = IF m = Len(e) THEN x ELSE Show(x, e[Len(e)])
    BY <1>2, <1>13, <2>1, <2>2, FlowedAll
  <2>. QED
    BY <1>11, <1>13, <2>1, <2>3
<1>15. ShowsAs(u, f, v)
  BY <1>14, ShowsIt DEF Flowed
<1>16. TextTo(e, m) = Text(q)
  BY <1>2, <1>13 DEF TextTo, Text
<1>17. v.shown = u.shown
  BY <1>15 DEF ShowsAs
<1>18. Seen(view) \subseteq Seen(v) /\ (view.open => Text(q) \subseteq Seen(v))
  BY <1>14, <1>16, <1>17 DEF Flowed, Seen
<1>19. Flushed(view, b, q, f, v, left)
  BY <1>9, <1>10, <1>14, <1>15, <1>18 DEF Flushed, ShowsAs, Flowed
<1>. QED
  BY <1>8, <1>19

\* A frame that comes after all that waits is put at the end.
LEMMA InsertedLast ==
  ASSUME NEW pending \in Seq(Frames), NEW f \in Frames, SeqsRise(pending),
         \A k \in DOMAIN pending : pending[k].seq < f.seq
  PROVE  Inserted(pending, f) = Append(pending, f)
<1>1. PICK p : p = Inserted(pending, f)
  OBVIOUS
<1>2. PICK n : n = Len(pending)
  OBVIOUS
<1>3. n \in Nat /\ DOMAIN pending = 1..n /\ f.seq \in Nat /\ \A k \in 1..n : pending[k].seq \in Nat
  <2>1. \A g \in Frames : g.seq \in Nat
    BY DEF Frames
  <2>2. n \in Nat /\ DOMAIN pending = 1..n /\ \A k \in 1..n : pending[k] \in Frames
    BY <1>2
  <2>. QED
    BY <2>1, <2>2
<1>4. \A k \in DOMAIN pending : pending[k].seq # f.seq
  BY <1>3
<1>5. PICK at \in 0..n :
        /\ Split(pending, f, at) /\ p \in Seq(Frames) /\ Len(p) = n + 1
        /\ \A i \in 1..n + 1 : p[i] = IF i <= at THEN pending[i] ELSE IF i = at + 1 THEN f ELSE pending[i - 1]
  BY <1>1, <1>2, <1>4, InsertedIs
<1>6. at = n
  <2>1. SUFFICES ASSUME at # n PROVE FALSE
    OBVIOUS
  <2>2. at + 1 \in 1..n /\ at + 1 \in at + 1..n
    BY <1>3, <2>1
  <2>3. pending[at + 1].seq > f.seq
    BY <1>2, <1>5, <2>2 DEF Split
  <2>4. pending[at + 1].seq < f.seq
    BY <1>3, <2>2
  <2>. QED
    BY <1>3, <2>2, <2>3, <2>4
<1>7. PICK a : a = Append(pending, f)
  OBVIOUS
<1>8. /\ a \in Seq(Frames) /\ Len(a) = n + 1 /\ a[n + 1] = f
      /\ \A i \in 1..n : a[i] = pending[i]
  BY <1>2, <1>7
<1>9. \A i \in 1..n + 1 : p[i] = a[i]
  BY <1>3, <1>5, <1>6, <1>8
<1>10. p = a
  BY <1>3, <1>5, <1>8, <1>9
<1>. QED
  BY <1>1, <1>7, <1>10

\* What handling a frame that comes after all that waits means.
Handles(inbox, f, d) ==
  \/ Refuses(inbox, f) /\ d = Drain(inbox, ~IsChunk(f))
  \/ /\ ~Refuses(inbox, f) /\ f.kind # "state_sync"
     /\ \E b : /\ b = [last |-> inbox.last, pending |-> Append(inbox.pending, f), rev |-> inbox.rev,
                       terminal |-> inbox.terminal]
               /\ d = Drain(b, ~IsChunk(f))
  \/ /\ ~Refuses(inbox, f) /\ f.kind = "state_sync"
     /\ \E b : /\ b = [last |-> f.seq - 1, pending |-> Append(<<>>, f), rev |-> inbox.rev,
                       terminal |-> inbox.terminal]
               /\ d = Drain(b, TRUE)

LEMMA HandlesIt ==
  ASSUME NEW inbox, IsInbox(inbox), NEW f \in Frames,
         \A k \in DOMAIN inbox.pending : inbox.pending[k].seq < f.seq
  PROVE  Handles(inbox, f, Handle(inbox, f))
<1>0. Batchable(f) <=> IsChunk(f)
  BY DEF Batchable, IsChunk
<1>1. CASE Refuses(inbox, f)
  <2>1. Handle(inbox, f) = Drain(inbox, ~IsChunk(f))
    BY <1>0, <1>1 DEF Handle
  <2>. QED
    BY <1>1, <2>1 DEF Handles
<1>2. CASE ~Refuses(inbox, f)
  <2>1. PICK s : s = Synced(inbox, f)
    OBVIOUS
  <2>2. PICK l, p, v, t : /\ inbox = [last |-> l, pending |-> p, rev |-> v, terminal |-> t]
                          /\ inbox.last = l /\ inbox.pending = p /\ inbox.rev = v /\ inbox.terminal = t
                          /\ p \in Seq(Frames) /\ SeqsRise(p)
    BY DEF IsInbox
  <2>3. PICK b : b = [s EXCEPT !.pending = Inserted(@, f)]
    OBVIOUS
  <2>4. Handle(inbox, f) = Drain(b, ~IsChunk(f))
    BY <1>0, <1>2, <2>1, <2>3 DEF Handle
  <2>5. CASE f.kind # "state_sync"
    <3>1. s = inbox
      BY <2>1, <2>5 DEF Synced
    <3>2. Inserted(p, f) = Append(p, f)
      BY <2>2, InsertedLast
    <3>3. b = [last |-> l, pending |-> Inserted(p, f), rev |-> v, terminal |-> t]
      BY <2>2, <2>3, <3>1
    <3>4. b = [last |-> inbox.last, pending |-> Append(inbox.pending, f), rev |-> inbox.rev,
               terminal |-> inbox.terminal]
      BY <2>2, <3>2, <3>3
    <3>. QED
      BY <1>2, <2>4, <2>5, <3>4 DEF Handles
  <2>6. CASE f.kind = "state_sync"
    <3>1. s = [inbox EXCEPT !.pending = <<>>, !.last = f.seq - 1]
      BY <2>1, <2>6 DEF Synced
    <3>2. s = [last |-> f.seq - 1, pending |-> <<>>, rev |-> v, terminal |-> t]
      BY <2>2, <3>1
    <3>3. <<>> \in Seq(Frames) /\ SeqsRise(<<>>) /\ \A k \in DOMAIN <<>> : <<>>[k].seq < f.seq
      BY DEF SeqsRise
    <3>4. PICK z : z = <<>>
      OBVIOUS
    <3>5. Inserted(z, f) = Append(z, f)
      BY <3>3, <3>4, InsertedLast
    <3>6. b = [last |-> f.seq - 1, pending |-> Inserted(z, f), rev |-> v, terminal |-> t]
      BY <2>3, <3>2, <3>4
    <3>7. b = [last |-> f.seq - 1, pending |-> Append(<<>>, f), rev |-> inbox.rev, terminal |-> inbox.terminal]
      BY <2>2, <3>4, <3>5, <3>6
    <3>8. ~IsChunk(f) /\ Drain(b, ~IsChunk(f)) = Drain(b, TRUE)
      BY <2>6 DEF IsChunk
    <3>. QED
      BY <1>2, <2>4, <2>6, <3>7, <3>8 DEF Handles
  <2>. QED
    BY <2>5, <2>6
<1>. QED
  BY <1>1, <1>2

-----------------------------------------------------------------------------
(* The stages, as a frame is published, put, dispatched or sent.           *)

\* What publishing a frame makes of the queue and of the put that waits.
Queues(q0, p0, f, q, p) ==
  \/ q = Append(q0, f) /\ p = p0
  \/ q = q0 /\ p = f /\ f.kind # "state_sync"
  \/ q = q0 /\ p = p0 /\ f.kind = "state_sync"

\* A frame as another stage has it.
Same(g, f) == g.kind = f.kind /\ g.text = f.text /\ g.rev = f.rev /\ g.status = f.status

LEMMA SameIs ==
  ASSUME NEW f, NEW g, Same(g, f)
  PROVE  /\ IsChunk(g) <=> IsChunk(f)
         /\ Text(<<g>>) = Text(<<f>>)
         /\ Ends(g) <=> Ends(f)
         /\ Plain(g) <=> Plain(f)
         /\ Waits(g) <=> Waits(f)
         /\ \A t : Fit(t, g) <=> Fit(t, f)
<1>1. IsChunk(g) <=> IsChunk(f)
  BY DEF Same, IsChunk
<1>2. Text(<<g>>) = Text(<<f>>)
  BY <1>1, TextOfOne DEF Same
<1>. QED
  BY <1>1, <1>2 DEF Same, Ends, Plain, Waits, Fit, HasState

\* A frame with no text at the end of a stage.
LEMMA NoTextMore ==
  ASSUME NEW s \in Seq(Frames), NEW f \in Frames, ~IsChunk(f)
  PROVE  Text(Append(s, f)) = Text(s)
<1>1. Text(<<f>>) = {}
  BY TextOfOne
<1>2. Text(Append(s, f)) = Text(s) \cup Text(<<f>>)
  BY TextAppended
<1>. QED
  BY <1>1, <1>2

LEMMA NoneIs ==
  /\ None.kind = "none" /\ None.rev = NoRevision /\ None.status = "none"
  /\ Text(<<None>>) = {} /\ Plain(None) /\ ~Ends(None) /\ ~IsChunk(None) /\ Text(<<>>) = {}
  /\ \A t : t.rev \in Nat => Fit(t, None)
<1>1. None = [kind |-> "none", seq |-> 0, rev |-> NoRevision, status |-> "none", text |-> 0]
  BY DEF None, Frame
<1>2. None.kind = "none" /\ None.rev = NoRevision /\ None.status = "none"
  BY <1>1
<1>3. Plain(None) /\ ~Ends(None) /\ ~IsChunk(None)
  BY <1>2 DEF Plain, Ends, IsChunk
<1>4. ASSUME NEW t, t.rev \in Nat PROVE Fit(t, None)
  <2>1. None.rev <= t.rev
    BY <1>2, <1>4 DEF NoRevision
  <2>. QED
    BY <1>2, <1>3, <1>4, <2>1 DEF Fit, Outcomes, NoRevision
<1>. QED
  BY <1>2, <1>3, <1>4, TextOfNothing

\* The end of the turn.
LEMMA EndQueues ==
  ASSUME NEW d, NEW flying, NEW q0 \in Seq(Frames), NEW p0, NEW f \in Frames, NEW q, NEW p,
         EndOrder(d, flying, q0, p0), Queues(q0, p0, f, q, p), p0 = None \/ f.kind = "state_sync",
         IsChunk(f) => d = None /\ ~Ended(flying) /\ ~Ended(q0)
  PROVE  EndOrder(d, flying, q, p)
<1>1. Grows(q0, f, Append(q0, f)) /\ Text(Append(q0, f)) = Text(q0) \cup Text(<<f>>)
  BY AppendGrows, TextAppended
<1>2. ~IsChunk(f) => Text(<<f>>) = {}
  BY TextOfOne
<1>3. f.kind = "state_sync" => ~IsChunk(f) /\ ~Ends(f)
  BY DEF IsChunk, Ends
<1>4. CASE q = Append(q0, f) /\ p = p0
  BY <1>1, <1>2, <1>3, <1>4, NoneIs DEF EndOrder, Grows
<1>5. CASE q = q0 /\ p = f /\ f.kind # "state_sync"
  BY <1>1, <1>2, <1>5 DEF EndOrder
<1>6. CASE q = q0 /\ p = p0
  BY <1>6
<1>. QED
  BY <1>4, <1>5, <1>6 DEF Queues

LEMMA EndPut ==
  ASSUME NEW d, NEW flying, NEW q \in Seq(Frames), NEW p \in Frames, EndOrder(d, flying, q, p)
  PROVE  EndOrder(d, flying, Append(q, p), None)
<1>1. Grows(q, p, Append(q, p)) /\ Text(Append(q, p)) = Text(q) \cup Text(<<p>>)
  BY AppendGrows, TextAppended
<1>. QED
  BY <1>1, NoneIs DEF EndOrder, Grows

LEMMA EndSent ==
  ASSUME NEW d, NEW flying \in Seq(Frames), NEW q \in Seq(Frames), NEW p, q # <<>>, NEW g \in Frames,
         Same(g, Head(q)), EndOrder(d, flying, q, p)
  PROVE  EndOrder(d, Append(flying, g), Tail(q), p)
<1>1. Grows(flying, g, Append(flying, g)) /\ Text(Append(flying, g)) = Text(flying) \cup Text(<<g>>)
  BY AppendGrows, TextAppended
<1>2. /\ Shrinks(q, Head(q), Tail(q)) /\ Text(Tail(q)) \subseteq Text(q)
      /\ Text(<<Head(q)>>) \subseteq Text(q)
  BY TailShrinks, TextOfTail
<1>3. Text(<<g>>) = Text(<<Head(q)>>) /\ (Ends(g) <=> Ends(Head(q)))
  BY SameIs
<1>4. EndsLast(Append(flying, g)) /\ EndsLast(Tail(q))
  BY <1>1, <1>2, <1>3 DEF EndOrder, Grows, Shrinks
<1>5. Ended(Append(flying, g)) => Ended(flying) \/ Ends(g)
  BY <1>1 DEF Grows
<1>6. (Ends(g) => Ended(q) /\ Text(Tail(q)) = {}) /\ (Ended(Tail(q)) => Ended(q))
  BY <1>2, <1>3 DEF EndOrder, Shrinks
<1>. QED
  BY <1>1, <1>2, <1>3, <1>4, <1>5, <1>6 DEF EndOrder

LEMMA EndSynced ==
  ASSUME NEW d, NEW flying \in Seq(Frames), NEW q, NEW p, NEW g \in Frames, g.kind = "state_sync",
         EndOrder(d, flying, q, p)
  PROVE  EndOrder(d, Append(flying, g), q, p)
<1>1. ~IsChunk(g) /\ ~Ends(g)
  BY DEF IsChunk, Ends
<1>2. Grows(flying, g, Append(flying, g)) /\ Text(Append(flying, g)) = Text(flying) /\ Text(<<g>>) = {}
  BY <1>1, AppendGrows, NoTextMore, TextOfOne
<1>. QED
  BY <1>1, <1>2 DEF EndOrder, Grows

\* The start of a text segment.
LEMMA ComingQueues ==
  ASSUME NEW flying, NEW q0 \in Seq(Frames), NEW p0, NEW f \in Frames, NEW q, NEW p, NEW s0, NEW s,
         Coming(flying, q0, p0, s0), Queues(q0, p0, f, q, p), p0 = None \/ f.kind = "state_sync",
         f.kind = "step_start" \/ (Plain(f) /\ s = s0) \/ (s0 # 0 /\ p0 = None)
  PROVE  Coming(flying, q, p, s)
<1>1. Grows(q0, f, Append(q0, f))
  BY AppendGrows
<1>2. f.kind = "state_sync" => Plain(f) /\ f.kind # "step_start"
  BY DEF Plain
<1>3. None.kind # "step_start" /\ Plain(None)
  BY NoneIs
<1>4. CASE Opens(flying)
  BY <1>4 DEF Coming
<1>5. CASE Still(flying) /\ Opens(q0)
  BY <1>1, <1>5 DEF Coming, Queues, Grows
<1>6. CASE Still(flying) /\ Still(q0) /\ p0.kind = "step_start"
  BY <1>1, <1>2, <1>3, <1>6 DEF Coming, Queues, Grows
<1>7. CASE Still(flying) /\ Still(q0) /\ Plain(p0) /\ s0 = 0
  <2>1. CASE f.kind = "step_start"
    BY <1>1, <1>7, <2>1 DEF Coming, Queues, Grows
  <2>2. CASE Plain(f) /\ s = s0
    BY <1>1, <1>7, <2>2 DEF Coming, Queues, Grows
  <2>. QED
    BY <1>7, <2>1, <2>2
<1>. QED
  BY <1>4, <1>5, <1>6, <1>7 DEF Coming

LEMMA ComingPut ==
  ASSUME NEW flying, NEW q \in Seq(Frames), NEW p \in Frames, NEW s, Coming(flying, q, p, s)
  PROVE  Coming(flying, Append(q, p), None, s)
<1>1. Grows(q, p, Append(q, p))
  BY AppendGrows
<1>. QED
  BY <1>1, NoneIs DEF Coming, Grows

LEMMA ComingSent ==
  ASSUME NEW flying \in Seq(Frames), NEW q \in Seq(Frames), NEW p, NEW s, q # <<>>, NEW g \in Frames,
         Same(g, Head(q)), Coming(flying, q, p, s)
  PROVE  Coming(Append(flying, g), Tail(q), p, s)
<1>1. Grows(flying, g, Append(flying, g)) /\ Shrinks(q, Head(q), Tail(q))
  BY AppendGrows, TailShrinks
<1>2. (Plain(g) <=> Plain(Head(q))) /\ g.kind = Head(q).kind
  BY SameIs DEF Same
<1>. QED
  BY <1>1, <1>2 DEF Coming, Grows, Shrinks

LEMMA ComingSynced ==
  ASSUME NEW flying \in Seq(Frames), NEW q, NEW p, NEW s, NEW g \in Frames, g.kind = "state_sync",
         Coming(flying, q, p, s)
  PROVE  Coming(Append(flying, g), q, p, s)
<1>1. Grows(flying, g, Append(flying, g)) /\ Plain(g)
  BY AppendGrows DEF Plain
<1>. QED
  BY <1>1 DEF Coming, Grows

\* The text.
LEMMA WholeQueues ==
  ASSUME NEW view, NEW pending, NEW flying, NEW q0 \in Seq(Frames), NEW p0, NEW f \in Frames, NEW q, NEW p,
         NEW n0 \in Nat, NEW n, Whole(view, pending, flying, q0, p0, n0), Queues(q0, p0, f, q, p),
         p0 = None \/ f.kind = "state_sync",
         IF IsChunk(f) THEN f.text = n0 + 1 /\ n = n0 + 1 ELSE n = n0
  PROVE  Whole(view, pending, flying, q, p, n)
<1>1. Text(Append(q0, f)) = Text(q0) \cup Text(<<f>>)
  BY TextAppended
<1>2. 1..n \subseteq 1..n0 \cup Text(<<f>>)
  <2>1. CASE IsChunk(f)
    <3>1. Text(<<f>>) = {n0 + 1}
      BY <2>1, TextOfOne
    <3>. QED
      BY <2>1, <3>1
  <2>2. CASE ~IsChunk(f)
    BY <2>2
  <2>. QED
    BY <2>1, <2>2
<1>3. f.kind = "state_sync" => Text(<<f>>) = {}
  BY TextOfOne DEF IsChunk
<1>4. Text(<<None>>) = {}
  BY NoneIs
<1>. QED
  BY <1>1, <1>2, <1>3, <1>4 DEF Whole, Queues

LEMMA WholePut ==
  ASSUME NEW view, NEW pending, NEW flying, NEW q \in Seq(Frames), NEW p \in Frames, NEW n,
         Whole(view, pending, flying, q, p, n)
  PROVE  Whole(view, pending, flying, Append(q, p), None, n)
<1>1. Text(Append(q, p)) = Text(q) \cup Text(<<p>>)
  BY TextAppended
<1>. QED
  BY <1>1 DEF Whole

LEMMA WholeSent ==
  ASSUME NEW view, NEW pending, NEW flying \in Seq(Frames), NEW q \in Seq(Frames), NEW p, NEW n, q # <<>>,
         NEW g \in Frames, Same(g, Head(q)), Whole(view, pending, flying, q, p, n)
  PROVE  Whole(view, pending, Append(flying, g), Tail(q), p, n)
<1>1. Text(Append(flying, g)) = Text(flying) \cup Text(<<g>>) /\ Text(<<g>>) = Text(<<Head(q)>>)
  BY TextAppended, SameIs
<1>2. Text(q) \subseteq Text(Tail(q)) \cup Text(<<Head(q)>>)
  BY TextOfTail
<1>. QED
  BY <1>1, <1>2 DEF Whole

LEMMA WholeSynced ==
  ASSUME NEW view, NEW pending, NEW flying \in Seq(Frames), NEW q, NEW p, NEW n,
         NEW g \in Frames, g.kind = "state_sync", Whole(view, pending, flying, q, p, n)
  PROVE  Whole(view, pending, Append(flying, g), q, p, n)
<1>1. Text(Append(flying, g)) = Text(flying)
  BY NoTextMore DEF IsChunk
<1>. QED
  BY <1>1 DEF Whole

\* The question.
LEMMA AskedQueues ==
  ASSUME NEW prompt, NEW flying, NEW q0 \in Seq(Frames), NEW p0, NEW f \in Frames, NEW q, NEW p, NEW rev,
         Queues(q0, p0, f, q, p),
         \/ f.kind = "interrupt" /\ f.rev = rev
         \/ f.kind = "state_sync" /\ Waits(f) /\ Asked(prompt, flying, q0, p0, rev)
  PROVE  Asked(prompt, flying, q, p, rev)
<1>1. Grows(q0, f, Append(q0, f))
  BY AppendGrows
<1>2. CASE f.kind = "interrupt" /\ f.rev = rev
  BY <1>1, <1>2 DEF Asked, Queues, Grows
<1>3. CASE f.kind = "state_sync" /\ Waits(f) /\ Asked(prompt, flying, q0, p0, rev)
  BY <1>1, <1>3 DEF Asked, Queues, Grows
<1>. QED
  BY <1>2, <1>3

LEMMA AskedPut ==
  ASSUME NEW prompt, NEW flying, NEW q \in Seq(Frames), NEW p \in Frames, NEW rev, Waits(p),
         Asked(prompt, flying, q, p, rev)
  PROVE  Asked(prompt, flying, Append(q, p), None, rev)
<1>1. Grows(q, p, Append(q, p))
  BY AppendGrows
<1>. QED
  BY <1>1 DEF Asked, Grows

LEMMA AskedSent ==
  ASSUME NEW prompt, NEW flying \in Seq(Frames), NEW q \in Seq(Frames), NEW p, NEW rev, q # <<>>,
         NEW g \in Frames, Same(g, Head(q)), Asked(prompt, flying, q, p, rev)
  PROVE  Asked(prompt, Append(flying, g), Tail(q), p, rev)
<1>1. Grows(flying, g, Append(flying, g)) /\ Shrinks(q, Head(q), Tail(q))
  BY AppendGrows, TailShrinks
<1>2. (Waits(g) <=> Waits(Head(q))) /\ g.kind = Head(q).kind /\ g.rev = Head(q).rev
  BY SameIs DEF Same
<1>. QED
  BY <1>1, <1>2 DEF Asked, Grows, Shrinks

LEMMA AskedSynced ==
  ASSUME NEW prompt, NEW flying \in Seq(Frames), NEW q, NEW p, NEW rev,
         NEW g \in Frames, Waits(g), Asked(prompt, flying, q, p, rev)
  PROVE  Asked(prompt, Append(flying, g), q, p, rev)
<1>1. Grows(flying, g, Append(flying, g))
  BY AppendGrows
<1>. QED
  BY <1>1 DEF Asked, Grows

-----------------------------------------------------------------------------
(* While the connection holds: the run and its dispatcher.                 *)

\* A later turn: what fitted the turn before fits it.
Later(t, t1) ==
  /\ t.rev \in Nat /\ t1.rev \in Nat /\ t.rev <= t1.rev
  /\ t.status \in Outcomes => t1.status \in Outcomes

LEMMA FitsLater ==
  ASSUME NEW t, NEW t1, Later(t, t1)
  PROVE  /\ \A f \in Frames \cup {None} : Fit(t, f) => Fit(t1, f)
         /\ \A s \in Seq(Frames) : AllFit(t, s) => AllFit(t1, s)
<1>1. \A f \in Frames \cup {None} : f.rev \in Int
  BY NoneIs DEF Frames, NoRevision
<1>2. ASSUME NEW f \in Frames \cup {None}, Fit(t, f) PROVE Fit(t1, f)
  <2>1. f.rev <= t1.rev
    BY <1>1, <1>2 DEF Fit, Later
  <2>. QED
    BY <1>2, <2>1 DEF Fit, Later
<1>3. ASSUME NEW s \in Seq(Frames), AllFit(t, s) PROVE AllFit(t1, s)
  <2>1. \A k \in DOMAIN s : s[k] \in Frames
    OBVIOUS
  <2>. QED
    BY <1>2, <1>3, <2>1 DEF AllFit
<1>. QED
  BY <1>2, <1>3

\* What the first invariant says of the types.
LEMMA TypesAre ==
  ASSUME SDInv
  PROVE  /\ net \in Seq(Frames) /\ out.queue \in Seq(Frames) /\ client.inbox.pending \in Seq(Frames)
         /\ out.putting \in Frames \cup {None} /\ out.latest \in Frames \cup {None}
         /\ client.deferred \in Frames \cup {None} /\ client.settled \in BOOLEAN
         /\ turn.rev \in Nat /\ turn.text \in Nat /\ turn.steps \in Nat /\ link.seq \in Nat
         /\ turn.status \in {"running", "waiting_user", "completed", "failed"}
<1>1. turn.text \in 0..MaxText /\ turn.steps \in 0..MaxSteps
  BY DEF SDInv, RunInv
<1>2. turn.text \in Nat /\ turn.steps \in Nat
  BY <1>1, DeliveryAssumption
<1>. QED
  BY <1>2 DEF SDInv, RunInv, OutInv, LinkInv, ClientInv, Outcomes

LEMMA PublishedAll ==
  ASSUME OutInv, NEW f \in Frames, out' = Published(f)
  PROVE  /\ Queues(out.queue, out.putting, f, out'.queue, out'.putting)
         /\ out'.latest \in {out.latest, f}
         /\ HasState(f) => out'.latest = f
<1>1. PICK q, p, l, s, z, h :
        /\ out = [queue |-> q, putting |-> p, latest |-> l, snapshot |-> s, sent |-> z, phase |-> h]
        /\ out.sent = z /\ out.phase = h /\ out.queue = q /\ out.putting = p /\ out.latest = l
  BY DEF OutInv
<1>2. PICK full \in BOOLEAN : full <=> Len(q) >= QueueLimit
  OBVIOUS
<1>3. PICK l1, s1, p1, q1 : /\ l1 = IF HasState(f) THEN f ELSE l
                            /\ s1 = (s \/ (full /\ HasState(f)))
                            /\ p1 = IF full /\ ~MayBeDropped(f) THEN f ELSE p
                            /\ q1 = IF full THEN q ELSE Append(q, f)
  OBVIOUS
<1>4. Published(f) = [out EXCEPT !.latest = IF HasState(f) THEN f ELSE @,
                                 !.snapshot = @ \/ (full /\ HasState(f)),
                                 !.putting = IF full /\ ~MayBeDropped(f) THEN f ELSE @,
                                 !.queue = IF full THEN @ ELSE Append(@, f)]
  BY <1>1, <1>2 DEF Published
<1>5. Published(f) = [queue |-> q1, putting |-> p1, latest |-> l1, snapshot |-> s1, sent |-> z, phase |-> h]
  BY <1>1, <1>3, <1>4
<1>6. out'.queue = q1 /\ out'.putting = p1 /\ out'.latest = l1
  BY <1>5
<1>7. Queues(q, p, f, q1, p1)
  BY <1>3 DEF Queues, MayBeDropped
<1>. QED
  BY <1>1, <1>3, <1>6, <1>7

\* Nothing of the client's own changes: its part follows from the turn's and the connection's.
LEMMA ClientStays ==
  ASSUME SDInv, SeqInv, Later(turn, turn'), UNCHANGED <<client, link, net>>
  PROVE  SeqInv'
<1>1. turn'.rev \in Nat /\ turn.rev \in Nat /\ turn.rev <= turn'.rev
  BY DEF Later
<1>2. CASE client.settled
  BY <1>2 DEF SeqInv
<1>3. CASE ~client.settled
  <2>1. client.inbox.rev \in Int /\ client.inbox.rev <= turn.rev
    BY <1>3 DEF SeqInv
  <2>2. client.inbox.rev <= turn'.rev
    BY <1>1, <2>1
  <2>. QED
    BY <1>3, <2>1, <2>2 DEF SeqInv
<1>. QED
  BY <1>2, <1>3

LEMMA PublishKept ==
  ASSUME SDInv, Kept, NEW f \in Frames, out' = Published(f), out.putting = None \/ f.kind = "state_sync",
         UNCHANGED <<link, net, client>>, ops' \in Seq({"sync"}),
         Later(turn, turn'), Fit(turn', f),
         IF IsChunk(f) THEN f.text = turn.text + 1 /\ turn'.text = turn.text + 1 /\ turn.status = "running"
                       ELSE turn'.text = turn.text,
         f.kind = "step_start" \/ (Plain(f) /\ turn'.steps = turn.steps) \/ (turn.steps # 0 /\ out.putting = None),
         turn'.status = "waiting_user" =>
           /\ HasState(f) /\ f.status = "waiting_user"
           /\ \/ f.kind = "interrupt" /\ f.rev = turn'.rev
              \/ f.kind = "state_sync" /\ UNCHANGED turn
  PROVE  Kept'
<1>1. PICK q, p, l : q = out'.queue /\ p = out'.putting /\ l = out'.latest
  OBVIOUS
<1>2. /\ Queues(out.queue, out.putting, f, q, p) /\ l \in {out.latest, f}
      /\ HasState(f) => l = f
  BY <1>1, PublishedAll DEF SDInv
<1>3. /\ net \in Seq(Frames) /\ out.queue \in Seq(Frames) /\ client.inbox.pending \in Seq(Frames)
      /\ out.putting \in Frames \cup {None} /\ out.latest \in Frames \cup {None}
      /\ turn.text \in Nat
  BY TypesAre
<1>4. FitInv'
  <2>1. Grows(out.queue, f, Append(out.queue, f))
    BY <1>3, AppendGrows
  <2>2. /\ AllFit(turn', net) /\ AllFit(turn', out.queue) /\ Fit(turn', out.putting) /\ Fit(turn', out.latest)
        /\ AllFit(turn', client.inbox.pending)
    BY <1>3, FitsLater DEF Kept, FitInv
  <2>3. AllFit(turn', q) /\ Fit(turn', p) /\ Fit(turn', l)
    BY <1>2, <2>1, <2>2 DEF Grows, Queues
  <2>4. p.kind # "state_sync"
    BY <1>2, NoneIs DEF Queues, Kept, FitInv
  <2>5. client.deferred # None \/ client.settled => turn'.status \in Outcomes
    BY DEF Kept, FitInv, Later
  <2>. QED
    BY <1>1, <2>2, <2>3, <2>4, <2>5 DEF Kept, FitInv
<1>5. SeqInv'
  BY ClientStays DEF Kept
<1>6. IsChunk(f) => client.deferred = None /\ ~client.settled /\ ~Ended(net) /\ ~Ended(out.queue)
  <2>1. SUFFICES ASSUME turn.status = "running"
                 PROVE  client.deferred = None /\ ~client.settled /\ ~Ended(net) /\ ~Ended(out.queue)
    OBVIOUS
  <2>2. turn.status \notin Outcomes
    BY <2>1 DEF Outcomes
  <2>. QED
    BY <2>2 DEF Kept, FitInv, AllFit, Fit, Ended
<1>7. EndInv'
  <2>1. EndOrder(client.deferred, net, q, p)
    BY <1>2, <1>3, <1>6, EndQueues DEF Kept, EndInv
  <2>. QED
    BY <1>1, <2>1 DEF EndInv
<1>8. TextInv'
  <2>1. SUFFICES ASSUME ~client.view.snapshots PROVE TextInv'
    BY DEF TextInv
  <2>2. CASE client.settled
    <3>1. turn'.text = turn.text
      BY <1>6, <2>2
    <3>. QED
      BY <2>1, <2>2, <3>1 DEF TextInv, Kept
  <2>3. CASE ~client.settled
    <3>1. Whole(client.view, client.inbox.pending, net, out.queue, out.putting, turn.text)
      BY <2>1, <2>3 DEF TextInv, Kept
    <3>2. Whole(client.view, client.inbox.pending, net, q, p, turn'.text)
      <4>1. IF IsChunk(f) THEN f.text = turn.text + 1 /\ turn'.text = turn.text + 1 ELSE turn'.text = turn.text
        OBVIOUS
      <4>. QED
        BY <1>2, <1>3, <3>1, <4>1, WholeQueues
    <3>3. ~client.view.open =>
            /\ client.inbox.rev = NoRevision /\ client.inbox.pending = <<>>
            /\ Coming(net, q, p, turn'.steps)
      <4>1. SUFFICES ASSUME ~client.view.open
                     PROVE  /\ client.inbox.rev = NoRevision /\ client.inbox.pending = <<>>
                            /\ Coming(net, q, p, turn'.steps)
        OBVIOUS
      <4>2. /\ client.inbox.rev = NoRevision /\ client.inbox.pending = <<>>
            /\ Coming(net, out.queue, out.putting, turn.steps)
        BY <2>1, <2>3, <4>1 DEF TextInv, Kept
      <4>3. Coming(net, q, p, turn'.steps)
        BY <1>2, <1>3, <4>2, ComingQueues
      <4>. QED
        BY <4>2, <4>3
    <3>. QED
      BY <1>1, <2>3, <3>2, <3>3 DEF TextInv
  <2>. QED
    BY <2>2, <2>3
<1>9. WaitInv'
  <2>1. SUFFICES ASSUME turn'.status = "waiting_user" PROVE WaitInv'
    BY DEF WaitInv
  <2>2. l = f /\ f.status = "waiting_user"
    BY <1>2, <2>1
  <2>3. CASE f.kind = "interrupt" /\ f.rev = turn'.rev
    <3>1. Asked(client.view.prompt, net, q, p, turn'.rev)
      BY <1>2, <1>3, <2>3, AskedQueues
    <3>. QED
      BY <1>1, <2>2, <3>1 DEF WaitInv
  <2>4. CASE f.kind = "state_sync" /\ UNCHANGED turn
    <3>1. Asked(client.view.prompt, net, out.queue, out.putting, turn.rev) /\ Waits(f)
      BY <2>1, <2>2, <2>4 DEF Kept, WaitInv, Waits
    <3>2. Asked(client.view.prompt, net, q, p, turn.rev)
      BY <1>2, <1>3, <2>4, <3>1, AskedQueues
    <3>. QED
      BY <1>1, <2>2, <2>4, <3>2 DEF WaitInv
  <2>. QED
    BY <2>1, <2>3, <2>4
<1>. QED
  BY <1>4, <1>5, <1>7, <1>8, <1>9 DEF Kept

LEMMA RunStepsKept ==
  ASSUME SDInv, Kept, RunSteps
  PROVE  Kept'
<1>1. PICK status, rev, text, steps, marks, asks :
        /\ turn = [status |-> status, rev |-> rev, text |-> text, steps |-> steps, marks |-> marks, asks |-> asks]
        /\ rev \in Nat /\ text \in Nat /\ steps \in Nat
        /\ turn.status = status /\ turn.rev = rev /\ turn.text = text /\ turn.steps = steps
  BY TypesAre DEF SDInv, RunInv
<1>2. PICK q, p, l, s, z, h :
        /\ out = [queue |-> q, putting |-> p, latest |-> l, snapshot |-> s, sent |-> z, phase |-> h]
        /\ q \in Seq(Frames) /\ p \in Frames \cup {None} /\ l \in Frames \cup {None}
        /\ out.queue = q /\ out.putting = p /\ out.latest = l
  BY DEF SDInv, OutInv
<1>3. /\ net \in Seq(Frames) /\ client.inbox.pending \in Seq(Frames) /\ ops \in Seq({"sync"})
      /\ {"running", "waiting_user", "completed"} \subseteq Statuses
      /\ {"step_start", "interrupt", "done"} \subseteq Kinds
  BY TypesAre DEF Kept, Statuses, Kinds
<1>4. ASSUME RunMoves, RunKeeps, NEW f \in Frames, out' = Published(f),
             Later(turn, turn'), Fit(turn', f),
             IF IsChunk(f) THEN f.text = turn.text + 1 /\ turn'.text = turn.text + 1 /\ turn.status = "running"
                           ELSE turn'.text = turn.text,
             f.kind = "step_start" \/ (Plain(f) /\ turn'.steps = turn.steps) \/ turn.steps # 0,
             turn'.status = "waiting_user" =>
               HasState(f) /\ f.status = "waiting_user" /\ f.kind = "interrupt" /\ f.rev = turn'.rev
      PROVE  Kept'
  <2>1. out.putting = None /\ UNCHANGED <<link, net, client>> /\ ops' = ops
    BY <1>4 DEF RunMoves, RunKeeps
  <2>2. ops' \in Seq({"sync"})
    BY <1>3, <2>1
  <2>. QED
    BY <1>4, <2>1, <2>2, PublishKept
<1>5. ASSUME RunKeeps, out'.queue = q, out'.putting = p, out'.latest \in {None, l}, Later(turn, turn'),
             turn'.text = text, turn'.steps = steps, turn'.status # "waiting_user"
      PROVE  Kept'
  <2>1. UNCHANGED <<link, net, ops, client>>
    BY <1>5 DEF RunKeeps
  <2>2. /\ AllFit(turn', net) /\ AllFit(turn', q) /\ Fit(turn', p) /\ Fit(turn', l)
        /\ AllFit(turn', client.inbox.pending)
    BY <1>2, <1>3, <1>5, FitsLater DEF Kept, FitInv
  <2>3. Fit(turn', out'.latest)
    BY <1>5, <2>2, NoneIs DEF Later
  <2>4. FitInv'
    BY <1>2, <1>5, <2>1, <2>2, <2>3 DEF Kept, FitInv, Later
  <2>5. SeqInv'
    BY <1>5, <2>1, ClientStays DEF Kept
  <2>6. EndInv' /\ WaitInv'
    BY <1>2, <1>5, <2>1 DEF Kept, EndInv, WaitInv
  <2>7. TextInv'
    BY <1>1, <1>2, <1>5, <2>1 DEF Kept, TextInv
  <2>. QED
    BY <1>3, <2>1, <2>4, <2>5, <2>6, <2>7 DEF Kept
<1>6. CASE Put
  <2>1. out' = [queue |-> Append(q, p), putting |-> None, latest |-> l, snapshot |-> s, sent |-> z, phase |-> h]
    BY <1>2, <1>6 DEF Put
  <2>2. out'.queue = Append(q, p) /\ out'.putting = None /\ out'.latest = l
    BY <2>1
  <2>3. p \in Frames /\ UNCHANGED <<turn, link, net, ops, client, losses>>
    BY <1>2, <1>6 DEF Put, RunKeeps
  <2>4. Waits(p)
    BY <1>2 DEF Waits, Kept, FitInv
  <2>5. FitInv'
    <3>1. Grows(q, p, Append(q, p))
      BY <1>2, <2>3, AppendGrows
    <3>2. AllFit(turn, Append(q, p)) /\ Fit(turn, None) /\ None.kind # "state_sync"
      BY <1>1, <1>2, <3>1, NoneIs DEF Kept, FitInv, Grows
    <3>. QED
      BY <1>2, <2>2, <2>3, <3>2 DEF Kept, FitInv
  <2>6. SeqInv'
    BY <2>3 DEF Kept, SeqInv
  <2>7. EndInv'
    <3>1. EndOrder(client.deferred, net, Append(q, p), None)
      BY <1>2, <2>3, EndPut DEF Kept, EndInv
    <3>. QED
      BY <2>2, <2>3, <3>1 DEF EndInv
  <2>8. TextInv'
    <3>1. SUFFICES ASSUME ~client.view.snapshots PROVE TextInv'
      BY <2>3 DEF TextInv
    <3>2. ~client.settled => Whole(client.view, client.inbox.pending, net, Append(q, p), None, turn.text)
      BY <1>2, <2>3, <3>1, WholePut DEF Kept, TextInv
    <3>3. ~client.settled /\ ~client.view.open => Coming(net, Append(q, p), None, turn.steps)
      BY <1>2, <2>3, <3>1, ComingPut DEF Kept, TextInv
    <3>. QED
      BY <2>2, <2>3, <3>1, <3>2, <3>3 DEF Kept, TextInv
  <2>9. WaitInv'
    <3>1. SUFFICES ASSUME turn.status = "waiting_user" PROVE WaitInv'
      BY <2>3 DEF WaitInv
    <3>2. Asked(client.view.prompt, net, q, p, turn.rev) /\ (l # None => l.status = "waiting_user")
      BY <1>2, <3>1 DEF Kept, WaitInv
    <3>3. Asked(client.view.prompt, net, Append(q, p), None, turn.rev)
      BY <1>2, <2>3, <2>4, <3>2, AskedPut
    <3>. QED
      BY <2>2, <2>3, <3>2, <3>3 DEF WaitInv
  <2>. QED
    BY <1>3, <2>3, <2>5, <2>6, <2>7, <2>8, <2>9 DEF Kept
<1>8. CASE StartStep
  <2>1. PICK r \in {turn.rev + 1} \cup IF turn.steps = 0 THEN {} ELSE {turn.rev + 3} :
          /\ turn' = [turn EXCEPT !.steps = @ + 1, !.rev = r]
          /\ out' = Published(StateFrame("step_start", r, "running"))
    BY <1>8, Zenon DEF StartStep
  <2>2. turn' = [status |-> status, rev |-> r, text |-> text, steps |-> steps + 1, marks |-> marks, asks |-> asks]
    BY <1>1, <2>1
  <2>3. r \in Nat /\ rev <= r
    BY <1>1, <2>1
  <2>4. turn'.status = status /\ turn'.rev = r /\ turn'.text = text
    BY <2>2
  <2>5. RunMoves /\ RunKeeps /\ status = "running"
    BY <1>1, <1>8 DEF StartStep
  <2>6. PICK f : f = StateFrame("step_start", r, "running")
    OBVIOUS
  <2>7. f \in Frames
    BY <1>3, <2>3, <2>6, FramesAre
  <2>8. f = [kind |-> "step_start", seq |-> 0, rev |-> r, status |-> "running", text |-> 0]
    BY <2>3, <2>6, FramesAre
  <2>9. ~IsChunk(f) /\ ~Ends(f) /\ f.status \notin Outcomes /\ f.rev = r /\ f.kind = "step_start"
    BY <2>8 DEF IsChunk, Ends, Outcomes
  <2>10. Later(turn, turn') /\ Fit(turn', f)
    BY <1>1, <2>3, <2>4, <2>9 DEF Later, Fit, NoRevision
  <2>11. out' = Published(f)
    BY <2>1, <2>6
  <2>12. turn'.status # "waiting_user" /\ turn'.text = turn.text
    BY <1>1, <2>4, <2>5
  <2>. QED
    BY <1>4, <2>5, <2>7, <2>9, <2>10, <2>11, <2>12
<1>9. CASE StreamText
  <2>1. turn' = [status |-> status, rev |-> rev, text |-> text + 1, steps |-> steps, marks |-> marks, asks |-> asks]
    BY <1>1, <1>9 DEF StreamText
  <2>2. /\ turn'.status = status /\ turn'.rev = rev /\ turn'.text = text + 1 /\ text + 1 \in Nat
    BY <1>1, <2>1
  <2>3. RunMoves /\ RunKeeps /\ status = "running" /\ turn.steps # 0
    BY <1>1, <1>9 DEF StreamText
  <2>5. PICK f : f = [Frame("chunk") EXCEPT !.text = text + 1]
    OBVIOUS
  <2>6. f \in Frames /\ f = [kind |-> "chunk", seq |-> 0, rev |-> NoRevision, status |-> "none", text |-> text + 1]
    BY <2>2, <2>5, FramesAre
  <2>7. /\ IsChunk(f) /\ f.text = text + 1 /\ ~HasState(f) /\ ~Ends(f) /\ f.status \notin Outcomes
        /\ f.rev = NoRevision
    BY <2>6 DEF IsChunk, HasState, Ends, Outcomes
  <2>8. out' = Published(f)
    BY <1>1, <1>9, <2>5 DEF StreamText
  <2>9. Later(turn, turn') /\ Fit(turn', f)
    <3>1. f.rev <= turn'.rev
      BY <1>1, <2>2, <2>7 DEF NoRevision
    <3>. QED
      BY <1>1, <2>2, <2>7, <3>1 DEF Later, Fit, NoRevision
  <2>10. turn'.status # "waiting_user" /\ turn'.text = turn.text + 1 /\ f.text = turn.text + 1 /\ turn.status = "running"
    BY <1>1, <2>2, <2>3, <2>7
  <2>. QED
    BY <1>4, <2>3, <2>6, <2>7, <2>8, <2>9, <2>10
<1>10. CASE PublishTimeline
  <2>1. turn' = [status |-> status, rev |-> rev, text |-> text, steps |-> steps, marks |-> marks + 1, asks |-> asks]
    BY <1>1, <1>10 DEF PublishTimeline
  <2>2. turn'.status = status /\ turn'.rev = rev /\ turn'.text = text /\ turn'.steps = steps
    BY <2>1
  <2>3. RunMoves /\ RunKeeps /\ status # "waiting_user"
    BY <1>1, <1>10 DEF PublishTimeline
  <2>4. PICK f : f = Frame("timeline_event")
    OBVIOUS
  <2>5. f \in Frames /\ f = [kind |-> "timeline_event", seq |-> 0, rev |-> NoRevision, status |-> "none", text |-> 0]
    BY <2>4, FramesAre DEF Frame
  <2>6. ~IsChunk(f) /\ Plain(f) /\ ~Ends(f) /\ f.status \notin Outcomes /\ f.rev = NoRevision
    BY <2>5 DEF IsChunk, Plain, Ends, Outcomes
  <2>7. out' = Published(f)
    BY <1>10, <2>4 DEF PublishTimeline
  <2>8. Later(turn, turn') /\ Fit(turn', f)
    <3>1. f.rev <= turn'.rev
      BY <1>1, <2>2, <2>6 DEF NoRevision
    <3>. QED
      BY <1>1, <2>2, <2>6, <3>1 DEF Later, Fit, NoRevision
  <2>9. turn'.status # "waiting_user" /\ turn'.text = turn.text /\ turn'.steps = turn.steps
    BY <1>1, <2>2, <2>3
  <2>. QED
    BY <1>4, <2>3, <2>5, <2>6, <2>7, <2>8, <2>9
<1>11. CASE AskUser
  <2>0. PICK t : t = [[status |-> status, rev |-> rev, text |-> text, steps |-> steps, marks |-> marks, asks |-> asks]
                      EXCEPT !.status = "waiting_user", !.asks = @ + 1, !.rev = @ + 1]
    OBVIOUS
  <2>1. t = [status |-> "waiting_user", rev |-> rev + 1, text |-> text, steps |-> steps,
             marks |-> marks, asks |-> asks + 1]
    BY <2>0
  <2>2. turn' = t
    BY <1>1, <1>11, <2>0 DEF AskUser
  <2>3. turn'.status = "waiting_user" /\ turn'.rev = rev + 1 /\ turn'.text = text /\ rev + 1 \in Nat
    BY <1>1, <2>1, <2>2
  <2>4. RunMoves /\ RunKeeps /\ status = "running" /\ turn.steps # 0
    BY <1>1, <1>11 DEF AskUser
  <2>5. PICK f : f = StateFrame("interrupt", rev + 1, "waiting_user")
    OBVIOUS
  <2>7. f \in Frames
    BY <1>3, <2>3, <2>5, FramesAre
  <2>8. f = [kind |-> "interrupt", seq |-> 0, rev |-> rev + 1, status |-> "waiting_user", text |-> 0]
    BY <2>3, <2>5, FramesAre
  <2>9. /\ ~IsChunk(f) /\ ~Ends(f) /\ f.status = "waiting_user" /\ f.rev = rev + 1 /\ f.kind = "interrupt"
        /\ f.status \notin Outcomes
    BY <2>8 DEF IsChunk, Ends, Outcomes
  <2>10. HasState(f)
    BY <1>1, <2>9 DEF HasState, NoRevision
  <2>11. out' = Published(f)
    BY <1>1, <1>11, <2>5 DEF AskUser
  <2>12. Later(turn, turn') /\ Fit(turn', f)
    <3>1. status \notin Outcomes /\ rev <= rev + 1
      BY <1>1, <2>4 DEF Outcomes
    <3>. QED
      BY <1>1, <2>3, <2>9, <3>1 DEF Later, Fit, NoRevision
  <2>13. turn'.text = turn.text /\ f.rev = turn'.rev
    BY <1>1, <2>3, <2>9
  <2>. QED
    BY <1>4, <2>4, <2>7, <2>9, <2>10, <2>11, <2>12, <2>13
<1>12. CASE Resume
  <2>1. turn' = [status |-> "running", rev |-> rev, text |-> text, steps |-> steps, marks |-> marks, asks |-> asks]
    BY <1>1, <1>12 DEF Resume
  <2>2. turn'.status = "running" /\ turn'.rev = rev /\ turn'.text = text /\ turn'.steps = steps
    BY <2>1
  <2>3. out' = out /\ RunKeeps /\ status \notin Outcomes
    BY <1>1, <1>12 DEF Resume, Outcomes
  <2>4. Later(turn, turn')
    BY <1>1, <2>2, <2>3 DEF Later
  <2>. QED
    BY <1>2, <1>5, <2>2, <2>3, <2>4
<1>13. CASE EndTurn
  <2>1. PICK end \in Outcomes : turn' = [turn EXCEPT !.status = end, !.rev = @ + 1]
    BY <1>13 DEF EndTurn, Outcomes
  <2>2. turn' = [status |-> end, rev |-> rev + 1, text |-> text, steps |-> steps, marks |-> marks, asks |-> asks]
    BY <1>1, <2>1
  <2>3. turn'.status = end /\ turn'.rev = rev + 1 /\ turn'.text = text /\ turn'.steps = steps /\ rev + 1 \in Nat
    BY <1>1, <2>2
  <2>4. end # "waiting_user"
    BY DEF Outcomes
  <2>5. PICK f : f = StateFrame("done", rev + 1, "completed")
    OBVIOUS
  <2>7. f \in Frames
    BY <1>3, <2>3, <2>5, FramesAre
  <2>8. f = [kind |-> "done", seq |-> 0, rev |-> rev + 1, status |-> "completed", text |-> 0]
    BY <1>3, <2>3, <2>5, FramesAre
  <2>9. PICK g : g = Frame("error")
    OBVIOUS
  <2>10. g \in Frames /\ g = [kind |-> "error", seq |-> 0, rev |-> NoRevision, status |-> "none", text |-> 0]
    BY <2>9, FramesAre DEF Frame
  <2>11. ~IsChunk(f) /\ Plain(f) /\ ~IsChunk(g) /\ Plain(g) /\ f.rev = rev + 1 /\ g.rev = NoRevision
    BY <2>8, <2>10 DEF IsChunk, Plain
  <2>12. Later(turn, turn') /\ Fit(turn', f) /\ Fit(turn', g)
    <3>1. f.rev <= turn'.rev /\ g.rev <= turn'.rev /\ rev <= rev + 1
      BY <1>1, <2>3, <2>11 DEF NoRevision
    <3>. QED
      BY <1>1, <2>3, <2>11, <3>1 DEF Later, Fit, NoRevision
  <2>13. turn'.status # "waiting_user" /\ turn'.text = turn.text /\ turn'.steps = turn.steps
    BY <1>1, <2>3, <2>4
  <2>14. (out' = Published(f) \/ out' = Published(g)) /\ RunMoves /\ RunKeeps
    BY <1>1, <1>13, <2>5, <2>9 DEF EndTurn
  <2>15. CASE out' = Published(f)
    BY <1>4, <2>7, <2>11, <2>12, <2>13, <2>14, <2>15
  <2>16. CASE out' = Published(g)
    BY <1>4, <2>10, <2>11, <2>12, <2>13, <2>14, <2>16
  <2>. QED
    BY <2>14, <2>15, <2>16
<1>14. CASE Close \/ Forget
  <2>1. PICK l1, s1, h1 :
          /\ out' = [queue |-> q, putting |-> p, latest |-> l1, snapshot |-> s1, sent |-> z, phase |-> h1]
          /\ l1 \in {None, l}
    <3>1. CASE Close
      <4>1. out' = [queue |-> q, putting |-> p, latest |-> l, snapshot |-> s, sent |-> z, phase |-> "closed"]
        BY <1>2, <3>1 DEF Close
      <4>. QED
        BY <1>2, <4>1
    <3>2. CASE Forget
      <4>0. PICK o : o = [[queue |-> q, putting |-> p, latest |-> l, snapshot |-> s, sent |-> z, phase |-> h]
                          EXCEPT !.phase = "gone", !.latest = None, !.snapshot = FALSE]
        OBVIOUS
      <4>1. o = [queue |-> q, putting |-> p, latest |-> None, snapshot |-> FALSE, sent |-> z, phase |-> "gone"]
        BY <4>0
      <4>2. out' = o
        BY <1>2, <3>2, <4>0 DEF Forget
      <4>. QED
        BY <4>1, <4>2
    <3>. QED
      BY <1>14, <3>1, <3>2
  <2>2. UNCHANGED turn /\ RunKeeps /\ turn.status \in Outcomes
    BY <1>14 DEF Close, Forget, SDInv, OutInv
  <2>3. out'.queue = q /\ out'.putting = p /\ out'.latest = l1
    BY <2>1
  <2>4. Later(turn, turn') /\ turn'.status # "waiting_user" /\ turn'.text = text /\ turn'.steps = steps
    <3>1. turn.status # "waiting_user"
      BY <2>2 DEF Outcomes
    <3>. QED
      BY <1>1, <2>2, <3>1 DEF Later
  <2>. QED
    BY <1>5, <2>1, <2>2, <2>3, <2>4
<1>. QED
  BY <1>6, <1>8, <1>9, <1>10, <1>11, <1>12, <1>13, <1>14 DEF RunSteps

\* While no connection was lost, every frame is sent on the client's connection.
LEMMA HereSent ==
  ASSUME SDInv, losses = 0, NEW conn \in {link.bound, link.conn}, NEW f \in Frames, Transmit(conn, f)
  PROVE  /\ link'.seq = link.seq + 1
         /\ \E g \in Frames : net' = Append(net, g) /\ g.seq = link.seq + 1 /\ Same(g, f)
<1>1. PICK u, c, s, b : /\ link = [up |-> u, conn |-> c, seq |-> s, bound |-> b]
                        /\ link.up = u /\ link.conn = c /\ link.seq = s /\ link.bound = b
                        /\ s \in Nat /\ u \in BOOLEAN /\ c \in Nat /\ b \in 1..c
                        /\ c = IF u THEN 1 ELSE 0
  BY DEF SDInv, LinkInv
<1>2. u /\ b = c /\ conn = c
  <2>1. u
    BY <1>1
  <2>2. c = 1
    BY <1>1, <2>1
  <2>3. b = 1
    BY <1>1, <2>2
  <2>. QED
    BY <1>1, <2>1, <2>2, <2>3
<1>3. PICK g : g = [f EXCEPT !.seq = s + 1]
  OBVIOUS
<1>4. link' = [link EXCEPT !.seq = @ + 1] /\ net' = Append(net, g)
  BY <1>1, <1>2, <1>3 DEF Transmit
<1>5. link' = [up |-> u, conn |-> c, seq |-> s + 1, bound |-> b]
  BY <1>1, <1>4
<1>6. g \in Frames /\ g.seq = s + 1 /\ Same(g, f)
  BY <1>1, <1>3 DEF Frames, Same
<1>7. link'.seq = s + 1
  BY <1>5
<1>. QED
  BY <1>1, <1>4, <1>6, <1>7

LEMMA FollowSent ==
  ASSUME NEW last, NEW pending \in Seq(Frames), NEW deferred \in Frames \cup {None}, NEW flying \in Seq(Frames),
         NEW seq \in Nat, Follow(last, pending, deferred, flying, seq), NEW g \in Frames, g.seq = seq + 1
  PROVE  Follow(last, pending, deferred, Append(flying, g), seq + 1)
<1>0. \A f \in Frames : f.seq \in Nat
  BY DEF Frames
<1>1. PICK t : t = Append(flying, g)
  OBVIOUS
<1>2. /\ DOMAIN t = 1..Len(flying) + 1 /\ DOMAIN flying = 1..Len(flying) /\ Len(flying) \in Nat
      /\ t[Len(flying) + 1] = g /\ \A i \in 1..Len(flying) : t[i] = flying[i]
  BY <1>1
<1>3. \A j \in DOMAIN t : (j \in DOMAIN flying /\ t[j] = flying[j]) \/ t[j] = g
  BY <1>2
<1>4. \A i \in DOMAIN pending : pending[i].seq \in Nat
  <2>1. \A i \in DOMAIN pending : pending[i] \in Frames
    OBVIOUS
  <2>. QED
    BY <1>0, <2>1
<1>5. last \in 0..seq + 1
  BY DEF Follow
<1>6. \A i \in DOMAIN pending : last < pending[i].seq /\ pending[i].seq <= seq + 1 /\ pending[i].seq < g.seq
  BY <1>4 DEF Follow
<1>7. last < g.seq
  BY DEF Follow
<1>8. \A j \in DOMAIN t : last < t[j].seq
  BY <1>3, <1>7 DEF Follow
<1>9. \A i \in DOMAIN pending, j \in DOMAIN t : pending[i].seq < t[j].seq
  BY <1>3, <1>6 DEF Follow
<1>10. deferred # None => deferred.seq <= seq + 1
  BY <1>0 DEF Follow
<1>11. deferred # None => \A i \in DOMAIN pending : pending[i].seq < deferred.seq
  BY DEF Follow
<1>. QED
  BY <1>1, <1>5, <1>6, <1>8, <1>9, <1>10, <1>11 DEF Follow

\* The client has nothing to do with a frame that is sent.
LEMMA SeqSent ==
  ASSUME SDInv, Kept, UNCHANGED <<turn, client>>, link'.seq = link.seq + 1,
         NEW g \in Frames, g.seq = link.seq + 1, net' = Append(net, g)
  PROVE  SeqInv'
<1>1. CASE client.settled
  BY <1>1 DEF SeqInv
<1>2. CASE ~client.settled
  <2>1. Follow(client.inbox.last, client.inbox.pending, client.deferred, net, link.seq)
    BY <1>2 DEF Kept, SeqInv
  <2>2. Follow(client.inbox.last, client.inbox.pending, client.deferred, Append(net, g), link.seq + 1)
    BY <2>1, TypesAre, FollowSent
  <2>3. /\ ~client.view.over /\ ~client.inbox.terminal
        /\ client.inbox.rev \in Int /\ client.inbox.rev <= turn.rev
    BY <1>2 DEF Kept, SeqInv
  <2>4. Follow(client.inbox.last, client.inbox.pending, client.deferred, net', link'.seq)
    BY <2>2
  <2>. QED
    BY <2>3, <2>4 DEF SeqInv
<1>. QED
  BY <1>1, <1>2

LEMMA DispatchKept ==
  ASSUME SDInv, Kept, losses = 0, Dispatch
  PROVE  Kept'
<1>1. PICK q, p, l, s, z, h :
        /\ out = [queue |-> q, putting |-> p, latest |-> l, snapshot |-> s, sent |-> z, phase |-> h]
        /\ q \in Seq(Frames) /\ p \in Frames \cup {None} /\ out.queue = q /\ out.putting = p /\ out.latest = l
  BY DEF SDInv, OutInv
<1>2. q # <<>> /\ UNCHANGED <<turn, ops, client, losses>> /\ Transmit(link.bound, Head(q))
  BY <1>1 DEF Dispatch, DispatcherKeeps
<1>3. out' = [queue |-> Tail(q), putting |-> p, latest |-> l, snapshot |-> s, sent |-> TRUE, phase |-> h]
  <2>1. PICK o : o = [[queue |-> q, putting |-> p, latest |-> l, snapshot |-> s, sent |-> z, phase |-> h]
                      EXCEPT !.queue = Tail(@), !.sent = TRUE]
    OBVIOUS
  <2>2. o = [queue |-> Tail(q), putting |-> p, latest |-> l, snapshot |-> s, sent |-> TRUE, phase |-> h]
    BY <2>1
  <2>3. out' = o
    BY <1>1, <2>1 DEF Dispatch
  <2>. QED
    BY <2>2, <2>3, Zenon
<1>4. out'.queue = Tail(q) /\ out'.putting = p /\ out'.latest = l
  BY <1>3
<1>5. Head(q) \in Frames /\ Tail(q) \in Seq(Frames) /\ Shrinks(q, Head(q), Tail(q))
  BY <1>1, <1>2, TextOfTail, TailShrinks
<1>6. PICK g \in Frames : net' = Append(net, g) /\ g.seq = link.seq + 1 /\ Same(g, Head(q)) /\ link'.seq = link.seq + 1
  BY <1>2, <1>5, HereSent
<1>7. /\ net \in Seq(Frames) /\ Grows(net, g, Append(net, g))
  BY <1>6, TypesAre, AppendGrows
<1>8. FitInv'
  <2>1. AllFit(turn, Tail(q)) /\ Fit(turn, Head(q))
    BY <1>1, <1>5 DEF Kept, FitInv, Shrinks
  <2>2. Fit(turn, g)
    BY <1>6, <2>1, SameIs
  <2>3. AllFit(turn, Append(net, g))
    BY <1>7, <2>2 DEF Kept, FitInv, Grows
  <2>. QED
    BY <1>1, <1>2, <1>4, <1>6, <2>1, <2>3 DEF Kept, FitInv
<1>9. SeqInv'
  BY <1>2, <1>6, SeqSent
<1>10. EndInv'
  <2>1. EndOrder(client.deferred, Append(net, g), Tail(q), p)
    BY <1>1, <1>2, <1>6, <1>7, EndSent DEF Kept, EndInv
  <2>. QED
    BY <1>2, <1>4, <1>6, <2>1 DEF EndInv
<1>11. TextInv'
  <2>1. SUFFICES ASSUME ~client.view.snapshots PROVE TextInv'
    BY <1>2 DEF TextInv
  <2>2. ~client.settled => Whole(client.view, client.inbox.pending, Append(net, g), Tail(q), p, turn.text)
    <3>1. SUFFICES ASSUME ~client.settled
                   PROVE  Whole(client.view, client.inbox.pending, Append(net, g), Tail(q), p, turn.text)
      OBVIOUS
    <3>2. Whole(client.view, client.inbox.pending, net, q, p, turn.text)
      BY <1>1, <2>1, <3>1 DEF Kept, TextInv
    <3>. QED
      BY <1>1, <1>2, <1>6, <1>7, <3>2, WholeSent
  <2>3. ~client.settled /\ ~client.view.open => Coming(Append(net, g), Tail(q), p, turn.steps)
    <3>1. SUFFICES ASSUME ~client.settled, ~client.view.open
                   PROVE  Coming(Append(net, g), Tail(q), p, turn.steps)
      OBVIOUS
    <3>2. Coming(net, q, p, turn.steps)
      BY <1>1, <2>1, <3>1 DEF Kept, TextInv
    <3>. QED
      BY <1>1, <1>2, <1>6, <1>7, <3>2, ComingSent
  <2>. QED
    BY <1>2, <1>4, <1>6, <2>1, <2>2, <2>3 DEF Kept, TextInv
<1>12. WaitInv'
  <2>1. SUFFICES ASSUME turn.status = "waiting_user" PROVE WaitInv'
    BY <1>2 DEF WaitInv
  <2>2. Asked(client.view.prompt, net, q, p, turn.rev) /\ (l # None => l.status = "waiting_user")
    BY <1>1, <2>1 DEF Kept, WaitInv
  <2>3. Asked(client.view.prompt, Append(net, g), Tail(q), p, turn.rev)
    BY <1>1, <1>2, <1>6, <1>7, <2>2, AskedSent
  <2>. QED
    BY <1>2, <1>4, <1>6, <2>2, <2>3 DEF WaitInv
<1>13. ops' \in Seq({"sync"})
  BY <1>2 DEF Kept
<1>. QED
  BY <1>8, <1>9, <1>10, <1>11, <1>12, <1>13 DEF Kept

\* A snapshot is sent on its way around the queue.
LEMMA SnapshotKept ==
  ASSUME SDInv, Kept, losses = 0, NEW conn \in {link.bound, link.conn}, NEW f \in Frames, f.kind = "state_sync",
         Transmit(conn, f), Fit(turn, f), turn.status = "waiting_user" => f.status = "waiting_user",
         UNCHANGED <<turn, client>>, ops' \in Seq({"sync"}),
         out'.queue = out.queue, out'.putting = out.putting, out'.latest \in {None, out.latest}
  PROVE  Kept'
<1>1. PICK q, p : q = out.queue /\ p = out.putting
  OBVIOUS
<1>2. PICK g \in Frames : net' = Append(net, g) /\ g.seq = link.seq + 1 /\ Same(g, f) /\ link'.seq = link.seq + 1
  BY HereSent
<1>3. net \in Seq(Frames) /\ q \in Seq(Frames) /\ Grows(net, g, Append(net, g)) /\ g.kind = "state_sync"
  BY <1>1, <1>2, TypesAre, AppendGrows DEF Same
<1>4. FitInv'
  <2>1. Fit(turn, g)
    BY <1>2, SameIs
  <2>2. AllFit(turn, Append(net, g))
    BY <1>3, <2>1 DEF Kept, FitInv, Grows
  <2>3. Fit(turn, None)
    BY TypesAre, NoneIs
  <2>. QED
    BY <1>2, <2>2, <2>3 DEF Kept, FitInv
<1>5. SeqInv'
  BY <1>2, SeqSent
<1>6. EndInv'
  <2>1. EndOrder(client.deferred, Append(net, g), q, p)
    BY <1>1, <1>3, EndSynced DEF Kept, EndInv
  <2>. QED
    BY <1>1, <1>2, <2>1 DEF EndInv
<1>7. TextInv'
  <2>1. SUFFICES ASSUME ~client.view.snapshots PROVE TextInv'
    BY DEF TextInv
  <2>2. ~client.settled => Whole(client.view, client.inbox.pending, Append(net, g), q, p, turn.text)
    BY <1>1, <1>3, <2>1, WholeSynced DEF Kept, TextInv
  <2>3. ~client.settled /\ ~client.view.open => Coming(Append(net, g), q, p, turn.steps)
    BY <1>1, <1>3, <2>1, ComingSynced DEF Kept, TextInv
  <2>. QED
    BY <1>1, <1>2, <2>1, <2>2, <2>3 DEF Kept, TextInv
<1>8. WaitInv'
  <2>1. SUFFICES ASSUME turn.status = "waiting_user" PROVE WaitInv'
    BY DEF WaitInv
  <2>2. Asked(client.view.prompt, net, q, p, turn.rev) /\ Waits(g)
    BY <1>1, <1>2, <2>1 DEF Kept, WaitInv, Waits, Same
  <2>3. Asked(client.view.prompt, Append(net, g), q, p, turn.rev)
    BY <1>3, <2>2, AskedSynced
  <2>4. out'.latest # None => out'.latest.status = "waiting_user"
    BY <2>1 DEF Kept, WaitInv
  <2>. QED
    BY <1>1, <1>2, <2>3, <2>4 DEF WaitInv
<1>. QED
  BY <1>4, <1>5, <1>6, <1>7, <1>8 DEF Kept

LEMMA AfterSendKept ==
  ASSUME SDInv, Kept, losses = 0, AfterSend
  PROVE  Kept'
<1>1. PICK q, p, l, s, z, h :
        /\ out = [queue |-> q, putting |-> p, latest |-> l, snapshot |-> s, sent |-> z, phase |-> h]
        /\ q \in Seq(Frames) /\ p \in Frames \cup {None} /\ l \in Frames \cup {None}
        /\ out.queue = q /\ out.putting = p /\ out.latest = l
  BY DEF SDInv, OutInv
<1>2. UNCHANGED <<turn, ops, client, losses>> /\ ops' \in Seq({"sync"})
  BY DEF AfterSend, DispatcherKeeps, Kept
<1>3. CASE out.snapshot /\ out.latest # None
  <2>1. PICK f : f = [l EXCEPT !.kind = "state_sync"]
    OBVIOUS
  <2>2. l \in Frames
    BY <1>1, <1>3
  <2>3. f \in Frames /\ f.kind = "state_sync" /\ f.rev = l.rev /\ f.status = l.status
    BY <2>1, <2>2 DEF Frames, Kinds
  <2>4. Transmit(link.bound, f)
    BY <1>1, <1>3, <2>1 DEF AfterSend
  <2>5. Fit(turn, f)
    <3>1. Fit(turn, l)
      BY <1>1 DEF Kept, FitInv
    <3>2. ~IsChunk(f) /\ ~Ends(f)
      BY <2>3 DEF IsChunk, Ends
    <3>. QED
      BY <2>3, <3>1, <3>2 DEF Fit
  <2>6. turn.status = "waiting_user" => f.status = "waiting_user"
    BY <1>1, <1>3, <2>3 DEF Kept, WaitInv
  <2>7. PICK o : o = [[queue |-> q, putting |-> p, latest |-> l, snapshot |-> s, sent |-> z, phase |-> h]
                      EXCEPT !.sent = FALSE, !.snapshot = FALSE, !.latest = None]
    OBVIOUS
  <2>8. o = [queue |-> q, putting |-> p, latest |-> None, snapshot |-> FALSE, sent |-> FALSE, phase |-> h]
    BY <2>7
  <2>9. out' = o
    BY <1>1, <1>3, <2>7 DEF AfterSend
  <2>10. out'.queue = q /\ out'.putting = p /\ out'.latest = None
    BY <2>8, <2>9
  <2>. QED
    BY <1>1, <1>2, <2>3, <2>4, <2>5, <2>6, <2>10, SnapshotKept
<1>4. CASE ~(out.snapshot /\ out.latest # None)
  <2>1. out' = [queue |-> q, putting |-> p, latest |-> l, snapshot |-> s, sent |-> FALSE, phase |-> h]
    BY <1>1, <1>4 DEF AfterSend
  <2>2. out'.queue = q /\ out'.putting = p /\ out'.latest = l
    BY <2>1
  <2>3. UNCHANGED <<link, net>>
    BY <1>4 DEF AfterSend
  <2>4. FitInv' /\ SeqInv'
    BY <1>1, <1>2, <2>2, <2>3 DEF Kept, FitInv, SeqInv
  <2>5. EndInv' /\ WaitInv'
    BY <1>1, <1>2, <2>2, <2>3 DEF Kept, EndInv, WaitInv
  <2>6. TextInv'
    BY <1>1, <1>2, <2>2, <2>3 DEF Kept, TextInv
  <2>. QED
    BY <1>2, <2>4, <2>5, <2>6 DEF Kept
<1>. QED
  BY <1>3, <1>4

LEMMA HandleOperationKept ==
  ASSUME SDInv, Kept, losses = 0, HandleOperation
  PROVE  Kept'
<1>1. UNCHANGED <<turn, client, losses>> /\ ops # <<>> /\ ops' = Tail(ops)
  BY DEF HandleOperation
<1>2. Head(ops) = "sync" /\ ops' \in Seq({"sync"})
  BY <1>1 DEF Kept
<1>3. Sync
  BY <1>2 DEF HandleOperation, Subscribe
<1>4. turn.rev \in Nat /\ turn.status \in Statuses /\ "state_sync" \in Kinds
  BY TypesAre DEF Statuses, Kinds
<1>5. PICK f : f = StateFrame("state_sync", turn.rev, turn.status)
  OBVIOUS
<1>6. f \in Frames
  BY <1>4, <1>5, FramesAre
<1>7. f = [kind |-> "state_sync", seq |-> 0, rev |-> turn.rev, status |-> turn.status, text |-> 0]
  BY <1>4, <1>5, FramesAre
<1>8. f.kind = "state_sync" /\ f.rev = turn.rev /\ f.status = turn.status /\ ~IsChunk(f) /\ Plain(f) /\ ~Ends(f)
  BY <1>7 DEF IsChunk, Plain, Ends
<1>9. Fit(turn, f) /\ HasState(f)
  BY <1>4, <1>8 DEF Fit, HasState, NoRevision
<1>10. CASE out.phase = "gone"
  <2>1. Transmit(link.conn, f) /\ UNCHANGED out
    BY <1>3, <1>5, <1>10 DEF Sync
  <2>. QED
    BY <1>1, <1>2, <1>6, <1>8, <1>9, <2>1, SnapshotKept
<1>11. CASE out.phase = "open"
  <2>1. out' = Published(f) /\ UNCHANGED <<link, net>>
    BY <1>3, <1>5, <1>11 DEF Sync
  <2>2. Later(turn, turn') /\ turn' = turn
    BY <1>1, <1>4 DEF Later
  <2>. QED
    BY <1>1, <1>2, <1>6, <1>8, <1>9, <2>1, <2>2, PublishKept
<1>12. CASE out.phase \notin {"open", "gone"}
  <2>1. UNCHANGED <<out, link, net>>
    BY <1>3, <1>12 DEF Sync
  <2>2. FitInv' /\ SeqInv'
    BY <1>1, <2>1 DEF Kept, FitInv, SeqInv
  <2>3. EndInv' /\ WaitInv' /\ TextInv'
    BY <1>1, <2>1 DEF Kept, EndInv, WaitInv, TextInv
  <2>. QED
    BY <1>2, <2>2, <2>3 DEF Kept
<1>. QED
  BY <1>10, <1>11, <1>12

-----------------------------------------------------------------------------
(* While the connection holds: a client that waits for its turn.           *)

\* What holds of the page, the inbox, the end that waits and the frames under way.
Owns(view, b, deferred, flying) ==
  /\ ~view.over /\ ~b.terminal /\ b.rev \in Int /\ b.rev <= turn.rev
  /\ AllFit(turn, b.pending) /\ AllFit(turn, flying)
  /\ deferred /= None => turn.status \in Outcomes
  /\ Follow(b.last, b.pending, deferred, flying, link.seq)
  /\ EndOrder(deferred, flying, out.queue, out.putting)
  /\ ~view.snapshots => Whole(view, b.pending, flying, out.queue, out.putting, turn.text)
  /\ ~view.snapshots /\ ~view.open =>
       b.rev = NoRevision /\ b.pending = <<>> /\ Coming(flying, out.queue, out.putting, turn.steps)
  /\ turn.status = "waiting_user" => Asked(view.prompt, flying, out.queue, out.putting, turn.rev)

LEMMA OwnsNow ==
  ASSUME Kept, ~client.settled
  PROVE  Owns(client.view, client.inbox, client.deferred, net)
BY DEF Kept, FitInv, SeqInv, EndInv, TextInv, WaitInv, Owns

LEMMA OwnsNext ==
  ASSUME Kept, UNCHANGED <<turn, out, link>>, ops' \in Seq({"sync"}), ~client'.settled,
         Owns(client'.view, client'.inbox, client'.deferred, net')
  PROVE  Kept'
<1>1. PICK w, b, e, s : w = client'.view /\ b = client'.inbox /\ e = client'.deferred /\ s = net'
  OBVIOUS
<1>2. Owns(w, b, e, s)
  BY <1>1
<1>3. FitInv'
  BY <1>1, <1>2 DEF Owns, Kept, FitInv
<1>4. SeqInv'
  BY <1>1, <1>2 DEF Owns, SeqInv
<1>5. EndInv'
  BY <1>1, <1>2 DEF Owns, EndInv
<1>6. TextInv'
  BY <1>1, <1>2 DEF Owns, TextInv
<1>7. WaitInv'
  BY <1>1, <1>2 DEF Owns, Kept, WaitInv
<1>. QED
  BY <1>3, <1>4, <1>5, <1>6, <1>7 DEF Kept

LEMMA OwnsNone ==
  ASSUME NEW view, NEW b, NEW deferred, NEW flying, Owns(view, b, deferred, flying)
  PROVE  Owns(view, b, None, flying)
<1>1. Follow(b.last, b.pending, None, flying, link.seq)
  BY DEF Owns, Follow
<1>2. EndOrder(None, flying, out.queue, out.putting)
  BY DEF Owns, EndOrder
<1>. QED
  BY <1>1, <1>2 DEF Owns

\* The client is settled.
LEMMA SettledKept ==
  ASSUME SDInv, Kept, UNCHANGED <<turn, out>>, ops' \in Seq({"sync"}),
         net' = net \/ (net /= <<>> /\ net' = Tail(net)),
         client'.settled, client'.deferred = None, client'.inbox.pending = <<>>,
         turn.status \in Outcomes,
         ~client'.view.snapshots /\ client'.view.over => 1..turn.text \subseteq Seen(client'.view)
  PROVE  Kept'
<1>1. net \in Seq(Frames)
  BY TypesAre
<1>2. net /= <<>> => Shrinks(net, Head(net), Tail(net)) /\ Text(Tail(net)) \subseteq Text(net)
  BY <1>1, TailShrinks, TextOfTail
<1>3. FitInv'
  <2>1. AllFit(turn, net')
    BY <1>2 DEF Kept, FitInv, Shrinks
  <2>. QED
    BY <2>1, NothingThere DEF Kept, FitInv
<1>4. SeqInv'
  BY DEF SeqInv
<1>5. EndInv'
  <2>1. EndOrder(None, net', out.queue, out.putting)
    BY <1>2 DEF Kept, EndInv, EndOrder, Shrinks
  <2>. QED
    BY <2>1 DEF EndInv
<1>6. TextInv'
  BY DEF TextInv
<1>7. WaitInv'
  BY DEF WaitInv, Outcomes
<1>. QED
  BY <1>3, <1>4, <1>5, <1>6, <1>7 DEF Kept

-----------------------------------------------------------------------------
(* One frame less under way, and what comes of it.                         *)

LEMMA FollowTail ==
  ASSUME NEW last, NEW pending, NEW deferred, NEW flying \in Seq(Frames), flying /= <<>>, NEW seq,
         Follow(last, pending, deferred, flying, seq)
  PROVE  Follow(last, pending, deferred, Tail(flying), seq)
<1>1. \A i \in DOMAIN Tail(flying) : i + 1 \in DOMAIN flying /\ Tail(flying)[i] = flying[i + 1]
  BY TextOfTail
<1>. QED
  BY <1>1 DEF Follow

\* A frame that tells the client nothing is passed over.
LEMMA OwnsTail ==
  ASSUME NEW view, NEW b, NEW deferred, NEW flying \in Seq(Frames), flying /= <<>>,
         Owns(view, b, deferred, flying), NEW f, f = Head(flying), ~IsChunk(f),
         f.kind = "step_start" => view.open \/ view.snapshots,
         f.kind = "interrupt" => f.rev /= turn.rev
  PROVE  Owns(view, b, deferred, Tail(flying))
<1>1. PICK t : t = Tail(flying)
  OBVIOUS
<1>2. /\ Shrinks(flying, f, t) /\ Text(t) \subseteq Text(flying)
      /\ Text(flying) \subseteq Text(t) \cup Text(<<f>>) /\ Text(<<f>>) = {}
  BY <1>1, TailShrinks, TextOfTail, TextOfOne
<1>3. AllFit(turn, t)
  BY <1>2 DEF Owns, Shrinks
<1>4. Follow(b.last, b.pending, deferred, t, link.seq)
  BY <1>1, FollowTail DEF Owns
<1>5. EndOrder(deferred, t, out.queue, out.putting)
  BY <1>2 DEF Owns, EndOrder, Shrinks
<1>6. ~view.snapshots => Whole(view, b.pending, t, out.queue, out.putting, turn.text)
  BY <1>2 DEF Owns, Whole
<1>7. ~view.snapshots /\ ~view.open => Coming(t, out.queue, out.putting, turn.steps)
  BY <1>2 DEF Owns, Coming, Shrinks
<1>8. turn.status = "waiting_user" => Asked(view.prompt, t, out.queue, out.putting, turn.rev)
  BY <1>2 DEF Owns, Asked, Shrinks
<1>. QED
  BY <1>1, <1>3, <1>4, <1>5, <1>6, <1>7, <1>8 DEF Owns

\* Chunks flow to the page.
LEMMA OwnsFlow ==
  ASSUME NEW view, NEW b, NEW deferred, NEW flying, Owns(view, b, deferred, flying),
         NEW v, NEW left, Flows(view, b, v, left), b.pending \in Seq(Frames), link.seq \in Nat
  PROVE  Owns(v, left, deferred, flying)
<1>1. /\ ~v.over /\ ~left.terminal /\ left.rev \in Int /\ left.rev <= turn.rev
      /\ (v.open <=> view.open) /\ (v.snapshots <=> view.snapshots) /\ (v.prompt <=> view.prompt)
  BY DEF Owns, Flows
<1>2. \A i \in DOMAIN left.pending : \E j \in DOMAIN b.pending : left.pending[i] = b.pending[j]
  BY DEF Flows
<1>3. AllFit(turn, left.pending)
  BY <1>2 DEF Owns, AllFit
<1>4. Follow(left.last, left.pending, deferred, flying, link.seq)
  <2>1. Follow(b.last, b.pending, deferred, flying, link.seq)
    BY DEF Owns
  <2>2. \A j \in DOMAIN b.pending : b.pending[j].seq \in Nat
    <3>1. \A j \in DOMAIN b.pending : b.pending[j] \in Frames
      OBVIOUS
    <3>. QED
      BY <3>1 DEF Frames
  <2>3. left.last \in 0..link.seq
    BY <2>1, <2>2 DEF Follow, Flows
  <2>4. \A j \in DOMAIN flying : left.last < flying[j].seq
    BY <2>1 DEF Follow, Flows
  <2>5. \A i \in DOMAIN left.pending : left.last < left.pending[i].seq
    BY DEF Flows
  <2>. QED
    BY <1>2, <2>1, <2>3, <2>4, <2>5 DEF Follow
<1>5. ~view.snapshots /\ ~view.open => left.rev = NoRevision /\ left.pending = <<>>
  <2>1. SUFFICES ASSUME ~view.snapshots, ~view.open PROVE left.rev = NoRevision /\ left.pending = <<>>
    OBVIOUS
  <2>2. b.rev = NoRevision /\ b.pending = <<>>
    BY <2>1 DEF Owns
  <2>3. PICK s : s = left.pending
    OBVIOUS
  <2>4. s \in Seq(Frames) /\ left.rev = b.rev
    BY <2>3 DEF Flows
  <2>5. DOMAIN b.pending = {}
    BY <2>2
  <2>6. DOMAIN s = {}
    BY <1>2, <2>3, <2>5
  <2>7. s = <<>>
    BY <2>4, <2>6
  <2>. QED
    BY <2>2, <2>3, <2>4, <2>7
<1>6. ~view.snapshots => Whole(v, left.pending, flying, out.queue, out.putting, turn.text)
  <2>1. SUFFICES ASSUME ~view.snapshots PROVE Whole(v, left.pending, flying, out.queue, out.putting, turn.text)
    OBVIOUS
  <2>2. Whole(view, b.pending, flying, out.queue, out.putting, turn.text)
    BY <2>1 DEF Owns
  <2>3. Seen(view) \cup Text(b.pending) \subseteq Seen(v) \cup Text(left.pending)
    <3>1. CASE view.open
      BY <3>1 DEF Flows
    <3>2. CASE ~view.open
      <4>1. Text(b.pending) = {}
        BY <2>1, <3>2, TextOfNothing DEF Owns
      <4>. QED
        BY <4>1 DEF Flows
    <3>. QED
      BY <3>1, <3>2
  <2>. QED
    BY <2>2, <2>3 DEF Whole
<1>7. turn.status = "waiting_user" => Asked(v.prompt, flying, out.queue, out.putting, turn.rev)
  BY <1>1 DEF Owns, Asked
<1>. QED
  BY <1>1, <1>3, <1>4, <1>5, <1>6, <1>7 DEF Owns

\* A chunk joins what waits in the inbox; nothing ends the turn before it.
LEMMA OwnsChunk ==
  ASSUME NEW view, NEW b, NEW deferred, NEW flying \in Seq(Frames), flying /= <<>>,
         Owns(view, b, deferred, flying), b.pending \in Seq(Frames),
         NEW f, f = Head(flying), IsChunk(f), f.seq <= link.seq, link.seq \in Nat, SeqsRise(flying),
         NEW more, more.pending = Append(b.pending, f), more.last = b.last, more.rev = b.rev,
         more.terminal = b.terminal
  PROVE  deferred = None /\ Owns(view, more, None, Tail(flying))
<1>1. PICK t, p : t = Tail(flying) /\ p = Append(b.pending, f)
  OBVIOUS
<1>2. /\ Shrinks(flying, f, t) /\ Text(t) \subseteq Text(flying) /\ Text(<<f>>) \subseteq Text(flying)
      /\ Text(flying) \subseteq Text(t) \cup Text(<<f>>) /\ Text(<<f>>) = {f.text}
      /\ f \in Frames /\ f = flying[1] /\ 1 \in DOMAIN flying
      /\ \A i \in DOMAIN t : i + 1 \in DOMAIN flying /\ t[i] = flying[i + 1]
      /\ \A i \in DOMAIN t : f.seq < t[i].seq
  <2>1. Shrinks(flying, f, t)
    BY <1>1, TailShrinks
  <2>2. Text(<<f>>) = {f.text}
    BY TextOfOne
  <2>. QED
    BY <1>1, <2>1, <2>2, TextOfTail
<1>3. Grows(b.pending, f, p) /\ Text(p) = Text(b.pending) \cup Text(<<f>>)
  BY <1>1, <1>2, AppendGrows, TextAppended
<1>4. deferred = None
  <2>1. deferred /= None => Text(flying) = {}
    BY DEF Owns, EndOrder
  <2>. QED
    BY <1>2, <2>1
<1>5. view.snapshots \/ view.open
  <2>1. f.kind = "chunk" /\ ~Plain(f)
    BY DEF IsChunk, Plain
  <2>2. ~Opens(flying) /\ ~Still(flying)
    BY <1>2, <2>1 DEF Shrinks
  <2>. QED
    BY <2>2 DEF Owns, Coming
<1>6. AllFit(turn, t) /\ AllFit(turn, p)
  BY <1>2, <1>3 DEF Owns, Shrinks, Grows
<1>7. Follow(b.last, p, None, t, link.seq)
  <2>1. Follow(b.last, b.pending, deferred, flying, link.seq)
    BY DEF Owns
  <2>2. \A i \in DOMAIN p : p[i] = f \/ \E j \in DOMAIN b.pending : p[i] = b.pending[j]
    <3>1. /\ DOMAIN p = 1..Len(b.pending) + 1 /\ DOMAIN b.pending = 1..Len(b.pending) /\ Len(b.pending) \in Nat
          /\ p[Len(b.pending) + 1] = f /\ \A i \in 1..Len(b.pending) : p[i] = b.pending[i]
      BY <1>1, <1>2
    <3>2. \A i \in DOMAIN p : i = Len(b.pending) + 1 \/ i \in 1..Len(b.pending)
      BY <3>1
    <3>. QED
      BY <3>1, <3>2
  <2>3. b.last < f.seq
    BY <1>2, <2>1 DEF Follow
  <2>4. \A i \in DOMAIN p : b.last < p[i].seq /\ p[i].seq <= link.seq
    BY <2>1, <2>2, <2>3 DEF Follow
  <2>5. \A j \in DOMAIN t : b.last < t[j].seq
    BY <1>2, <2>1 DEF Follow
  <2>6. \A i \in DOMAIN p, j \in DOMAIN t : p[i].seq < t[j].seq
    BY <1>2, <2>1, <2>2 DEF Follow
  <2>. QED
    BY <2>1, <2>4, <2>5, <2>6 DEF Follow
<1>8. EndOrder(None, t, out.queue, out.putting)
  BY <1>2 DEF Owns, EndOrder, Shrinks
<1>9. ~view.snapshots => Whole(view, p, t, out.queue, out.putting, turn.text)
  BY <1>2, <1>3 DEF Owns, Whole
<1>10. turn.status = "waiting_user" => Asked(view.prompt, t, out.queue, out.putting, turn.rev)
  <2>1. f.kind /= "interrupt"
    BY DEF IsChunk
  <2>. QED
    BY <1>2, <2>1 DEF Owns, Asked, Shrinks
<1>11. /\ ~view.over /\ ~more.terminal /\ more.rev \in Int /\ more.rev <= turn.rev
       /\ more.pending = p /\ more.last = b.last
  BY <1>1 DEF Owns
<1>12. Owns(view, more, None, t)
  BY <1>5, <1>6, <1>7, <1>8, <1>9, <1>10, <1>11 DEF Owns
<1>. QED
  BY <1>1, <1>4, <1>12

\* The end of the turn waits for 50 ms, with nothing of its text behind it.
LEMMA OwnsDone ==
  ASSUME NEW view, NEW b, NEW deferred, NEW flying \in Seq(Frames), flying /= <<>>,
         Owns(view, b, deferred, flying), NEW f, f = Head(flying), f.kind = "done",
         f.seq <= link.seq, SeqsRise(flying)
  PROVE  Owns(view, b, f, Tail(flying))
<1>1. PICK t : t = Tail(flying)
  OBVIOUS
<1>2. ~IsChunk(f) /\ Ends(f) /\ f = flying[1] /\ 1 \in DOMAIN flying
  BY TextOfTail DEF IsChunk, Ends
<1>3. Shrinks(flying, f, t)
  BY <1>1, TailShrinks
<1>4. Owns(view, b, deferred, t)
  BY <1>1, <1>2, OwnsTail
<1>5. Follow(b.last, b.pending, f, t, link.seq)
  <2>1. \A i \in DOMAIN b.pending : b.pending[i].seq < f.seq
    BY <1>2 DEF Owns, Follow
  <2>2. Follow(b.last, b.pending, deferred, t, link.seq)
    BY <1>4 DEF Owns
  <2>. QED
    BY <2>1, <2>2 DEF Follow
<1>6. EndOrder(f, t, out.queue, out.putting)
  BY <1>2, <1>3, <1>4 DEF Owns, EndOrder, Shrinks
<1>7. turn.status \in Outcomes
  BY <1>2, <1>3 DEF Owns, Shrinks, Fit
<1>. QED
  BY <1>1, <1>4, <1>5, <1>6, <1>7 DEF Owns

\* With the end of the turn at the front, all text is on the page or waits in the inbox.
LEMMA EndsWhole ==
  ASSUME NEW view, NEW b, NEW deferred, NEW flying \in Seq(Frames), Owns(view, b, deferred, flying),
         deferred /= None \/ (flying /= <<>> /\ Ends(Head(flying))), ~view.snapshots
  PROVE  /\ turn.status \in Outcomes
         /\ 1..turn.text \subseteq Seen(view) \cup Text(b.pending)
         /\ ~view.open => Text(b.pending) = {}
<1>1. Whole(view, b.pending, flying, out.queue, out.putting, turn.text)
  BY DEF Owns
<1>2. ~view.open => Text(b.pending) = {}
  BY TextOfNothing DEF Owns
<1>3. CASE deferred /= None
  BY <1>1, <1>2, <1>3 DEF Owns, EndOrder, Whole
<1>4. CASE flying /= <<>> /\ Ends(Head(flying))
  <2>1. /\ Shrinks(flying, Head(flying), Tail(flying))
        /\ Text(flying) \subseteq Text(Tail(flying)) \cup Text(<<Head(flying)>>)
    BY <1>4, TailShrinks, TextOfTail
  <2>2. Text(<<Head(flying)>>) = {}
    BY <1>4, TextOfOne DEF Ends, IsChunk
  <2>3. Text(flying) = {}
    BY <1>4, <2>1, <2>2 DEF Owns, EndOrder, Shrinks
  <2>4. Text(out.queue) = {} /\ Text(<<out.putting>>) = {}
    BY <1>4, <2>1 DEF Owns, EndOrder, Shrinks
  <2>5. turn.status \in Outcomes
    BY <1>4, <2>1 DEF Owns, Shrinks, Fit
  <2>. QED
    BY <1>1, <1>2, <2>3, <2>4, <2>5 DEF Whole
<1>. QED
  BY <1>3, <1>4

\* A frame goes to the page with what waited before it.
LEMMA OwnsFlush ==
  ASSUME NEW view, NEW b, NEW deferred, NEW flying \in Seq(Frames), flying /= <<>>,
         Owns(view, b, deferred, flying), NEW f, f = Head(flying), ~IsChunk(f), ~IsTerminal(f),
         f.kind \in {"step_start", "interrupt", "state_sync"},
         f.seq <= link.seq, link.seq \in Nat, SeqsRise(flying),
         NEW more, more.rev = b.rev, more.terminal = b.terminal,
         NEW v, NEW left, NEW q, f.kind = "state_sync" \/ q = b.pending, Flushed(view, more, q, f, v, left)
  PROVE  Owns(v, left, deferred, Tail(flying))
<1>1. PICK t : t = Tail(flying)
  OBVIOUS
<1>2. /\ Shrinks(flying, f, t) /\ Text(t) \subseteq Text(flying)
      /\ Text(flying) \subseteq Text(t) \cup Text(<<f>>) /\ Text(<<f>>) = {}
      /\ f \in Frames /\ f = flying[1] /\ 1 \in DOMAIN flying
      /\ \A i \in DOMAIN t : f.seq < t[i].seq
  BY <1>1, TailShrinks, TextOfTail, TextOfOne
<1>3. f.rev \in Int /\ f.seq \in Nat
  BY <1>2 DEF Frames
<1>4. AllFit(turn, t) /\ Fit(turn, f)
  BY <1>2 DEF Owns, Shrinks
<1>5. left.pending = <<>> /\ left.last = f.seq /\ left.rev \in {b.rev, f.rev}
  BY DEF Flushed
<1>6. ~v.over /\ ~left.terminal /\ left.rev \in Int /\ left.rev <= turn.rev
  BY <1>3, <1>4, <1>5 DEF Owns, Flushed, Fit
<1>7. DOMAIN left.pending = {} /\ AllFit(turn, left.pending) /\ Text(left.pending) = {}
  BY <1>5, NothingThere, TextOfNothing
<1>8. Follow(left.last, left.pending, deferred, t, link.seq)
  <2>1. deferred /= None => deferred.seq <= link.seq
    BY DEF Owns, Follow
  <2>2. left.last \in 0..link.seq
    BY <1>3, <1>5
  <2>. QED
    BY <1>2, <1>5, <1>7, <2>1, <2>2 DEF Follow
<1>9. EndOrder(deferred, t, out.queue, out.putting)
  BY <1>2 DEF Owns, EndOrder, Shrinks
<1>10. ASSUME ~v.snapshots
       PROVE  /\ Whole(v, left.pending, t, out.queue, out.putting, turn.text)
              /\ v.open
  <2>1. ~view.snapshots /\ f.kind /= "state_sync" /\ q = b.pending
    BY <1>10 DEF Flushed
  <2>2. Whole(view, b.pending, flying, out.queue, out.putting, turn.text)
    BY <2>1 DEF Owns
  <2>3. ~view.open => Text(b.pending) = {} /\ f.kind = "step_start"
    <3>1. SUFFICES ASSUME ~view.open PROVE Text(b.pending) = {} /\ f.kind = "step_start"
      OBVIOUS
    <3>2. b.pending = <<>> /\ Coming(flying, out.queue, out.putting, turn.steps)
      BY <2>1, <3>1 DEF Owns
    <3>3. Plain(f) \/ f.kind = "step_start"
      BY <1>2, <3>2 DEF Coming, Shrinks
    <3>. QED
      BY <2>1, <3>2, <3>3, TextOfNothing DEF Plain
  <2>4. Seen(view) \cup Text(b.pending) \subseteq Seen(v)
    BY <2>1, <2>3 DEF Flushed
  <2>5. v.open
    BY <2>3 DEF Flushed
  <2>. QED
    BY <1>2, <2>2, <2>4, <2>5 DEF Whole
<1>11. turn.status = "waiting_user" => Asked(v.prompt, t, out.queue, out.putting, turn.rev)
  <2>1. SUFFICES ASSUME turn.status = "waiting_user" PROVE Asked(v.prompt, t, out.queue, out.putting, turn.rev)
    OBVIOUS
  <2>2. Asked(view.prompt, flying, out.queue, out.putting, turn.rev)
    BY <2>1 DEF Owns
  <2>3. CASE f.kind = "interrupt"
    BY <1>2, <2>2, <2>3 DEF Asked, Shrinks, Flushed
  <2>4. CASE f.kind = "step_start"
    BY <1>2, <2>2, <2>4 DEF Asked, Shrinks, Flushed
  <2>5. CASE f.kind = "state_sync"
    BY <1>2, <2>2, <2>5 DEF Asked, Shrinks, Flushed, Waits
  <2>. QED
    BY <2>3, <2>4, <2>5
<1>12. Owns(v, left, deferred, t)
  <2>1. deferred /= None => turn.status \in Outcomes
    BY DEF Owns
  <2>. QED
    BY <1>4, <1>6, <1>7, <1>8, <1>9, <1>10, <1>11, <2>1 DEF Owns
<1>. QED
  BY <1>1, <1>12

-----------------------------------------------------------------------------
(* While the connection holds: the client's steps.                         *)

LEMMA OpsTaken ==
  ASSUME NEW d, NEW deferred, NEW settled, ClientTakes(d, deferred, settled), ops \in Seq({"sync"})
  PROVE  ops' \in Seq({"sync"})
<1>1. ops' = Append(ops, "sync") \/ ops' = ops
  BY DEF ClientTakes
<1>. QED
  BY <1>1

LEMMA ShowingKept ==
  ASSUME Kept, UNCHANGED <<turn, out, link>>, NEW d, NEW deferred, ClientTakes(d, deferred, FALSE),
         NEW v, v = Applied(client.view, d.events), Owns(v, d.inbox, deferred, net')
  PROVE  Kept'
<1>1. PICK x : x = d.inbox
  OBVIOUS
<1>2. PICK asked \in BOOLEAN :
        client' = [inbox |-> IF FALSE THEN EmptyInbox ELSE x, view |-> v, asked |-> asked,
                   deferred |-> deferred, settled |-> FALSE]
  BY <1>1, TakenIs
<1>3. client'.inbox = x /\ client'.view = v /\ client'.deferred = deferred /\ client'.settled = FALSE
  BY <1>2
<1>4. Owns(client'.view, client'.inbox, client'.deferred, net')
  BY <1>1, <1>3
<1>5. ops' \in Seq({"sync"})
  BY OpsTaken DEF Kept
<1>. QED
  BY <1>3, <1>4, <1>5, OwnsNext

LEMMA EndingKept ==
  ASSUME SDInv, Kept, UNCHANGED <<turn, out>>, net' = net \/ (net /= <<>> /\ net' = Tail(net)),
         NEW d, ClientTakes(d, None, TRUE), NEW v, v = Applied(client.view, d.events),
         turn.status \in Outcomes, ~v.snapshots /\ v.over => 1..turn.text \subseteq Seen(v)
  PROVE  Kept'
<1>1. PICK e : e = EmptyInbox
  OBVIOUS
<1>2. PICK asked \in BOOLEAN :
        client' = [inbox |-> IF TRUE THEN e ELSE d.inbox, view |-> v, asked |-> asked,
                   deferred |-> None, settled |-> TRUE]
  BY <1>1, TakenIs
<1>3. client'.inbox = e /\ client'.view = v /\ client'.deferred = None /\ client'.settled = TRUE
  BY <1>2
<1>4. e.pending = <<>>
  BY <1>1 DEF EmptyInbox
<1>5. ops' \in Seq({"sync"})
  BY OpsTaken DEF Kept
<1>. QED
  BY <1>3, <1>4, <1>5, SettledKept

\* What comes of a frame the client handles: it is refused, it joins the chunks that wait, or it
\* goes to the page with them.
Came(view, b, f, v, left) ==
  \/ ~IsChunk(f) /\ Refuses(b, f) /\ Flows(view, b, v, left)
  \/ /\ IsChunk(f)
     /\ \E more : /\ more = [last |-> b.last, pending |-> Append(b.pending, f), rev |-> b.rev,
                             terminal |-> b.terminal]
                  /\ Flows(view, more, v, left)
  \/ /\ ~IsChunk(f)
     /\ \E more, q : /\ more.rev = b.rev /\ more.terminal = b.terminal
                     /\ f.kind = "state_sync" \/ q = b.pending
                     /\ Flushed(view, more, q, f, v, left)

LEMMA RefusedIs ==
  ASSUME NEW b, IsInbox(b), ~b.terminal, NEW f \in Frames, b.last < f.seq, b.last \in Int,
         \A k \in DOMAIN b.pending : b.pending[k].seq < f.seq, Refuses(b, f)
  PROVE  HasState(f) /\ f.rev < b.rev
<1>1. f.seq \in Nat /\ \A k \in DOMAIN b.pending : b.pending[k].seq \in Nat
  <2>1. \A k \in DOMAIN b.pending : b.pending[k] \in Frames
    BY DEF IsInbox
  <2>. QED
    BY <2>1 DEF Frames
<1>2. PICK s : s = Synced(b, f)
  OBVIOUS
<1>3. CASE f.kind = "state_sync"
  <2>1. PICK l, p, r, u : b = [last |-> l, pending |-> p, rev |-> r, terminal |-> u]
    BY DEF IsInbox
  <2>2. s = [b EXCEPT !.pending = <<>>, !.last = f.seq - 1]
    BY <1>2, <1>3 DEF Synced
  <2>3. s = [last |-> f.seq - 1, pending |-> <<>>, rev |-> r, terminal |-> u]
    BY <2>1, <2>2
  <2>4. s.last = f.seq - 1 /\ DOMAIN s.pending = {}
    BY <2>3
  <2>5. ~(f.seq <= s.last)
    BY <1>1, <2>4
  <2>. QED
    BY <1>2, <2>4, <2>5 DEF Refuses
<1>4. CASE f.kind /= "state_sync"
  <2>1. s = b
    BY <1>2, <1>4 DEF Synced
  <2>2. ~(f.seq <= b.last) /\ \A k \in DOMAIN b.pending : b.pending[k].seq /= f.seq
    BY <1>1
  <2>. QED
    BY <1>2, <2>1, <2>2 DEF Refuses
<1>. QED
  BY <1>3, <1>4

\* In the inbox of a client that waits for its turn, only chunks without a state wait.
LEMMA OwnsChunks ==
  ASSUME NEW view, NEW b, IsInbox(b), NEW deferred, NEW flying, Owns(view, b, deferred, flying),
         link.seq \in Nat
  PROVE  /\ b.pending \in Seq(Frames) /\ SeqsRise(b.pending) /\ Stateless(b.pending, Len(b.pending))
         /\ \A i \in DOMAIN b.pending : b.last < b.pending[i].seq
         /\ b.last \in Nat
<1>1. b.pending \in Seq(Frames) /\ SeqsRise(b.pending) /\ \A k \in DOMAIN b.pending : IsChunk(b.pending[k])
  BY DEF IsInbox
<1>2. DOMAIN b.pending = 1..Len(b.pending) /\ \A k \in DOMAIN b.pending : b.pending[k] \in Frames
  BY <1>1
<1>3. \A k \in DOMAIN b.pending : ~HasState(b.pending[k])
  BY <1>1 DEF Owns, AllFit, Fit
<1>4. Stateless(b.pending, Len(b.pending))
  BY <1>1, <1>2, <1>3 DEF Stateless
<1>5. /\ \A i \in DOMAIN b.pending : b.last < b.pending[i].seq
      /\ b.last \in 0..link.seq
  BY DEF Owns, Follow
<1>. QED
  BY <1>1, <1>4, <1>5

LEMMA CameSo ==
  ASSUME NEW view, IsView(view), NEW b, IsInbox(b), NEW deferred, NEW flying,
         Owns(view, b, deferred, flying), link.seq \in Nat,
         NEW f \in Frames, f.kind \in Shows, IsChunk(f) => b.last < f.seq /\ Fit(turn, f),
         \A k \in DOMAIN b.pending : b.pending[k].seq < f.seq,
         NEW d, d = Handle(b, f), NEW v, v = Applied(view, d.events)
  PROVE  Came(view, b, f, v, d.inbox)
<1>1. /\ b.pending \in Seq(Frames) /\ SeqsRise(b.pending) /\ Stateless(b.pending, Len(b.pending))
      /\ \A i \in DOMAIN b.pending : b.last < b.pending[i].seq
      /\ b.last \in Nat /\ ~view.over /\ ~b.terminal
  BY OwnsChunks DEF Owns
<1>2. Handles(b, f, d)
  BY HandlesIt
<1>3. PICK force \in BOOLEAN : force <=> ~IsChunk(f)
  OBVIOUS
<1>4. CASE Refuses(b, f)
  <2>1. ~IsChunk(f)
    <3>1. SUFFICES ASSUME IsChunk(f) PROVE FALSE
      OBVIOUS
    <3>2. ~HasState(f)
      BY <3>1 DEF Fit
    <3>. QED
      BY <1>1, <1>4, <3>1, <3>2, RefusedIs
  <2>2. d = Drain(b, TRUE)
    <3>1. d = Drain(b, ~IsChunk(f)) /\ (~IsChunk(f)) = TRUE
      BY <1>2, <1>4, <2>1 DEF Handles
    <3>. QED
      BY <3>1
  <2>3. Flows(view, b, v, d.inbox)
    BY <1>1, <2>2, DrainChunks
  <2>. QED
    BY <1>4, <2>1, <2>3 DEF Came
<1>5. CASE ~Refuses(b, f) /\ f.kind /= "state_sync"
  <2>1. PICK more : /\ more = [last |-> b.last, pending |-> Append(b.pending, f), rev |-> b.rev,
                               terminal |-> b.terminal]
                    /\ d = Drain(more, ~IsChunk(f))
    BY <1>2, <1>5 DEF Handles
  <2>2. more.pending = Append(b.pending, f) /\ more.last = b.last /\ more.rev = b.rev /\ more.terminal = b.terminal
    BY <2>1
  <2>3. CASE IsChunk(f)
    <3>1. d = Drain(more, FALSE)
      <4>1. (~IsChunk(f)) = FALSE
        BY <2>3
      <4>. QED
        BY <2>1, <4>1
    <3>2. more.pending \in Seq(Frames) /\ SeqsRise(more.pending)
      BY <1>1, <2>2, TextAppended
    <3>3. PICK p, n : p = b.pending /\ n = Len(p)
      OBVIOUS
    <3>4. PICK t : t = Append(p, f)
      OBVIOUS
    <3>5. /\ n \in Nat /\ DOMAIN t = 1..n + 1 /\ Len(t) = n + 1 /\ DOMAIN p = 1..n /\ t[n + 1] = f
          /\ \A i \in 1..n : t[i] = p[i]
      BY <1>1, <3>3, <3>4
    <3>6. \A i \in DOMAIN t : t[i] = f \/ (i \in DOMAIN p /\ t[i] = p[i])
      BY <3>5
    <3>7. ~HasState(f)
      BY <2>3 DEF Fit
    <3>8. Stateless(t, n + 1)
      BY <1>1, <2>3, <3>3, <3>5, <3>6, <3>7 DEF Stateless
    <3>9. \A i \in DOMAIN t : b.last < t[i].seq
      BY <1>1, <2>3, <3>3, <3>6
    <3>10. more.pending = t /\ Stateless(more.pending, Len(more.pending))
      BY <2>2, <3>3, <3>4, <3>5, <3>8
    <3>11. \A i \in DOMAIN more.pending : more.last < more.pending[i].seq
      BY <2>2, <3>9, <3>10
    <3>12. Flows(view, more, v, d.inbox)
      BY <1>1, <3>1, <3>2, <3>10, <3>11, DrainChunks
    <3>. QED
      BY <2>1, <2>3, <3>12 DEF Came
  <2>4. CASE ~IsChunk(f)
    <3>1. d = Drain(more, TRUE)
      <4>1. (~IsChunk(f)) = TRUE
        BY <2>4
      <4>. QED
        BY <2>1, <4>1
    <3>2. HasState(f) => ~(f.rev < more.rev)
      BY <1>5, <2>2 DEF Refuses
    <3>3. Flushed(view, more, b.pending, f, v, d.inbox)
      BY <1>1, <2>2, <2>4, <3>1, <3>2, DrainLast
    <3>. QED
      BY <2>2, <2>4, <3>3 DEF Came
  <2>. QED
    BY <2>3, <2>4
<1>6. CASE ~Refuses(b, f) /\ f.kind = "state_sync"
  <2>1. PICK more : /\ more = [last |-> f.seq - 1, pending |-> Append(<<>>, f), rev |-> b.rev,
                               terminal |-> b.terminal]
                    /\ d = Drain(more, TRUE)
    BY <1>2, <1>6 DEF Handles
  <2>2. more.pending = Append(<<>>, f) /\ more.rev = b.rev /\ more.terminal = b.terminal
    BY <2>1
  <2>3. ~IsChunk(f)
    BY <1>6 DEF IsChunk
  <2>4. HasState(f) => ~(f.rev < more.rev)
    BY <1>6, <2>2 DEF Refuses
  <2>5. PICK q : q = <<>>
    OBVIOUS
  <2>6. q \in Seq(Frames) /\ Stateless(q, Len(q)) /\ more.pending = Append(q, f)
    BY <2>2, <2>5 DEF Stateless
  <2>7. Flushed(view, more, q, f, v, d.inbox)
    BY <1>1, <2>1, <2>3, <2>4, <2>6, DrainLast
  <2>. QED
    BY <1>6, <2>2, <2>3, <2>7 DEF Came
<1>. QED
  BY <1>4, <1>5, <1>6

\* The client goes on waiting.
LEMMA CameOn ==
  ASSUME NEW view, NEW b, IsInbox(b), NEW deferred, NEW flying \in Seq(Frames), flying /= <<>>,
         Owns(view, b, deferred, flying), link.seq \in Nat, SeqsRise(flying),
         NEW f \in Frames, f = Head(flying), ~IsTerminal(f), f.seq <= link.seq,
         f.kind \in {"step_start", "chunk", "interrupt", "state_sync"},
         NEW v, NEW left, Came(view, b, f, v, left)
  PROVE  Owns(v, left, deferred, Tail(flying))
<1>1. /\ b.pending \in Seq(Frames) /\ b.last \in Nat
      /\ \A k \in DOMAIN b.pending : b.pending[k].seq < f.seq
      /\ b.last < f.seq
  <2>1. f = flying[1] /\ 1 \in DOMAIN flying
    BY TextOfTail
  <2>. QED
    BY <2>1, OwnsChunks DEF Owns, Follow
<1>2. CASE ~IsChunk(f) /\ Refuses(b, f) /\ Flows(view, b, v, left)
  <2>1. HasState(f) /\ f.rev < b.rev /\ b.rev \in Int /\ f.rev \in Int
    <3>1. ~b.terminal /\ b.rev \in Int /\ b.last \in Int
      BY <1>1 DEF Owns
    <3>2. f.rev \in Int
      BY DEF Frames
    <3>. QED
      BY <1>1, <1>2, <3>1, <3>2, RefusedIs
  <2>2. NoRevision < f.rev
    <3>1. Fit(turn, f)
      BY TailShrinks DEF Owns, Shrinks
    <3>. QED
      BY <2>1, <3>1 DEF Fit, HasState, NoRevision
  <2>3. view.open \/ view.snapshots
    BY <2>1, <2>2 DEF Owns, NoRevision
  <2>4. turn.rev \in Int => f.rev /= turn.rev
    BY <2>1 DEF Owns
  <2>5. Owns(view, b, deferred, Tail(flying))
    <3>1. f.rev /= turn.rev
      BY <2>1 DEF Owns
    <3>. QED
      BY <1>2, <2>3, <3>1, OwnsTail
  <2>. QED
    BY <1>1, <1>2, <2>5, OwnsFlow
<1>3. CASE /\ IsChunk(f)
           /\ \E more : /\ more = [last |-> b.last, pending |-> Append(b.pending, f), rev |-> b.rev,
                                   terminal |-> b.terminal]
                        /\ Flows(view, more, v, left)
  <2>1. PICK more : /\ more = [last |-> b.last, pending |-> Append(b.pending, f), rev |-> b.rev,
                               terminal |-> b.terminal]
                    /\ Flows(view, more, v, left)
    BY <1>3
  <2>2. more.pending = Append(b.pending, f) /\ more.last = b.last /\ more.rev = b.rev /\ more.terminal = b.terminal
    BY <2>1
  <2>3. deferred = None /\ Owns(view, more, None, Tail(flying))
    BY <1>1, <1>3, <2>2, OwnsChunk
  <2>4. more.pending \in Seq(Frames)
    BY <1>1, <2>2, TextAppended
  <2>. QED
    BY <2>1, <2>3, <2>4, OwnsFlow
<1>4. CASE /\ ~IsChunk(f)
           /\ \E more, q : /\ more.rev = b.rev /\ more.terminal = b.terminal
                           /\ f.kind = "state_sync" \/ q = b.pending
                           /\ Flushed(view, more, q, f, v, left)
  <2>1. PICK more, q : /\ more.rev = b.rev /\ more.terminal = b.terminal
                       /\ f.kind = "state_sync" \/ q = b.pending
                       /\ Flushed(view, more, q, f, v, left)
    BY <1>4
  <2>2. f.kind \in {"step_start", "interrupt", "state_sync"}
    BY <1>4 DEF IsChunk
  <2>. QED
    BY <1>4, <2>1, <2>2, OwnsFlush
<1>. QED
  BY <1>2, <1>3, <1>4 DEF Came

\* What ends the turn shows all of its text, unless a snapshot was applied.
LEMMA CameEnd ==
  ASSUME NEW view, NEW b, NEW deferred, NEW flying \in Seq(Frames), Owns(view, b, deferred, flying),
         NEW f, NEW v, NEW left, Came(view, b, f, v, left),
         \/ f.kind = "state_sync"
         \/ Ends(f) /\ (deferred /= None \/ (flying /= <<>> /\ Ends(Head(flying)))),
         ~v.snapshots, v.over
  PROVE  1..turn.text \subseteq Seen(v)
<1>1. ~IsChunk(f)
  BY DEF Ends, IsChunk
<1>2. PICK more, q : /\ f.kind = "state_sync" \/ q = b.pending
                     /\ Flushed(view, more, q, f, v, left)
  <2>1. ~Flows(view, b, v, left)
    BY DEF Flows
  <2>. QED
    BY <1>1, <2>1 DEF Came
<1>3. f.kind /= "state_sync" /\ ~view.snapshots /\ q = b.pending
  BY <1>2 DEF Flushed
<1>4. /\ 1..turn.text \subseteq Seen(view) \cup Text(b.pending)
      /\ ~view.open => Text(b.pending) = {}
  BY <1>3, EndsWhole
<1>5. Seen(view) \subseteq Seen(v) /\ (view.open => Text(b.pending) \subseteq Seen(v))
  BY <1>2, <1>3 DEF Flushed
<1>. QED
  BY <1>4, <1>5

LEMMA ReceiveKept ==
  ASSUME SDInv, Kept, Receive
  PROVE  Kept'
<1>1. /\ net /= <<>> /\ net' = Tail(net) /\ UNCHANGED <<turn, out, link, losses>>
      /\ net \in Seq(Frames) /\ SeqsRise(net) /\ link.seq \in Nat
  BY DEF Receive, SDInv, LinkInv
<1>2. PICK f : f = Head(net)
  OBVIOUS
<1>3. /\ f \in Frames /\ f = net[1] /\ 1 \in DOMAIN net
      /\ Shrinks(net, f, Tail(net)) /\ Text(Tail(net)) \subseteq Text(net)
  BY <1>1, <1>2, TextOfTail, TailShrinks
<1>4. f.seq <= link.seq /\ f.kind \in Kinds
  <2>1. f.seq \in 1..link.seq
    BY <1>3 DEF SDInv, LinkInv
  <2>. QED
    BY <1>1, <1>3, <2>1 DEF Frames
<1>5. IsView(client.view) /\ IsInbox(client.inbox)
  BY DEF SDInv, ClientInv, IsView, IsInbox
<1>6. CASE client.settled
  <2>1. UNCHANGED <<client, ops>>
    BY <1>2, <1>6 DEF Receive
  <2>2. turn.status \in Outcomes /\ client.deferred = None /\ client.inbox.pending = <<>>
    BY <1>6 DEF Kept, FitInv, SDInv, ClientInv
  <2>3. ~client.view.snapshots /\ client.view.over => 1..turn.text \subseteq Seen(client.view)
    BY <1>6 DEF Kept, TextInv
  <2>4. /\ client'.settled /\ client'.deferred = None /\ client'.inbox.pending = <<>>
        /\ ~client'.view.snapshots /\ client'.view.over => 1..turn.text \subseteq Seen(client'.view)
        /\ ops' \in Seq({"sync"})
    BY <1>6, <2>1, <2>2, <2>3 DEF Kept
  <2>. QED
    BY <1>1, <2>2, <2>4, SettledKept
<1>7. ASSUME ~client.settled PROVE Kept'
  <2>1. Owns(client.view, client.inbox, client.deferred, net)
    BY <1>7, OwnsNow
  <2>2. PICK d, v : d = Handle(client.inbox, f) /\ v = Applied(client.view, d.events)
    OBVIOUS
  <2>3. ASSUME f.kind \in Shows PROVE Came(client.view, client.inbox, f, v, d.inbox)
    <3>1. client.inbox.last < f.seq /\ \A k \in DOMAIN client.inbox.pending : client.inbox.pending[k].seq < f.seq
      BY <1>3, <2>1 DEF Owns, Follow
    <3>2. Fit(turn, f)
      BY <1>3, <2>1 DEF Owns, Shrinks
    <3>. QED
      BY <1>1, <1>3, <1>5, <2>1, <2>2, <2>3, <3>1, <3>2, CameSo
  <2>4. CASE f.kind = "timeline_event"
    <3>1. UNCHANGED <<client, ops>>
      BY <1>2, <2>4 DEF Receive
    <3>2. Owns(client.view, client.inbox, client.deferred, Tail(net))
      BY <1>1, <1>2, <2>1, <2>4, OwnsTail DEF IsChunk
    <3>. QED
      BY <1>1, <1>7, <3>1, <3>2, OwnsNext DEF Kept
  <2>5. CASE f.kind = "done"
    <3>1. client' = [client EXCEPT !.deferred = f] /\ UNCHANGED ops
      BY <1>2, <1>7, <2>5 DEF Receive
    <3>2. PICK x, w, e, a, s :
            /\ client = [inbox |-> x, view |-> w, deferred |-> e, asked |-> a, settled |-> s]
            /\ client.inbox = x /\ client.view = w /\ client.settled = s
      BY DEF SDInv, ClientInv
    <3>3. client' = [inbox |-> x, view |-> w, deferred |-> f, asked |-> a, settled |-> s]
      BY <3>1, <3>2
    <3>4. client'.inbox = x /\ client'.view = w /\ client'.deferred = f /\ client'.settled = s
      BY <3>3
    <3>5. Owns(client.view, client.inbox, f, Tail(net))
      BY <1>1, <1>2, <1>4, <2>1, <2>5, OwnsDone
    <3>6. Owns(client'.view, client'.inbox, client'.deferred, net') /\ ~client'.settled
      BY <1>1, <1>7, <3>2, <3>4, <3>5
    <3>7. ops' \in Seq({"sync"})
      BY <3>1 DEF Kept
    <3>. QED
      BY <1>1, <3>6, <3>7, OwnsNext
  <2>6. CASE f.kind \in {"step_start", "chunk", "interrupt"}
    <3>1. PICK deferred : /\ deferred \in {None, client.deferred}
                          /\ ClientTakes(d, deferred, FALSE)
      BY <1>2, <1>7, <2>2, <2>6 DEF Receive
    <3>2. ~IsTerminal(f) /\ f.kind \in Shows
      BY <2>6 DEF IsTerminal, Shows, Kinds
    <3>3. Owns(v, d.inbox, client.deferred, Tail(net))
      BY <1>1, <1>2, <1>3, <1>4, <1>5, <2>1, <2>3, <2>6, <3>2, CameOn
    <3>4. Owns(v, d.inbox, deferred, net')
      BY <1>1, <3>1, <3>3, OwnsNone
    <3>. QED
      BY <1>1, <2>2, <3>1, <3>4, ShowingKept
  <2>7. CASE f.kind \in {"state_sync", "error"}
    <3>1. ClientTakes(d, IF IsTerminal(f) THEN None ELSE client.deferred, IsTerminal(f))
      BY <1>2, <1>7, <2>2, <2>7 DEF Receive
    <3>2. f.kind \in Shows
      BY <2>7 DEF Shows, Kinds
    <3>3. CASE ~IsTerminal(f)
      <4>1. IsTerminal(f) = FALSE
        BY <3>3 DEF IsTerminal
      <4>2. ClientTakes(d, client.deferred, FALSE)
        <5>1. PICK e : e = IF IsTerminal(f) THEN None ELSE client.deferred
          OBVIOUS
        <5>2. e = client.deferred
          BY <3>3, <5>1
        <5>3. ClientTakes(d, e, IsTerminal(f))
          BY <3>1, <5>1
        <5>. QED
          BY <4>1, <5>2, <5>3
      <4>3. f.kind = "state_sync"
        BY <2>7, <3>3 DEF IsTerminal
      <4>4. Owns(v, d.inbox, client.deferred, Tail(net))
        BY <1>1, <1>2, <1>3, <1>4, <1>5, <2>1, <2>3, <3>2, <3>3, <4>3, CameOn
      <4>. QED
        BY <1>1, <2>2, <4>2, <4>4, ShowingKept
    <3>4. CASE IsTerminal(f)
      <4>1. IsTerminal(f) = TRUE
        BY <3>4 DEF IsTerminal
      <4>2. ClientTakes(d, None, TRUE)
        <5>1. (IF IsTerminal(f) THEN None ELSE client.deferred) = None
          BY <3>4
        <5>. QED
          BY <3>1, <4>1, <5>1, Zenon
      <4>3. turn.status \in Outcomes
        <5>1. Fit(turn, f)
          BY <1>3, <2>1 DEF Owns, Shrinks
        <5>. QED
          BY <3>4, <5>1 DEF Fit, IsTerminal, Ends
      <4>4. ~v.snapshots /\ v.over => 1..turn.text \subseteq Seen(v)
        BY <1>1, <1>2, <2>1, <2>3, <2>7, <3>2, CameEnd DEF Ends
      <4>. QED
        BY <1>1, <2>2, <4>2, <4>3, <4>4, EndingKept
    <3>. QED
      BY <3>3, <3>4
  <2>. QED
    BY <1>4, <2>4, <2>5, <2>6, <2>7 DEF Kinds
<1>. QED
  BY <1>6, <1>7

LEMMA DoneTimerKept ==
  ASSUME SDInv, Kept, DoneTimer
  PROVE  Kept'
<1>1. PICK f : f = client.deferred
  OBVIOUS
<1>2. /\ f /= None /\ UNCHANGED <<turn, out, link, net, losses>>
      /\ ClientTakes(Handle(client.inbox, f), None, TRUE)
  BY <1>1 DEF DoneTimer
<1>3. f \in Frames /\ f.kind = "done" /\ f.kind \in Shows /\ ~IsChunk(f) /\ Ends(f)
  <2>1. f \in Frames /\ f.kind \in {"done", "none"}
    BY <1>1, <1>2 DEF SDInv, ClientInv
  <2>2. f.kind \in Kinds
    BY <2>1 DEF Frames
  <2>. QED
    BY <2>1, <2>2 DEF Kinds, Shows, IsChunk, Ends
<1>4. ~client.settled
  BY <1>1, <1>2 DEF Kept, FitInv
<1>5. Owns(client.view, client.inbox, f, net) /\ net \in Seq(Frames) /\ link.seq \in Nat
  BY <1>1, <1>4, OwnsNow, TypesAre
<1>6. IsView(client.view) /\ IsInbox(client.inbox)
  BY DEF SDInv, ClientInv, IsView, IsInbox
<1>7. PICK d, v : d = Handle(client.inbox, f) /\ v = Applied(client.view, d.events)
  OBVIOUS
<1>8. Came(client.view, client.inbox, f, v, d.inbox)
  <2>1. \A k \in DOMAIN client.inbox.pending : client.inbox.pending[k].seq < f.seq
    BY <1>2, <1>5 DEF Owns, Follow
  <2>. QED
    BY <1>3, <1>5, <1>6, <1>7, <2>1, CameSo
<1>9. turn.status \in Outcomes
  BY <1>2, <1>5 DEF Owns
<1>10. ~v.snapshots /\ v.over => 1..turn.text \subseteq Seen(v)
  BY <1>2, <1>3, <1>5, <1>8, CameEnd
<1>. QED
  BY <1>2, <1>7, <1>9, <1>10, EndingKept

LEMMA GapTimerKept ==
  ASSUME SDInv, Kept, GapTimer
  PROVE  Kept'
<1>1. PICK b, e, s : b = client.inbox /\ e = client.deferred /\ s = client.settled
  OBVIOUS
<1>2. /\ b.pending /= <<>> /\ UNCHANGED <<turn, out, link, net, losses>>
      /\ ClientTakes(Drain(b, TRUE), e, s)
  BY <1>1 DEF GapTimer
<1>3. s = FALSE /\ IsView(client.view) /\ IsInbox(b)
  BY <1>1, <1>2 DEF SDInv, ClientInv, IsView, IsInbox
<1>4. Owns(client.view, b, e, net) /\ link.seq \in Nat
  BY <1>1, <1>3, OwnsNow, TypesAre
<1>5. PICK d, v : d = Drain(b, TRUE) /\ v = Applied(client.view, d.events)
  OBVIOUS
<1>6. /\ b.pending \in Seq(Frames) /\ SeqsRise(b.pending) /\ Stateless(b.pending, Len(b.pending))
      /\ \A i \in DOMAIN b.pending : b.last < b.pending[i].seq
  BY <1>3, <1>4, OwnsChunks
<1>7. Flows(client.view, b, v, d.inbox)
  <2>1. ~client.view.over
    BY <1>4 DEF Owns
  <2>. QED
    BY <1>3, <1>5, <1>6, <2>1, DrainChunks
<1>8. Owns(v, d.inbox, e, net)
  BY <1>4, <1>6, <1>7, OwnsFlow
<1>9. Owns(v, d.inbox, e, net')
  BY <1>2, <1>8
<1>10. ClientTakes(d, e, FALSE)
  BY <1>2, <1>3, <1>5
<1>. QED
  BY <1>2, <1>5, <1>9, <1>10, ShowingKept

LEMMA InitKept ==
  ASSUME SDInv, Init
  PROVE  Kept
<1>1. PICK b : b = EmptyInbox
  OBVIOUS
<1>2. b.last = 0 /\ b.pending = <<>> /\ b.rev = NoRevision /\ b.terminal = FALSE
  BY <1>1 DEF EmptyInbox
<1>3. PICK w : w = EmptyView
  OBVIOUS
<1>4. w.shown = <<>> /\ w.open = FALSE /\ w.over = FALSE
  BY <1>3 DEF EmptyView
<1>5. /\ client = [inbox |-> b, view |-> w, deferred |-> None, asked |-> FALSE, settled |-> FALSE]
      /\ client.inbox = b /\ client.view = w /\ client.deferred = None /\ client.settled = FALSE
  BY <1>1, <1>3 DEF Init
<1>6. /\ turn.status = "running" /\ turn.rev = 0 /\ turn.text = 0 /\ turn.steps = 0
      /\ out.queue = <<>> /\ out.putting = None /\ out.latest = None
      /\ link.seq = 0 /\ net = <<>> /\ ops = <<>>
  BY DEF Init
<1>7. DOMAIN <<>> = {} /\ <<>> \in Seq({"sync"}) /\ 1..0 = {} /\ Text(<<>>) = {}
  BY TextOfNothing
<1>8. /\ None.kind = "none" /\ Plain(None) /\ Text(<<None>>) = {} /\ Fit(turn, None)
      /\ Still(<<>>) /\ EndsLast(<<>>) /\ ~Ended(<<>>) /\ AllFit(turn, <<>>)
  BY <1>6, NoneIs, NothingThere
<1>9. FitInv
  <2>1. None.kind /= "state_sync"
    BY <1>8
  <2>. QED
    BY <1>2, <1>5, <1>6, <1>8, <2>1 DEF FitInv
<1>10. SeqInv
  <2>1. Follow(0, <<>>, None, <<>>, 0)
    BY <1>7 DEF Follow
  <2>2. NoRevision \in Int /\ NoRevision <= 0
    BY DEF NoRevision
  <2>. QED
    BY <1>2, <1>4, <1>5, <1>6, <2>1, <2>2 DEF SeqInv
<1>11. EndInv
  BY <1>5, <1>6, <1>7, <1>8 DEF EndInv, EndOrder
<1>12. TextInv
  <2>1. Coming(<<>>, <<>>, None, 0)
    BY <1>8 DEF Coming
  <2>2. Whole(w, <<>>, <<>>, <<>>, None, 0)
    BY <1>7 DEF Whole
  <2>. QED
    BY <1>2, <1>4, <1>5, <1>6, <2>1, <2>2 DEF TextInv
<1>13. WaitInv
  BY <1>6 DEF WaitInv
<1>. QED
  BY <1>6, <1>7, <1>9, <1>10, <1>11, <1>12, <1>13 DEF Kept

\* Of a lost connection and a new one the second invariant says nothing.
LEMMA LostIsLost ==
  ASSUME SDInv, LoseConnection \/ Reconnect
  PROVE  losses' /= 0
<1>1. /\ losses \in 0..MaxLosses /\ link.bound \in 1..link.conn /\ link.conn \in Nat
      /\ link.conn = IF link.up THEN losses + 1 ELSE losses
  BY DEF SDInv, LinkInv
<1>2. CASE LoseConnection
  <2>1. losses' = losses + 1
    BY <1>2 DEF LoseConnection
  <2>. QED
    BY <1>1, <2>1
<1>3. CASE Reconnect
  <2>1. ~link.up /\ losses' = losses
    BY <1>3 DEF Reconnect
  <2>2. link.conn = losses
    BY <1>1, <2>1
  <2>. QED
    BY <1>1, <2>1, <2>2
<1>. QED
  BY <1>2, <1>3

LEMMA NextKept ==
  ASSUME SDInv, KeptInv, [Next]_vars
  PROVE  KeptInv'
<1>1. SUFFICES ASSUME losses' = 0 PROVE Kept'
  BY DEF KeptInv
<1>2. ~(LoseConnection \/ Reconnect)
  BY <1>1, LostIsLost
<1>3. losses' = losses => losses = 0 /\ Kept
  BY <1>1 DEF KeptInv
<1>4. CASE RunSteps
  <2>1. RunKeeps
    BY <1>4, Zenon DEF RunSteps, Put, StartStep, StreamText, PublishTimeline, AskUser, Resume, EndTurn,
                       Close, Forget
  <2>. QED
    BY <1>3, <1>4, <2>1, RunStepsKept DEF RunKeeps
<1>5. CASE Dispatch
  BY <1>3, <1>5, DispatchKept DEF Dispatch, DispatcherKeeps
<1>6. CASE AfterSend
  BY <1>3, <1>6, AfterSendKept DEF AfterSend, DispatcherKeeps
<1>7. CASE HandleOperation
  BY <1>3, <1>7, HandleOperationKept DEF HandleOperation
<1>8. CASE Receive
  BY <1>3, <1>8, ReceiveKept DEF Receive
<1>9. CASE DoneTimer
  BY <1>3, <1>9, DoneTimerKept DEF DoneTimer
<1>10. CASE GapTimer
  BY <1>3, <1>10, GapTimerKept DEF GapTimer
<1>11. CASE UNCHANGED vars
  <2>1. UNCHANGED <<turn, out, link, net, ops, client, losses>>
    BY <1>11 DEF vars
  <2>2. FitInv' /\ SeqInv'
    BY <1>3, <2>1 DEF Kept, FitInv, SeqInv
  <2>3. EndInv' /\ TextInv' /\ WaitInv'
    BY <1>3, <2>1 DEF Kept, EndInv, TextInv, WaitInv
  <2>. QED
    BY <1>3, <2>1, <2>2, <2>3 DEF Kept
<1>. QED
  BY <1>2, <1>4, <1>5, <1>6, <1>7, <1>8, <1>9, <1>10, <1>11 DEF Next, Progress

LEMMA KeptHolds ==
  Spec => []KeptInv
<1>1. Init => KeptInv
  BY DeliveryAssumption, InitHolds, InitKept DEF KeptInv
<1>2. SDInv /\ KeptInv /\ [Next]_vars => KeptInv'
  BY NextKept
<1>. QED
  BY <1>1, <1>2, InvHolds, PTL DEF Spec

-----------------------------------------------------------------------------
\* Text that rises and is all of 1..n is 1..n.
LEMMA CountedUp ==
  ASSUME NEW n \in Nat, NEW s \in Seq(Nat), Rising(s), {s[i] : i \in DOMAIN s} = 1..n
  PROVE  s = [k \in 1..n |-> k]
<1>1. PICK m : m = Len(s)
  OBVIOUS
<1>2. m \in Nat /\ DOMAIN s = 1..m /\ \A i \in 1..m : s[i] \in 1..n
  BY <1>1
<1>3. \A x \in 1..n : \E i \in 1..m : s[i] = x
  BY <1>2
<1> DEFINE T == {k \in 0..n : k <= m /\ \A j \in 1..k : s[j] = j}
<1>4. 0 \in T
  BY <1>2
<1>5. ASSUME NEW k \in 1..n, k - 1 \in T PROVE k \in T
  <2>1. k - 1 <= m /\ \A j \in 1..k - 1 : s[j] = j
    BY <1>5
  <2>2. PICK i \in 1..m : s[i] = k
    BY <1>3
  <2>3. i \notin 1..k - 1
    <3>1. SUFFICES ASSUME i \in 1..k - 1 PROVE FALSE
      OBVIOUS
    <3>2. s[i] = i
      BY <2>1, <3>1
    <3>. QED
      BY <2>2, <3>1, <3>2
  <2>4. i >= k /\ k <= m /\ k \in 1..m
    BY <1>2, <2>3
  <2>5. s[k] = k
    <3>1. s[k] \in 1..n /\ s[k] >= k
      <4>1. s[k] \in 1..n
        BY <1>2, <2>4
      <4>2. \A j \in 1..k - 1 : s[j] < s[k]
        <5>0. k \in Nat /\ m \in Nat /\ k <= m
          BY <1>2, <2>4
        <5>1. \A j \in 1..k - 1 : j \in 1..m /\ j < k
          BY <5>0
        <5>. QED
          BY <1>2, <2>4, <5>1 DEF Rising
      <4>3. \A j \in 1..k - 1 : j < s[k]
        BY <2>1, <4>2
      <4>4. k - 1 = 0 \/ k - 1 \in 1..k - 1
        OBVIOUS
      <4>. QED
        BY <4>1, <4>3, <4>4
    <3>2. i = k \/ s[k] < s[i]
      <4>1. i = k \/ k < i
        BY <1>2, <2>4
      <4>. QED
        BY <1>2, <2>4, <4>1 DEF Rising
    <3>. QED
      BY <2>2, <3>1, <3>2
  <2>6. \A j \in 1..k : j = k \/ j \in 1..k - 1
    OBVIOUS
  <2>. QED
    BY <2>1, <2>4, <2>5, <2>6
<1>6. \A k \in 1..n : k - 1 \in T => k \in T
  BY <1>5
<1>. HIDE DEF T
<1>7. \A k \in 0..n : k \in T
  BY <1>4, <1>6, CountUp
<1>8. n \in T
  BY <1>7
<1>9. n <= m /\ \A j \in 1..n : s[j] = j
  BY <1>8 DEF T
<1>10. m = n
  <2>1. SUFFICES ASSUME m > n PROVE FALSE
    BY <1>2, <1>9
  <2>2. m \in 1..m /\ s[m] \in 1..n
    BY <1>2, <2>1
  <2>3. s[m] \in 1..m /\ s[m] < m /\ s[s[m]] = s[m]
    BY <1>2, <1>9, <2>1, <2>2
  <2>4. s[s[m]] < s[m]
    BY <1>2, <2>2, <2>3 DEF Rising
  <2>. QED
    BY <2>2, <2>3, <2>4
<1>11. s = [k \in 1..m |-> s[k]]
  BY <1>1
<1>. QED
  BY <1>9, <1>10, <1>11

\* No text is lost to a full queue, to a gap or to the order in which the frames are handled: while
\* no connection is lost and no snapshot is applied, a turn that is shown as over shows all of its
\* text, for every limit of the queue and of the connection.
THEOREM TextIsKept ==
  Spec => []TextKept
<1>1. SDInv /\ KeptInv => TextKept
  <2>1. SUFFICES ASSUME SDInv, KeptInv, client.view.over, losses = 0, ~client.view.snapshots
                 PROVE  client.view.shown = [k \in 1..turn.text |-> k]
    BY DEF TextKept
  <2>2. PICK s, n : s = client.view.shown /\ n = turn.text
    OBVIOUS
  <2>3. client.settled
    BY <2>1 DEF KeptInv, Kept, SeqInv
  <2>4. 1..n \subseteq {s[i] : i \in DOMAIN s}
    BY <2>1, <2>2, <2>3 DEF KeptInv, Kept, TextInv, Seen
  <2>5. s \in Seq(Nat) /\ Rising(s) /\ {s[i] : i \in DOMAIN s} \subseteq 1..n
    BY <2>1, <2>2 DEF SDInv, ClientInv, OrderInv, InOrder, Seen
  <2>6. n \in Nat /\ {s[i] : i \in DOMAIN s} = 1..n
    BY <2>1, <2>2, <2>4, <2>5, TypesAre
  <2>7. s = [k \in 1..n |-> k]
    BY <2>5, <2>6, CountedUp
  <2>. QED
    BY <2>2, <2>7
<1>. QED
  BY <1>1, InvHolds, KeptHolds, PTL

\* No turn waits behind its user's back: while no connection is lost, a turn that waits for the
\* user and has nothing under way has its question on the page, whatever the queue dropped,
\* whatever snapshots replaced it and whatever the inbox refused, for every limit of the queue
\* and of the connection.
THEOREM QuestionIsShown ==
  Spec => []PromptShown
<1>1. SDInv /\ KeptInv => PromptShown
  <2>1. SUFFICES ASSUME SDInv, KeptInv, turn.status = "waiting_user", losses = 0,
                        out.queue = <<>>, out.putting = None, net = <<>>
                 PROVE  client.view.prompt
    BY DEF PromptShown
  <2>2. Asked(client.view.prompt, net, out.queue, out.putting, turn.rev)
    BY <2>1 DEF KeptInv, Kept, WaitInv
  <2>. QED
    BY <2>1, <2>2, NoneIs, NothingThere DEF Asked
<1>. QED
  BY <1>1, InvHolds, KeptHolds, PTL

=============================================================================
