----------------------------- MODULE StreamDelivery -----------------------------
(***************************************************************************)
(* How one turn's events reach the client that sent it.  The run publishes *)
(* to a bounded queue; the dispatcher takes the events to the connection   *)
(* the turn is bound to; the connection numbers its frames, those of other *)
(* traffic included; the client orders and applies them.  Connections are  *)
(* lost and made again, and the client asks for a snapshot of the state.   *)
(***************************************************************************)
EXTENDS StreamInbox

CONSTANTS
  QueueLimit,  \* capacity of the dispatcher's queue
  MaxText, MaxSteps, MaxAsks,  \* text chunks, node starts and questions of the turn
  MaxMarks,    \* timeline events of the turn
  NetLimit,    \* frames a connection holds before a send waits
  MaxLosses    \* lost connections

ASSUME DeliveryAssumption ==
  /\ QueueLimit \in Nat \ {0} /\ NetLimit \in Nat \ {0}
  /\ {MaxText, MaxSteps, MaxAsks, MaxMarks, MaxLosses} \subseteq Nat

VARIABLES
  turn,    \* what the run has done: [status, rev, text, steps, marks, asks]
  out,     \* the dispatcher: [queue, putting, latest, snapshot, sent, phase]
  link,    \* [up, conn, seq, bound]: the client's connection, how many frames
           \* it has sent, and the connection the turn is bound to
  net,     \* frames on their way to the client
  ops,     \* the client's operations on their way to the server
  client,  \* [inbox, view, deferred, asked, settled]
  losses

vars == <<turn, out, link, net, ops, client, losses>>

None == Frame("none")

Init ==
  /\ turn = [status |-> "running", rev |-> 0, text |-> 0, steps |-> 0, marks |-> 0, asks |-> 0]
  /\ out = [queue |-> <<>>, putting |-> None, latest |-> None, snapshot |-> FALSE,
            sent |-> FALSE, phase |-> "open"]
  /\ link = [up |-> TRUE, conn |-> 1, seq |-> 0, bound |-> 1]
  /\ net = <<>>
  /\ ops = <<>>
  /\ client = [inbox |-> EmptyInbox, view |-> EmptyView, deferred |-> None,
               asked |-> FALSE, settled |-> FALSE]
  /\ losses = 0

-----------------------------------------------------------------------------
(* The run publishes.                                                      *)

MayBeDropped(f) == f.kind = "state_sync"

\* Mutant: whatever finds the queue full is dropped.
PublishedNoWait(f) ==
  LET full == Len(out.queue) >= QueueLimit
  IN [out EXCEPT !.latest = IF HasState(f) THEN f ELSE @,
                 !.snapshot = @ \/ (full /\ HasState(f)),
                 !.queue = IF full THEN @ ELSE Append(@, f)]
\* Mutant: the queue holds one frame too many.
PublishedOver(f) ==
  LET full == Len(out.queue) > QueueLimit
  IN [out EXCEPT !.latest = IF HasState(f) THEN f ELSE @,
                 !.putting = IF full /\ ~MayBeDropped(f) THEN f ELSE @,
                 !.queue = IF full THEN @ ELSE Append(@, f)]
Published(f) ==
  LET full == Len(out.queue) >= QueueLimit
  IN [out EXCEPT !.latest = IF HasState(f) THEN f ELSE @,
                 !.snapshot = @ \/ (full /\ HasState(f)),
                 !.putting = IF full /\ ~MayBeDropped(f) THEN f ELSE @,
                 !.queue = IF full THEN @ ELSE Append(@, f)]

RunMoves == out.phase = "open" /\ out.putting = None
RunKeeps == UNCHANGED <<link, net, ops, client, losses>>

\* The awaited put goes through.
Put ==
  /\ out.putting /= None /\ Len(out.queue) < QueueLimit
  /\ out' = [out EXCEPT !.queue = Append(@, out.putting), !.putting = None]
  /\ UNCHANGED turn /\ RunKeeps

\* The agent starts.  What ran in between has shown its revisions, or was a
\* tool the client is not told of.
StartStep ==
  /\ RunMoves /\ turn.status = "running" /\ turn.steps < MaxSteps
  /\ \E rev \in {turn.rev + 1} \cup IF turn.steps = 0 THEN {} ELSE {turn.rev + 3} :
       /\ turn' = [turn EXCEPT !.steps = @ + 1, !.rev = rev]
       /\ out' = Published(StateFrame("step_start", rev, "running"))
  /\ RunKeeps

StreamText ==
  /\ RunMoves /\ turn.status = "running" /\ turn.steps > 0 /\ turn.text < MaxText
  /\ turn' = [turn EXCEPT !.text = @ + 1]
  /\ out' = Published([Frame("chunk") EXCEPT !.text = turn.text + 1])
  /\ RunKeeps

\* A durable event; the last ones follow the turn's end.
PublishTimeline ==
  /\ RunMoves /\ turn.marks < MaxMarks /\ turn.status /= "waiting_user"
  /\ turn' = [turn EXCEPT !.marks = @ + 1]
  /\ out' = Published(Frame("timeline_event"))
  /\ RunKeeps

AskUser ==
  /\ RunMoves /\ turn.status = "running" /\ turn.steps > 0 /\ turn.asks < MaxAsks
  /\ turn' = [turn EXCEPT !.status = "waiting_user", !.asks = @ + 1, !.rev = @ + 1]
  /\ out' = Published(StateFrame("interrupt", turn.rev + 1, "waiting_user"))
  /\ RunKeeps

\* The user's answer, or the 300 seconds for it are over.
Resume ==
  /\ RunMoves /\ turn.status = "waiting_user"
  /\ turn' = [turn EXCEPT !.status = "running"]
  /\ UNCHANGED out /\ RunKeeps

EndTurn ==
  /\ RunMoves /\ turn.status = "running"
  /\ \/ /\ turn' = [turn EXCEPT !.status = "completed", !.rev = @ + 1]
        /\ out' = Published(StateFrame("done", turn.rev + 1, "completed"))
     \/ /\ turn' = [turn EXCEPT !.status = "failed", !.rev = @ + 1]
        /\ out' = Published(Frame("error"))
  /\ RunKeeps

\* The run's last steps: the dispatcher is closed, drained and forgotten.
Close ==
  /\ RunMoves /\ turn.status \in Outcomes
  /\ out' = [out EXCEPT !.phase = "closed"]
  /\ UNCHANGED turn /\ RunKeeps

\* Mutant: the dispatcher is forgotten with frames in its queue.
ForgetUndrained ==
  /\ out.phase = "closed" /\ ~out.sent
  /\ out' = [out EXCEPT !.phase = "gone", !.latest = None, !.snapshot = FALSE]
  /\ UNCHANGED turn /\ RunKeeps
Forget ==
  /\ out.phase = "closed" /\ out.queue = <<>> /\ ~out.sent
  /\ out' = [out EXCEPT !.phase = "gone", !.latest = None, !.snapshot = FALSE]
  /\ UNCHANGED turn /\ RunKeeps

-----------------------------------------------------------------------------
(* The dispatcher and the connection.                                      *)

\* send_event: numbered on a live connection, nothing on any other.
Transmit(conn, f) ==
  IF link.up /\ conn = link.conn
  THEN /\ Len(net) < NetLimit
       /\ link' = [link EXCEPT !.seq = @ + 1]
       /\ net' = Append(net, [f EXCEPT !.seq = link.seq + 1])
  ELSE UNCHANGED <<link, net>>

DispatcherKeeps == UNCHANGED <<turn, ops, client, losses>>

Dispatch ==
  /\ out.phase /= "gone" /\ out.queue /= <<>> /\ ~out.sent
  /\ Transmit(link.bound, Head(out.queue))
  /\ out' = [out EXCEPT !.queue = Tail(@), !.sent = TRUE]
  /\ DispatcherKeeps

\* After a frame: the latest state, if a frame with a state found the queue full.
AfterSend ==
  /\ out.sent
  /\ IF out.snapshot /\ out.latest /= None
     THEN /\ Transmit(link.bound, [out.latest EXCEPT !.kind = "state_sync"])
          /\ out' = [out EXCEPT !.sent = FALSE, !.snapshot = FALSE, !.latest = None]
     ELSE /\ out' = [out EXCEPT !.sent = FALSE]
          /\ UNCHANGED <<link, net>>
  /\ DispatcherKeeps

-----------------------------------------------------------------------------
(* The server handles the client's operations.                             *)

\* session.subscribe: a waiting turn is bound to the connection and its
\* question sent again; any other turn stays where it is.
Subscribe ==
  /\ Head(ops) = "subscribe"
  /\ IF turn.status = "waiting_user"
     THEN /\ Len(net) < NetLimit
          /\ link' = [link EXCEPT !.bound = link.conn, !.seq = @ + 1]
          /\ net' = Append(net, [StateFrame("interrupt", turn.rev, turn.status) EXCEPT !.seq = link.seq + 1])
     ELSE UNCHANGED <<link, net>>
  /\ UNCHANGED out

\* state.sync: through the dispatcher of the turn, else straight back.
Sync ==
  LET f == StateFrame("state_sync", turn.rev, turn.status)
  IN /\ Head(ops) = "sync"
     /\ IF out.phase = "gone" THEN Transmit(link.conn, f) /\ UNCHANGED out
        ELSE /\ out' = IF out.phase = "open" THEN Published(f) ELSE out
             /\ UNCHANGED <<link, net>>

HandleOperation ==
  /\ link.up /\ ops /= <<>>
  /\ Subscribe \/ Sync
  /\ ops' = Tail(ops)
  /\ UNCHANGED <<turn, client, losses>>

-----------------------------------------------------------------------------
(* The client.                                                             *)

\* What comes out of the inbox is applied; a gap makes the client ask for a
\* snapshot once.
Takes(drain) ==
  LET asks == drain.gap /\ ~client.asked
      synced == \E k \in DOMAIN drain.events : drain.events[k].kind = "state_sync"
  IN [inbox |-> drain.inbox,
      view |-> Applied(client.view, drain.events),
      asked |-> (client.asked \/ asks) /\ ~synced,
      asks |-> asks]

ClientTakes(drain, deferred, settled) ==
  \E taken \in {Takes(drain)} :
    /\ client' = [inbox |-> IF settled THEN EmptyInbox ELSE taken.inbox, view |-> taken.view,
                  asked |-> taken.asked /\ ~settled, deferred |-> deferred, settled |-> settled]
    /\ ops' = IF taken.asks /\ link.up THEN Append(ops, "sync") ELSE ops

\* handleMessage: done waits for 50 ms, what ends the turn settles it.
Receive ==
  /\ link.up /\ net /= <<>>
  /\ net' = Tail(net)
  /\ \E f \in {Head(net)}, drain \in {Handle(client.inbox, Head(net))} :
       CASE client.settled \/ f.kind = "timeline_event" -> UNCHANGED <<client, ops>>
         [] ~client.settled /\ f.kind = "done" ->
              client' = [client EXCEPT !.deferred = f] /\ UNCHANGED ops
         [] ~client.settled /\ f.kind = "interrupt" -> ClientTakes(drain, None, FALSE)
         [] ~client.settled /\ f.kind \in {"state_sync", "error"} ->
              ClientTakes(drain, IF IsTerminal(f) THEN None ELSE client.deferred, IsTerminal(f))
         [] ~client.settled /\ f.kind \in {"step_start", "chunk"} ->
              ClientTakes(drain, client.deferred, FALSE)
  /\ UNCHANGED <<turn, out, link, losses>>

DoneTimer ==
  /\ client.deferred /= None
  /\ \E drain \in {Handle(client.inbox, client.deferred)} : ClientTakes(drain, None, TRUE)
  /\ UNCHANGED <<turn, out, link, net, losses>>

\* The 100 ms behind a gap are over.
GapTimer ==
  /\ client.inbox.pending /= <<>>
  /\ \E drain \in {Drain(client.inbox, TRUE)} : ClientTakes(drain, client.deferred, client.settled)
  /\ UNCHANGED <<turn, out, link, net, losses>>

\* A client that has its answer has nothing to lose.
LoseConnection ==
  /\ link.up /\ losses < MaxLosses /\ ~client.settled
  /\ link' = [link EXCEPT !.up = FALSE]
  /\ net' = <<>> /\ ops' = <<>>
  /\ losses' = losses + 1
  /\ UNCHANGED <<turn, out, client>>

\* A new connection counts from 1; the client subscribes to its session and
\* asks for the state of the turn it waits for.
Reconnect ==
  /\ ~link.up
  /\ link' = [link EXCEPT !.up = TRUE, !.conn = @ + 1, !.seq = 0]
  /\ ops' = <<"subscribe">> \o IF client.settled THEN <<>> ELSE <<"sync">>
  /\ UNCHANGED <<turn, out, net, client, losses>>

-----------------------------------------------------------------------------
RunSteps ==
  \/ Put \/ StartStep \/ StreamText \/ PublishTimeline \/ AskUser \/ Resume \/ EndTurn
  \/ Close \/ Forget

Progress ==
  \/ RunSteps \/ Dispatch \/ AfterSend \/ HandleOperation
  \/ Receive \/ DoneTimer \/ GapTimer \/ Reconnect

Next == Progress \/ LoseConnection

\* The run, the dispatcher and the server's reader are tasks of one event
\* loop, a wait for the user ends after 300 seconds, the client's timers
\* fire, and a client without a connection makes a new one.  All of it is
\* bounded, so it is enough that something happens while something can.
Fairness == WF_vars(Progress)

Spec == Init /\ [][Next]_vars /\ Fairness

-----------------------------------------------------------------------------
(* Properties.                                                             *)

\* Every variable keeps its type.
TypeOK ==
  /\ turn.status \in {"running", "waiting_user"} \cup Outcomes
  /\ turn.text \in 0..MaxText /\ turn.steps \in 0..MaxSteps
  /\ Len(out.queue) <= QueueLimit
  /\ out.phase \in {"open", "closed", "gone"}
  /\ out.phase /= "open" => turn.status \in Outcomes /\ out.putting = None
  /\ link.bound \in 1..link.conn /\ link.conn \in 1..(MaxLosses + 1)
  /\ \A k \in DOMAIN net : net[k].seq \in 1..link.seq
  /\ client.settled \in BOOLEAN /\ client.asked \in BOOLEAN

\* The text a client shows is text of the turn, in its order and never
\* twice, through gaps, snapshots and connections that count from 1 again.
TextInOrder ==
  LET shown == client.view.shown
  IN /\ \A k \in DOMAIN shown : shown[k] \in 1..turn.text
     /\ \A k \in DOMAIN shown : k > 1 => shown[k - 1] < shown[k]

\* Text is lost to a lost connection or to a snapshot, never to a full
\* queue or to a gap: otherwise a turn shown as over shows all of it.
TextKept ==
  client.view.over /\ losses = 0 /\ ~client.view.snapshots
    => client.view.shown = [k \in 1..turn.text |-> k]

\* While the connection holds, a turn that waits for the user does not wait
\* behind the user's back: with nothing under way, the question is shown.
PromptShown ==
  LET quiet == out.queue = <<>> /\ out.putting = None /\ ~out.sent
               /\ net = <<>> /\ ops = <<>> /\ client.inbox.pending = <<>>
  IN turn.status = "waiting_user" /\ losses = 0 /\ quiet => client.view.prompt

\* A client is bound to the wrong connection when it came back while the
\* turn was running.
Stranded ==
  link.up /\ link.bound /= link.conn /\ out.phase /= "gone" /\ turn.status /= "waiting_user"

\* Unless it is stranded by a reconnection, a client's wait for its turn ends.
Settles == []~Stranded => <>client.settled

\* A client that reconnects learns the end of its turn: README.md:12 and
\* ws.ts:255, which asks for the state of the turn on a new connection.
SettlesAfterReconnect == <>client.settled
=============================================================================
