------------------------------ MODULE McpServers ------------------------------
(***************************************************************************)
(* The MCP servers of tools/mcp/lifecycle.py, the tool calls that go to    *)
(* them (tools/mcp/handlers.py) and the circuit breaker of every server    *)
(* (resilience/).  Threads ask for connections and wait for coroutines of  *)
(* one event loop, which a refresh stops and starts anew.  A connection is *)
(* named by the discovery that made it and its server: a discovery dials a *)
(* server once.  Every connected server has tools.                         *)
(***************************************************************************)
EXTENDS Naturals, Sequences, FiniteSets

CONSTANTS
  Servers,        \* configured servers
  Callers,        \* worker threads that run tools
  Manager,        \* the request thread that runs the management operations
  Scout,          \* the background thread mcp-discover
  MaxAttempts,    \* _MAX_CONNECT_ATTEMPTS
  Threshold,      \* circuit_failure_threshold
  McpBounds       \* how many calls, switches, refreshes, scouts, drops and timeouts there may be

Threads == Callers \cup {Manager, Scout}

VARIABLES
  enabled,     \* the servers enabled in the configuration
  registry,    \* _servers: the discovery that connected the server, 0 if none
  failures,    \* _connect_failures
  cards,       \* the servers that have tool cards
  discovering, \* _discover_running
  loop,        \* the event loop: its generation, and whether it runs
  discs,       \* the discovery coroutines started so far
  breaker,     \* the circuit breakers
  th,          \* what each thread does
  quota         \* what the instance still allows

mvars == <<enabled, registry, failures, cards, discovering, loop, discs, breaker, th, quota>>

AtRest == [pc |-> "idle", next |-> "idle", srv |-> 0, disc |-> 0, gen |-> 0, held |-> {}]

McpInit ==
  /\ enabled = Servers
  /\ registry = [s \in Servers |-> 0]
  /\ failures = [s \in Servers |-> 0]
  /\ cards = {}
  /\ discovering = FALSE
  /\ loop = [gen |-> 0, runs |-> FALSE]
  /\ discs = <<>>
  /\ breaker = [s \in Servers |-> [open |-> FALSE, cooled |-> FALSE, fails |-> 0]]
  /\ th = [x \in Threads |-> AtRest]
  /\ quota \in McpBounds

OnLoop(g) == loop.runs /\ loop.gen = g
Ensured == IF loop.runs THEN loop ELSE [gen |-> loop.gen + 1, runs |-> TRUE]

\* What the code looks at: the session and the ready event, whatever loop they belong to.
Live(s) == registry[s] # 0 /\ discs[registry[s]].task[s] = "up"
GaveUp(s) == failures[s] >= MaxAttempts
Unconnected == {s \in enabled : ~Live(s) /\ ~GaveUp(s)}

Go(x, pc) == th' = [th EXCEPT ![x].pc = pc]
Take(what) == quota[what] > 0 /\ quota' = [quota EXCEPT ![what] = @ - 1]

-----------------------------------------------------------------------------
(* Discovery *)

\* A discovery by thread x.  When one is running x goes on at once.
Discover(x) ==
  /\ th[x].pc = "discover"
  /\ \/ /\ enabled = {}
        /\ cards' = {}
        /\ Go(x, th[x].next)
        /\ UNCHANGED <<discovering, loop, discs>>
     \/ /\ enabled # {}
        /\ discovering
        /\ Go(x, th[x].next)
        /\ UNCHANGED <<cards, discovering, loop, discs>>
     \/ /\ enabled # {}
        /\ ~discovering
        /\ discovering' = TRUE
        /\ loop' = Ensured
        /\ discs' = Append(discs, [st |-> "scan", on |-> enabled, gen |-> Ensured.gen,
                                   task |-> [s \in Servers |-> "none"], cards |-> {},
                                   abandoned |-> FALSE])
        /\ th' = [th EXCEPT ![x].pc = "wait", ![x].disc = Len(discs) + 1]
        /\ UNCHANGED cards
  /\ UNCHANGED <<enabled, registry, failures, breaker, quota>>

\* The coroutine keeps the servers that are live and dials the others at once.
Scan(d) ==
  LET tried == {s \in discs[d].on : ~GaveUp(s)}
      dialled == {s \in tried : ~Live(s)}
  IN
  /\ discs[d].st = "scan"
  /\ OnLoop(discs[d].gen)
  /\ registry' = [s \in Servers |-> IF s \in dialled THEN 0 ELSE registry[s]]
  /\ discs' = [discs EXCEPT ![d] = [@ EXCEPT
       !.st = "dial",
       !.cards = tried \ dialled,
       !.task = [s \in Servers |-> IF s \in dialled THEN "starting" ELSE "none"]]]
  /\ UNCHANGED <<enabled, failures, cards, discovering, loop, breaker, th, quota>>

Dials(d, s) == OnLoop(discs[d].gen) /\ discs[d].st = "dial" /\ discs[d].task[s] = "starting"

Connected(d, s) ==
  /\ Dials(d, s)
  /\ discs' = [discs EXCEPT ![d].task[s] = "up", ![d].cards = @ \cup {s}]
  /\ registry' = [registry EXCEPT ![s] = d]
  /\ failures' = [failures EXCEPT ![s] = 0]
  /\ UNCHANGED <<enabled, cards, discovering, loop, breaker, th, quota>>

\* The server refused, or was not ready in time.
NotConnected(d, s) ==
  /\ Dials(d, s)
  /\ discs' = [discs EXCEPT ![d].task[s] = "down"]
  /\ failures' = [failures EXCEPT ![s] = @ + 1]
  /\ UNCHANGED <<enabled, registry, cards, discovering, loop, breaker, th, quota>>

\* All dials are answered: the cards become what this discovery has found.
FinishDiscovery(d) ==
  /\ discs[d].st = "dial"
  /\ OnLoop(discs[d].gen)
  /\ \A s \in Servers : discs[d].task[s] # "starting"
  /\ cards' = discs[d].cards
  /\ discs' = [discs EXCEPT ![d].st = "done", ![d].cards = {}]
  /\ UNCHANGED <<enabled, registry, failures, discovering, loop, breaker, th, quota>>

\* The thread that waits for its discovery has the result.
Discovered(x) ==
  /\ th[x].pc = "wait"
  /\ discs[th[x].disc].st = "done"
  /\ discovering' = FALSE
  /\ th' = [th EXCEPT ![x].pc = th[x].next, ![x].disc = 0]
  /\ UNCHANGED <<enabled, registry, failures, cards, loop, discs, breaker, quota>>

\* Mutant: a thread waits on for a coroutine whose loop was stopped.
WaitTimesOutOnLoop(x) ==
  /\ th[x].pc = "wait"
  /\ discs[th[x].disc].st # "done"
  /\ OnLoop(discs[th[x].disc].gen)
  /\ Take("timeouts")
  /\ discs' = [discs EXCEPT ![th[x].disc].abandoned = TRUE]
  /\ discovering' = FALSE
  /\ th' = [th EXCEPT ![x].pc = th[x].next, ![x].disc = 0]
  /\ UNCHANGED <<enabled, registry, failures, cards, loop, breaker>>

\* It gives up waiting: the coroutine will not end, as its loop was stopped, or it is slow
\* and goes on unattended.
WaitTimesOut(x) ==
  LET d == th[x].disc
      slow == OnLoop(discs[d].gen)
  IN
  /\ th[x].pc = "wait"
  /\ discs[d].st # "done"
  /\ IF slow THEN Take("timeouts") ELSE UNCHANGED quota
  /\ discs' = [discs EXCEPT ![d].abandoned = slow]
  /\ discovering' = FALSE
  /\ th' = [th EXCEPT ![x].pc = th[x].next, ![x].disc = 0]
  /\ UNCHANGED <<enabled, registry, failures, cards, loop, breaker>>

\* The registry of tools or the health check schedules the background thread.
ScheduleScout ==
  /\ th[Scout].pc = "idle"
  /\ Unconnected # {}
  /\ ~discovering
  /\ Take("scouts")
  /\ Go(Scout, "discover")
  /\ UNCHANGED <<enabled, registry, failures, cards, discovering, loop, discs, breaker>>

\* A server ends its connection.
Drop(d, s) ==
  /\ OnLoop(discs[d].gen)
  /\ discs[d].task[s] = "up"
  /\ Take("drops")
  /\ discs' = [discs EXCEPT ![d].task[s] = "down"]
  /\ UNCHANGED <<enabled, registry, failures, cards, discovering, loop, breaker, th>>

-----------------------------------------------------------------------------
(* Management *)

Enable(s) ==
  /\ th[Manager].pc = "idle"
  /\ s \notin enabled
  /\ Take("switches")
  /\ enabled' = enabled \cup {s}
  /\ UNCHANGED <<registry, failures, cards, discovering, loop, discs, breaker, th>>

\* Mutant: the connection of a disabled server is not shut.
DisableUnshut(s) ==
  /\ th[Manager].pc = "idle"
  /\ s \in enabled
  /\ Take("switches")
  /\ enabled' = enabled \ {s}
  /\ registry' = [registry EXCEPT ![s] = 0]
  /\ failures' = [failures EXCEPT ![s] = 0]
  /\ th' = [th EXCEPT ![Manager] = [AtRest EXCEPT !.pc = "shut", !.next = "uncard", !.srv = s]]
  /\ UNCHANGED <<cards, discovering, loop, discs, breaker>>

\* Disabling or deleting a server takes it from the registry before its connection is shut.
Disable(s) ==
  /\ th[Manager].pc = "idle"
  /\ s \in enabled
  /\ Take("switches")
  /\ enabled' = enabled \ {s}
  /\ registry' = [registry EXCEPT ![s] = 0]
  /\ failures' = [failures EXCEPT ![s] = 0]
  /\ th' = [th EXCEPT ![Manager] =
       [AtRest EXCEPT !.pc = "shut", !.next = "uncard", !.srv = s,
                    !.held = IF registry[s] = 0 THEN {} ELSE {<<registry[s], s>>}]]
  /\ UNCHANGED <<cards, discovering, loop, discs, breaker>>

Refresh ==
  /\ th[Manager].pc = "idle"
  /\ Take("refreshes")
  /\ failures' = [s \in Servers |-> 0]
  /\ registry' = [s \in Servers |-> 0]
  /\ th' = [th EXCEPT ![Manager] =
       [AtRest EXCEPT !.pc = "shut", !.next = "stop",
                    !.held = {<<registry[s], s>> : s \in {r \in Servers : registry[r] # 0}}]]
  /\ UNCHANGED <<enabled, cards, discovering, loop, discs, breaker>>

\* The connections the manager holds are shut, on the loop of the moment.
Shut ==
  /\ th[Manager].pc = "shut"
  /\ discs' = [d \in DOMAIN discs |-> [discs[d] EXCEPT
       !.task = [s \in Servers |-> IF <<d, s>> \in th[Manager].held THEN "down" ELSE @[s]]]]
  /\ loop' = IF th[Manager].held = {} THEN loop ELSE Ensured
  /\ th' = [th EXCEPT ![Manager].pc = th[Manager].next, ![Manager].held = {}]
  /\ UNCHANGED <<enabled, registry, failures, cards, discovering, breaker, quota>>

RemoveCards ==
  /\ th[Manager].pc = "uncard"
  /\ cards' = cards \ {th[Manager].srv}
  /\ th' = [th EXCEPT ![Manager] = AtRest]
  /\ UNCHANGED <<enabled, registry, failures, discovering, loop, discs, breaker, quota>>

\* The loop stops with whatever still runs on it; then everything is discovered again.
StopLoop ==
  /\ th[Manager].pc = "stop"
  /\ cards' = {}
  /\ loop' = [loop EXCEPT !.runs = FALSE]
  /\ th' = [th EXCEPT ![Manager].pc = "discover", ![Manager].next = "idle"]
  /\ UNCHANGED <<enabled, registry, failures, discovering, discs, breaker, quota>>

-----------------------------------------------------------------------------
(* Calls *)

Allows(b) == ~b.open \/ b.cooled

\* What record_success and record_failure do to a breaker (pybreaker): an open breaker that
\* has not cooled ignores both.
Recorded(b, ok) ==
  CASE b.open /\ ~b.cooled -> b
    [] ok -> [open |-> FALSE, cooled |-> FALSE, fails |-> 0]
    [] ~ok /\ (b.open \/ b.fails + 1 >= Threshold) ->
         [open |-> TRUE, cooled |-> FALSE, fails |-> Threshold]
    [] OTHER -> [b EXCEPT !.fails = @ + 1]

EndCall(c, ok) ==
  /\ breaker' = [breaker EXCEPT ![th[c].srv] = Recorded(@, ok)]
  /\ th' = [th EXCEPT ![c] = AtRest]

BeginCall(c, s) ==
  /\ th[c].pc = "idle"
  /\ Take("calls")
  /\ IF GaveUp(s) \/ ~Allows(breaker[s])
       THEN th' = th
       ELSE th' = [th EXCEPT ![c].pc = "attempt", ![c].srv = s]
  /\ UNCHANGED <<enabled, registry, failures, cards, discovering, loop, discs, breaker>>

\* The attempt asks for connections first, and discovers when a server lacks one.
Attempt(c) ==
  /\ th[c].pc = "attempt"
  /\ \/ /\ GaveUp(th[c].srv)
        /\ EndCall(c, FALSE)
     \/ /\ ~GaveUp(th[c].srv)
        /\ th' = [th EXCEPT ![c].pc = IF Unconnected = {} THEN "get" ELSE "discover",
                            ![c].next = "get"]
        /\ UNCHANGED breaker
  /\ UNCHANGED <<enabled, registry, failures, cards, discovering, loop, discs, quota>>

Get(c) ==
  /\ th[c].pc = "get"
  /\ \/ /\ registry[th[c].srv] = 0
        /\ EndCall(c, FALSE)
        /\ UNCHANGED loop
     \/ /\ registry[th[c].srv] # 0
        /\ loop' = Ensured
        /\ th' = [th EXCEPT ![c].pc = "call", ![c].disc = registry[th[c].srv],
                            ![c].gen = Ensured.gen]
        /\ UNCHANGED breaker
  /\ UNCHANGED <<enabled, registry, failures, cards, discovering, discs, quota>>

\* The server answers on the loop its connection lives on.
Answered(c) ==
  /\ th[c].pc = "call"
  /\ OnLoop(th[c].gen)
  /\ discs[th[c].disc].gen = th[c].gen
  /\ discs[th[c].disc].task[th[c].srv] = "up"
  /\ EndCall(c, TRUE)
  /\ UNCHANGED <<enabled, registry, failures, cards, discovering, loop, discs, quota>>

\* The call fails, or runs into one of its time-outs: on the loop or in the thread.
CallFails(c) ==
  /\ th[c].pc = "call"
  /\ EndCall(c, FALSE)
  /\ UNCHANGED <<enabled, registry, failures, cards, discovering, loop, discs, quota>>

\* open_seconds have passed.
Cool(s) ==
  /\ breaker[s].open /\ ~breaker[s].cooled
  /\ breaker' = [breaker EXCEPT ![s].cooled = TRUE]
  /\ UNCHANGED <<enabled, registry, failures, cards, discovering, loop, discs, th, quota>>

-----------------------------------------------------------------------------
ThreadStep(x) ==
  \/ Discover(x) \/ Discovered(x) \/ WaitTimesOut(x)
  \/ x \in Callers /\ (Attempt(x) \/ Get(x) \/ Answered(x) \/ CallFails(x))
  \/ x = Manager /\ (Shut \/ RemoveCards \/ StopLoop)

LoopStep(d) ==
  \/ Scan(d)
  \/ \E s \in Servers : Connected(d, s) \/ NotConnected(d, s)
  \/ FinishDiscovery(d)

McpNext ==
  \/ \E x \in Threads : ThreadStep(x)
  \/ \E d \in DOMAIN discs : LoopStep(d)
  \/ \E c \in Callers, s \in Servers : BeginCall(c, s)
  \/ \E s \in Servers : Enable(s) \/ Disable(s) \/ Cool(s)
  \/ \E d \in DOMAIN discs, s \in Servers : Drop(d, s)
  \/ Refresh
  \/ ScheduleScout

\* Threads run, and so does an event loop that was not stopped.
McpFairness ==
  /\ \A x \in Threads : WF_mvars(ThreadStep(x))
  /\ WF_mvars(\E d \in DOMAIN discs : LoopStep(d))

McpSpec == McpInit /\ [][McpNext]_mvars /\ McpFairness

-----------------------------------------------------------------------------
(* Properties *)

\* Every call, discovery and management operation ends, although a refresh stops the loop
\* under coroutines other threads wait for.
ThreadsReturn == \A x \in Threads : []<>(th[x].pc = "idle")

\* A connection that is open on the running loop is in the registry, is about to be shut, or
\* belongs to a discovery that has lost it only because an earlier one was abandoned.
NoOrphans ==
  (\A d \in DOMAIN discs : ~discs[d].abandoned) =>
    \A d \in DOMAIN discs, s \in Servers :
      (discs[d].task[s] = "up" /\ OnLoop(discs[d].gen)) =>
         registry[s] = d \/ <<d, s>> \in th[Manager].held
=============================================================================
