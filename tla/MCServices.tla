----------------------------- MODULE MCServices -----------------------------
(***************************************************************************)
(* The background services for TLC: the MCP servers, and the consolidation *)
(* of the memory.  They share no state, so a behaviour is one of either    *)
(* part, chosen in the initial state; the other part does not move.        *)
(***************************************************************************)
EXTENDS McpServers, MemorySediment

VARIABLE part     \* "mcp" or "memory"

\* What may happen to the servers.
Mcp(c, w, f, s, d, t) ==
  [calls |-> c, switches |-> w, refreshes |-> f, scouts |-> s, drops |-> d, timeouts |-> t]

MCMcpBounds ==
  {Mcp(2, 1, 0, 0, 0, 0), Mcp(1, 1, 1, 0, 0, 0), Mcp(0, 1, 1, 1, 0, 1),
   Mcp(1, 0, 1, 0, 1, 1), Mcp(0, 2, 1, 0, 0, 0), Mcp(1, 0, 0, 2, 0, 0)}

\* What may happen to the memory: facts, runs, tool calls, crashes, days.
B(f, r, t, c, d) == [facts |-> f, runs |-> r, tools |-> t, crashes |-> c, days |-> d]

MCBudgets ==
  {B({"f"}, 1, 1, 0, 0), B({"f", "g"}, 1, 0, 1, 0), B({"f"}, 2, 0, 0, 0),
   B({"f", "g"}, 1, 0, 0, 1), B({"f", "g"}, 0, 1, 1, 0)}

vars == <<mvars, svars, part>>

Init ==
  /\ McpInit /\ SedimentInit
  /\ \/ part = "mcp" /\ budget = CHOOSE b \in Budgets : TRUE
     \/ part = "memory" /\ quota = CHOOSE q \in McpBounds : TRUE

OfMcp(step) == part = "mcp" /\ step /\ UNCHANGED <<svars, part>>
OfMemory(step) == part = "memory" /\ step /\ UNCHANGED <<mvars, part>>

\* The fairness of the parts: threads and the event loops run; a thread of the memory may hang.
Fairness ==
  /\ \A x \in Threads : WF_vars(OfMcp(ThreadStep(x)))
  /\ WF_vars(OfMcp(\E d \in DOMAIN discs : LoopStep(d)))
  /\ \A r \in Runs : WF_vars(OfMemory(RunStep(r)))

Spec == Init /\ [][OfMcp(McpNext) \/ OfMemory(SedimentNext)]_vars /\ Fairness
=============================================================================
