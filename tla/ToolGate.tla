------------------------------- MODULE ToolGate -------------------------------
(***************************************************************************)
(* The policy gate (tools/policy/) as the tools node consults it.  The     *)
(* node runs from its start again after every answer: LangGraph hands the  *)
(* answers out in the order in which the node asks.  The settings that the *)
(* gate reads may be edited while a question waits.                        *)
(*                                                                         *)
(* A command is what the guards and the allowlist tell apart of it, a path *)
(* is the place it resolves to.                                            *)
(***************************************************************************)
EXTENDS Naturals, Sequences

CONSTANTS
  NumCalls,    \* the calls of one request
  MaxEdits

ASSUME GateAssumption == NumCalls \in Nat /\ MaxEdits \in Nat

GateCalls == 1..NumCalls

VARIABLES
  calls,       \* what each call asks for
  settings,    \* whether a project is bound, and the commands on the allowlist
  gate         \* the node: where it is, the question it waits with, the answers,
               \* the calls it lets through, those that started or were refused

gvars == <<calls, settings, gate>>

Tool(policy, risky, claims) ==
  [kind |-> "tool", policy |-> policy, risky |-> risky, claims |-> claims, command |-> "none"]
Shell(command) ==
  [kind |-> "shell", policy |-> "workspace_only", risky |-> TRUE, claims |-> {"workspace"},
   command |-> command]
Ask(mode) == [kind |-> mode, policy |-> "none", risky |-> FALSE, claims |-> {}, command |-> "none"]

\* What a call may be: of every policy, tools with claims it allows and others it refuses.
Requests ==
  {Tool("none", FALSE, {}), Tool("workspace_only", TRUE, {"workspace"}),
   Tool("workspace_only", FALSE, {"outside"}), Tool("external_mcp", TRUE, {"outside"}),
   Tool("agent_home_only", TRUE, {}), Tool("session_scoped", TRUE, {"sidecar"}),
   Tool("other", FALSE, {}), Shell("plain"), Shell("piped"), Shell("guarded"), Shell("none"),
   Ask("ask"), Ask("handoff")}

AllSettings == [bound : BOOLEAN, listed : SUBSET {"plain", "piped", "interpreter"}]

NodeStart == [pc |-> "run", asked |-> 0, replies |-> <<>>, run |-> {}, matched |-> {},
              granted |-> {}, started |-> {}, edited |-> FALSE, edits |-> 0]

-----------------------------------------------------------------------------
(* The decision *)

\* A command the shell guards refuse is refused whatever the settings are.
ShellHardDeny(c) == c.kind = "shell" /\ c.command = "guarded"

PathsInWorkspace(c) == settings.bound /\ c.claims \subseteq {"workspace"}

\* Claims of a shell call without a command are unresolved.
Unresolved(c) == c.kind = "shell" /\ c.command = "none"

SandboxAllows(c) ==
  /\ c.policy # "other"
  /\ c.policy \in {"workspace_only", "session_scoped"} => ~Unresolved(c) /\ PathsInWorkspace(c)
  /\ c.policy = "agent_home_only" => c.claims = {}
  /\ c.policy = "external_mcp" => c.claims = {} \/ ~settings.bound \/ PathsInWorkspace(c)

\* The allowlist never speaks for a command that cannot be parsed or nests an interpreter.
AutoApproves(c) ==
  c.kind = "shell" /\ c.command \in settings.listed \ {"piped", "interpreter", "guarded"}

\* Every refusal is a hard boundary: the audit mode relaxes none of them.
Evaluate(c, granted, matched) ==
  IF ShellHardDeny(c) \/ ~SandboxAllows(c) THEN "deny"
  ELSE IF ~granted /\ c.risky /\ ~(c.kind = "shell" /\ matched) THEN "needs_approval"
  ELSE "allow"

-----------------------------------------------------------------------------
(* The tools node *)

\* One question of the node: the next answer in order, or a stop when there is none.
Interrupted(replies, a) == a.used = Len(replies)
Reply(replies, a) == replies[a.used + 1]
Stop(a, i) == [a EXCEPT !.stop = i]

\* An answer to ask_user must name the question; a handoff ends the turn.
AskUser(replies, a, i) ==
  IF Interrupted(replies, a) THEN Stop(a, i)
  ELSE [a EXCEPT !.used = @ + 1,
                 !.over = calls[i].kind = "handoff" /\ Reply(replies, a) = [call |-> i, says |-> "answer"]]

\* Mutant: an approval does not use up its answer.
ApproveAgain(replies, a, i) ==
  IF Interrupted(replies, a) THEN Stop(a, i)
  ELSE IF /\ Reply(replies, a).says = "allow"
          /\ Evaluate(calls[i], TRUE, AutoApproves(calls[i])) = "allow"
         THEN [a EXCEPT !.run = @ \cup {i}, !.granted = @ \cup {i}]
         ELSE a

\* An approval runs the call if the policy still allows it with the consent given.
Approve(replies, a, i) ==
  IF Interrupted(replies, a) THEN Stop(a, i)
  ELSE LET b == [a EXCEPT !.used = @ + 1]
       IN IF /\ Reply(replies, a).says = "allow"
             /\ Evaluate(calls[i], TRUE, AutoApproves(calls[i])) = "allow"
            THEN [b EXCEPT !.run = @ \cup {i}, !.granted = @ \cup {i}]
            ELSE b

Decided(replies, a, i) ==
  LET c == calls[i] IN
  IF a.stop # 0 \/ a.over THEN a
  ELSE IF c.kind \in {"ask", "handoff"} THEN AskUser(replies, a, i)
  ELSE CASE Evaluate(c, FALSE, AutoApproves(c)) = "deny" -> a
         [] Evaluate(c, FALSE, AutoApproves(c)) = "needs_approval" -> Approve(replies, a, i)
         [] OTHER -> [a EXCEPT !.run = @ \cup {i}]

\* The node after its first n calls, as far as answers carry it.
NodeRun(replies, n) ==
  LET start == [stop |-> 0, used |-> 0, over |-> FALSE, run |-> {}, granted |-> {}]
      upTo[i \in 0..NumCalls] == IF i = 0 THEN start ELSE Decided(replies, upTo[i - 1], i)
  IN upTo[n]
Walked == NodeRun(gate.replies, NumCalls)

RunNode ==
  /\ gate.pc = "run"
  /\ gate' = IF Walked.stop # 0
               THEN [gate EXCEPT !.pc = "wait", !.asked = Walked.stop]
               ELSE [gate EXCEPT !.pc = "batch", !.run = Walked.run, !.granted = Walked.granted,
                                 !.matched = {i \in GateCalls : AutoApproves(calls[i])}]
  /\ UNCHANGED <<calls, settings>>

\* The user answers the question that waits, or its 300 s pass, which answers nothing.
Answer(says) ==
  /\ gate.pc = "wait"
  /\ says \in IF calls[gate.asked].kind \in {"ask", "handoff"} THEN {"answer", "none"}
              ELSE {"allow", "deny"}
  /\ gate' = [gate EXCEPT !.pc = "run", !.asked = 0,
                          !.replies = Append(@, [call |-> gate.asked, says |-> says])]
  /\ UNCHANGED <<calls, settings>>

\* Before its handler a call passes the gate once more, with what the node has granted.
Invoke(i) ==
  /\ gate.pc = "batch" /\ i \in gate.run
  /\ gate' = [gate EXCEPT
       !.run = @ \ {i},
       !.started = IF Evaluate(calls[i], i \in gate.granted, i \in gate.matched) = "allow"
                     THEN @ \cup {i} ELSE @]
  /\ UNCHANGED <<calls, settings>>

Asking == gate.pc = "wait" \/ (gate.pc = "run" /\ gate.replies # <<>>)

\* The configuration or the project of the session is edited.
EditSettings(s) ==
  /\ gate.edits < MaxEdits
  /\ s # settings
  /\ settings' = s
  /\ gate' = [gate EXCEPT !.edits = @ + 1, !.edited = @ \/ Asking]
  /\ UNCHANGED calls

GateInit ==
  /\ calls = <<>>
  /\ settings = [bound |-> TRUE, listed |-> {}]
  /\ gate = [NodeStart EXCEPT !.pc = "off"]

\* A request with these calls reaches the node.
Arrive(cs, s) ==
  /\ gate.pc = "off"
  /\ calls' = cs
  /\ settings' = s
  /\ gate' = NodeStart

GateNext ==
  \/ \E cs \in [GateCalls -> Requests], s \in AllSettings : Arrive(cs, s)
  \/ RunNode
  \/ \E says \in {"allow", "deny", "answer", "none"} : Answer(says)
  \/ \E i \in GateCalls : Invoke(i)
  \/ \E s \in AllSettings : EditSettings(s)

GateSpec == GateInit /\ [][GateNext]_gvars

-----------------------------------------------------------------------------
(* Properties *)

\* A call runs only if it needs no approval or its own question was allowed, and the user's
\* refusal of a call stands.
AnswersKept ==
  \A i \in gate.started :
    /\ i \in gate.granted => \E k \in DOMAIN gate.replies :
                                gate.replies[k] = [call |-> i, says |-> "allow"]
    /\ \A k \in DOMAIN gate.replies : gate.replies[k] # [call |-> i, says |-> "deny"]

\* So it is as long as the settings stay as they were while the node asks.
AnswersMeetQuestions == ~gate.edited => AnswersKept
=============================================================================
