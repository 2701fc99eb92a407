------------------------------- MODULE MCTools -------------------------------
(***************************************************************************)
(* The parts that work on a request of their own, for TLC: the policy gate, *)
(* the shell jobs, the file snapshots, the model's window and the          *)
(* configuration document.  They share no state, so a behaviour is one of  *)
(* one part, chosen in the initial state; the others do not move.          *)
(***************************************************************************)
EXTENDS ShellJobs, ToolGate, FileSnapshots, ContextWindow, ConfigDocument, TLC

VARIABLE part     \* "gate", "jobs", "files", "window" or "config"

-----------------------------------------------------------------------------
\* What may happen to a window: pressures, emergencies, rebuilds, forks, replies of the user,
\* time-outs and results moved to the cache.
W(p, e, r, f, d, t, c) ==
  [presses |-> p, emergencies |-> e, rebuilds |-> r, forks |-> f, replies |-> d, timeouts |-> t,
   cached |-> c]

MCWindowBounds ==
  {W(2, 0, 0, 0, 0, 0, 0), W(1, 1, 0, 0, 0, 0, 0), W(1, 0, 1, 0, 1, 0, 0),
   W(0, 0, 0, 1, 1, 0, 0), W(0, 0, 1, 0, 0, 1, 1), W(0, 0, 0, 0, 0, 1, 1)}

\* What may happen to the configuration: calls of the API, changes from outside, looks at a page.
C(c, o, l) == [calls |-> c, outside |-> o, looks |-> l]

MCConfigBounds == {C(1, 2, 1), C(2, 0, 2)}

-----------------------------------------------------------------------------
Init ==
  /\ part \in {"gate", "jobs", "files", "window", "config"}
  /\ GateInit
  /\ JobsInit
  /\ FilesInit
  /\ WindowInit
  /\ part # "window" => spare = W(2, 0, 0, 0, 0, 0, 0)
  /\ ConfigInit
  /\ part # "config" => token = "unset" /\ left = C(1, 2, 1)

Next ==
  \/ /\ part = "gate" /\ GateNext
     /\ UNCHANGED <<jvars, fvars, wvars, cvars, part>>
  \/ /\ part = "jobs" /\ JobsNext
     /\ UNCHANGED <<gvars, fvars, wvars, cvars, part>>
  \/ /\ part = "files" /\ FilesNext
     /\ UNCHANGED <<gvars, jvars, wvars, cvars, part>>
  \/ /\ part = "window" /\ WindowNext
     /\ UNCHANGED <<gvars, jvars, fvars, cvars, part>>
  \/ /\ part = "config" /\ ConfigNext
     /\ UNCHANGED <<gvars, jvars, fvars, wvars, part>>

vars == <<gvars, jvars, fvars, wvars, cvars, part>>
Spec == Init /\ [][Next]_vars

\* The pages are alike.
MCSymmetry == Permutations(Pages)
=============================================================================
