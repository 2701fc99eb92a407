------------------------------ MODULE MCSessions ------------------------------
(***************************************************************************)
(* Four instances of a session in one run, for TLC.  Of SessionBranches: a *)
(* lineage of three branches whose turns define calls, with the values the *)
(* configuration gives, and submissions sent again through two objects     *)
(* under writes that are cut short and a crash.  Of TurnProperties: two    *)
(* turns of one call with a crash between them, and one turn of two calls, *)
(* of which the second needs approval, with a cancel or a time-out of the  *)
(* batch.  A behaviour is of one instance, chosen in the initial state; the *)
(* variables of the other module stay as they are.                         *)
(***************************************************************************)
EXTENDS SessionBranches, TLC

CONSTANTS i1, i2, c1, c2

VARIABLES
  ledger, cp, pc, resumed, mem, put, upd, agent, work, runner, job, spent,
  part     \* "lineage", "submissions", "turns" or "calls"

turnVars == <<ledger, cp, pc, resumed, mem, put, upd, agent, work, runner, job, spent>>

Submissions == INSTANCE SessionBranches WITH
  Branches <- {Main, c1}, Instances <- {i1, i2}, Bodies <- {"x", "y"},
  MaxFaults <- 2, Callers <- {}, Resending <- TRUE

TwoTurns == INSTANCE TurnProperties WITH
  MaxTurn <- 2, MaxCall <- 1, MaxRequest <- 2, Gated <- {1},
  Uses <- <<{1}, {}>>, Attempts <- <<2, 1>>,
  MaxCrash <- 1, MaxCancel <- 0, MaxDeadline <- 0, MaxExpiry <- 0, faults <- spent

TwoCalls == INSTANCE TurnProperties WITH
  MaxTurn <- 1, MaxCall <- 2, MaxRequest <- 2, Gated <- {2},
  Uses <- <<{1, 2}>>, Attempts <- <<2>>,
  MaxCrash <- 0, MaxCancel <- 1, MaxDeadline <- 0, MaxExpiry <- 1, faults <- spent

-----------------------------------------------------------------------------
MCInit ==
  /\ part \in {"lineage", "submissions", "turns", "calls"}
  /\ IF part = "submissions" THEN Submissions!Init ELSE Init
  /\ CASE part = "turns" -> TwoTurns!Init
       [] part = "calls" -> TwoCalls!Init
       [] OTHER -> /\ ledger = "unused" /\ cp = "unused" /\ pc = "unused" /\ resumed = "unused"
                   /\ mem = "unused" /\ put = "unused" /\ upd = "unused" /\ agent = "unused"
                   /\ work = "unused" /\ runner = "unused" /\ job = "unused"
                   /\ spent = "unused"

\* Bound: a turn of two calls meets one of its faults.
OneFault == spent'.cancel + spent'.expiry <= 1

MCNext ==
  \/ part = "lineage" /\ Next /\ UNCHANGED <<turnVars, part>>
  \/ part = "submissions" /\ Submissions!Next /\ UNCHANGED <<turnVars, part>>
  \/ part = "turns" /\ TwoTurns!Next /\ UNCHANGED <<vars, part>>
  \/ part = "calls" /\ TwoCalls!Next /\ OneFault /\ UNCHANGED <<vars, part>>

MCSpec == MCInit /\ [][MCNext]_<<vars, turnVars, part>>

\* The two objects are alike.
MCSymmetry == Permutations({i1, i2})

-----------------------------------------------------------------------------
\* The properties of SessionBranches are checked as they are: nothing happens to the files in the
\* parts of TurnProperties.  Its types depend on the instance.

\* Every variable of the branches keeps its type.
BranchTypesHold == IF part = "submissions" THEN Submissions!TypeOK ELSE TypeOK

\* The properties of TurnProperties, each read in the parts it is about.

\* No fact of a session is written twice, across two turns and a crash.
FactsWrittenOnce == part = "turns" => TwoTurns!FactsWrittenOnce

\* A row behind the checkpoint's cursor has been taken into the checkpoint.
NothingSkipped == /\ part = "turns" => TwoTurns!NothingSkipped
                  /\ part = "calls" => TwoCalls!NothingSkipped

\* A call is started once as long as the process does not die.
StartedOnce == /\ part = "turns" => TwoTurns!StartedOnce
               /\ part = "calls" => TwoCalls!StartedOnce

\* A completed turn has accounted for every call.
CompletedIsAccounted == /\ part = "turns" => TwoTurns!CompletedIsAccounted
                        /\ part = "calls" => TwoCalls!CompletedIsAccounted
=============================================================================
