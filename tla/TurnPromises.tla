---------------------------- MODULE TurnPromises ----------------------------
(***************************************************************************)
(* What a session promises about its turns, whatever happens to the process *)
(* and whichever of its coroutines and threads is late: facts are           *)
(* established once, in an order that makes sense, and never change.        *)
(* TurnRuntime implements this over the rows of its ledger.                 *)
(***************************************************************************)
CONSTANTS
    Turns,      \* the turns of the session
    CallIds,    \* pairs of a turn and a call
    GatedIds,   \* the calls that need the user's approval
    Outcomes,   \* how a turn may end
    Results     \* how a call may end

VARIABLES
    accepted,   \* the turns whose user message is recorded
    verdict,    \* the user's decisions: pairs of a call and a decision
    begun,      \* the calls whose handler has been allowed to run
    result,     \* the final results: pairs of a call and how it ended
    outcome     \* the outcomes: pairs of a turn and how it ended

promises == <<accepted, verdict, begun, result, outcome>>

Init ==
    /\ accepted = {}
    /\ verdict = {}
    /\ begun = {}
    /\ result = {}
    /\ outcome = {}

\* x has a value in the set of pairs S.
Known(S, x) == \E pair \in S : pair[1] = x

Accept(t) ==
    /\ t \notin accepted
    /\ accepted' = accepted \cup {t}
    /\ UNCHANGED <<verdict, begun, result, outcome>>

\* The user answers once.  An answer may come after the turn has ended: a
\* resumed turn does not hold the session's lock, and the send of the next one
\* may have settled it while it goes on.
Decide(id, d) ==
    /\ id \in GatedIds /\ id[1] \in accepted
    /\ ~Known(verdict, id)
    /\ verdict' = verdict \cup {<<id, d>>}
    /\ UNCHANGED <<accepted, begun, result, outcome>>

\* A gated call runs only with the user's consent.
Begin(id) ==
    /\ id[1] \in accepted
    /\ id \in GatedIds => <<id, "allow">> \in verdict
    /\ begun' = begun \cup {id}
    /\ UNCHANGED <<accepted, verdict, result, outcome>>

\* A call gets one result; success needs a start, refusal a refusal.
Finish(id, s) ==
    /\ id[1] \in accepted
    /\ ~Known(result, id)
    /\ s = "succeeded" => id \in begun
    /\ s = "denied" => <<id, "deny">> \in verdict
    /\ result' = result \cup {<<id, s>>}
    /\ UNCHANGED <<accepted, verdict, begun, outcome>>

\* A turn ends once; it completes only when every call it began is finished.
End(t, s) ==
    /\ t \in accepted
    /\ ~Known(outcome, t)
    /\ s = "completed" => \A id \in begun : id[1] = t => Known(result, id)
    /\ outcome' = outcome \cup {<<t, s>>}
    /\ UNCHANGED <<accepted, verdict, begun, result>>

Next ==
    \/ \E t \in Turns : Accept(t) \/ \E s \in Outcomes : End(t, s)
    \/ \E id \in CallIds : \/ Begin(id)
                           \/ \E d \in {"allow", "deny"} : Decide(id, d)
                           \/ \E s \in Results : Finish(id, s)

Spec == Init /\ [][Next]_promises
=============================================================================
