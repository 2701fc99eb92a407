----------------------------- MODULE ContextWindow -----------------------------
(***************************************************************************)
(* The model's window of a session: what of the ledger every request of    *)
(* the agent node carries (context/engine.py, compressor.py, ledger.py),   *)
(* how a step, a new turn and a recovery change it, and the summary a      *)
(* checkpoint points to.  A step REPLACES the window by the request it     *)
(* assembled and the answer.  Prompt frames (bootstrap, reference block,   *)
(* summary) are rebuilt at every step and dropped before every use, so the *)
(* window here has none.  Sizes are choices: how much of the end of the    *)
(* window is its tail, whether the limit is passed, and whether it still   *)
(* is after each layer.                                                    *)
(***************************************************************************)
EXTENDS Naturals, FiniteSets, SequencesExt

CONSTANTS
  MaxTurns,     \* turns of the session
  MaxSteps,     \* max_steps: agent steps of a turn before the closing summary
  MaxAttempts,  \* max_compression_attempts
  WindowBounds  \* how often the instance lets each rare thing happen

VARIABLES
  said,     \* the message rows of the branch, in ledger order
  window,   \* context.working_message
  stored,   \* the rows the summary behind context.summary_pointer stands for
  count,    \* context.compression_count
  turn,     \* number, node, step, rows the checkpoint covers, calls still with a
            \* worker, and whether the window was cut since it last held everything
  sent,     \* the last request, and how it was made
  spare     \* what WindowBounds still allows

wvars == <<said, window, stored, count, turn, sent, spare>>

\* A message and the rows it stands for; a text stands for what was folded into it.
User(i)      == [kind |-> "user", calls |-> {}, of |-> <<>>, about |-> {i}]
UserReply(i) == [kind |-> "reply", calls |-> {}, of |-> <<>>, about |-> {i}]
Calls(i, n)  == [kind |-> "calls", calls |-> {<<i, k>> : k \in 1..n}, of |-> <<>>, about |-> {i}]
Result(c, S) == [kind |-> "result", calls |-> {}, of |-> c, about |-> S]
Text(S)      == [kind |-> "text", calls |-> {}, of |-> <<>>, about |-> S]

IsHuman(m) == m.kind \in {"user", "reply"}
About(ms) == UNION {ms[i].about : i \in DOMAIN ms}
Answered(ms) == {ms[i].of : i \in {j \in DOMAIN ms : ms[j].kind = "result"}}
LastWhere(ms, Test(_)) == SelectLastInSeq(ms, Test)
NextRow == Len(said) + 1

-----------------------------------------------------------------------------
(* What is done to the messages *)

\* repair_orphan_tool_calls: a call without any result gets one, right behind it.
Repair(ms) ==
  FlattenSeq([i \in DOMAIN ms |->
    <<ms[i]>> \o SetToSeq({Result(c, {}) : c \in ms[i].calls \ Answered(ms)})])

\* The first index behind i that holds no result.
RunEnd(ms, i) ==
  CHOOSE j \in i + 1..Len(ms) + 1 :
    /\ \A k \in i + 1..j - 1 : ms[k].kind = "result"
    /\ j <= Len(ms) => ms[j].kind # "result"

\* The results of the calls of message i among those right behind it.
Own(ms, i) ==
  LET own[k \in i..RunEnd(ms, i) - 1] ==
        IF k = i THEN <<>>
        ELSE IF ms[k].of \in ms[i].calls THEN Append(own[k - 1], ms[k]) ELSE own[k - 1]
  IN own[RunEnd(ms, i) - 1]

\* Mutant: a result without its calls is left as it is.
SanitizeChains(ms) ==
  LET Chain(i) ==
        LET mine == Own(ms, i)
        IN IF Len(mine) >= Cardinality(ms[i].calls) THEN <<ms[i]>> \o mine
           ELSE <<Text(ms[i].about \cup About(mine))>>
      Rest[i \in 1..Len(ms) + 1] ==
        IF i > Len(ms) THEN <<>>
        ELSE IF ms[i].kind = "calls" THEN Chain(i) \o Rest[RunEnd(ms, i)]
        ELSE <<ms[i]>> \o Rest[i + 1]
  IN Rest[1]

\* sanitize_working_messages: complete chains stay, the rest is folded into texts.
Sanitize(ms) ==
  LET Chain(i) ==
        LET mine == Own(ms, i)
            wanted == Cardinality(ms[i].calls)
        IN IF Len(mine) >= wanted THEN <<ms[i]>> \o SubSeq(mine, 1, wanted)
           ELSE IF mine # <<>> THEN <<Text(ms[i].about \cup About(mine))>>
           ELSE <<ms[i]>>
      Rest[i \in 1..Len(ms) + 1] ==
        IF i > Len(ms) THEN <<>>
        ELSE IF ms[i].kind = "calls" THEN Chain(i) \o Rest[RunEnd(ms, i)]
        ELSE IF ms[i].kind = "result" THEN <<Text(ms[i].about)>> \o Rest[i + 1]
        ELSE <<ms[i]>> \o Rest[i + 1]
  IN Rest[1]

\* split_tail_window: the tail is some end of the window, never empty.
From(ms, k) == SubSeq(ms, k, Len(ms))
Before(ms, k) == SubSeq(ms, 1, k - 1)

\* emergency_compress keeps the last answer and, behind it, the last user message.
LastOnes(ms) ==
  LET answer == LastWhere(ms, LAMBDA m : m.kind = "text")
      human == LastWhere(ms, IsHuman)
  IN (IF answer = 0 THEN <<>> ELSE <<ms[answer]>>)
     \o (IF human = 0 THEN <<>> ELSE <<ms[human]>>)

\* Its fallback: at most the last three messages of the tail.
LastThree(ms, k) == LET t == From(ms, k) IN SubSeq(t, IF Len(t) > 3 THEN Len(t) - 2 ELSE 1, Len(t))

\* defer_cache_tool_messages takes large results of earlier turns, and append_window_messages
\* puts those the new window has lost behind it.
Cacheable(ms) ==
  {m \in Range(ms) : m.kind = "result" /\ m.about # {}
                     /\ \E i, j \in DOMAIN ms : i < j /\ ms[i] = m /\ IsHuman(ms[j])}
WithCached(ms, cached) == ms \o SetToSeq(cached \ Range(ms))

-----------------------------------------------------------------------------
WindowInit ==
  /\ said = <<>>
  /\ window = <<>>
  /\ stored = {}
  /\ count = 0
  /\ turn = [no |-> 0, at |-> "idle", step |-> 0, known |-> 0, late |-> {}, cut |-> FALSE]
  /\ sent = [how |-> "none", body |-> <<>>]
  /\ spare \in WindowBounds

Take(what) == spare[what] > 0 /\ spare' = [spare EXCEPT ![what] = @ - 1]

\* Mutant: the rows behind the checkpoint are not taken over.
AskOnly ==
  /\ turn.at = "idle"
  /\ turn.no < MaxTurns
  /\ said' = Append(said, User(NextRow))
  /\ window' = Append(window, User(NextRow))
  /\ turn' = [turn EXCEPT !.no = @ + 1, !.at = "agent", !.step = 0, !.known = NextRow]
  /\ UNCHANGED <<stored, count, sent, spare>>

\* A question: the rows the checkpoint does not cover are appended to the window.
AskQuestion ==
  /\ turn.at = "idle"
  /\ turn.no < MaxTurns
  /\ said' = Append(said, User(NextRow))
  /\ window' = window \o From(said, turn.known + 1) \o <<User(NextRow)>>
  /\ turn' = [turn EXCEPT !.no = @ + 1, !.at = "agent", !.step = 0, !.known = NextRow]
  /\ UNCHANGED <<stored, count, sent, spare>>

\* The profile files have changed: the window is made anew from all rows.
AskRebuilt ==
  /\ turn.at = "idle"
  /\ turn.no \in 1..MaxTurns - 1
  /\ Take("rebuilds")
  /\ said' = Append(said, User(NextRow))
  /\ window' = said'
  /\ turn' = [turn EXCEPT !.no = @ + 1, !.at = "agent", !.step = 0, !.known = NextRow,
                          !.cut = FALSE]
  /\ UNCHANGED <<stored, count, sent>>

\* A question on a new branch, refused while a call of its rows has no result.
AskForked ==
  /\ turn.at = "idle"
  /\ turn.no \in 1..MaxTurns - 1
  /\ Take("forks")
  /\ UNION {said[i].calls : i \in DOMAIN said} \subseteq Answered(said)
  /\ said' = Append(said, User(NextRow))
  /\ window' = said'
  /\ stored' = {}
  /\ count' = 0
  /\ turn' = [no |-> turn.no + 1, at |-> "agent", step |-> 0, known |-> NextRow, late |-> {},
              cut |-> FALSE]
  /\ UNCHANGED sent

\* The answer to a request: text ends the turn, calls go to the tools.  A turn out of steps
\* has no tools bound.
Respond(body, how, cached) ==
  \E n \in 0..2 :
    LET answer == IF n = 0 THEN Text({NextRow}) ELSE Calls(NextRow, n)
    IN
    /\ n > 0 => turn.step < MaxSteps
    /\ said' = Append(said, answer)
    /\ window' = Append(WithCached(body, cached), answer)
    /\ sent' = [how |-> how, body |-> body]
    /\ turn' = [turn EXCEPT !.at = IF n = 0 THEN "idle" ELSE "tools", !.step = @ + 1,
                            !.known = NextRow, !.cut = @ \/ how # "plain"]

\* What becomes of the large results of earlier turns.
Cached(S) == S \subseteq Cacheable(window) /\ Cardinality(S) <= 1

\* The request is the window.  So it is when a compression need not go beyond layers A and
\* B, or fails.  A count of 0 does not reset the count.
StepPlain ==
  /\ turn.at = "agent"
  /\ \E S \in SUBSET Cacheable(window) :
       /\ Cached(S)
       /\ IF S = {} THEN UNCHANGED spare ELSE Take("cached")
       /\ Respond(Sanitize(Repair(window)), "plain", S)
  /\ UNCHANGED <<stored, count>>

\* Layer C: the middle becomes a summary and the tail stays.  A summary is written only
\* when the count of failed compressions has grown.
StepCompressed ==
  /\ turn.at = "agent"
  /\ count < MaxAttempts
  /\ Take("presses")
  /\ \E k \in DOMAIN Repair(window), fits \in BOOLEAN :
       /\ fits \/ count + 1 < MaxAttempts
       /\ Respond(Sanitize(From(Repair(window), k)), "compressed", {})
       /\ count' = IF fits THEN count ELSE count + 1
       /\ stored' = IF fits THEN stored ELSE stored \cup About(Before(Repair(window), k))

\* Layer D: the answer is a notice, and nothing else is left in the window.
StepRejected ==
  /\ turn.at = "agent"
  /\ Take("presses")
  /\ count + 1 >= MaxAttempts
  /\ count' = IF count < MaxAttempts THEN count + 1 ELSE count
  /\ said' = Append(said, Text({NextRow}))
  /\ window' = <<Text({NextRow})>>
  /\ sent' = [how |-> "rejected", body |-> <<>>]
  /\ turn' = [turn EXCEPT !.at = "idle", !.step = @ + 1, !.known = NextRow, !.cut = TRUE]
  /\ UNCHANGED stored

\* The model refuses the request as too long: it is made anew, and its summary kept nowhere.
StepEmergency ==
  /\ turn.at = "agent"
  /\ turn.step < MaxSteps
  /\ Take("emergencies")
  /\ \/ Respond(Sanitize(LastOnes(Repair(window))), "emergency", {})
     \/ \E k \in DOMAIN Repair(window) :
          Respond(Sanitize(LastThree(Repair(window), k)), "emergency", {})
  /\ UNCHANGED <<stored, count>>

Open == Last(window).calls

\* A user answers a call that waits: the row gets a place in the ledger, not in the window.
Decide ==
  /\ turn.at = "tools"
  /\ Take("replies")
  /\ said' = Append(said, UserReply(NextRow))
  /\ turn' = [turn EXCEPT !.known = NextRow]
  /\ UNCHANGED <<window, stored, count, sent>>

\* The tools node: every call has its result, in the order of the calls.
ToolsStep ==
  /\ turn.at = "tools"
  /\ LET results == [k \in 1..Cardinality(Open) |->
                       Result(SetToSeq(Open)[k], {Len(said) + k})]
     IN /\ said' = said \o results
        /\ window' = window \o results
        /\ turn' = [turn EXCEPT !.at = "agent", !.known = Len(said) + Len(results)]
  /\ UNCHANGED <<stored, count, sent, spare>>

\* The graph is given up after its time limit while workers run.
Abandon ==
  /\ turn.at = "tools"
  /\ Take("timeouts")
  /\ turn' = [turn EXCEPT !.at = "idle", !.late = @ \cup Open]
  /\ UNCHANGED <<said, window, stored, count, sent>>

\* A worker settles its call itself, whatever became of the turn.
LateResult ==
  \E c \in turn.late :
    /\ said' = Append(said, Result(c, {NextRow}))
    /\ turn' = [turn EXCEPT !.late = @ \ {c}]
    /\ UNCHANGED <<window, stored, count, sent, spare>>

WindowNext ==
  \/ AskQuestion \/ AskRebuilt \/ AskForked
  \/ StepPlain \/ StepCompressed \/ StepRejected \/ StepEmergency
  \/ Decide \/ ToolsStep \/ Abandon \/ LateResult

WindowSpec == WindowInit /\ [][WindowNext]_wvars

-----------------------------------------------------------------------------
\* A result in a request stands behind the calls it answers, with nothing but their other
\* results between (what an API demands of tool messages).
ResultsFollowCalls ==
  \A j \in DOMAIN sent.body : sent.body[j].kind = "result" =>
    \E i \in 1..j - 1 : /\ sent.body[j].of \in sent.body[i].calls
                        /\ \A k \in i + 1..j - 1 : sent.body[k].kind = "result"

\* Every call in a request has its result right behind it (tests/test_repair_ledger.py).
RequestsWellFormed ==
  \A i \in DOMAIN sent.body :
    sent.body[i].calls \subseteq
      {sent.body[j].of : j \in i + 1..RunEnd(sent.body, i) - 1}

\* Nothing stands between the calls of the ledger and their results.
LedgerInOrder ==
  \A i, j \in DOMAIN said : said[j].of \in said[i].calls =>
    \A k \in i + 1..j - 1 : said[k].kind = "result"

\* So long as replies and late results have not come between calls and results in the
\* ledger, every request is one an API accepts: its results follow their calls and no call
\* goes without.
RequestsPaired == ResultsFollowCalls /\ (LedgerInOrder => RequestsWellFormed)

\* A result recorded after the next question was asked.
CameLate(j) ==
  \E i \in 1..j - 1, k \in 1..j - 1 :
    said[j].of \in said[i].calls /\ i < k /\ said[k].kind = "user"

\* Until the window is under pressure the model is shown everything: each row the checkpoint
\* covers is in the window, alone or folded into a text, whatever turns, recoveries, rebuilds
\* and repairs have come between.
NothingForgotten ==
  ~turn.cut =>
    \A i \in 1..turn.known :
      said[i].kind = "reply" \/ CameLate(i) \/ i \in About(window)

\* What a compression took out of the window is in the summary the checkpoint points to.
SummaryIsStored ==
  sent' # sent /\ sent'.how = "compressed" =>
    About(window) \subseteq About(window') \cup stored'
SummariesAreStored == [][SummaryIsStored]_wvars
=============================================================================
