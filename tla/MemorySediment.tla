----------------------------- MODULE MemorySediment -----------------------------
(***************************************************************************)
(* The long-term memory: daily notes (context/sediment.py), the state of   *)
(* their consolidation, the two stores of clauses with JSON and view       *)
(* (context/memory/), and the runs of the maintenance runner               *)
(* that consolidate in a thread (maintenance/).  A store object keeps what *)
(* it has once loaded; only the writing of a file is locked.               *)
(***************************************************************************)
EXTENDS Naturals, Sequences, FiniteSets

CONSTANTS
  UserFacts,           \* what of all that notes and clauses say belongs to USER.md
  Unsure,              \* what the model is unsure of, which goes to the section misc
  Sediments, Tools,    \* threads of the runner, and of tool calls
  Runs,                \* coroutines that call run_sediment
  MiscEnough, CompactEvery,
  Budgets              \* which facts come up, and how many runs, tool calls, crashes, days

Targets == <<"memory", "user">>
Stores == {"memory", "user"}
Workers == Sediments \cup Tools
TargetOf(f) == IF f \in UserFacts THEN "user" ELSE "memory"

VARIABLES
  notes,     \* the daily note
  marks,     \* .sediment_state.json
  disk,      \* JSON and view of each store
  lock,      \* who holds the lock of a store's file
  worker,    \* what each thread does
  runs,      \* where each run is, and its thread
  ideal,     \* what all decisions together make of each store
  behind,    \* the threads a time-out has left behind
  stale,     \* a store was written from something that was out of date
  budget

svars == <<notes, marks, disk, lock, worker, runs, behind, ideal, stale, budget>>

Nothing == [t \in Stores |-> {}]
Idle == [pc |-> "idle", job |-> "none", next |-> "none", todo |-> <<>>, read |-> {}, cands |-> {},
         first |-> Nothing, firstNew |-> {}, mem |-> Nothing, new |-> {}, dirty |-> {},
         plus |-> {}, minus |-> {}]
NoRun == [pc |-> "idle", thread |-> "none"]

SedimentInit ==
  /\ notes = {}
  /\ marks = [settled |-> [text |-> {}, raw |-> FALSE], recent |-> FALSE, count |-> 0]
  /\ disk = [t \in Stores |-> [json |-> {}, md |-> {}]]
  /\ lock = [t \in Stores |-> "free"]
  /\ worker = [w \in Workers |-> Idle]
  /\ runs = [r \in Runs |-> NoRun]
  /\ ideal = Nothing
  /\ stale = FALSE
  /\ behind = {}
  /\ budget \in Budgets

Spend(what) == budget[what] > 0 /\ budget' = [budget EXCEPT ![what] = @ - 1]
To(w, pc) == worker' = [worker EXCEPT ![w].pc = pc]
End(w) == worker' = [worker EXCEPT ![w] = Idle]
Jsons == [t \in Stores |-> disk[t].json]

\* What is compared is the hash of the stripped text; a note ends with a line feed.
Pending == notes # {} /\ marks.settled # [text |-> notes, raw |-> FALSE]

-----------------------------------------------------------------------------
(* Notes and tool calls *)

\* memory_add and the rescue of a compression.
AppendNote(f) ==
  /\ f \notin notes
  /\ notes' = notes \cup {f}
  /\ UNCHANGED <<marks, disk, lock, worker, runs, behind, ideal, stale, budget>>

\* memory_consolidate with a fact goes straight to the pipeline, without one it consolidates.
CallTool(w, f) ==
  /\ worker[w].pc = "idle"
  /\ Spend("tools")
  /\ worker' = [worker EXCEPT ![w] =
       [Idle EXCEPT !.job = IF f = {} THEN "notes" ELSE "fact",
                    !.pc = IF f = {} THEN "collect" ELSE "route", !.cands = f]]
  /\ UNCHANGED <<notes, marks, disk, lock, runs, behind, ideal, stale>>

NextDay ==
  /\ marks.recent
  /\ Spend("days")
  /\ marks' = [marks EXCEPT !.recent = FALSE]
  /\ UNCHANGED <<notes, disk, lock, worker, runs, behind, ideal, stale>>

-----------------------------------------------------------------------------
(* Consolidation *)

Collect(w) ==
  /\ worker[w].pc = "collect"
  /\ IF ~Pending \/ marks.recent
       THEN End(w)
       ELSE worker' = [worker EXCEPT ![w].pc = "load", ![w].read = notes]
  /\ UNCHANGED <<notes, marks, disk, lock, runs, behind, ideal, stale, budget>>

\* An empty JSON takes over what the view holds, and the view follows the JSON.
Initialized(d) == LET j == IF d.json = {} THEN d.md ELSE d.json IN [json |-> j, md |-> j]

\* Both stores are initialized under their locks, and then loaded.
Initialize ==
  /\ \A t \in Stores : lock[t] = "free"
  /\ disk' = [t \in Stores |-> Initialized(disk[t])]

\* The first pair of store objects is loaded for the index in the prompt.
Load(w) ==
  /\ worker[w].pc = "load"
  /\ Initialize
  /\ worker' = [worker EXCEPT ![w].pc = "extract", ![w].first = Jsons', ![w].firstNew = Stores]
  /\ UNCHANGED <<notes, marks, lock, runs, behind, ideal, stale, budget>>

\* The model names candidates, or fails twice.
Extract(w, cands) ==
  /\ worker[w].pc = "extract"
  /\ cands \subseteq worker[w].read
  /\ worker' = [worker EXCEPT ![w].pc = IF cands = {} THEN "mark" ELSE "route",
                              ![w].cands = cands]
  /\ UNCHANGED <<notes, marks, disk, lock, runs, behind, ideal, stale, budget>>

ExtractFails(w) ==
  /\ worker[w].pc = "extract"
  /\ End(w)
  /\ UNCHANGED <<notes, marks, disk, lock, runs, behind, ideal, stale, budget>>

\* The pipeline has a pair of its own.
Route(w) ==
  /\ worker[w].pc = "route"
  /\ Initialize
  /\ worker' = [worker EXCEPT ![w].pc = "arbitrate", ![w].mem = Jsons', ![w].new = Stores]
  /\ UNCHANGED <<notes, marks, lock, runs, behind, ideal, stale, budget>>

\* What decisions make of a store.
Decided(clauses, t, plus, minus) == (clauses \ minus) \cup {f \in plus : TargetOf(f) = t}

\* The candidates are routed to sections, and the arbiter of each section adds them or not and
\* may delete a clause.
Arbitrate(w, plus, minus) ==
  LET section(f) == <<TargetOf(f), f \in Unsure>> IN
  /\ worker[w].pc = "arbitrate"
  /\ plus \subseteq worker[w].cands
  /\ \A c \in minus : \E f \in worker[w].cands : section(f) = section(c)
  /\ worker' = [worker EXCEPT
       ![w].pc = "commit", ![w].todo = Targets, ![w].plus = plus, ![w].minus = minus,
       ![w].mem = [t \in Stores |-> Decided(@[t], t, plus, minus)],
       ![w].dirty = {TargetOf(f) : f \in worker[w].cands},
       ![w].next = IF worker[w].job = "fact" THEN "idle" ELSE "mark"]
  /\ UNCHANGED <<notes, marks, disk, lock, runs, behind, ideal, stale, budget>>

\* A section gets too long: the pipeline ends, which a consolidation of notes takes for its result.
SectionTooLong(w) ==
  /\ worker[w].pc = "arbitrate"
  /\ IF worker[w].job = "fact" THEN End(w) ELSE To(w, "mark")
  /\ UNCHANGED <<notes, marks, disk, lock, runs, behind, ideal, stale, budget>>

\* The next store to commit, or what comes after the last.
Committed(w, t) ==
  IF Tail(worker[w].todo) # <<>> /\ worker[w].next # "compact"
    THEN [worker[w] EXCEPT !.todo = Tail(@), !.pc = "commit", !.dirty = @ \ {t}]
  ELSE IF worker[w].next = "idle" THEN Idle
  ELSE [worker[w] EXCEPT !.todo = Tail(@), !.pc = worker[w].next, !.dirty = {}, !.mem = Nothing,
                         !.new = {}, !.plus = {}, !.minus = {}]

\* A store without changes only sees to it that the view is what it knows.
CommitClean(w) ==
  LET t == Head(worker[w].todo) IN
  /\ worker[w].pc = "commit" /\ t \notin worker[w].dirty
  /\ lock[t] = "free"
  /\ disk' = IF disk[t].md = worker[w].mem[t] THEN disk
             ELSE [disk EXCEPT ![t].md = worker[w].mem[t]]
  /\ stale' = (stale \/ (t \notin worker[w].new /\ disk' # disk))
  /\ worker' = [worker EXCEPT ![w] = Committed(w, t)]
  /\ UNCHANGED <<notes, marks, lock, runs, behind, ideal, budget>>

\* Everyone else's object for this store is out of date now.
Outdated(w, t) ==
  [x \in Workers |-> IF x = w THEN [worker[w] EXCEPT !.pc = "view", !.firstNew = @ \ {t}]
                     ELSE [worker[x] EXCEPT !.new = @ \ {t}, !.firstNew = @ \ {t}]]

Persist(w) ==
  LET t == Head(worker[w].todo)
      mem == worker[w].mem[t] IN
  /\ worker[w].pc = "commit" /\ t \in worker[w].dirty
  /\ lock[t] = "free"
  /\ lock' = [lock EXCEPT ![t] = w]
  /\ disk' = [disk EXCEPT ![t].json = mem]
  /\ stale' = (stale \/ t \notin worker[w].new)
  /\ worker' = Outdated(w, t)
  /\ ideal' = [ideal EXCEPT ![t] = Decided(@, t, worker[w].plus, worker[w].minus)]
  /\ UNCHANGED <<notes, marks, runs, behind, budget>>

\* Mutant: the length is looked at before the view is written.
ViewAfterCheck(w, tooLong) ==
  LET t == Head(worker[w].todo)
      mem == worker[w].mem[t] IN
  /\ worker[w].pc = "view"
  /\ lock' = [lock EXCEPT ![t] = "free"]
  /\ disk' = IF tooLong THEN disk ELSE [disk EXCEPT ![t].md = mem]
  /\ IF tooLong THEN End(w) ELSE worker' = [worker EXCEPT ![w] = Committed(w, t)]
  /\ UNCHANGED <<notes, marks, runs, behind, ideal, stale, budget>>

\* The view is written before its length is looked at: one that is too long ends the run.
View(w, tooLong) ==
  LET t == Head(worker[w].todo)
      mem == worker[w].mem[t] IN
  /\ worker[w].pc = "view"
  /\ lock' = [lock EXCEPT ![t] = "free"]
  /\ disk' = [disk EXCEPT ![t].md = mem]
  /\ IF tooLong THEN End(w) ELSE worker' = [worker EXCEPT ![w] = Committed(w, t)]
  /\ UNCHANGED <<notes, marks, runs, behind, ideal, stale, budget>>

\* What was read counts as settled, whatever became of it.
Mark(w) ==
  /\ worker[w].pc = "mark"
  /\ marks' = [settled |-> [text |-> worker[w].read, raw |-> TRUE], recent |-> TRUE,
               count |-> marks.count + 1]
  /\ IF worker[w].cands = {} THEN End(w)
     ELSE worker' = [worker EXCEPT ![w].pc = "compact", ![w].todo = Targets, ![w].next = "compact",
                                   ![w].read = {}, ![w].cands = {}]
  /\ UNCHANGED <<notes, disk, lock, runs, behind, ideal, stale, budget>>

Misc(clauses) == clauses \cap Unsure

\* Every so often the misc section of the first pair is compacted, and committed.
Compact(w, kept) ==
  LET t == Head(worker[w].todo) IN
  /\ worker[w].pc = "compact" /\ worker[w].todo # <<>>
  /\ marks.count % CompactEvery = 0
  /\ Cardinality(Misc(worker[w].first[t])) >= MiscEnough
  /\ kept # {} /\ kept \subseteq Misc(worker[w].first[t])
  /\ worker' = [worker EXCEPT
       ![w].pc = "commit", ![w].dirty = {t}, ![w].new = worker[w].firstNew,
       ![w].plus = {}, ![w].minus = Misc(worker[w].first[t]) \ kept,
       ![w].mem = [worker[w].first EXCEPT ![t] = (@ \ Unsure) \cup kept]]
  /\ UNCHANGED <<notes, marks, disk, lock, runs, behind, ideal, stale, budget>>

\* There is nothing to compact, or the model fails.
CompactSkips(w) ==
  /\ worker[w].pc = "compact"
  /\ IF worker[w].todo = <<>> THEN End(w)
     ELSE worker' = [worker EXCEPT ![w].todo = Tail(@)]
  /\ UNCHANGED <<notes, marks, disk, lock, runs, behind, ideal, stale, budget>>

-----------------------------------------------------------------------------
(* The maintenance runner *)

\* The scheduler's interval has passed, or a session begins.
RunSediment(r) ==
  /\ runs[r].pc = "idle"
  /\ Spend("runs")
  /\ runs' = [runs EXCEPT ![r].pc = "lock"]
  /\ UNCHANGED <<notes, marks, disk, lock, worker, behind, ideal, stale>>

\* Mutant: the lock is not taken.
AcquireAtOnce(r) ==
  /\ runs[r].pc = "lock"
  /\ runs' = [runs EXCEPT ![r].pc = "check"]
  /\ UNCHANGED <<notes, marks, disk, lock, worker, behind, ideal, stale, budget>>

Acquire(r) ==
  /\ runs[r].pc = "lock"
  /\ \A x \in Runs : runs[x].pc \in {"idle", "lock"}
  /\ runs' = [runs EXCEPT ![r].pc = "check"]
  /\ UNCHANGED <<notes, marks, disk, lock, worker, behind, ideal, stale, budget>>

\* A thread is started when there is something to do.
WouldRun(r) ==
  /\ runs[r].pc = "check"
  /\ \/ /\ ~Pending \/ marks.recent
        /\ runs' = [runs EXCEPT ![r] = NoRun]
        /\ UNCHANGED <<worker, behind>>
     \/ \E w \in Sediments :
          /\ Pending /\ ~marks.recent
          /\ worker[w].pc = "idle"
          /\ runs' = [runs EXCEPT ![r] = [pc |-> "wait", thread |-> w]]
          /\ behind' = behind \ {w}
          /\ worker' = [worker EXCEPT ![w] = [Idle EXCEPT !.pc = "collect", !.job = "notes"]]
  /\ UNCHANGED <<notes, marks, disk, lock, ideal, stale, budget>>

RunEnds(r) ==
  /\ runs[r].pc = "wait"
  /\ worker[runs[r].thread].pc = "idle"
  /\ runs' = [runs EXCEPT ![r] = NoRun]
  /\ UNCHANGED <<notes, marks, disk, lock, worker, behind, ideal, stale, budget>>

\* Mutant: the run waits for its thread.
RunTimesOutJoining(r) ==
  /\ runs[r].pc = "wait"
  /\ worker[runs[r].thread].pc = "idle"
  /\ runs' = [runs EXCEPT ![r] = NoRun]
  /\ UNCHANGED <<notes, marks, disk, lock, worker, behind, ideal, stale, budget>>

\* 180 s have passed: the run ends and lets the next one in; its thread goes on.
RunTimesOut(r) ==
  /\ runs[r].pc = "wait"
  /\ worker[runs[r].thread].pc # "idle"
  /\ runs' = [runs EXCEPT ![r] = NoRun]
  /\ behind' = behind \cup {runs[r].thread}
  /\ UNCHANGED <<notes, marks, disk, lock, worker, ideal, stale, budget>>

\* The process ends; the next one initializes the stores when it starts.  A view that was not
\* yet written after its last clause was deleted brings that clause back.
Restart ==
  /\ Spend("crashes")
  /\ disk' = [t \in Stores |-> Initialized(disk[t])]
  /\ lock' = [t \in Stores |-> "free"]
  /\ worker' = [w \in Workers |-> Idle]
  /\ runs' = [r \in Runs |-> NoRun]
  /\ behind' = {}
  /\ stale' = (stale \/ \E t \in Stores : Initialized(disk[t]).json # disk[t].json)
  /\ UNCHANGED <<notes, marks, ideal>>

-----------------------------------------------------------------------------
WorkerStep(w) ==
  \/ Collect(w) \/ Load(w) \/ ExtractFails(w) \/ Route(w)
  \/ \E cands \in SUBSET worker[w].read : Extract(w, cands)
  \/ \E plus \in SUBSET worker[w].cands :
       \E minus \in SUBSET (worker[w].mem["memory"] \cup worker[w].mem["user"]) : Arbitrate(w, plus, minus)
  \/ SectionTooLong(w)
  \/ CommitClean(w) \/ Persist(w) \/ Mark(w)
  \/ \E tooLong \in BOOLEAN : View(w, tooLong)
  \/ \E kept \in SUBSET Unsure : Compact(w, kept)
  \/ CompactSkips(w)

RunStep(r) == Acquire(r) \/ WouldRun(r) \/ RunEnds(r) \/ RunTimesOut(r)

SedimentNext ==
  \/ \E f \in budget.facts : AppendNote(f)
  \/ \E w \in Tools : CallTool(w, {}) \/ \E f \in budget.facts : CallTool(w, {f})
  \/ NextDay
  \/ \E w \in Workers : WorkerStep(w)
  \/ \E r \in Runs : RunSediment(r) \/ RunStep(r)
  \/ Restart

SedimentSpec == SedimentInit /\ [][SedimentNext]_svars

\* The runs of one event loop go on; a thread need not, as it waits for a model.
SedimentFairness == \A r \in Runs : WF_svars(RunStep(r))

-----------------------------------------------------------------------------
(* Properties *)

\* A store is what the decisions committed to it make of it, and the view says the same whenever
\* nobody is writing it: a commit that raises, a section that is too long and a crash between the
\* two files change nothing of that.
StoresAgree ==
  ~stale => \A t \in Stores :
    /\ disk[t].json = ideal[t]
    /\ lock[t] = "free" => disk[t].md = disk[t].json

\* Of the threads the runner has started one is at work, and those a time-out has left behind.
OneThreadAtATime ==
  Cardinality({w \in Sediments \ behind : worker[w].pc # "idle"}) <= 1

\* A run ends although its thread hangs, and lets the next one in.
RunsReturn == \A r \in Runs : []<>(runs[r].pc = "idle")
=============================================================================
