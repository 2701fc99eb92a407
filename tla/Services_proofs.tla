---------------------------- MODULE Services_proofs ----------------------------
(***************************************************************************)
(* The background services, for any numbers of what they serve.            *)
(*                                                                         *)
(* No connection is left that nobody will shut, for any number of servers, *)
(* threads and operations: NoOrphans.                                      *)
(*                                                                         *)
(* NoOrphans says nothing of a connection while it is dialled, and a       *)
(* second one to the same server would push the first out of the registry. *)
(* DialInv adds that a server is not dialled while it is connected; it     *)
(* holds since discoveries do not overlap, which AloneInv states: one that *)
(* is under way is the one a thread waits for, and one thread waits.       *)
(*                                                                         *)
(* The runner's lock and the memory stores, for any number of runs and     *)
(* threads: OneThreadAtATime and StoresAgree.                              *)
(*                                                                         *)
(* The lock: a run that checks or waits is the only one (LockInv), and a   *)
(* thread that is at work without having been given up is the one a run    *)
(* waits for (ThreadInv).  Nothing of this depends on what the threads do  *)
(* to the stores: OnlyItself says what their steps have in common.         *)
(*                                                                         *)
(* The stores: only the holder of a store's lock writes it, and as long as *)
(* no restart has brought back what a view said, the object a thread holds *)
(* of a store nobody else writes says what the file says (StoresInv).      *)
(***************************************************************************)
EXTENDS McpServers, MemorySediment, SequenceTheorems, FiniteSetTheorems, TLAPS

-----------------------------------------------------------------------------
(* The connections of the MCP servers.                                     *)

\* A call has a server, also while it discovers.
ThreadTypes ==
  {r \in [pc : {"idle", "discover", "wait", "shut", "uncard", "stop", "attempt", "get", "call"},
          next : {"idle", "get", "uncard", "stop"}, srv : Servers \cup {0}, disc : Nat, gen : Nat,
          held : SUBSET (Nat \X Servers)] :
     r.pc \in {"attempt", "get", "call"} \/ r.next = "get" => r.srv \in Servers}
DiscTypes ==
  [st : {"scan", "dial", "done"}, on : SUBSET Servers, gen : Nat,
   task : [Servers -> {"none", "starting", "up", "down"}], cards : SUBSET Servers,
   abandoned : BOOLEAN]

Types ==
  /\ enabled \in SUBSET Servers
  /\ registry \in [Servers -> Nat]
  /\ loop \in [gen : Nat, runs : BOOLEAN]
  /\ discs \in Seq(DiscTypes)
  /\ th \in [Threads -> ThreadTypes]

\* A discovery is under way as long as it is not done and its loop runs.
Active(d) == discs[d].st # "done" /\ OnLoop(discs[d].gen)
Waits(x) == th[x].pc = "wait"
Attended == \A d \in DOMAIN discs : ~discs[d].abandoned

GensInv == \A d \in DOMAIN discs : discs[d].gen <= loop.gen

\* One thread at a time waits for a discovery, one that nobody gave up.
WaitInv ==
  /\ \A x \in Threads : Waits(x) =>
       discovering /\ th[x].disc \in DOMAIN discs /\ ~discs[th[x].disc].abandoned
  /\ \A x, y \in Threads : Waits(x) /\ Waits(y) => x = y

\* The manager holds connections from the moment it takes them to that it shuts them.
HeldInv == th[Manager].pc # "shut" => th[Manager].held = {}

\* Unless one was given up, a discovery under way is the one a thread waits for.
AloneInv == Attended => \A d \in DOMAIN discs : Active(d) => \E x \in Threads : Waits(x) /\ th[x].disc = d

\* A server is not dialled while it is connected.
DialInv ==
  Attended => \A d, e \in DOMAIN discs, s \in Servers :
    Dials(d, s) /\ discs[e].task[s] = "up" /\ OnLoop(discs[e].gen) => <<e, s>> \in th[Manager].held

McpInv == Types /\ GensInv /\ WaitInv /\ HeldInv /\ AloneInv /\ DialInv /\ NoOrphans

-----------------------------------------------------------------------------
(* Types.                                                                  *)

LEMMA InitTypes == McpInit => McpInv
<1> SUFFICES ASSUME McpInit PROVE McpInv
  OBVIOUS
<1>1. AtRest \in ThreadTypes /\ AtRest.pc = "idle" /\ AtRest.held = {}
  BY DEF AtRest, ThreadTypes
<1>2. discs = <<>> /\ DOMAIN discs = {} /\ <<>> \in Seq(DiscTypes)
  BY DEF McpInit
<1>3. Types
  BY <1>1, <1>2 DEF McpInit, Types
<1>4. Manager \in Threads /\ \A x \in Threads : th[x] = AtRest
  BY DEF McpInit, Threads
<1>5. WaitInv /\ HeldInv
  BY <1>1, <1>4 DEF WaitInv, HeldInv, Waits
<1>. QED
  BY <1>2, <1>3, <1>5 DEF McpInv, GensInv, AloneInv, DialInv, NoOrphans, Attended

\* What a discovery, a thread and the loop are made of.
LEMMA Parts ==
  ASSUME Types
  PROVE  /\ \A d \in DOMAIN discs : discs[d] \in DiscTypes
         /\ \A x \in Threads : th[x] \in ThreadTypes
         /\ DOMAIN discs = 1..Len(discs) /\ Len(discs) \in Nat
         /\ Manager \in Threads /\ Callers \subseteq Threads
         /\ loop.gen \in Nat /\ loop.runs \in BOOLEAN
         /\ Ensured \in [gen : Nat, runs : BOOLEAN] /\ Ensured.runs
         /\ Ensured.gen \in Nat /\ Ensured.gen >= loop.gen
         /\ ~loop.runs => Ensured.gen > loop.gen
<1>1. /\ \A d \in DOMAIN discs : discs[d] \in DiscTypes
      /\ \A x \in Threads : th[x] \in ThreadTypes
      /\ DOMAIN discs = 1..Len(discs) /\ Len(discs) \in Nat
  BY DEF Types
<1>2. Manager \in Threads /\ Callers \subseteq Threads
  BY DEF Threads
<1>3. loop.gen \in Nat /\ loop.runs \in BOOLEAN
  BY DEF Types
<1>. QED
  BY <1>1, <1>2, <1>3 DEF Types, Ensured

\* A change of one thread to something of its type.
LEMMA ThreadTyped ==
  ASSUME Types, NEW x \in Threads, NEW r \in ThreadTypes, th' = [th EXCEPT ![x] = r]
  PROVE  /\ th' \in [Threads -> ThreadTypes] /\ th'[x] = r
         /\ \A y \in Threads : y # x => th'[y] = th[y]
  BY DEF Types

\* A change of one discovery.
LEMMA DiscTyped ==
  ASSUME Types, NEW d \in DOMAIN discs, NEW r \in DiscTypes, discs' = [discs EXCEPT ![d] = r]
  PROVE  /\ discs' \in Seq(DiscTypes) /\ DOMAIN discs' = DOMAIN discs /\ discs'[d] = r
         /\ \A e \in DOMAIN discs : e # d => discs'[e] = discs[e]
  BY DEF Types

-----------------------------------------------------------------------------
(* What most steps have in common.                                         *)

LoopMoves == loop' = loop \/ loop' = Ensured \/ loop' = [loop EXCEPT !.runs = FALSE]

\* A discovery is what it was, but for the connections it has.
SameDisc(d) ==
  /\ discs'[d].gen = discs[d].gen
  /\ discs'[d].abandoned = discs[d].abandoned
  /\ discs[d].st = "done" => discs'[d].st = "done"
SameWaits ==
  \A x \in Threads : (th'[x].pc = "wait") = Waits(x) /\ (Waits(x) => th'[x].disc = th[x].disc)

\* A loop that was stopped is not started again; a new one has no discoveries yet.
LEMMA LoopsEnd ==
  ASSUME Types, GensInv, LoopMoves, NEW d \in DOMAIN discs
  PROVE  /\ discs[d].gen <= loop'.gen
         /\ (loop'.runs /\ loop'.gen = discs[d].gen) => OnLoop(discs[d].gen)
<1>1. discs[d].gen <= loop.gen /\ discs[d].gen \in Nat /\ loop.gen \in Nat
  BY Parts DEF GensInv, DiscTypes
<1>2. CASE loop' = loop
  BY <1>1, <1>2 DEF OnLoop
<1>3. CASE loop' = Ensured
  BY <1>1, <1>3, Parts DEF OnLoop, Ensured
<1>4. CASE loop' = [loop EXCEPT !.runs = FALSE]
  BY <1>1, <1>4 DEF OnLoop, Types
<1>. QED
  BY <1>2, <1>3, <1>4 DEF LoopMoves

LEMMA Common ==
  ASSUME McpInv, Types', LoopMoves, DOMAIN discs' = DOMAIN discs,
         \A d \in DOMAIN discs : SameDisc(d), SameWaits, UNCHANGED discovering
  PROVE  /\ GensInv' /\ WaitInv' /\ AloneInv'
         /\ Attended' => Attended
         /\ \A d \in DOMAIN discs : OnLoop(discs[d].gen)' => OnLoop(discs[d].gen)
<1>1. \A d \in DOMAIN discs : discs'[d].gen <= loop'.gen
                              /\ (OnLoop(discs[d].gen)' => OnLoop(discs[d].gen))
  BY LoopsEnd DEF McpInv, SameDisc, OnLoop
<1>2. WaitInv'
  BY DEF McpInv, WaitInv, Waits, SameWaits, SameDisc
<1>3. Attended' => Attended
  BY DEF Attended, SameDisc
<1>4. ASSUME Attended', NEW d \in DOMAIN discs, Active(d)'
      PROVE  \E x \in Threads : Waits(x)' /\ th'[x].disc = d
  <2>1. Active(d)
    BY <1>1, <1>4 DEF Active, SameDisc
  <2>2. PICK x \in Threads : Waits(x) /\ th[x].disc = d
    BY <1>3, <1>4, <2>1 DEF McpInv, AloneInv
  <2>. QED
    BY <2>2 DEF SameWaits, Waits
<1>. QED
  BY <1>1, <1>2, <1>3, <1>4 DEF GensInv, AloneInv

\* A step that leaves the connections alone.
LEMMA Bystander ==
  ASSUME McpInv, Types', LoopMoves, SameWaits, HeldInv', th'[Manager].held = th[Manager].held,
         UNCHANGED <<discs, registry, discovering>>
  PROVE  McpInv'
<1>1. \A d \in DOMAIN discs : SameDisc(d)
  BY DEF SameDisc
<1>2. /\ GensInv' /\ WaitInv' /\ AloneInv'
      /\ Attended' => Attended
      /\ \A d \in DOMAIN discs : OnLoop(discs[d].gen)' => OnLoop(discs[d].gen)
  BY <1>1, Common
<1>3. DialInv'
  BY <1>2 DEF McpInv, DialInv, Dials
<1>4. NoOrphans'
  BY <1>2 DEF McpInv, NoOrphans, Attended
<1>. QED
  BY <1>2, <1>3, <1>4 DEF McpInv

LEMMA LoopTyped == ASSUME Types, LoopMoves PROVE loop' \in [gen : Nat, runs : BOOLEAN]
  BY Parts DEF LoopMoves, Types

\* A thread that neither waits nor shuts goes on.
LEMMA GoesOn ==
  ASSUME McpInv, NEW x \in Threads, NEW r \in ThreadTypes, th' = [th EXCEPT ![x] = r],
         th[x].pc \notin {"wait", "shut"}, r.pc # "wait", r.held = th[x].held, LoopMoves,
         UNCHANGED <<enabled, registry, discs, discovering>>
  PROVE  McpInv'
<1>1. Types /\ HeldInv
  BY DEF McpInv
<1>2. /\ th' \in [Threads -> ThreadTypes] /\ th'[x] = r
      /\ \A y \in Threads : y # x => th'[y] = th[y]
  BY <1>1, ThreadTyped
<1>3. Types'
  BY <1>1, <1>2, LoopTyped DEF Types
<1>4. SameWaits
  BY <1>2 DEF SameWaits, Waits
<1>5. Manager \in Threads
  BY DEF Threads
<1>6. th'[Manager].held = th[Manager].held /\ HeldInv'
  BY <1>1, <1>2, <1>5 DEF HeldInv
<1>. QED
  BY <1>3, <1>4, <1>6, Bystander

LEMMA NobodyMoves ==
  ASSUME McpInv, enabled' \subseteq Servers, UNCHANGED <<registry, loop, discs, th, discovering>>
  PROVE  McpInv'
<1>1. Types' /\ HeldInv'
  BY DEF McpInv, Types, HeldInv
<1>2. SameWaits /\ LoopMoves
  BY DEF SameWaits, Waits, LoopMoves
<1>. QED
  BY <1>1, <1>2, Bystander

LEMMA CallsKeep ==
  ASSUME McpInv, NEW c \in Callers,
         \/ \E s \in Servers : BeginCall(c, s)
         \/ Attempt(c) \/ Get(c) \/ Answered(c) \/ CallFails(c)
  PROVE  McpInv'
<1>1. Types /\ HeldInv /\ c \in Threads /\ th[c] \in ThreadTypes
      /\ enabled \subseteq Servers /\ Ensured.gen \in Nat
  BY Parts DEF McpInv, Types
<1>2. ASSUME th[c].pc \in {"attempt", "get", "call"}, th' = [th EXCEPT ![c] = AtRest], LoopMoves,
             UNCHANGED <<enabled, registry, discs, discovering>>
      PROVE  McpInv'
  <2>1. AtRest \in ThreadTypes /\ AtRest.pc = "idle" /\ AtRest.held = {}
    BY DEF AtRest, ThreadTypes
  <2>2. CASE c = Manager
    <3>1. th[c].held = {}
      BY <1>1, <1>2, <2>2 DEF HeldInv
    <3>. QED
      BY <1>1, <1>2, <2>1, <3>1, GoesOn
  <2>3. CASE c # Manager
    <3>1. /\ th' \in [Threads -> ThreadTypes] /\ th'[c] = AtRest
          /\ \A y \in Threads : y # c => th'[y] = th[y]
      BY <1>1, <1>2, <2>1, ThreadTyped
    <3>2. Types'
      BY <1>1, <1>2, <3>1, LoopTyped DEF Types
    <3>3. SameWaits
      BY <1>2, <2>1, <3>1 DEF SameWaits, Waits
    <3>4. th'[Manager] = th[Manager]
      BY <2>3, <3>1 DEF Threads
    <3>5. HeldInv' /\ th'[Manager].held = th[Manager].held
      BY <1>1, <3>4 DEF HeldInv
    <3>. QED
      BY <1>2, <3>2, <3>3, <3>5, Bystander
  <2>. QED
    BY <2>2, <2>3
<1>3. CASE \E s \in Servers : BeginCall(c, s)
  <2>1. PICK s \in Servers : BeginCall(c, s)
    BY <1>3
  <2>2. CASE th' = th
    BY <1>1, <2>1, <2>2, NobodyMoves DEF BeginCall
  <2>3. CASE th' = [th EXCEPT ![c].pc = "attempt", ![c].srv = s]
    <3> DEFINE r == [th[c] EXCEPT !.pc = "attempt", !.srv = s]
    <3>1. r \in ThreadTypes /\ r.pc = "attempt" /\ r.held = th[c].held
      BY <1>1 DEF ThreadTypes
    <3>2. th' = [th EXCEPT ![c] = r]
      BY <2>3, <1>1 DEF Types
    <3>3. th[c].pc = "idle" /\ LoopMoves /\ UNCHANGED <<enabled, registry, discs, discovering>>
      BY <2>1 DEF BeginCall, LoopMoves
    <3> HIDE DEF r
    <3>. QED
      BY <1>1, <3>1, <3>2, <3>3, GoesOn
  <2>. QED
    BY <2>1, <2>2, <2>3 DEF BeginCall
<1>4. CASE Attempt(c)
  <2>1. /\ th[c].pc = "attempt" /\ LoopMoves
        /\ UNCHANGED <<enabled, registry, discs, discovering>>
    BY <1>4 DEF Attempt, LoopMoves
  <2>2. CASE EndCall(c, FALSE)
    BY <1>2, <2>1, <2>2 DEF EndCall
  <2>3. CASE th' = [th EXCEPT ![c].pc = IF Unconnected = {} THEN "get" ELSE "discover",
                              ![c].next = "get"]
    <3> DEFINE p == IF Unconnected = {} THEN "get" ELSE "discover"
               r == [th[c] EXCEPT !.pc = p, !.next = "get"]
    <3>0. p \in {"get", "discover"}
      OBVIOUS
    <3>2. th' = [th EXCEPT ![c] = r]
      BY <2>3, <1>1 DEF Types
    <3> HIDE DEF p
    <3>1. r.pc \in {"get", "discover"} /\ r.next = "get" /\ r.srv \in Servers
      BY <1>1, <2>1, <3>0 DEF ThreadTypes
    <3>4. r \in ThreadTypes /\ r.held = th[c].held
      BY <1>1, <3>0, <3>1 DEF ThreadTypes
    <3> HIDE DEF r
    <3>. QED
      BY <1>1, <2>1, <3>1, <3>2, <3>4, GoesOn
  <2>. QED
    BY <1>4, <2>2, <2>3 DEF Attempt
<1>5. CASE Get(c)
  <2>1. th[c].pc = "get" /\ UNCHANGED <<enabled, registry, discs, discovering>>
    BY <1>5 DEF Get
  <2>2. CASE EndCall(c, FALSE) /\ UNCHANGED loop
    BY <1>2, <2>1, <2>2 DEF EndCall, LoopMoves
  <2>3. CASE /\ loop' = Ensured
             /\ th' = [th EXCEPT ![c].pc = "call", ![c].disc = registry[th[c].srv],
                                 ![c].gen = Ensured.gen]
             /\ registry[th[c].srv] # 0
    <3> DEFINE r == [th[c] EXCEPT !.pc = "call", !.disc = registry[th[c].srv],
                                  !.gen = Ensured.gen]
    <3>1. th[c].srv \in Servers /\ registry[th[c].srv] \in Nat
      BY <2>1, <1>1 DEF Types, ThreadTypes
    <3>2. r \in ThreadTypes /\ r.pc = "call" /\ r.held = th[c].held
      BY <1>1, <3>1 DEF ThreadTypes
    <3>3. th' = [th EXCEPT ![c] = r]
      BY <2>3, <1>1 DEF Types
    <3> HIDE DEF r
    <3>. QED
      BY <1>1, <2>1, <2>3, <3>2, <3>3, GoesOn DEF LoopMoves
  <2>. QED
    BY <1>5, <2>2, <2>3 DEF Get
<1>6. CASE Answered(c) \/ CallFails(c)
  BY <1>2, <1>6 DEF Answered, CallFails, EndCall, LoopMoves
<1>. QED
  BY <1>3, <1>4, <1>5, <1>6

LEMMA ManagerKeeps ==
  ASSUME McpInv, RemoveCards \/ StopLoop \/ ScheduleScout \/ \E s \in Servers : Enable(s) \/ Cool(s)
  PROVE  McpInv'
<1>1. Types /\ HeldInv /\ Manager \in Threads /\ Scout \in Threads
      /\ th[Manager] \in ThreadTypes /\ th[Scout] \in ThreadTypes
  BY Parts DEF McpInv, Types, Threads
<1>2. CASE RemoveCards
  <2>1. AtRest \in ThreadTypes /\ AtRest.pc = "idle" /\ AtRest.held = {}
    BY DEF AtRest, ThreadTypes
  <2>2. th[Manager].pc = "uncard" /\ th' = [th EXCEPT ![Manager] = AtRest] /\ LoopMoves
        /\ UNCHANGED <<enabled, registry, discs, discovering>>
    BY <1>2 DEF RemoveCards, LoopMoves
  <2>3. th[Manager].held = {}
    BY <1>1, <2>2 DEF HeldInv
  <2>. QED
    BY <1>1, <2>1, <2>2, <2>3, GoesOn
<1>3. CASE StopLoop
  <2> DEFINE r == [th[Manager] EXCEPT !.pc = "discover", !.next = "idle"]
  <2>1. r \in ThreadTypes /\ r.pc = "discover" /\ r.held = th[Manager].held
    BY <1>1 DEF ThreadTypes
  <2>2. th' = [th EXCEPT ![Manager] = r]
    BY <1>1, <1>3 DEF StopLoop, Types
  <2>3. /\ th[Manager].pc = "stop" /\ LoopMoves
        /\ UNCHANGED <<enabled, registry, discs, discovering>>
    BY <1>3 DEF StopLoop, LoopMoves
  <2> HIDE DEF r
  <2>. QED
    BY <1>1, <2>1, <2>2, <2>3, GoesOn
<1>4. CASE ScheduleScout
  <2> DEFINE r == [th[Scout] EXCEPT !.pc = "discover"]
  <2>1. r \in ThreadTypes /\ r.pc = "discover" /\ r.held = th[Scout].held
    BY <1>1 DEF ThreadTypes
  <2>2. th' = [th EXCEPT ![Scout] = r]
    BY <1>1, <1>4 DEF ScheduleScout, Go, Types
  <2>3. /\ th[Scout].pc = "idle" /\ LoopMoves
        /\ UNCHANGED <<enabled, registry, discs, discovering>>
    BY <1>4 DEF ScheduleScout, LoopMoves
  <2> HIDE DEF r
  <2>. QED
    BY <1>1, <2>1, <2>2, <2>3, GoesOn
<1>5. CASE \E s \in Servers : Enable(s) \/ Cool(s)
  <2>1. enabled' \subseteq Servers /\ UNCHANGED <<registry, loop, discs, th, discovering>>
    BY <1>1, <1>5 DEF Enable, Cool, Types
  <2>. QED
    BY <2>1, NobodyMoves
<1>. QED
  BY <1>2, <1>3, <1>4, <1>5

-----------------------------------------------------------------------------
(* The connections.                                                        *)

\* A step that leaves the threads alone and brings up no connection, nor takes one that is up from
\* the registry.  A server is newly dialled only when it had no connection on the running loop.
LEMMA NothingNew ==
  ASSUME McpInv, Types', UNCHANGED <<loop, th, discovering>>, DOMAIN discs' = DOMAIN discs,
         \A d \in DOMAIN discs : SameDisc(d),
         \A d \in DOMAIN discs, s \in Servers :
           /\ discs'[d].task[s] = "up" => discs[d].task[s] = "up"
           /\ discs[d].task[s] = "up" /\ registry[s] = d => registry'[s] = d
           /\ Dials(d, s)' /\ ~Dials(d, s) =>
                registry[s] \notin DOMAIN discs \/ discs[registry[s]].task[s] # "up"
  PROVE  McpInv'
<1>1. SameWaits /\ LoopMoves /\ HeldInv' /\ th'[Manager] = th[Manager]
  BY DEF SameWaits, LoopMoves, Waits, McpInv, HeldInv
<1>2. /\ GensInv' /\ WaitInv' /\ AloneInv'
      /\ Attended' => Attended
      /\ \A d \in DOMAIN discs : OnLoop(discs[d].gen)' => OnLoop(discs[d].gen)
  BY <1>1, Common
<1>3. NoOrphans'
  BY <1>1, <1>2 DEF McpInv, NoOrphans, Attended
<1>4. ASSUME Attended', NEW d \in DOMAIN discs, NEW e \in DOMAIN discs, NEW s \in Servers,
             Dials(d, s)', discs'[e].task[s] = "up", OnLoop(discs[e].gen)'
      PROVE  <<e, s>> \in th'[Manager].held
  <2>1. Attended /\ discs[e].task[s] = "up" /\ OnLoop(discs[e].gen)
    BY <1>2, <1>4
  <2>2. CASE Dials(d, s)
    BY <1>1, <2>1, <2>2 DEF McpInv, DialInv
  <2>3. CASE ~Dials(d, s)
    <3>1. registry[s] = e \/ <<e, s>> \in th[Manager].held
      BY <2>1 DEF McpInv, NoOrphans, Attended
    <3>. QED
      BY <1>1, <1>4, <2>1, <2>3, <3>1
  <2>. QED
    BY <2>2, <2>3
<1>5. DialInv'
  BY <1>4 DEF DialInv
<1>. QED
  BY <1>1, <1>2, <1>3, <1>5 DEF McpInv

LEMMA ScanKeeps == ASSUME McpInv, NEW d \in DOMAIN discs, Scan(d) PROVE McpInv'
<1> DEFINE tried == {s \in discs[d].on : ~GaveUp(s)}
           dialled == {s \in tried : ~Live(s)}
           k == tried \ dialled
           t == [s \in Servers |-> IF s \in dialled THEN "starting" ELSE "none"]
           r == [discs[d] EXCEPT !.st = "dial", !.cards = k, !.task = t]
<1>1. Types /\ discs[d] \in DiscTypes /\ DOMAIN discs = 1..Len(discs) /\ Len(discs) \in Nat
  BY Parts DEF McpInv
<1>2. k \subseteq Servers /\ dialled \subseteq Servers
  BY <1>1 DEF DiscTypes
<1>a. discs' = [discs EXCEPT ![d] = r]
  BY Zenon DEF Scan
<1>3. /\ UNCHANGED <<enabled, loop, th, discovering>>
      /\ registry' = [s \in Servers |-> IF s \in dialled THEN 0 ELSE registry[s]]
      /\ discs[d].st = "scan"
  BY DEF Scan
<1>4. \A s \in dialled : registry[s] \notin DOMAIN discs \/ discs[registry[s]].task[s] # "up"
  BY <1>1 DEF Live
<1> HIDE DEF tried, dialled, k
<1>b. t \in [Servers -> {"none", "starting", "up", "down"}]
      /\ \A s \in Servers : t[s] = IF s \in dialled THEN "starting" ELSE "none"
  OBVIOUS
<1> HIDE DEF t
<1>5. /\ r \in DiscTypes /\ r.gen = discs[d].gen /\ r.abandoned = discs[d].abandoned
      /\ r.st = "dial" /\ r.task = t
  BY <1>1, <1>2, <1>b DEF DiscTypes
<1> HIDE DEF r
<1>6. /\ discs' \in Seq(DiscTypes) /\ DOMAIN discs' = DOMAIN discs /\ discs'[d] = r
      /\ \A e \in DOMAIN discs : e # d => discs'[e] = discs[e]
  BY <1>1, <1>a, <1>5, DiscTyped
<1>7. Types'
  BY <1>1, <1>3, <1>6 DEF Types
<1>8. \A e \in DOMAIN discs : SameDisc(e)
  BY <1>3, <1>5, <1>6 DEF SameDisc
<1>9. ASSUME NEW e \in DOMAIN discs, NEW s \in Servers
      PROVE  /\ discs'[e].task[s] = "up" => discs[e].task[s] = "up"
             /\ discs[e].task[s] = "up" /\ registry[s] = e => registry'[s] = e
             /\ Dials(e, s)' /\ ~Dials(e, s) =>
                  registry[s] \notin DOMAIN discs \/ discs[registry[s]].task[s] # "up"
  <2>1. discs'[e].task[s] = "up" => discs[e].task[s] = "up"
    BY <1>5, <1>6, <1>b
  <2>2. discs[e].task[s] = "up" /\ registry[s] = e => registry'[s] = e
    BY <1>3, <1>4
  <2>3. Dials(e, s)' /\ ~Dials(e, s) => e = d /\ s \in dialled
    BY <1>3, <1>5, <1>6, <1>b DEF Dials, OnLoop
  <2>. QED
    BY <1>4, <2>1, <2>2, <2>3
<1>. QED
  BY <1>3, <1>6, <1>7, <1>8, <1>9, NothingNew

\* A discovery that changes nothing but what it says of its end and of one server.
LEMMA DiscMoves ==
  ASSUME McpInv, NEW d \in DOMAIN discs, NEW r \in DiscTypes, discs' = [discs EXCEPT ![d] = r],
         UNCHANGED <<enabled, registry, loop, th, discovering>>,
         r.gen = discs[d].gen, r.abandoned = discs[d].abandoned, r.st \in {discs[d].st, "done"},
         \A s \in Servers : r.task[s] = discs[d].task[s] \/ r.task[s] = "down"
  PROVE  McpInv'
<1>1. Types
  BY DEF McpInv
<1>2. /\ discs' \in Seq(DiscTypes) /\ DOMAIN discs' = DOMAIN discs /\ discs'[d] = r
      /\ \A e \in DOMAIN discs : e # d => discs'[e] = discs[e]
  BY <1>1, DiscTyped
<1>3. Types' /\ \A e \in DOMAIN discs : SameDisc(e)
  BY <1>1, <1>2 DEF Types, SameDisc
<1>4. \A e \in DOMAIN discs, s \in Servers :
        /\ discs'[e].task[s] = "up" => discs[e].task[s] = "up"
        /\ Dials(e, s)' => Dials(e, s)
  BY <1>2 DEF Dials, OnLoop
<1>. QED
  BY <1>2, <1>3, <1>4, NothingNew

LEMMA EndsKeep ==
  ASSUME McpInv, NEW d \in DOMAIN discs,
         FinishDiscovery(d) \/ \E s \in Servers : NotConnected(d, s) \/ Drop(d, s)
  PROVE  McpInv'
<1>1. Types /\ discs[d] \in DiscTypes
  BY Parts DEF McpInv
<1>2. CASE FinishDiscovery(d)
  <2> DEFINE r == [discs[d] EXCEPT !.st = "done", !.cards = {}]
  <2>1. r \in DiscTypes /\ r.gen = discs[d].gen /\ r.abandoned = discs[d].abandoned
        /\ r.st = "done" /\ r.task = discs[d].task
    BY <1>1 DEF DiscTypes
  <2>2. discs' = [discs EXCEPT ![d] = r] /\ UNCHANGED <<enabled, registry, loop, th, discovering>>
    BY <1>1, <1>2 DEF FinishDiscovery, Types
  <2> HIDE DEF r
  <2>. QED
    BY <2>1, <2>2, DiscMoves
<1>3. ASSUME NEW s \in Servers, NotConnected(d, s) \/ Drop(d, s) PROVE McpInv'
  <2> DEFINE r == [discs[d] EXCEPT !.task = [@ EXCEPT ![s] = "down"]]
  <2>1. /\ r \in DiscTypes /\ r.gen = discs[d].gen /\ r.abandoned = discs[d].abandoned
        /\ r.st = discs[d].st
        /\ \A t \in Servers : r.task[t] = discs[d].task[t] \/ r.task[t] = "down"
    BY <1>1 DEF DiscTypes
  <2>2. discs' = [discs EXCEPT ![d] = r] /\ UNCHANGED <<enabled, registry, loop, th, discovering>>
    BY <1>1, <1>3 DEF NotConnected, Drop, Types
  <2> HIDE DEF r
  <2>. QED
    BY <2>1, <2>2, DiscMoves
<1>. QED
  BY <1>2, <1>3

\* A connection that is made was dialled, so that nobody else is connected to its server.
LEMMA ConnectedKeeps ==
  ASSUME McpInv, NEW d \in DOMAIN discs, NEW s \in Servers, Connected(d, s)
  PROVE  McpInv'
<1> DEFINE r == [discs[d] EXCEPT !.task = [@ EXCEPT ![s] = "up"], !.cards = @ \cup {s}]
<1>1. Types /\ discs[d] \in DiscTypes /\ d \in Nat
  BY Parts DEF McpInv
<1>2. /\ Dials(d, s) /\ registry' = [registry EXCEPT ![s] = d]
      /\ UNCHANGED <<enabled, loop, th, discovering>>
  BY DEF Connected
<1>3. discs' = [discs EXCEPT ![d] = r]
  BY <1>1 DEF Connected, Types
<1>4. /\ r \in DiscTypes /\ r.gen = discs[d].gen /\ r.abandoned = discs[d].abandoned
      /\ r.st = discs[d].st /\ r.task[s] = "up"
      /\ \A t \in Servers : t # s => r.task[t] = discs[d].task[t]
  BY <1>1 DEF DiscTypes
<1> HIDE DEF r
<1>5. /\ discs' \in Seq(DiscTypes) /\ DOMAIN discs' = DOMAIN discs /\ discs'[d] = r
      /\ \A e \in DOMAIN discs : e # d => discs'[e] = discs[e]
  BY <1>1, <1>3, <1>4, DiscTyped
<1>6. Types' /\ \A e \in DOMAIN discs : SameDisc(e)
  BY <1>1, <1>2, <1>4, <1>5 DEF Types, SameDisc
<1>7. SameWaits /\ LoopMoves /\ HeldInv' /\ th'[Manager] = th[Manager]
  BY <1>2 DEF SameWaits, LoopMoves, Waits, McpInv, HeldInv
<1>8. /\ GensInv' /\ WaitInv' /\ AloneInv'
      /\ Attended' => Attended
      /\ \A e \in DOMAIN discs : OnLoop(discs[e].gen)' => OnLoop(discs[e].gen)
  BY <1>2, <1>5, <1>6, <1>7, Common
<1>9. ASSUME Attended, NEW e \in DOMAIN discs, Active(e) PROVE e = d
  <2>1. Active(d)
    BY <1>2 DEF Active, Dials
  <2>2. PICK x \in Threads : Waits(x) /\ th[x].disc = d
    BY <1>9, <2>1 DEF McpInv, AloneInv
  <2>3. PICK y \in Threads : Waits(y) /\ th[y].disc = e
    BY <1>9 DEF McpInv, AloneInv
  <2>. QED
    BY <2>2, <2>3 DEF McpInv, WaitInv
<1>10. ASSUME Attended, NEW e \in DOMAIN discs, discs[e].task[s] = "up", OnLoop(discs[e].gen)
       PROVE  <<e, s>> \in th[Manager].held
  BY <1>2, <1>10 DEF McpInv, DialInv
<1>11. NoOrphans'
  <2>1. ASSUME Attended', NEW e \in DOMAIN discs, NEW t \in Servers,
               discs'[e].task[t] = "up", OnLoop(discs[e].gen)'
        PROVE  registry'[t] = e \/ <<e, t>> \in th'[Manager].held
    <3>1. CASE e = d /\ t = s
      BY <1>1, <1>2, <3>1 DEF Types
    <3>2. CASE e # d \/ t # s
      <4>1. discs[e].task[t] = "up" /\ OnLoop(discs[e].gen) /\ Attended
        BY <1>4, <1>5, <1>8, <2>1, <3>2
      <4>2. registry[t] = e \/ <<e, t>> \in th[Manager].held
        BY <4>1 DEF McpInv, NoOrphans, Attended
      <4>3. CASE t = s
        BY <1>7, <1>10, <4>1, <4>3
      <4>4. CASE t # s
        BY <1>1, <1>2, <1>7, <4>2, <4>4 DEF Types
      <4>. QED
        BY <4>3, <4>4
    <3>. QED
      BY <3>1, <3>2
  <2>. QED
    BY <1>5, <2>1 DEF NoOrphans, Attended
<1>12. DialInv'
  <2>1. ASSUME Attended', NEW e \in DOMAIN discs, NEW f \in DOMAIN discs, NEW t \in Servers,
               Dials(e, t)', discs'[f].task[t] = "up", OnLoop(discs[f].gen)'
        PROVE  <<f, t>> \in th'[Manager].held
    <3>1. /\ Dials(e, t) /\ <<e, t>> # <<d, s>>
          /\ Attended /\ OnLoop(discs[f].gen)
      BY <1>2, <1>4, <1>5, <1>8, <2>1 DEF Dials, OnLoop
    <3>2. e = d
      BY <1>9, <3>1 DEF Active, Dials
    <3>3. t # s /\ discs[f].task[t] = "up"
      BY <1>4, <1>5, <2>1, <3>1, <3>2
    <3>. QED
      BY <1>7, <3>1, <3>3 DEF McpInv, DialInv
  <2>. QED
    BY <1>5, <2>1 DEF DialInv
<1>. QED
  BY <1>6, <1>7, <1>8, <1>11, <1>12 DEF McpInv

\* The manager takes connections out of the registry and holds them.
LEMMA TakesOut ==
  ASSUME McpInv, th[Manager].pc = "idle", NEW r \in ThreadTypes, th' = [th EXCEPT ![Manager] = r],
         r.pc = "shut", enabled' \subseteq Servers, registry' \in [Servers -> Nat],
         UNCHANGED <<loop, discs, discovering>>,
         \A s \in Servers : registry'[s] = registry[s] \/ <<registry[s], s>> \in r.held
                            \/ registry[s] = 0
  PROVE  McpInv'
<1>1. Types /\ Manager \in Threads /\ DOMAIN discs = 1..Len(discs)
  BY Parts DEF McpInv
<1>2. /\ th' \in [Threads -> ThreadTypes] /\ th'[Manager] = r
      /\ \A y \in Threads : y # Manager => th'[y] = th[y]
  BY <1>1, ThreadTyped
<1>3. Types' /\ HeldInv' /\ SameWaits /\ LoopMoves /\ \A d \in DOMAIN discs : SameDisc(d)
  BY <1>1, <1>2 DEF Types, HeldInv, SameWaits, Waits, LoopMoves, SameDisc
<1>4. /\ GensInv' /\ WaitInv' /\ AloneInv'
      /\ Attended' => Attended
      /\ \A e \in DOMAIN discs : OnLoop(discs[e].gen)' => OnLoop(discs[e].gen)
  BY <1>3, Common
<1>5. th[Manager].held = {}
  BY DEF McpInv, HeldInv
<1>6. NoOrphans'
  <2>1. ASSUME Attended', NEW e \in DOMAIN discs, NEW s \in Servers,
               discs'[e].task[s] = "up", OnLoop(discs[e].gen)'
        PROVE  registry'[s] = e \/ <<e, s>> \in th'[Manager].held
    <3>1. registry[s] = e
      BY <1>4, <1>5, <2>1 DEF McpInv, NoOrphans, Attended
    <3>2. e # 0
      BY <1>1
    <3>. QED
      BY <1>2, <3>1, <3>2
  <2>. QED
    BY <2>1 DEF NoOrphans, Attended
<1>7. DialInv'
  <2>1. ASSUME Attended', NEW d \in DOMAIN discs, NEW e \in DOMAIN discs, NEW s \in Servers,
               Dials(d, s)', discs'[e].task[s] = "up", OnLoop(discs[e].gen)'
        PROVE  FALSE
    BY <1>4, <1>5, <2>1 DEF McpInv, DialInv, Dials, OnLoop
  <2>. QED
    BY <2>1 DEF DialInv
<1>. QED
  BY <1>3, <1>4, <1>6, <1>7 DEF McpInv

LEMMA DisableKeeps == ASSUME McpInv, NEW s \in Servers, Disable(s) PROVE McpInv'
<1> DEFINE h == IF registry[s] = 0 THEN {} ELSE {<<registry[s], s>>}
           r == [AtRest EXCEPT !.pc = "shut", !.next = "uncard", !.srv = s, !.held = h]
<1>1. Types
  BY DEF McpInv
<1>2. registry[s] \in Nat /\ h \in SUBSET (Nat \X Servers)
  BY <1>1 DEF Types
<1>3. registry[s] = 0 \/ <<registry[s], s>> \in h
  OBVIOUS
<1>4. th[Manager].pc = "idle" /\ th' = [th EXCEPT ![Manager] = r]
  BY DEF Disable
<1>5. /\ registry' = [registry EXCEPT ![s] = 0] /\ enabled' \subseteq Servers
      /\ UNCHANGED <<loop, discs, discovering>>
  BY <1>1 DEF Disable, Types
<1> HIDE DEF h
<1>6. r \in ThreadTypes /\ r.pc = "shut" /\ r.held = h
  BY <1>2 DEF AtRest, ThreadTypes
<1> HIDE DEF r
<1>7. /\ registry' \in [Servers -> Nat]
      /\ \A t \in Servers : t # s => registry'[t] = registry[t]
  BY <1>1, <1>5 DEF Types
<1>. QED
  BY <1>3, <1>4, <1>5, <1>6, <1>7, TakesOut

LEMMA RefreshKeeps == ASSUME McpInv, Refresh PROVE McpInv'
<1> DEFINE h == {<<registry[s], s>> : s \in {r \in Servers : registry[r] # 0}}
           r == [AtRest EXCEPT !.pc = "shut", !.next = "stop", !.held = h]
<1>1. Types
  BY DEF McpInv
<1>2. h \in SUBSET (Nat \X Servers)
  BY <1>1 DEF Types
<1>3. \A s \in Servers : registry[s] = 0 \/ <<registry[s], s>> \in h
  OBVIOUS
<1>4. th[Manager].pc = "idle" /\ th' = [th EXCEPT ![Manager] = r]
  BY DEF Refresh
<1>5. /\ registry' = [s \in Servers |-> 0] /\ enabled' \subseteq Servers
      /\ UNCHANGED <<loop, discs, discovering>>
  BY <1>1 DEF Refresh, Types
<1> HIDE DEF h
<1>6. r \in ThreadTypes /\ r.pc = "shut" /\ r.held = h
  BY <1>2 DEF AtRest, ThreadTypes
<1> HIDE DEF r
<1>7. registry' \in [Servers -> Nat]
  BY <1>5
<1>. QED
  BY <1>3, <1>4, <1>5, <1>6, <1>7, TakesOut

\* What the manager holds is shut.
LEMMA ShutKeeps == ASSUME McpInv, Shut PROVE McpInv'
<1>1. Types /\ Manager \in Threads /\ th[Manager] \in ThreadTypes
  BY Parts DEF McpInv
<1>2. ASSUME NEW d \in DOMAIN discs
      PROVE  /\ d \in DOMAIN discs' /\ discs'[d] \in DiscTypes /\ SameDisc(d)
             /\ discs'[d].st = discs[d].st
             /\ \A s \in Servers : discs'[d].task[s] =
                  IF <<d, s>> \in th[Manager].held THEN "down" ELSE discs[d].task[s]
  <2> DEFINE t == [s \in Servers |-> IF <<d, s>> \in th[Manager].held THEN "down"
                                     ELSE discs[d].task[s]]
  <2>1. discs[d] \in DiscTypes
    BY <1>1, Parts
  <2>2. d \in DOMAIN discs' /\ discs'[d] = [discs[d] EXCEPT !.task = t]
    BY DEF Shut
  <2>3. /\ t \in [Servers -> {"none", "starting", "up", "down"}]
        /\ \A s \in Servers : t[s] = IF <<d, s>> \in th[Manager].held THEN "down"
                                     ELSE discs[d].task[s]
    BY <2>1 DEF DiscTypes
  <2> HIDE DEF t
  <2>. QED
    BY <2>1, <2>2, <2>3 DEF SameDisc, DiscTypes
<1>3. DOMAIN discs' = DOMAIN discs /\ discs' \in Seq(DiscTypes)
  <2>1. DOMAIN discs' = DOMAIN discs
    BY DEF Shut
  <2>2. discs' = [d \in 1..Len(discs) |-> discs'[d]] /\ Len(discs) \in Nat
    BY <1>1, Parts DEF Shut
  <2>. QED
    BY <1>1, <1>2, <2>1, <2>2, Parts, IsASeq
<1> DEFINE r == [th[Manager] EXCEPT !.pc = th[Manager].next, !.held = {}]
<1>4. th' = [th EXCEPT ![Manager] = r] /\ th[Manager].pc = "shut"
  BY <1>1 DEF Shut, Types
<1>5. r \in ThreadTypes /\ r.pc # "wait" /\ r.held = {}
  BY <1>1 DEF ThreadTypes
<1> HIDE DEF r
<1>6. /\ th' \in [Threads -> ThreadTypes] /\ th'[Manager] = r
      /\ \A y \in Threads : y # Manager => th'[y] = th[y]
  BY <1>1, <1>4, <1>5, ThreadTyped
<1>7. LoopMoves /\ UNCHANGED <<enabled, registry, discovering>>
  BY DEF Shut, LoopMoves
<1>8. Types' /\ HeldInv' /\ SameWaits
  BY <1>1, <1>3, <1>4, <1>5, <1>6, <1>7, LoopTyped DEF Types, HeldInv, SameWaits, Waits
<1>9. /\ GensInv' /\ WaitInv' /\ AloneInv'
      /\ Attended' => Attended
      /\ \A e \in DOMAIN discs : OnLoop(discs[e].gen)' => OnLoop(discs[e].gen)
  BY <1>2, <1>3, <1>7, <1>8, Common
<1>10. NoOrphans'
  BY <1>2, <1>3, <1>7, <1>9 DEF McpInv, NoOrphans, Attended
<1>11. DialInv'
  <2>1. ASSUME Attended', NEW d \in DOMAIN discs, NEW e \in DOMAIN discs, NEW s \in Servers,
               Dials(d, s)', discs'[e].task[s] = "up", OnLoop(discs[e].gen)'
        PROVE  FALSE
    <3>1. Dials(d, s) /\ discs[e].task[s] = "up" /\ <<e, s>> \notin th[Manager].held
      BY <1>2, <1>9, <2>1 DEF Dials
    <3>. QED
      BY <1>9, <2>1, <3>1 DEF McpInv, DialInv
  <2>. QED
    BY <1>3, <2>1 DEF DialInv
<1>. QED
  BY <1>8, <1>9, <1>10, <1>11 DEF McpInv

-----------------------------------------------------------------------------
(* The beginning and the end of a wait.                                    *)

\* What a discovery that begins looks like.
NewDisc(r) ==
  /\ r \in DiscTypes /\ r.gen = Ensured.gen /\ ~r.abandoned
  /\ r.st = "scan" /\ \A s \in Servers : r.task[s] = "none"

\* A discovery begins only when no thread waits for one.
LEMMA BeginsAlone ==
  ASSUME McpInv, ~discovering, discovering', NEW x \in Threads, th[x].pc = "discover",
         NEW r \in ThreadTypes, th' = [th EXCEPT ![x] = r],
         r.pc = "wait", r.disc = Len(discs) + 1, r.held = th[x].held,
         NEW new, NewDisc(new), discs' = Append(discs, new), loop' = Ensured,
         UNCHANGED <<enabled, registry>>
  PROVE  McpInv'
<1>1. Types /\ Len(discs) \in Nat /\ DOMAIN discs = 1..Len(discs) /\ Manager \in Threads
      /\ LoopMoves /\ Ensured \in [gen : Nat, runs : BOOLEAN]
  BY Parts DEF McpInv, LoopMoves
<1>2. /\ th' \in [Threads -> ThreadTypes] /\ th'[x] = r
      /\ \A y \in Threads : y # x => th'[y] = th[y]
  BY <1>1, ThreadTyped
<1>3. /\ discs' \in Seq(DiscTypes) /\ DOMAIN discs' = DOMAIN discs \cup {Len(discs) + 1}
      /\ discs'[Len(discs) + 1] = new
      /\ \A d \in DOMAIN discs : discs'[d] = discs[d]
      /\ Len(discs) + 1 \notin DOMAIN discs
  BY <1>1 DEF Types, NewDisc
<1>4. Types'
  BY <1>1, <1>2, <1>3 DEF Types
<1>5. \A y \in Threads : ~Waits(y)
  BY DEF McpInv, WaitInv
<1>6. \A d \in DOMAIN discs : discs[d].gen <= loop'.gen
                              /\ (OnLoop(discs[d].gen)' => OnLoop(discs[d].gen))
  BY <1>1, <1>3, LoopsEnd DEF McpInv, OnLoop
<1>7. GensInv'
  BY <1>1, <1>3, <1>6 DEF GensInv, NewDisc
<1>8. WaitInv'
  BY <1>2, <1>3, <1>5 DEF WaitInv, Waits, NewDisc
<1>9. HeldInv' /\ th'[Manager].held = th[Manager].held
  BY <1>1, <1>2 DEF McpInv, HeldInv
<1>10. Attended' => Attended
  BY <1>3 DEF Attended
<1>11. ASSUME Attended', NEW d \in DOMAIN discs, Active(d)' PROVE FALSE
  <2>1. Active(d)
    BY <1>3, <1>6, <1>11 DEF Active
  <2>. QED
    BY <1>5, <1>10, <1>11, <2>1 DEF McpInv, AloneInv
<1>12. AloneInv'
  BY <1>2, <1>3, <1>11 DEF AloneInv, Waits
<1>13. \A d \in DOMAIN discs', s \in Servers :
         discs'[d].task[s] = "up" => d \in DOMAIN discs /\ discs[d].task[s] = "up"
  BY <1>3 DEF NewDisc
<1>14. NoOrphans'
  BY <1>3, <1>6, <1>9, <1>10, <1>13 DEF McpInv, NoOrphans, Attended
<1>15. \A d \in DOMAIN discs', s \in Servers : Dials(d, s)' => d \in DOMAIN discs /\ Dials(d, s)
  BY <1>3, <1>6 DEF Dials, NewDisc
<1>16. DialInv'
  <2>1. ASSUME Attended', NEW d \in DOMAIN discs', NEW e \in DOMAIN discs', NEW s \in Servers,
               Dials(d, s)', discs'[e].task[s] = "up", OnLoop(discs[e].gen)'
        PROVE  <<e, s>> \in th'[Manager].held
    <3>1. /\ d \in DOMAIN discs /\ e \in DOMAIN discs /\ Attended /\ Dials(d, s)
          /\ discs[e].task[s] = "up"
      BY <1>10, <1>13, <1>15, <2>1
    <3>. QED
      BY <1>3, <1>6, <1>9, <2>1, <3>1 DEF McpInv, DialInv
  <2>. QED
    BY <2>1 DEF DialInv
<1>. QED
  BY <1>4, <1>7, <1>8, <1>9, <1>12, <1>14, <1>16 DEF McpInv

LEMMA DiscoverKeeps == ASSUME McpInv, NEW x \in Threads, Discover(x) PROVE McpInv'
<1>1. Types /\ th[x] \in ThreadTypes /\ th[x].pc = "discover" /\ UNCHANGED <<enabled, registry>>
      /\ Len(discs) \in Nat
  BY Parts DEF McpInv, Discover
<1>2. CASE Go(x, th[x].next) /\ UNCHANGED <<discovering, loop, discs>>
  <2> DEFINE r == [th[x] EXCEPT !.pc = th[x].next]
  <2>1. r \in ThreadTypes /\ r.pc # "wait" /\ r.held = th[x].held
    BY <1>1 DEF ThreadTypes
  <2>2. th' = [th EXCEPT ![x] = r] /\ LoopMoves
    BY <1>2 DEF Go, LoopMoves
  <2> HIDE DEF r
  <2>. QED
    BY <1>1, <1>2, <2>1, <2>2, GoesOn
<1>3. CASE ~discovering
           /\ discovering' = TRUE
           /\ loop' = Ensured
           /\ discs' = Append(discs, [st |-> "scan", on |-> enabled, gen |-> Ensured.gen,
                                      task |-> [s \in Servers |-> "none"], cards |-> {},
                                      abandoned |-> FALSE])
           /\ th' = [th EXCEPT ![x].pc = "wait", ![x].disc = Len(discs) + 1]
  <2> DEFINE n == Len(discs) + 1
             r == [th[x] EXCEPT !.pc = "wait", !.disc = n]
             none == [s \in Servers |-> "none"]
             new == [st |-> "scan", on |-> enabled, gen |-> Ensured.gen, task |-> none,
                     cards |-> {}, abandoned |-> FALSE]
  <2>2. th' = [th EXCEPT ![x] = r]
    BY <1>1, <1>3 DEF Types
  <2>7. n \in Nat /\ n = Len(discs) + 1
    BY <1>1
  <2> HIDE DEF n
  <2>1. r \in ThreadTypes /\ r.pc = "wait" /\ r.disc = n /\ r.held = th[x].held
    BY <1>1, <2>7 DEF ThreadTypes
  <2>3. discs' = Append(discs, new)
    BY <1>3
  <2>4. none \in [Servers -> {"none", "starting", "up", "down"}] /\ \A s \in Servers : none[s] = "none"
    OBVIOUS
  <2>5. Ensured.gen \in Nat /\ enabled \subseteq Servers
    BY <1>1, Parts DEF Types
  <2> HIDE DEF none
  <2>6. NewDisc(new)
    BY <2>4, <2>5 DEF NewDisc, DiscTypes
  <2> HIDE DEF r, new
  <2>. QED
    BY <1>1, <1>3, <2>1, <2>2, <2>3, <2>6, <2>7, BeginsAlone
<1>. QED
  BY <1>2, <1>3 DEF Discover

\* A wait ends with its discovery, which is done, stopped with its loop, or given up.
LEMMA WaitEnds ==
  ASSUME McpInv, NEW x \in Threads, Waits(x), NEW d, d = th[x].disc,
         NEW r \in ThreadTypes, th' = [th EXCEPT ![x] = r], r.pc # "wait", r.held = th[x].held,
         ~discovering', UNCHANGED <<enabled, registry, loop>>,
         \/ discs' = discs /\ ~Active(d)
         \/ discs' = [discs EXCEPT ![d] = [@ EXCEPT !.abandoned = OnLoop(discs[d].gen)]]
  PROVE  McpInv'
<1>1. /\ Types /\ Manager \in Threads /\ LoopMoves
      /\ d \in DOMAIN discs /\ discs[d] \in DiscTypes /\ ~discs[d].abandoned
  BY Parts DEF McpInv, WaitInv, LoopMoves
<1>2. /\ th' \in [Threads -> ThreadTypes] /\ th'[x] = r
      /\ \A y \in Threads : y # x => th'[y] = th[y]
  BY <1>1, ThreadTyped
<1>3. /\ discs' \in Seq(DiscTypes) /\ DOMAIN discs' = DOMAIN discs
      /\ discs'[d].abandoned \/ ~Active(d)
      /\ \A e \in DOMAIN discs : /\ discs'[e].gen = discs[e].gen /\ discs'[e].st = discs[e].st
                                 /\ discs'[e].task = discs[e].task
                                 /\ e # d => discs'[e] = discs[e]
  <2>1. CASE discs' = discs /\ ~Active(d)
    BY <1>1, <2>1 DEF Types
  <2>2. CASE discs' = [discs EXCEPT ![d] = [@ EXCEPT !.abandoned = OnLoop(discs[d].gen)]]
    <3> DEFINE n == [discs[d] EXCEPT !.abandoned = OnLoop(discs[d].gen)]
    <3>1. /\ n \in DiscTypes /\ n.gen = discs[d].gen /\ n.st = discs[d].st
          /\ n.task = discs[d].task /\ n.abandoned = OnLoop(discs[d].gen)
      BY <1>1 DEF DiscTypes, OnLoop, Types
    <3>2. discs' = [discs EXCEPT ![d] = n]
      BY <2>2
    <3> HIDE DEF n
    <3>3. /\ discs' \in Seq(DiscTypes) /\ DOMAIN discs' = DOMAIN discs /\ discs'[d] = n
          /\ \A e \in DOMAIN discs : e # d => discs'[e] = discs[e]
      BY <1>1, <3>1, <3>2, DiscTyped
    <3>. QED
      BY <3>1, <3>3 DEF Active
  <2>. QED
    BY <2>1, <2>2
<1>4. Types'
  BY <1>1, <1>2, <1>3 DEF Types
<1>5. \A y \in Threads : ~Waits(y)'
  BY <1>2 DEF McpInv, WaitInv, Waits
<1>6. WaitInv' /\ GensInv'
  BY <1>3, <1>5 DEF McpInv, WaitInv, GensInv
<1>7. HeldInv' /\ th'[Manager].held = th[Manager].held
  BY <1>1, <1>2 DEF McpInv, HeldInv, Waits
<1>8. ASSUME Attended' PROVE Attended /\ ~Active(d)
  BY <1>1, <1>3, <1>8 DEF Attended
<1>9. AloneInv'
  <2>1. ASSUME Attended', NEW e \in DOMAIN discs, Active(e)' PROVE FALSE
    <3>1. Attended /\ Active(e) /\ ~Active(d)
      BY <1>3, <1>8, <2>1 DEF Active, OnLoop
    <3>2. PICK y \in Threads : Waits(y) /\ th[y].disc = e
      BY <3>1 DEF McpInv, AloneInv
    <3>. QED
      BY <3>1, <3>2 DEF McpInv, WaitInv
  <2>. QED
    BY <1>3, <2>1 DEF AloneInv
<1>10. NoOrphans'
  BY <1>3, <1>7, <1>8 DEF McpInv, NoOrphans, Attended, OnLoop
<1>11. \A e \in DOMAIN discs, s \in Servers : Dials(e, s)' => Dials(e, s)
  BY <1>3 DEF Dials, OnLoop
<1>12. DialInv'
  BY <1>3, <1>7, <1>8, <1>11 DEF McpInv, DialInv, OnLoop
<1>. QED
  BY <1>4, <1>6, <1>7, <1>9, <1>10, <1>12 DEF McpInv

LEMMA WaitsKeep == ASSUME McpInv, NEW x \in Threads, Discovered(x) \/ WaitTimesOut(x) PROVE McpInv'
<1> DEFINE r == [th[x] EXCEPT !.pc = th[x].next, !.disc = 0]
<1>1. Types /\ th[x] \in ThreadTypes
  BY Parts DEF McpInv
<1>2. Waits(x) /\ ~discovering' /\ UNCHANGED <<enabled, registry, loop>>
  BY DEF Discovered, WaitTimesOut, Waits
<1>3. th' = [th EXCEPT ![x] = r]
  BY <1>1 DEF Discovered, WaitTimesOut, Types
<1>4. r \in ThreadTypes /\ r.pc # "wait" /\ r.held = th[x].held
  BY <1>1 DEF ThreadTypes
<1>5. th[x].disc \in DOMAIN discs
  BY <1>2 DEF McpInv, WaitInv
<1>6. \/ discs' = discs /\ ~Active(th[x].disc)
      \/ discs' = [discs EXCEPT ![th[x].disc] = [@ EXCEPT !.abandoned = OnLoop(discs[th[x].disc].gen)]]
  BY <1>5 DEF Discovered, WaitTimesOut, Active
<1> HIDE DEF r
<1>. QED
  BY <1>2, <1>3, <1>4, <1>6, WaitEnds

-----------------------------------------------------------------------------
LEMMA StepMcpInv == McpInv /\ [McpNext]_mvars => McpInv'
<1> SUFFICES ASSUME McpInv, [McpNext]_mvars PROVE McpInv'
  OBVIOUS
<1>1. CASE UNCHANGED mvars
  <2>1. enabled' \subseteq Servers /\ UNCHANGED <<registry, loop, discs, th, discovering>>
    BY <1>1 DEF mvars, McpInv, Types
  <2>. QED
    BY <2>1, NobodyMoves
<1>2. ASSUME NEW x \in Threads, ThreadStep(x) PROVE McpInv'
  BY <1>2, DiscoverKeeps, WaitsKeep, CallsKeep, ShutKeeps, ManagerKeeps DEF ThreadStep
<1>3. ASSUME NEW d \in DOMAIN discs, LoopStep(d) PROVE McpInv'
  BY <1>3, ScanKeeps, ConnectedKeeps, EndsKeep DEF LoopStep
<1>4. ASSUME NEW c \in Callers, NEW s \in Servers, BeginCall(c, s) PROVE McpInv'
  BY <1>4, CallsKeep
<1>5. ASSUME NEW s \in Servers, Enable(s) \/ Disable(s) \/ Cool(s) PROVE McpInv'
  BY <1>5, ManagerKeeps, DisableKeeps
<1>6. ASSUME NEW d \in DOMAIN discs, NEW s \in Servers, Drop(d, s) PROVE McpInv'
  BY <1>6, EndsKeep
<1>7. CASE Refresh \/ ScheduleScout
  BY <1>7, RefreshKeeps, ManagerKeeps
<1>. QED
  BY <1>1, <1>2, <1>3, <1>4, <1>5, <1>6, <1>7 DEF McpNext

\* Whatever calls, discoveries, refreshes, switches, drops and time-outs come together, a connection
\* on the running loop is in the registry or held by the manager, unless a discovery was given up
\* while it ran: lifecycle.py never loses one it could not shut.
THEOREM ConnectionsAreKnown == McpSpec => []NoOrphans
<1>1. McpInv => NoOrphans
  BY DEF McpInv
<1>. QED
  BY <1>1, InitTypes, StepMcpInv, PTL DEF McpSpec

-----------------------------------------------------------------------------
(* The runner's lock and the memory stores.                                *)

\* The parts of the state the argument is about have their shape.
ShapeOK ==
  /\ DOMAIN worker = Workers
  /\ \A w \in Workers : "pc" \in DOMAIN worker[w]
  /\ runs \in [Runs -> [pc : {"idle", "lock", "check", "wait"}, thread : Sediments \cup {"none"}]]

\* The lock: one run at a time is past it.
LockInv ==
  \A r, s \in Runs : runs[r].pc \in {"check", "wait"} /\ runs[s].pc \in {"check", "wait"} => r = s

\* A thread at work is waited for or was given up.
ThreadInv ==
  \A w \in Sediments \ behind : worker[w].pc # "idle" =>
    \E r \in Runs : runs[r].pc = "wait" /\ runs[r].thread = w

RunnerInv == ShapeOK /\ LockInv /\ ThreadInv

\* Whatever a thread does, it was at work, and sets no other thread to work.
OnlyItself(w) ==
  /\ worker[w].pc # "idle"
  /\ DOMAIN worker' = Workers
  /\ \A x \in Workers : "pc" \in DOMAIN worker'[x]
  /\ \A x \in Workers : x # w => worker'[x].pc = worker[x].pc
  /\ UNCHANGED <<runs, behind>>

-----------------------------------------------------------------------------
LEMMA StepsOfAThread ==
  ASSUME ShapeOK, NEW w \in Workers, WorkerStep(w)
  PROVE  OnlyItself(w)
<1>0. "pc" \in DOMAIN Idle
  BY DEF Idle
<1> USE DEF ShapeOK, OnlyItself
<1>1. CASE Collect(w)
  BY <1>0, <1>1 DEF Collect, End
<1>2. CASE Load(w)
  BY <1>2 DEF Load
<1>3. CASE ExtractFails(w)
  BY <1>0, <1>3 DEF ExtractFails, End
<1>4. CASE Route(w)
  BY <1>4 DEF Route
<1>5. ASSUME NEW cands, Extract(w, cands) PROVE OnlyItself(w)
  BY <1>5 DEF Extract
<1>6. ASSUME NEW plus, NEW minus, Arbitrate(w, plus, minus) PROVE OnlyItself(w)
  BY <1>6 DEF Arbitrate
<1>7. CASE SectionTooLong(w)
  BY <1>0, <1>7 DEF SectionTooLong, End, To
<1>8. ASSUME NEW t PROVE "pc" \in DOMAIN Committed(w, t)
  BY <1>0 DEF Committed
<1>9. CASE CommitClean(w)
  BY <1>8, <1>9 DEF CommitClean
<1>10. CASE Persist(w)
  BY <1>10 DEF Persist, Outdated
<1>11. CASE Mark(w)
  BY <1>0, <1>11 DEF Mark, End
<1>12. ASSUME NEW tooLong \in BOOLEAN, View(w, tooLong) PROVE OnlyItself(w)
  BY <1>0, <1>8, <1>12 DEF View, End
<1>13. ASSUME NEW kept, Compact(w, kept) PROVE OnlyItself(w)
  BY <1>13 DEF Compact
<1>14. CASE CompactSkips(w)
  BY <1>0, <1>14 DEF CompactSkips, End
<1>. QED
  BY <1>1, <1>2, <1>3, <1>4, <1>5, <1>6, <1>7, <1>9, <1>10, <1>11, <1>12, <1>13, <1>14
     DEF WorkerStep

-----------------------------------------------------------------------------
\* Neither the steps of the threads nor those of the tools and of the world touch the lock.
LEMMA WorkKeepsInv ==
  ASSUME Sediments \cap Tools = {}, RunnerInv,
         \/ \E f \in budget.facts : AppendNote(f)
         \/ \E w \in Tools : CallTool(w, {}) \/ \E f \in budget.facts : CallTool(w, {f})
         \/ NextDay
         \/ \E w \in Workers : WorkerStep(w)
  PROVE  RunnerInv'
<1>1. ASSUME UNCHANGED <<worker, runs, behind>> PROVE RunnerInv'
  BY <1>1 DEF RunnerInv, ShapeOK, LockInv, ThreadInv
<1>2. ASSUME NEW w \in Tools, NEW f, CallTool(w, f) PROVE RunnerInv'
  <2>1. /\ UNCHANGED <<runs, behind>>
        /\ DOMAIN worker' = Workers
        /\ \A x \in Workers : "pc" \in DOMAIN worker'[x]
        /\ \A x \in Workers : x # w => worker'[x] = worker[x]
    BY <1>2 DEF CallTool, RunnerInv, ShapeOK, Idle
  <2>2. w \notin Sediments /\ Sediments \subseteq Workers
    BY DEF Workers
  <2>. QED
    BY <2>1, <2>2 DEF RunnerInv, ShapeOK, LockInv, ThreadInv
<1>3. ASSUME NEW w \in Workers, WorkerStep(w) PROVE RunnerInv'
  <2>1. OnlyItself(w)
    BY <1>3, StepsOfAThread DEF RunnerInv
  <2>2. Sediments \subseteq Workers
    BY DEF Workers
  <2>. QED
    BY <2>1, <2>2 DEF OnlyItself, RunnerInv, ShapeOK, LockInv, ThreadInv
<1>. QED
  BY <1>1, <1>2, <1>3 DEF AppendNote, NextDay

\* A run takes the lock when no other holds it, starts one thread, and lets it go or gives it up
\* before it lets the lock go.
LEMMA RunsKeepInv ==
  ASSUME RunnerInv, NEW r \in Runs, RunSediment(r) \/ RunStep(r)
  PROVE  RunnerInv'
<1>0. Sediments \subseteq Workers
  BY DEF Workers
<1> USE DEF RunnerInv, ShapeOK
<1>1. CASE RunSediment(r)
  BY <1>1 DEF RunSediment, LockInv, ThreadInv
<1>2. CASE Acquire(r)
  BY <1>2 DEF Acquire, LockInv, ThreadInv
<1>3. CASE WouldRun(r)
  <2>1. \A s \in Runs : s # r => runs[s].pc \in {"idle", "lock"}
    BY <1>3 DEF WouldRun, LockInv
  <2>2. \A w \in Sediments \ behind : worker[w].pc = "idle"
    BY <1>3, <2>1 DEF WouldRun, ThreadInv
  <2>3. CASE runs' = [runs EXCEPT ![r] = NoRun] /\ UNCHANGED <<worker, behind>>
    BY <2>1, <2>2, <2>3 DEF NoRun, LockInv, ThreadInv
  <2>4. ASSUME NEW w \in Sediments,
               runs' = [runs EXCEPT ![r] = [pc |-> "wait", thread |-> w]],
               behind' = behind \ {w},
               worker' = [worker EXCEPT ![w] = [Idle EXCEPT !.pc = "collect", !.job = "notes"]]
        PROVE  RunnerInv'
    <3>1. ShapeOK'
      BY <1>0, <2>4 DEF Idle
    <3>2. LockInv'
      BY <2>1, <2>4 DEF LockInv
    <3>3. runs'[r].pc = "wait" /\ runs'[r].thread = w
      BY <2>4
    <3>4. \A x \in Sediments \ behind' : x # w => worker'[x].pc = "idle"
      BY <1>0, <2>2, <2>4
    <3>5. ThreadInv'
      BY <3>3, <3>4 DEF ThreadInv
    <3>. QED
      BY <3>1, <3>2, <3>5
  <2>. QED
    BY <1>3, <2>3, <2>4 DEF WouldRun
<1>4. CASE RunEnds(r)
  BY <1>4 DEF RunEnds, NoRun, LockInv, ThreadInv
<1>5. CASE RunTimesOut(r)
  BY <1>5 DEF RunTimesOut, NoRun, LockInv, ThreadInv
<1>. QED
  BY <1>1, <1>2, <1>3, <1>4, <1>5 DEF RunStep

\* Of the threads the runner has started at most one is at work that no time-out has given up,
\* whatever runs, tool calls, time-outs and restarts come together (maintenance/runner.py).
THEOREM RunnerIsExclusive ==
  ASSUME Sediments \cap Tools = {}
  PROVE  SedimentSpec => []OneThreadAtATime
<1>1. SedimentInit => RunnerInv
  BY DEF SedimentInit, RunnerInv, ShapeOK, LockInv, ThreadInv, NoRun, Idle, Workers
<1>2. RunnerInv /\ [SedimentNext]_svars => RunnerInv'
  <2> SUFFICES ASSUME RunnerInv, [SedimentNext]_svars PROVE RunnerInv'
    OBVIOUS
  <2>1. CASE UNCHANGED svars
    BY <2>1 DEF svars, RunnerInv, ShapeOK, LockInv, ThreadInv
  <2>2. ASSUME NEW r \in Runs, RunSediment(r) \/ RunStep(r) PROVE RunnerInv'
    BY <2>2, RunsKeepInv
  <2>3. CASE Restart
    BY <2>3 DEF Restart, RunnerInv, ShapeOK, LockInv, ThreadInv, NoRun, Idle, Workers
  <2>4. CASE \/ \E f \in budget.facts : AppendNote(f)
             \/ \E w \in Tools : CallTool(w, {}) \/ \E f \in budget.facts : CallTool(w, {f})
             \/ NextDay
             \/ \E w \in Workers : WorkerStep(w)
    BY <2>4, WorkKeepsInv
  <2>. QED
    BY <2>1, <2>2, <2>3, <2>4 DEF SedimentNext
<1>3. RunnerInv => OneThreadAtATime
  <2> SUFFICES ASSUME RunnerInv PROVE OneThreadAtATime
    OBVIOUS
  <2> DEFINE atWork == {w \in Sediments \ behind : worker[w].pc # "idle"}
  <2>1. \A w, x \in atWork : w = x
    BY DEF RunnerInv, LockInv, ThreadInv
  <2>2. atWork = {} \/ \E w : atWork = {w}
    BY <2>1
  <2> HIDE DEF atWork
  <2>3. Cardinality(atWork) \in {0, 1}
    <3>1. CASE atWork = {}
      BY <3>1, FS_EmptySet, Zenon
    <3>2. ASSUME NEW w, atWork = {w} PROVE Cardinality(atWork) = 1
      BY <3>2, FS_Singleton, Zenon
    <3>. QED
      BY <2>2, <3>1, <3>2, Zenon
  <2>. QED
    BY <2>3 DEF OneThreadAtATime, atWork
<1>. QED
  BY <1>1, <1>2, <1>3, PTL DEF SedimentSpec

-----------------------------------------------------------------------------
(* The stores: StoresAgree.  A store object that is not out of date holds  *)
(* what its file holds, before and after what it has decided: so a commit  *)
(* makes of the file what the decision makes of it.  It is a matter of the *)
(* objects of every thread, and of who is between JSON and view.           *)

Todos == {<<>>, <<"user">>, Targets}

\* What the fields of the state are indexed by.
StoreShape ==
  /\ DOMAIN worker = Workers
  /\ \A w \in Workers : /\ DOMAIN worker[w] = DOMAIN Idle
                        /\ DOMAIN worker[w].mem = Stores /\ DOMAIN worker[w].first = Stores
  /\ DOMAIN disk = Stores /\ DOMAIN lock = Stores /\ DOMAIN ideal = Stores
  /\ \A t \in Stores : DOMAIN disk[t] = {"json", "md"}

\* A thread that commits has a store to commit; one between the two files of a store
\* holds its lock.
Place(w, x) ==
  /\ x.todo \in Todos /\ x.next \in {"none", "idle", "mark", "compact"}
  /\ x.pc \in {"commit", "view"} => x.todo # <<>>
  /\ x.pc = "view" => lock[Head(x.todo)] = w
  /\ x.pc = "commit" /\ x.next = "compact" => x.dirty = {Head(x.todo)}
  /\ x.pc = "compact" => x.next = "compact"

\* The objects of a thread against the files: the first pair holds what they hold, the pipeline's
\* pair what they held when it was loaded, or what the decision makes of that.
FreshFirst(x, J) == \A t \in Stores : t \in x.firstNew => x.first[t] = J[t]
FreshPair(x, J) ==
  \A t \in Stores : t \in x.new =>
    /\ x.pc = "arbitrate" => x.mem[t] = J[t]
    /\ x.pc \in {"commit", "view"} /\ (x.next = "compact" => t = Head(x.todo)) =>
         /\ x.mem[t] = Decided(J[t], t, x.plus, x.minus)
         /\ t \notin x.dirty => x.mem[t] = J[t]
FreshView(x, J) == x.pc = "view" => x.mem[Head(x.todo)] = J[Head(x.todo)]
Fresh(x, J) == FreshFirst(x, J) /\ FreshPair(x, J) /\ FreshView(x, J)

\* A store holds what the decisions make of it, of the facts that are its own.
DiskOK(t) ==
  /\ disk[t].json = ideal[t]
  /\ lock[t] = "free" => disk[t].md = disk[t].json
  /\ \A f \in disk[t].json : TargetOf(f) = t

FreshInv ==
  ~stale => /\ \A t \in Stores : DiskOK(t)
            /\ \A w \in Workers : Fresh(worker[w], Jsons)

StoresInv ==
  /\ StoreShape
  /\ \A w \in Workers : Place(w, worker[w])
  /\ FreshInv

-----------------------------------------------------------------------------
\* What a step of a thread leaves alone: the other threads and, of the files, whatever they look at.
Quiet(w) ==
  /\ DOMAIN worker' = Workers
  /\ \A x \in Workers : x # w => worker'[x] = worker[x]
  /\ DOMAIN worker'[w] = DOMAIN Idle
  /\ DOMAIN worker'[w].mem = Stores /\ DOMAIN worker'[w].first = Stores
  /\ UNCHANGED <<lock, ideal>>
  /\ DOMAIN disk' = Stores /\ \A t \in Stores : DOMAIN disk'[t] = {"json", "md"}
  /\ stale => stale'
  /\ ~stale' => \A t \in Stores : /\ disk'[t].json = disk[t].json
                                  /\ lock[t] = "free" => disk'[t].md = disk'[t].json

\* Such a step keeps the invariant if the thread itself is in order after it.
LEMMA QuietKeeps ==
  ASSUME StoresInv, NEW w \in Workers, Quiet(w), Place(w, worker'[w]),
         ~stale' => Fresh(worker'[w], Jsons)
  PROVE  StoresInv'
<1>1. StoreShape'
  BY DEF StoresInv, StoreShape, Quiet
<1>2. \A x \in Workers : Place(x, worker[x])'
  BY DEF StoresInv, Place, Quiet
<1>3. ASSUME ~stale' PROVE \A t \in Stores : DiskOK(t)'
  BY <1>3 DEF StoresInv, FreshInv, DiskOK, Quiet
<1>4. ASSUME ~stale' PROVE \A x \in Workers : Fresh(worker[x], Jsons)'
  <2>1. Jsons' = Jsons
    BY <1>4 DEF Jsons, Quiet
  <2>2. \A x \in Workers : Fresh(worker'[x], Jsons)
    BY <1>4 DEF StoresInv, FreshInv, Quiet
  <2>. QED
    BY <2>1, <2>2 DEF Fresh, FreshFirst, FreshPair, FreshView
<1>. QED
  BY <1>1, <1>2, <1>3, <1>4 DEF StoresInv, FreshInv

LEMMA TodoFacts ==
  ASSUME NEW todo \in Todos
  PROVE  /\ todo # <<>> => Head(todo) \in Stores /\ Tail(todo) \in Todos
         /\ todo # <<>> /\ Tail(todo) # <<>> => Head(Tail(todo)) \in Stores
<1>1. \A a, b : /\ Head(<<a, b>>) = a /\ Tail(<<a, b>>) = <<b>>
               /\ Head(<<b>>) = b /\ Tail(<<b>>) = <<>> /\ <<b>> # <<>>
  BY SMT
<1>2. todo \in {<<>>, <<"user">>, <<"memory", "user">>}
  BY DEF Todos, Targets
<1>3. CASE todo = <<>>
  BY <1>3, Zenon
<1>4. CASE todo = <<"user">>
  BY <1>1, <1>4, Zenon DEF Todos, Stores
<1>5. CASE todo = <<"memory", "user">>
  <2>1. Head(todo) = "memory" /\ Tail(todo) = <<"user">>
    BY <1>1, <1>5, Zenon
  <2>2. Head(Tail(todo)) = "user" /\ <<"user">> \in Todos
    BY <1>1, <2>1, Zenon DEF Todos
  <2>. QED
    BY <2>1, <2>2, Zenon DEF Stores
<1>. QED
  BY <1>2, <1>3, <1>4, <1>5, Zenon

LEMMA IdleIsFine ==
  ASSUME NEW w
  PROVE  /\ Place(w, Idle) /\ \A J : Fresh(Idle, J)
         /\ DOMAIN Idle.mem = Stores /\ DOMAIN Idle.first = Stores
         /\ Idle.pc = "idle" /\ Idle.new = {} /\ Idle.firstNew = {} /\ Idle.todo = <<>> /\ Idle.next = "none"
<1>1. /\ Idle.pc = "idle" /\ Idle.new = {} /\ Idle.firstNew = {} /\ Idle.todo = <<>> /\ Idle.next = "none"
      /\ Idle.mem = Nothing /\ Idle.first = Nothing
  BY DEF Idle
<1>. QED
  BY <1>1 DEF Place, Fresh, FreshFirst, FreshPair, FreshView, Todos, Nothing

\* A thread that goes on with other fields than those of its stores.
LEMMA StoresGoOn ==
  ASSUME StoresInv, NEW w \in Workers, NEW x,
         worker' = [worker EXCEPT ![w] = x],
         UNCHANGED <<disk, lock, ideal, stale>>,
         DOMAIN x = DOMAIN Idle, DOMAIN x.mem = Stores, DOMAIN x.first = Stores,
         Place(w, x), ~stale => Fresh(x, Jsons)
  PROVE  StoresInv'
<1>1. DOMAIN worker = Workers /\ worker'[w] = x /\ \A y \in Workers : y # w => worker'[y] = worker[y]
  BY DEF StoresInv, StoreShape
<1>2. ~stale => \A t \in Stores : lock[t] = "free" => disk[t].md = disk[t].json
  BY DEF StoresInv, FreshInv, DiskOK
<1>3. DOMAIN worker' = Workers /\ DOMAIN disk = Stores /\ \A t \in Stores : DOMAIN disk[t] = {"json", "md"}
  BY DEF StoresInv, StoreShape
<1>4. Quiet(w)
  BY <1>1, <1>2, <1>3 DEF Quiet
<1>5. Place(w, worker'[w]) /\ (~stale' => Fresh(worker'[w], Jsons))
  BY <1>1
<1>. QED
  BY <1>4, <1>5, QuietKeeps

LEMMA CollectKeeps == ASSUME StoresInv, NEW w \in Workers, Collect(w) PROVE StoresInv'
<1>1. CASE End(w)
  BY <1>1, StoresGoOn, IdleIsFine DEF Collect, End
<1>2. CASE worker' = [worker EXCEPT ![w].pc = "load", ![w].read = notes]
  <2> DEFINE x == [worker[w] EXCEPT !.pc = "load", !.read = notes]
  <2>1. worker' = [worker EXCEPT ![w] = x]
    BY <1>2
  <2>2. DOMAIN worker[w] = DOMAIN Idle /\ DOMAIN worker[w].mem = Stores /\ DOMAIN worker[w].first = Stores
    BY DEF StoresInv, StoreShape
  <2>3. /\ DOMAIN x = DOMAIN worker[w] /\ x.pc = "load" /\ x.todo = worker[w].todo /\ x.next = worker[w].next /\ x.mem = worker[w].mem
        /\ x.first = worker[w].first /\ x.new = worker[w].new /\ x.firstNew = worker[w].firstNew
    BY <2>2 DEF Idle
  <2> HIDE DEF x
  <2>4. Place(w, x)
    BY <2>3 DEF StoresInv, Place
  <2>5. ~stale => Fresh(x, Jsons)
    BY <2>3 DEF StoresInv, FreshInv, Fresh, FreshFirst, FreshPair, FreshView
  <2>. QED
    BY <2>1, <2>2, <2>3, <2>4, <2>5, StoresGoOn DEF Collect
<1>. QED
  BY <1>1, <1>2 DEF Collect

\* The fields of a thread that only gets to another place.
LEMMA MovesOn ==
  ASSUME StoresInv, NEW w \in Workers, NEW x,
         worker' = [worker EXCEPT ![w] = x],
         UNCHANGED <<disk, lock, ideal, stale>>,
         DOMAIN x = DOMAIN Idle, x.pc \notin {"arbitrate", "commit", "view", "compact"},
         x.todo = worker[w].todo, x.next = worker[w].next, x.mem = worker[w].mem, x.first = worker[w].first,
         x.new = worker[w].new, x.firstNew = worker[w].firstNew
  PROVE  StoresInv'
<1>1. DOMAIN worker[w].mem = Stores /\ DOMAIN worker[w].first = Stores
  BY DEF StoresInv, StoreShape
<1>2. Place(w, x)
  BY DEF StoresInv, Place
<1>3. ~stale => Fresh(x, Jsons)
  BY DEF StoresInv, FreshInv, Fresh, FreshFirst, FreshPair, FreshView
<1>. QED
  BY <1>1, <1>2, <1>3, StoresGoOn

LEMMA ExtractKeeps ==
  ASSUME StoresInv, NEW w \in Workers, NEW cands, Extract(w, cands)
  PROVE  StoresInv'
<1> DEFINE x == [worker[w] EXCEPT !.pc = IF cands = {} THEN "mark" ELSE "route", !.cands = cands]
<1>1. worker' = [worker EXCEPT ![w] = x]
  BY DEF Extract
<1>2. DOMAIN worker[w] = DOMAIN Idle
  BY DEF StoresInv, StoreShape
<1>3. /\ DOMAIN x = DOMAIN Idle /\ x.pc \in {"mark", "route"} /\ x.todo = worker[w].todo /\ x.next = worker[w].next
      /\ x.mem = worker[w].mem /\ x.first = worker[w].first /\ x.new = worker[w].new
      /\ x.firstNew = worker[w].firstNew
  BY <1>2 DEF Idle
<1> HIDE DEF x
<1>. QED
  BY <1>1, <1>3, MovesOn DEF Extract

LEMMA ExtractFailsKeeps == ASSUME StoresInv, NEW w \in Workers, ExtractFails(w) PROVE StoresInv'
  BY StoresGoOn, IdleIsFine DEF ExtractFails, End

\* The initialization of the stores writes nothing new to files that agree.
LEMMA InitializeWrites ==
  ASSUME StoresInv, Initialize
  PROVE  /\ DOMAIN disk' = Stores /\ \A t \in Stores : DOMAIN disk'[t] = {"json", "md"}
         /\ DOMAIN Jsons' = Stores
         /\ ~stale => /\ \A t \in Stores : disk'[t].json = disk[t].json /\ disk'[t].md = disk'[t].json
                      /\ Jsons' = Jsons
<1>1. \A t \in Stores : /\ disk'[t] = Initialized(disk[t])
                        /\ lock[t] = "free"
  BY DEF Initialize
<1>2. \A d : /\ DOMAIN Initialized(d) = {"json", "md"}
             /\ Initialized(d).md = Initialized(d).json
             /\ d.md = d.json => Initialized(d).json = d.json
  BY DEF Initialized
<1>3. ASSUME ~stale, NEW t \in Stores
      PROVE  disk'[t].json = disk[t].json /\ disk'[t].md = disk'[t].json
  <2>1. disk[t].md = disk[t].json
    BY <1>1, <1>3 DEF StoresInv, FreshInv, DiskOK
  <2>. QED
    BY <1>1, <1>2, <1>3, <2>1
<1>4. DOMAIN disk' = Stores
  BY DEF Initialize
<1>. QED
  BY <1>1, <1>2, <1>3, <1>4 DEF Jsons

LEMMA LoadKeeps == ASSUME StoresInv, NEW w \in Workers, Load(w) PROVE StoresInv'
<1> DEFINE x == [worker[w] EXCEPT !.pc = "extract", !.first = Jsons', !.firstNew = Stores]
<1>1. worker' = [worker EXCEPT ![w] = x] /\ UNCHANGED <<lock, ideal, stale>> /\ Initialize
  BY DEF Load
<1>2. /\ DOMAIN worker = Workers
      /\ DOMAIN worker[w] = DOMAIN Idle /\ DOMAIN worker[w].mem = Stores
  BY DEF StoresInv, StoreShape
<1>3. /\ DOMAIN x = DOMAIN Idle /\ x.pc = "extract" /\ x.todo = worker[w].todo /\ x.next = worker[w].next
      /\ x.mem = worker[w].mem /\ x.first = Jsons' /\ x.new = worker[w].new
      /\ x.firstNew = Stores
  BY <1>2 DEF Idle
<1> HIDE DEF x
<1>4. worker'[w] = x /\ DOMAIN worker' = Workers /\ \A y \in Workers : y # w => worker'[y] = worker[y]
  BY <1>1, <1>2
<1>5. Quiet(w)
  BY <1>1, <1>2, <1>3, <1>4, InitializeWrites DEF Quiet
<1>6. Place(w, x)
  BY <1>3 DEF StoresInv, Place
<1>7. ~stale' => Fresh(x, Jsons)
  <2>1. ~stale' => \A t \in Stores : Jsons'[t] = Jsons[t]
    BY <1>1, InitializeWrites
  <2>. QED
    BY <1>1, <1>3, <2>1 DEF StoresInv, FreshInv, Fresh, FreshFirst, FreshPair, FreshView
<1>. QED
  BY <1>4, <1>5, <1>6, <1>7, QuietKeeps

LEMMA RouteKeeps == ASSUME StoresInv, NEW w \in Workers, Route(w) PROVE StoresInv'
<1> DEFINE x == [worker[w] EXCEPT !.pc = "arbitrate", !.mem = Jsons', !.new = Stores]
<1>1. worker' = [worker EXCEPT ![w] = x] /\ UNCHANGED <<lock, ideal, stale>> /\ Initialize
  BY DEF Route
<1>2. /\ DOMAIN worker = Workers
      /\ DOMAIN worker[w] = DOMAIN Idle /\ DOMAIN worker[w].first = Stores
  BY DEF StoresInv, StoreShape
<1>3. /\ DOMAIN x = DOMAIN Idle /\ x.pc = "arbitrate" /\ x.todo = worker[w].todo /\ x.next = worker[w].next
      /\ x.mem = Jsons' /\ x.first = worker[w].first /\ x.new = Stores
      /\ x.firstNew = worker[w].firstNew
  BY <1>2 DEF Idle
<1> HIDE DEF x
<1>4. worker'[w] = x /\ DOMAIN worker' = Workers /\ \A y \in Workers : y # w => worker'[y] = worker[y]
  BY <1>1, <1>2
<1>5. Quiet(w)
  BY <1>1, <1>2, <1>3, <1>4, InitializeWrites DEF Quiet
<1>6. Place(w, x)
  BY <1>3 DEF StoresInv, Place
<1>7. ~stale' => Fresh(x, Jsons)
  <2>1. ~stale' => \A t \in Stores : Jsons'[t] = Jsons[t]
    BY <1>1, InitializeWrites
  <2>. QED
    BY <1>1, <1>3, <2>1 DEF StoresInv, FreshInv, Fresh, FreshFirst, FreshPair, FreshView
<1>. QED
  BY <1>4, <1>5, <1>6, <1>7, QuietKeeps

LEMMA ArbitrateKeeps ==
  ASSUME StoresInv, NEW w \in Workers, NEW plus, NEW minus, Arbitrate(w, plus, minus)
  PROVE  StoresInv'
<1> DEFINE dirty == {TargetOf(f) : f \in worker[w].cands}
           mem == [t \in Stores |-> Decided(worker[w].mem[t], t, plus, minus)]
           next == IF worker[w].job = "fact" THEN "idle" ELSE "mark"
           x == [worker[w] EXCEPT
                  !.pc = "commit", !.todo = Targets, !.plus = plus, !.minus = minus,
                  !.mem = mem, !.dirty = dirty, !.next = next]
<1>1. worker' = [worker EXCEPT ![w] = x] /\ UNCHANGED <<disk, lock, ideal, stale>>
  BY Zenon DEF Arbitrate
<1>2. /\ DOMAIN worker[w] = DOMAIN Idle /\ DOMAIN worker[w].first = Stores
      /\ worker[w].pc = "arbitrate"
  BY Zenon DEF StoresInv, StoreShape, Arbitrate
<1>3. DOMAIN mem = Stores /\ next \in {"idle", "mark"}
  OBVIOUS
<1>4. ASSUME ~stale, NEW t \in Stores, t \in worker[w].new
      PROVE  /\ mem[t] = Decided(Jsons[t], t, plus, minus)
             /\ t \notin dirty => mem[t] = Jsons[t]
  <2>1. worker[w].mem[t] = Jsons[t] /\ \A f \in Jsons[t] : TargetOf(f) = t
    BY <1>2, <1>4 DEF StoresInv, FreshInv, Fresh, FreshPair, DiskOK, Jsons
  <2>2. ASSUME t \notin dirty PROVE Decided(Jsons[t], t, plus, minus) = Jsons[t]
    <3>1. \A f \in plus : TargetOf(f) # t
      BY <2>2, Zenon DEF Arbitrate
    <3>2. \A c \in minus : \E f \in worker[w].cands : TargetOf(f) = TargetOf(c)
      BY Zenon DEF Arbitrate
    <3>3. \A c \in minus : TargetOf(c) # t
      BY <2>2, <3>2
    <3>. QED
      BY <2>1, <3>1, <3>3 DEF Decided
  <2>. QED
    BY <2>1, <2>2
<1> HIDE DEF mem, dirty, next
<1>5. /\ DOMAIN x = DOMAIN Idle /\ x.pc = "commit" /\ x.todo = Targets /\ x.next = next
      /\ x.plus = plus /\ x.minus = minus /\ x.dirty = dirty
      /\ x.mem = mem /\ x.first = worker[w].first /\ x.new = worker[w].new
      /\ x.firstNew = worker[w].firstNew
  BY <1>2 DEF Idle
<1> HIDE DEF x
<1>6. Targets \in Todos /\ Targets # <<>>
  BY DEF Targets, Todos
<1>7. Place(w, x)
  BY <1>3, <1>5, <1>6 DEF Place
<1>8. ~stale => Fresh(x, Jsons)
  BY <1>4, <1>5 DEF StoresInv, FreshInv, Fresh, FreshFirst, FreshPair, FreshView
<1>. QED
  BY <1>1, <1>2, <1>3, <1>5, <1>7, <1>8, StoresGoOn

LEMMA SectionTooLongKeeps == ASSUME StoresInv, NEW w \in Workers, SectionTooLong(w) PROVE StoresInv'
<1>1. CASE End(w)
  BY <1>1, StoresGoOn, IdleIsFine DEF SectionTooLong, End
<1>2. CASE To(w, "mark")
  <2> DEFINE x == [worker[w] EXCEPT !.pc = "mark"]
  <2>1. worker' = [worker EXCEPT ![w] = x]
    BY <1>2 DEF To
  <2>2. DOMAIN worker[w] = DOMAIN Idle
    BY DEF StoresInv, StoreShape
  <2>3. /\ DOMAIN x = DOMAIN Idle /\ x.pc = "mark" /\ x.todo = worker[w].todo
        /\ x.next = worker[w].next /\ x.mem = worker[w].mem /\ x.first = worker[w].first
        /\ x.new = worker[w].new /\ x.firstNew = worker[w].firstNew
    BY <2>2 DEF Idle
  <2> HIDE DEF x
  <2>. QED
    BY <2>1, <2>3, MovesOn DEF SectionTooLong
<1>. QED
  BY <1>1, <1>2 DEF SectionTooLong

\* The objects of a thread x that has committed the store t: gone, or what they were.
After(x, w, t) ==
  /\ x.firstNew = {} \/ (x.firstNew = worker[w].firstNew /\ x.first = worker[w].first)
  /\ \/ x.new = {}
     \/ /\ x.new = worker[w].new /\ x.mem = worker[w].mem
        /\ x.pc = "commit" /\ x.next = worker[w].next /\ worker[w].next # "compact"
        /\ x.plus = worker[w].plus /\ x.minus = worker[w].minus
        /\ x.dirty = worker[w].dirty \ {t}

\* What a thread is when it has committed a store.
LEMMA CommittedShape ==
  ASSUME StoresInv, NEW w \in Workers, worker[w].pc \in {"commit", "view"},
         NEW t, t = Head(worker[w].todo), NEW x, x = Committed(w, t)
  PROVE  /\ DOMAIN x = DOMAIN Idle /\ DOMAIN x.mem = Stores /\ DOMAIN x.first = Stores
         /\ x.pc \notin {"view", "arbitrate"} /\ Place(w, x)
         /\ After(x, w, t)
<1> DEFINE more == Tail(worker[w].todo)
<1>1. /\ DOMAIN worker[w] = DOMAIN Idle
      /\ DOMAIN worker[w].mem = Stores /\ DOMAIN worker[w].first = Stores
      /\ worker[w].next \in {"none", "idle", "mark", "compact"}
      /\ more \in Todos
  BY TodoFacts DEF StoresInv, StoreShape, Place
<1> HIDE DEF more
<1>2. CASE more # <<>> /\ worker[w].next # "compact"
  <2>1. x = [worker[w] EXCEPT !.todo = more, !.pc = "commit", !.dirty = @ \ {t}]
    BY <1>2 DEF Committed, more
  <2>2. /\ DOMAIN x = DOMAIN Idle /\ x.pc = "commit" /\ x.todo = more
        /\ x.next = worker[w].next /\ x.mem = worker[w].mem /\ x.first = worker[w].first
        /\ x.new = worker[w].new /\ x.firstNew = worker[w].firstNew
        /\ x.plus = worker[w].plus /\ x.minus = worker[w].minus /\ x.dirty = worker[w].dirty \ {t}
    BY <1>1, <2>1 DEF Idle
  <2>. QED
    BY <1>1, <1>2, <2>2 DEF Place, After
<1>3. CASE ~(more # <<>> /\ worker[w].next # "compact") /\ worker[w].next = "idle"
  BY <1>3, IdleIsFine DEF Committed, more, After
<1>4. CASE ~(more # <<>> /\ worker[w].next # "compact") /\ worker[w].next # "idle"
  <2>1. x = [worker[w] EXCEPT !.todo = more, !.pc = worker[w].next, !.dirty = {},
                              !.mem = Nothing, !.new = {}, !.plus = {}, !.minus = {}]
    BY <1>4 DEF Committed, more
  <2>2. /\ DOMAIN x = DOMAIN Idle /\ x.pc = worker[w].next /\ x.todo = more
        /\ x.next = worker[w].next /\ x.mem = Nothing /\ x.first = worker[w].first
        /\ x.new = {} /\ x.firstNew = worker[w].firstNew
    BY <1>1, <2>1 DEF Idle
  <2>3. DOMAIN Nothing = Stores
    BY DEF Nothing
  <2>. QED
    BY <1>1, <1>4, <2>2, <2>3 DEF Place, After
<1>. QED
  BY <1>2, <1>3, <1>4

\* Its objects are in order if the store now holds what it knows of it.
LEMMA CommittedIsFine ==
  ASSUME StoresInv, NEW w \in Workers, worker[w].pc \in {"commit", "view"},
         NEW t, t = Head(worker[w].todo), NEW J,
         FreshFirst(worker[w], J), FreshPair(worker[w], J),
         t \in worker[w].new => worker[w].mem[t] = J[t],
         NEW x, x = Committed(w, t)
  PROVE  Fresh(x, J)
<1>1. x.pc \notin {"view", "arbitrate"} /\ After(x, w, t)
  BY CommittedShape
<1>2. FreshFirst(x, J)
  BY <1>1 DEF After, FreshFirst
<1>3. FreshPair(x, J)
  BY <1>1 DEF After, FreshPair
<1>. QED
  BY <1>1, <1>2, <1>3 DEF Fresh, FreshView

\* The commit of a store without changes writes its view only if it is of an object out of date.
LEMMA CommitCleanKeeps == ASSUME StoresInv, NEW w \in Workers, CommitClean(w) PROVE StoresInv'
<1> DEFINE t == Head(worker[w].todo)
           x == Committed(w, t)
<1>1. /\ worker[w].pc = "commit" /\ t \notin worker[w].dirty /\ lock[t] = "free"
      /\ disk' = IF disk[t].md = worker[w].mem[t] THEN disk
                 ELSE [disk EXCEPT ![t].md = worker[w].mem[t]]
      /\ stale' = (stale \/ (t \notin worker[w].new /\ disk' # disk))
      /\ worker' = [worker EXCEPT ![w] = x] /\ UNCHANGED <<lock, ideal>>
  BY DEF CommitClean
<1>2. /\ DOMAIN worker = Workers /\ DOMAIN disk = Stores /\ t \in Stores
      /\ \A u \in Stores : DOMAIN disk[u] = {"json", "md"}
  BY <1>1, TodoFacts DEF StoresInv, StoreShape, Place
<1>3. ASSUME ~stale
      PROVE  /\ FreshFirst(worker[w], Jsons) /\ FreshPair(worker[w], Jsons)
             /\ t \in worker[w].new => worker[w].mem[t] = Jsons[t]
             /\ disk[t].md = Jsons[t]
             /\ \A u \in Stores : lock[u] = "free" => disk[u].md = disk[u].json
  BY <1>1, <1>2, <1>3 DEF StoresInv, FreshInv, Fresh, FreshPair, DiskOK, Jsons
<1> HIDE DEF t
<1>4. disk' = disk \/ disk' = [disk EXCEPT ![t].md = worker[w].mem[t]]
  BY <1>1
<1>5. ASSUME ~stale' PROVE disk' = disk
  BY <1>1, <1>3, <1>5
<1>6. DOMAIN disk' = Stores /\ \A u \in Stores : DOMAIN disk'[u] = {"json", "md"}
  BY <1>2, <1>4
<1>7. /\ DOMAIN x = DOMAIN Idle /\ DOMAIN x.mem = Stores /\ DOMAIN x.first = Stores
      /\ Place(w, x) /\ (~stale => Fresh(x, Jsons))
  <2> HIDE DEF x
  <2>1. ASSUME ~stale
        PROVE  Fresh(x, Jsons)
    BY <1>1, <1>3, <2>1, CommittedIsFine DEF t, x
  <2>2. /\ DOMAIN x = DOMAIN Idle /\ DOMAIN x.mem = Stores /\ DOMAIN x.first = Stores
        /\ Place(w, x)
    BY <1>1, CommittedShape DEF t, x
  <2>. QED
    BY <2>1, <2>2
<1> HIDE DEF x
<1>8. worker'[w] = x /\ DOMAIN worker' = Workers /\ \A y \in Workers : y # w => worker'[y] = worker[y]
  BY <1>1, <1>2
<1>9. Quiet(w)
  BY <1>1, <1>3, <1>5, <1>6, <1>7, <1>8 DEF Quiet
<1>. QED
  BY <1>1, <1>7, <1>8, <1>9, QuietKeeps

\* The view is written under the lock, from what the store has become.
LEMMA ViewKeeps ==
  ASSUME StoresInv, NEW w \in Workers, NEW tooLong \in BOOLEAN, View(w, tooLong)
  PROVE  StoresInv'
<1> DEFINE t == Head(worker[w].todo)
           x == IF tooLong THEN Idle ELSE Committed(w, t)
<1>1. /\ worker[w].pc = "view" /\ lock' = [lock EXCEPT ![t] = "free"]
      /\ disk' = [disk EXCEPT ![t].md = worker[w].mem[t]]
      /\ worker' = [worker EXCEPT ![w] = x] /\ UNCHANGED <<ideal, stale>>
  BY DEF View, End
<1>2. /\ DOMAIN worker = Workers /\ DOMAIN disk = Stores /\ DOMAIN lock = Stores /\ t \in Stores
      /\ \A u \in Stores : DOMAIN disk[u] = {"json", "md"}
      /\ lock[t] = w
  BY <1>1, TodoFacts DEF StoresInv, StoreShape, Place
<1>3. ASSUME ~stale
      PROVE  /\ FreshFirst(worker[w], Jsons) /\ FreshPair(worker[w], Jsons)
             /\ worker[w].mem[t] = Jsons[t]
             /\ \A u \in Stores : DiskOK(u)
  BY <1>1, <1>3 DEF StoresInv, FreshInv, Fresh, FreshView
<1>4. /\ DOMAIN x = DOMAIN Idle /\ DOMAIN x.mem = Stores /\ DOMAIN x.first = Stores
      /\ x.pc # "view" /\ Place(w, x)
  <2>1. CASE tooLong
    BY <2>1, IdleIsFine
  <2>2. CASE ~tooLong
    BY <1>1, <2>2, CommittedShape
  <2>. QED
    BY <2>1, <2>2
<1>5. ASSUME ~stale PROVE Fresh(x, Jsons)
  <2>1. CASE tooLong
    BY <2>1, IdleIsFine
  <2>2. CASE ~tooLong
    BY <1>1, <1>3, <1>5, <2>2, CommittedIsFine
  <2>. QED
    BY <2>1, <2>2
<1>6. \A y \in Workers : y # w => Place(y, worker[y]) /\ (worker[y].pc = "view" => Head(worker[y].todo) # t)
  BY <1>2 DEF StoresInv, Place
<1> HIDE DEF t, x
<1>7. /\ worker'[w] = x /\ DOMAIN worker' = Workers
      /\ \A y \in Workers : y # w => worker'[y] = worker[y]
      /\ DOMAIN disk' = Stores /\ DOMAIN lock' = Stores
      /\ \A u \in Stores : DOMAIN disk'[u] = {"json", "md"}
      /\ \A u \in Stores : disk'[u].json = disk[u].json
      /\ \A u \in Stores : u # t => disk'[u] = disk[u] /\ lock'[u] = lock[u]
      /\ disk'[t].md = worker[w].mem[t]
  BY <1>1, <1>2
<1>8. StoreShape'
  BY <1>1, <1>4, <1>7 DEF StoresInv, StoreShape
<1>9. \A y \in Workers : Place(y, worker[y])'
  <2>1. Place(w, worker[w])'
    BY <1>4, <1>7 DEF Place
  <2>2. ASSUME NEW y \in Workers, y # w PROVE Place(y, worker[y])'
    <3>1. worker'[y] = worker[y] /\ Place(y, worker[y])
      BY <1>6, <1>7, <2>2
    <3>2. worker[y].pc = "view" => lock'[Head(worker[y].todo)] = lock[Head(worker[y].todo)]
      <4>1. worker[y].pc = "view" => Head(worker[y].todo) \in Stores
        BY <3>1, TodoFacts DEF Place
      <4>. QED
        BY <1>6, <1>7, <2>2, <4>1
    <3>. QED
      BY <3>1, <3>2 DEF Place
  <2>. QED
    BY <2>1, <2>2
<1>10. ASSUME ~stale' PROVE \A u \in Stores : DiskOK(u)'
  BY <1>1, <1>3, <1>7, <1>10 DEF DiskOK, Jsons
<1>11. ASSUME ~stale' PROVE \A y \in Workers : Fresh(worker[y], Jsons)'
  <2>1. Jsons' = Jsons
    BY <1>7 DEF Jsons
  <2>2. \A y \in Workers : Fresh(worker'[y], Jsons)
    BY <1>1, <1>5, <1>7, <1>11 DEF StoresInv, FreshInv
  <2>. QED
    BY <2>1, <2>2 DEF Fresh, FreshFirst, FreshPair, FreshView
<1>. QED
  BY <1>8, <1>9, <1>10, <1>11 DEF StoresInv, FreshInv

LEMMA DecidedTwice ==
  ASSUME NEW S, NEW t, NEW plus, NEW minus
  PROVE  /\ Decided(Decided(S, t, plus, minus), t, plus, minus) = Decided(S, t, plus, minus)
         /\ (\A f \in S : TargetOf(f) = t) => \A f \in Decided(S, t, plus, minus) : TargetOf(f) = t
  BY DEF Decided

\* A store becomes what its object holds; every other object for it is out of date.
LEMMA PersistKeeps ==
  ASSUME "free" \notin Workers, StoresInv, NEW w \in Workers, Persist(w)
  PROVE  StoresInv'
<1> DEFINE t == Head(worker[w].todo)
           x == [worker[w] EXCEPT !.pc = "view", !.firstNew = @ \ {t}]
           y(z) == [worker[z] EXCEPT !.new = @ \ {t}, !.firstNew = @ \ {t}]
<1>1. /\ worker[w].pc = "commit" /\ t \in worker[w].dirty /\ lock[t] = "free"
      /\ lock' = [lock EXCEPT ![t] = w]
      /\ disk' = [disk EXCEPT ![t].json = worker[w].mem[t]]
      /\ stale' = (stale \/ t \notin worker[w].new)
      /\ ideal' = [ideal EXCEPT ![t] = Decided(@, t, worker[w].plus, worker[w].minus)]
  BY DEF Persist
<1>2. worker' = [z \in Workers |-> IF z = w THEN x ELSE y(z)]
  BY Zenon DEF Persist, Outdated
<1>3. /\ DOMAIN disk = Stores /\ DOMAIN lock = Stores /\ t \in Stores
      /\ \A u \in Stores : DOMAIN disk[u] = {"json", "md"}
      /\ \A z \in Workers : DOMAIN worker[z] = DOMAIN Idle
  BY <1>1, TodoFacts DEF StoresInv, StoreShape, Place
<1>4. \A z \in Workers : Place(z, worker[z]) /\ (worker[z].pc = "view" => Head(worker[z].todo) # t)
  BY <1>1 DEF StoresInv, Place
<1> HIDE DEF t
<1>5. /\ DOMAIN x = DOMAIN Idle /\ x.pc = "view" /\ x.todo = worker[w].todo
      /\ x.next = worker[w].next /\ x.mem = worker[w].mem /\ x.first = worker[w].first
      /\ x.new = worker[w].new /\ x.firstNew = worker[w].firstNew \ {t}
      /\ x.plus = worker[w].plus /\ x.minus = worker[w].minus /\ x.dirty = worker[w].dirty
  BY <1>3 DEF Idle
<1>6. ASSUME NEW z \in Workers
      PROVE  /\ DOMAIN y(z) = DOMAIN Idle /\ y(z).pc = worker[z].pc /\ y(z).todo = worker[z].todo
             /\ y(z).next = worker[z].next /\ y(z).mem = worker[z].mem /\ y(z).first = worker[z].first
             /\ y(z).new = worker[z].new \ {t} /\ y(z).firstNew = worker[z].firstNew \ {t}
             /\ y(z).plus = worker[z].plus /\ y(z).minus = worker[z].minus
             /\ y(z).dirty = worker[z].dirty
  BY <1>3 DEF Idle
<1> HIDE DEF x, y
<1>7. /\ worker'[w] = x /\ DOMAIN worker' = Workers
      /\ \A z \in Workers : z # w => worker'[z] = y(z)
  BY <1>2
<1>8. /\ DOMAIN disk' = Stores /\ DOMAIN lock' = Stores
      /\ \A u \in Stores : DOMAIN disk'[u] = {"json", "md"}
      /\ \A u \in Stores : u # t => disk'[u] = disk[u] /\ lock'[u] = lock[u]
      /\ disk'[t].json = worker[w].mem[t] /\ disk'[t].md = disk[t].md
      /\ lock'[t] = w
  BY <1>1, <1>3
<1>9. StoreShape'
  BY <1>1, <1>5, <1>6, <1>7, <1>8 DEF StoresInv, StoreShape
<1>10. \A z \in Workers : Place(z, worker[z])'
  <2>1. Place(w, worker[w])'
    BY <1>1, <1>4, <1>5, <1>7, <1>8 DEF Place, t
  <2>2. ASSUME NEW z \in Workers, z # w PROVE Place(z, worker[z])'
    <3>1. worker[z].pc = "view" => Head(worker[z].todo) \in Stores
      BY <1>4, TodoFacts DEF Place
    <3>2. worker[z].pc = "view" => lock'[Head(worker[z].todo)] = lock[Head(worker[z].todo)]
      BY <1>4, <1>8, <3>1
    <3>. QED
      BY <1>4, <1>6, <1>7, <2>2, <3>2 DEF Place
  <2>. QED
    BY <2>1, <2>2
<1>11. ASSUME ~stale'
       PROVE  (\A u \in Stores : DiskOK(u)') /\ \A z \in Workers : Fresh(worker[z], Jsons)'
  <2>1. ~stale /\ t \in worker[w].new
    BY <1>1, <1>11
  <2>2. /\ \A u \in Stores : DiskOK(u)
        /\ \A z \in Workers : Fresh(worker[z], Jsons)
    BY <2>1 DEF StoresInv, FreshInv
  <2>3. worker[w].mem[t] = Decided(Jsons[t], t, worker[w].plus, worker[w].minus)
    BY <1>1, <1>3, <2>1, <2>2 DEF Fresh, FreshPair, t
  <2>4. Jsons[t] = disk[t].json /\ Jsons'[t] = worker[w].mem[t]
        /\ \A u \in Stores : u # t => Jsons'[u] = Jsons[u]
    BY <1>3, <1>8 DEF Jsons
  <2>5. \A u \in Stores : DiskOK(u)'
    <3>1. ASSUME NEW u \in Stores, u # t PROVE DiskOK(u)'
      BY <1>1, <1>8, <2>2, <3>1 DEF DiskOK
    <3>2. ASSUME NEW u \in Stores, u = t PROVE DiskOK(u)'
      <4>1. lock'[u] # "free"
        BY <1>8, <3>2
      <4>2. ideal'[u] = Decided(ideal[u], u, worker[w].plus, worker[w].minus)
        BY <1>1, <3>2 DEF StoresInv, StoreShape
      <4>3. disk[u].json = ideal[u] /\ \A f \in disk[u].json : TargetOf(f) = u
        BY <2>2 DEF DiskOK
      <4>4. disk'[u].json = Decided(disk[u].json, u, worker[w].plus, worker[w].minus)
        BY <1>8, <2>3, <2>4, <3>2
      <4>5. \A f \in disk'[u].json : TargetOf(f) = u
        BY <4>3, <4>4, DecidedTwice
      <4>. QED
        BY <4>1, <4>2, <4>3, <4>4, <4>5 DEF DiskOK
    <3>. QED
      BY <3>1, <3>2
  <2>6. Fresh(x, Jsons')
    <3>1. FreshFirst(x, Jsons') /\ FreshView(x, Jsons')
      BY <1>5, <2>2, <2>4 DEF Fresh, FreshFirst, FreshView, t
    <3>2. FreshPair(x, Jsons')
      BY <1>1, <1>5, <2>2, <2>3, <2>4, DecidedTwice DEF Fresh, FreshPair
    <3>. QED
      BY <3>1, <3>2 DEF Fresh
  <2>7. ASSUME NEW z \in Workers, z # w PROVE Fresh(y(z), Jsons')
    <3>1. Fresh(worker[z], Jsons)
      BY <2>2
    <3>2. FreshFirst(y(z), Jsons') /\ FreshPair(y(z), Jsons')
      BY <1>6, <2>4, <3>1 DEF Fresh, FreshFirst, FreshPair
    <3>3. FreshView(y(z), Jsons')
      <4>1. y(z).pc = "view" => Head(y(z).todo) \in Stores /\ Head(y(z).todo) # t
        BY <1>4, <1>6, TodoFacts DEF Place
      <4>. QED
        BY <1>6, <2>4, <3>1, <4>1 DEF Fresh, FreshView
    <3>. QED
      BY <3>2, <3>3 DEF Fresh
  <2>. QED
    BY <1>7, <2>5, <2>6, <2>7 DEF Fresh, FreshFirst, FreshPair, FreshView
<1>. QED
  BY <1>9, <1>10, <1>11 DEF StoresInv, FreshInv

LEMMA MarkKeeps == ASSUME StoresInv, NEW w \in Workers, Mark(w) PROVE StoresInv'
<1>1. CASE worker[w].cands = {}
  BY <1>1, StoresGoOn, IdleIsFine DEF Mark, End
<1>2. CASE worker[w].cands # {}
  <2> DEFINE x == [worker[w] EXCEPT !.pc = "compact", !.todo = Targets, !.next = "compact",
                                    !.read = {}, !.cands = {}]
  <2>1. worker' = [worker EXCEPT ![w] = x] /\ UNCHANGED <<disk, lock, ideal, stale>>
    BY <1>2, Zenon DEF Mark
  <2>2. DOMAIN worker[w] = DOMAIN Idle /\ DOMAIN worker[w].mem = Stores /\ DOMAIN worker[w].first = Stores
    BY DEF StoresInv, StoreShape
  <2>3. /\ DOMAIN x = DOMAIN Idle /\ x.pc = "compact" /\ x.todo = Targets /\ x.next = "compact"
        /\ x.mem = worker[w].mem /\ x.first = worker[w].first
        /\ x.new = worker[w].new /\ x.firstNew = worker[w].firstNew
    BY <2>2 DEF Idle
  <2> HIDE DEF x
  <2>4. Place(w, x)
    BY <2>3 DEF Place, Todos
  <2>5. ~stale => Fresh(x, Jsons)
    BY <2>3 DEF StoresInv, FreshInv, Fresh, FreshFirst, FreshPair, FreshView
  <2>. QED
    BY <2>1, <2>2, <2>3, <2>4, <2>5, StoresGoOn
<1>. QED
  BY <1>1, <1>2

\* The compaction of a misc section decides that all of it goes that is not kept.
LEMMA CompactKeeps ==
  ASSUME StoresInv, NEW w \in Workers, NEW kept, Compact(w, kept)
  PROVE  StoresInv'
<1> DEFINE t == Head(worker[w].todo)
           first == worker[w].first
           minus == Misc(first[t]) \ kept
           mem == [first EXCEPT ![t] = (@ \ Unsure) \cup kept]
           x == [worker[w] EXCEPT
                  !.pc = "commit", !.dirty = {t}, !.new = worker[w].firstNew,
                  !.plus = {}, !.minus = minus, !.mem = mem]
<1>1. /\ worker' = [worker EXCEPT ![w] = x] /\ UNCHANGED <<disk, lock, ideal, stale>>
      /\ worker[w].pc = "compact" /\ worker[w].todo # <<>> /\ kept \subseteq Misc(first[t])
  BY Zenon DEF Compact
<1>2. /\ DOMAIN worker[w] = DOMAIN Idle /\ DOMAIN first = Stores /\ t \in Stores
      /\ worker[w].next = "compact" /\ worker[w].todo \in Todos
  BY <1>1, TodoFacts DEF StoresInv, StoreShape, Place
<1>3. DOMAIN mem = Stores /\ mem[t] = Decided(first[t], t, {}, minus)
  <2>1. mem[t] = (first[t] \ Unsure) \cup kept
    BY <1>2
  <2>. QED
    BY <1>1, <1>2, <2>1 DEF Decided, Misc
<1> HIDE DEF t, minus, mem
<1>4. /\ DOMAIN x = DOMAIN Idle /\ x.pc = "commit" /\ x.todo = worker[w].todo
      /\ x.next = worker[w].next /\ x.plus = {} /\ x.minus = minus /\ x.dirty = {t}
      /\ x.mem = mem /\ x.first = first /\ x.new = worker[w].firstNew
      /\ x.firstNew = worker[w].firstNew
  BY <1>2 DEF Idle
<1> HIDE DEF x
<1>5. Place(w, x)
  BY <1>1, <1>2, <1>4 DEF Place, t
<1>6. ASSUME ~stale PROVE Fresh(x, Jsons)
  <2>1. FreshFirst(worker[w], Jsons)
    BY <1>6 DEF StoresInv, FreshInv, Fresh
  <2>2. FreshFirst(x, Jsons)
    BY <1>4, <2>1 DEF FreshFirst
  <2>3. FreshPair(x, Jsons)
    BY <1>2, <1>3, <1>4, <2>1 DEF FreshFirst, FreshPair, t
  <2>. QED
    BY <1>4, <2>2, <2>3 DEF Fresh, FreshView
<1>. QED
  BY <1>1, <1>2, <1>3, <1>4, <1>5, <1>6, StoresGoOn

LEMMA CompactSkipsKeeps == ASSUME StoresInv, NEW w \in Workers, CompactSkips(w) PROVE StoresInv'
<1>1. CASE worker[w].todo = <<>>
  BY <1>1, StoresGoOn, IdleIsFine DEF CompactSkips, End
<1>2. CASE worker[w].todo # <<>>
  <2> DEFINE x == [worker[w] EXCEPT !.todo = Tail(@)]
  <2>1. /\ worker' = [worker EXCEPT ![w] = x] /\ UNCHANGED <<disk, lock, ideal, stale>>
        /\ worker[w].pc = "compact"
    BY <1>2 DEF CompactSkips
  <2>2. /\ DOMAIN worker[w] = DOMAIN Idle /\ DOMAIN worker[w].mem = Stores
        /\ DOMAIN worker[w].first = Stores
        /\ Place(w, worker[w]) /\ Tail(worker[w].todo) \in Todos
    BY <1>2, TodoFacts DEF StoresInv, StoreShape, Place
  <2>3. /\ DOMAIN x = DOMAIN Idle /\ x.pc = worker[w].pc /\ x.todo = Tail(worker[w].todo)
        /\ x.next = worker[w].next /\ x.mem = worker[w].mem /\ x.first = worker[w].first
        /\ x.new = worker[w].new /\ x.firstNew = worker[w].firstNew
    BY <2>2 DEF Idle
  <2> HIDE DEF x
  <2>4. Place(w, x)
    BY <2>1, <2>2, <2>3 DEF Place
  <2>5. ~stale => Fresh(x, Jsons)
    BY <2>1, <2>3 DEF StoresInv, FreshInv, Fresh, FreshFirst, FreshPair, FreshView
  <2>. QED
    BY <2>1, <2>2, <2>3, <2>4, <2>5, StoresGoOn
<1>. QED
  BY <1>1, <1>2

\* A thread that begins has no objects.
LEMMA BeginsFine ==
  ASSUME StoresInv, NEW w \in Workers, NEW x, worker' = [worker EXCEPT ![w] = x],
         UNCHANGED <<disk, lock, ideal, stale>>,
         DOMAIN x = DOMAIN Idle, x.pc \in {"collect", "route"}, x.todo = <<>>, x.next = "none",
         x.mem = Nothing, x.first = Nothing, x.new = {}, x.firstNew = {}
  PROVE  StoresInv'
<1>1. DOMAIN Nothing = Stores
  BY DEF Nothing
<1>2. Place(w, x) /\ Fresh(x, Jsons)
  BY DEF Place, Todos, Fresh, FreshFirst, FreshPair, FreshView
<1>. QED
  BY <1>1, <1>2, StoresGoOn

LEMMA CallToolKeeps == ASSUME StoresInv, NEW w \in Workers, NEW f, CallTool(w, f) PROVE StoresInv'
<1> DEFINE x == [Idle EXCEPT !.job = IF f = {} THEN "notes" ELSE "fact",
                             !.pc = IF f = {} THEN "collect" ELSE "route", !.cands = f]
<1>1. worker' = [worker EXCEPT ![w] = x]
  BY DEF CallTool
<1>2. /\ DOMAIN x = DOMAIN Idle /\ x.pc \in {"collect", "route"} /\ x.todo = <<>> /\ x.next = "none"
      /\ x.mem = Nothing /\ x.first = Nothing /\ x.new = {} /\ x.firstNew = {}
  BY DEF Idle
<1>3. UNCHANGED <<disk, lock, ideal, stale>>
  BY DEF CallTool
<1> HIDE DEF x
<1>. QED
  BY <1>1, <1>2, <1>3, BeginsFine

LEMMA RunStepKeeps ==
  ASSUME StoresInv, NEW r \in Runs, RunSediment(r) \/ RunStep(r)
  PROVE  StoresInv'
<1>1. ASSUME UNCHANGED <<worker, disk, lock, ideal, stale>> PROVE StoresInv'
  BY <1>1 DEF StoresInv, StoreShape, Place, FreshInv, DiskOK, Fresh, FreshFirst, FreshPair, FreshView, Jsons
<1>2. ASSUME NEW w \in Sediments, UNCHANGED <<disk, lock, ideal, stale>>,
             worker' = [worker EXCEPT ![w] = [Idle EXCEPT !.pc = "collect", !.job = "notes"]]
      PROVE  StoresInv'
  <2> DEFINE x == [Idle EXCEPT !.pc = "collect", !.job = "notes"]
  <2>1. /\ DOMAIN x = DOMAIN Idle /\ x.pc \in {"collect", "route"} /\ x.todo = <<>> /\ x.next = "none"
        /\ x.mem = Nothing /\ x.first = Nothing /\ x.new = {} /\ x.firstNew = {}
    BY DEF Idle
  <2>2. w \in Workers
    BY DEF Workers
  <2>. QED
    BY <1>2, <2>1, <2>2, BeginsFine
<1>3. CASE WouldRun(r)
  BY <1>1, <1>2, <1>3 DEF WouldRun
<1>4. CASE RunSediment(r) \/ Acquire(r) \/ RunEnds(r) \/ RunTimesOut(r)
  BY <1>1, <1>4 DEF RunSediment, Acquire, RunEnds, RunTimesOut
<1>. QED
  BY <1>3, <1>4 DEF RunStep

\* A restart that brings nothing back from a view leaves files that agree.
LEMMA RestartKeeps == ASSUME StoresInv, Restart PROVE StoresInv'
<1>1. /\ disk' = [t \in Stores |-> Initialized(disk[t])] /\ lock' = [t \in Stores |-> "free"]
      /\ worker' = [w \in Workers |-> Idle] /\ ideal' = ideal
      /\ stale' = (stale \/ \E t \in Stores : Initialized(disk[t]).json # disk[t].json)
  BY DEF Restart
<1>2. \A d : DOMAIN Initialized(d) = {"json", "md"} /\ Initialized(d).md = Initialized(d).json
  BY DEF Initialized
<1>3. StoreShape'
  BY <1>1, <1>2, IdleIsFine DEF StoresInv, StoreShape
<1>4. \A w \in Workers : Place(w, worker[w])'
  BY <1>1, IdleIsFine DEF Place
<1>5. ASSUME ~stale' PROVE (\A t \in Stores : DiskOK(t)') /\ \A w \in Workers : Fresh(worker[w], Jsons)'
  <2>1. ASSUME NEW t \in Stores PROVE DiskOK(t)'
    BY <1>1, <1>2, <1>5 DEF StoresInv, FreshInv, DiskOK
  <2>2. \A w \in Workers : Fresh(worker'[w], Jsons')
    BY <1>1, IdleIsFine
  <2>. QED
    BY <2>1, <2>2 DEF Fresh, FreshFirst, FreshPair, FreshView
<1>. QED
  BY <1>3, <1>4, <1>5 DEF StoresInv, FreshInv

LEMMA StepStores ==
  ASSUME "free" \notin Workers, StoresInv, [SedimentNext]_svars
  PROVE  StoresInv'
<1>1. CASE UNCHANGED svars \/ NextDay \/ \E f \in budget.facts : AppendNote(f)
  <2>1. UNCHANGED <<worker, disk, lock, ideal, stale>>
    BY <1>1 DEF svars, NextDay, AppendNote
  <2>. QED
    BY <2>1 DEF StoresInv, StoreShape, Place, FreshInv, DiskOK, Fresh, FreshFirst, FreshPair, FreshView, Jsons
<1>2. ASSUME NEW w \in Tools, NEW f, CallTool(w, f) PROVE StoresInv'
  BY <1>2, CallToolKeeps DEF Workers
<1>3. ASSUME NEW w \in Workers, WorkerStep(w) PROVE StoresInv'
  BY <1>3, CollectKeeps, LoadKeeps, ExtractFailsKeeps, RouteKeeps, ExtractKeeps, ArbitrateKeeps,
     SectionTooLongKeeps, CommitCleanKeeps, PersistKeeps, MarkKeeps, ViewKeeps, CompactKeeps,
     CompactSkipsKeeps DEF WorkerStep
<1>4. ASSUME NEW r \in Runs, RunSediment(r) \/ RunStep(r) PROVE StoresInv'
  BY <1>4, RunStepKeeps
<1>5. CASE Restart
  BY <1>5, RestartKeeps
<1>. QED
  BY <1>1, <1>2, <1>3, <1>4, <1>5 DEF SedimentNext

\* As long as nothing is written from an object that is out of date, each store is what the
\* decisions committed to it make of it, and JSON and view say the same whenever nobody is between
\* them: over any number of threads, tool calls, runs, time-outs and restarts (context/memory/,
\* context/sediment.py).
THEOREM StoresStayTogether ==
  ASSUME "free" \notin Workers
  PROVE  SedimentSpec => []StoresAgree
<1>1. SedimentInit => StoresInv
  <2> SUFFICES ASSUME SedimentInit PROVE StoresInv
    OBVIOUS
  <2>1. StoreShape
    BY IdleIsFine DEF SedimentInit, StoreShape, Nothing
  <2>2. \A w \in Workers : Place(w, worker[w]) /\ Fresh(worker[w], Jsons)
    BY IdleIsFine DEF SedimentInit
  <2>3. \A t \in Stores : DiskOK(t)
    BY DEF SedimentInit, DiskOK, Nothing
  <2>. QED
    BY <2>1, <2>2, <2>3 DEF StoresInv, FreshInv
<1>2. StoresInv /\ [SedimentNext]_svars => StoresInv'
  BY StepStores
<1>3. StoresInv => StoresAgree
  BY DEF StoresInv, FreshInv, DiskOK, StoresAgree
<1>. QED
  BY <1>1, <1>2, <1>3, PTL DEF SedimentSpec

=============================================================================
